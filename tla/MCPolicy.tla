------------------------------ MODULE MCPolicy ------------------------------
(* Three policies of three rule types over two groups, from any contents of   *)
(* the table; one client, whose value for every rule type is "v".           *)
EXTENDS PolicyWindows, TLC

OneClient == {[t \in Dimensions |-> "v"]}
PolicyValues == {"v", "w"}
MCTypes == {"listening_port", "header_client_tags",
            "header_connection_properties"}

Symmetry == Permutations(Policies) \cup Permutations(Groups)
=============================================================================
