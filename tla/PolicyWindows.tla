---------------------------- MODULE PolicyWindows ----------------------------
(***************************************************************************)
(* PolicyEvaluation with a history of what each rule type said while an    *)
(* evaluation ran, from its request to its answer.                         *)
(***************************************************************************)
EXTENDS PolicyEvaluation

VARIABLE window     \* window[e]: per rule type, what was said meanwhile

wvars == <<policy, eval, changes, window>>

(* What a rule type says of a request now, and over a stretch of time:     *)
(* ever, always: the groups it allowed at some, at every moment;           *)
(* spoke, silent: whether some policy matched at every, at no moment.      *)
Says(t, request) ==
    LET gids == Matching(t, request[t]) IN
    [ever |-> Elements(gids), always |-> Elements(gids),
     spoke |-> gids # Nil, silent |-> gids = Nil]

Also(w, now) ==
    [ever |-> w.ever \cup now.ever, always |-> w.always \cap now.always,
     spoke |-> w.spoke /\ now.spoke, silent |-> w.silent /\ now.silent]

Nothing == [t \in Dimensions |->
              [ever |-> {}, always |-> {}, spoke |-> FALSE, silent |-> FALSE]]

WInit == Init /\ window = [e \in Evals |-> Nothing]

WNext ==
    /\ Next
    /\ window' = [e \in Evals |->
                    IF eval'[e].phase = "done" THEN Nothing
                    ELSE [t \in Dimensions |->
                            LET now == Says(t, eval[e].request)' IN
                            IF eval[e].phase = "done" THEN now
                            ELSE Also(window[e][t], now)]]

WSpec == WInit /\ [][WNext]_wvars

-----------------------------------------------------------------------------
(* e's step is the one that answers its request with a list of groups.     *)
Answers(e) ==
    eval[e].phase = "read" /\ eval'[e].phase = "done" /\ eval'[e].reply = "ok"

(* No group is answered against a rule type that had a matching policy all *)
(* along and allowed the group at no moment, nor when no rule type had a   *)
(* matching policy at any (core.go:155-222).                               *)
OnlyAllowed ==
    [][\A e \in Evals : Answers(e) =>
          \A g \in eval'[e].groups :
            /\ \A t \in Dimensions : window[e][t].spoke => g \in window[e][t].ever
            /\ \E t \in Dimensions : g \in window[e][t].ever]_wvars

(* A group some rule type allows all along is answered, if every other one *)
(* allows it all along too or matches no policy at any moment: changes of  *)
(* other policies between the four reads do not lose it.                   *)
AllowedAnswered ==
    [][\A e \in Evals : Answers(e) =>
          \A g \in Groups :
            /\ \E t \in Dimensions : g \in window[e][t].always
            /\ \A t \in Dimensions :
                  g \in window[e][t].always \/ window[e][t].silent
            => g \in eval'[e].groups]_wvars

(* An evaluation no change interferes with answers what the rule types     *)
(* allow together (Allowed in PolicySets).                                 *)
QuietIsExact ==
    [][\A e \in Evals :
          /\ Answers(e)
          /\ \A t \in Dimensions : window[e][t].ever = window[e][t].always
                                   /\ window[e][t].spoke # window[e][t].silent
          => eval'[e].groups = Elements(Allowed([i \in DOMAIN RuleTypes |->
                Matching(RuleTypes[i], eval[e].request[RuleTypes[i]])]))]_wvars
=============================================================================
