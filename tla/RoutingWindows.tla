--------------------------- MODULE RoutingWindows ---------------------------
(***************************************************************************)
(* GroupRouting with a history of what was true of the tables while each   *)
(* evaluation ran. An evaluation sees no consistent snapshot, so what it   *)
(* promises is stated over its whole window: between its request and its   *)
(* answer.                                                                 *)
(***************************************************************************)
EXTENDS GroupRouting

VARIABLE window     \* window[e]: what held during the evaluation in slot e

wvars == <<group, members, backend, eval, changes, window>>

(* The mapped pairs of group and backend, all of them or the active ones.  *)
Mapped == {gb \in Groups \X BackendIds : gb[2] \in members[gb[1]]}
Serving == {gb \in Mapped : backend[gb[2]].isActive}

(* seen, mapped: at some moment; live, on: at every moment.                *)
Now == [seen |-> Active(BackendIds), mapped |-> Mapped,
        live |-> Serving, on |-> {g \in Groups : Enabled(g)}]

Extend(w, now) ==
    [seen |-> w.seen \cup now.seen, mapped |-> w.mapped \cup now.mapped,
     live |-> w.live \cap now.live, on |-> w.on \cap now.on]

NoWindow == [seen |-> {}, mapped |-> {}, live |-> {}, on |-> {}]

WInit == Init /\ window = [e \in Evals |-> NoWindow]

WNext ==
    /\ Next
    /\ window' = [e \in Evals |->
                    IF eval'[e].phase = "done" THEN NoWindow
                    ELSE IF eval[e].phase = "done" THEN Now'
                    ELSE Extend(window[e], Now')]

WSpec == WInit /\ [][WNext]_wvars

-----------------------------------------------------------------------------
(* e's step is the one that answers its request.                           *)
Answers(e) == eval[e].phase # "done" /\ eval'[e].phase = "done"

(* One of these groups kept an active member all along.                    *)
AlwaysServed(e, gs) == \E gb \in window[e].live : gb[1] \in gs

(* An answered backend was mapped to the answered group, and was enabled   *)
(* and healthy, at moments of the evaluation; the group is one the caller  *)
(* asked for or the default (core.go EvaluateBackendForGroups steps 2-4).  *)
AnswerWasServing ==
    [][\A e \in Evals :
          LET r == eval'[e] IN
          Answers(e) /\ r.reply = "ok" =>
            /\ r.group \in eval[e].want \cup {Default}
            /\ r.backend # NoBackend =>
                 /\ r.backend \in window[e].seen
                 /\ <<r.group, r.backend>> \in window[e].mapped]_wvars

(* A requested group that stays enabled and keeps an active member all     *)
(* along is never given up for the default group; and only a failing       *)
(* statement can then make the evaluation fail.                            *)
NoNeedlessFallback ==
    [][\A e \in Evals :
          LET r == eval'[e] IN
          Answers(e) /\ AlwaysServed(e, eval[e].want \cap window[e].on) =>
            /\ r.reply = "ok" => r.group \in eval[e].want
            /\ r.reply # "error"]_wvars

(* A default group with an active member all along catches everything, be  *)
(* it enabled or not: no evaluation fails but for a failing statement.     *)
DefaultCatchesAll ==
    [][\A e \in Evals :
          Answers(e) /\ AlwaysServed(e, {Default}) =>
            eval'[e].reply # "error"]_wvars

(* An answer without a backend comes only of asking for several groups of  *)
(* which the first has nothing active and another has.                     *)
EmptyOnlyForSeveral ==
    [][\A e \in Evals :
          Answers(e) /\ eval'[e].reply = "ok" /\ eval'[e].backend = NoBackend =>
            \E gb \in window[e].mapped :
                /\ gb[1] \in eval[e].want \ {eval'[e].group}
                /\ gb[2] \in window[e].seen]_wvars
=============================================================================
