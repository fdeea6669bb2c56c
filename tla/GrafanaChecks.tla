----------------------------- MODULE GrafanaChecks -----------------------------
(***************************************************************************)
(* GrafanaSessions with a history of what happened during each save and    *)
(* each call.                                                              *)
(***************************************************************************)
EXTENDS GrafanaSessions

VARIABLES
    overlapped, \* saves during which another one wrote, or was at it
    seen,       \* {cell} of a login once the cookie in the file was good
    browsers,   \* how many logins a query has opened
    damage      \* a login was killed as it wrote, or two wrote at a time

hvars == <<file, session, call, save, calls, overlapped, seen, browsers,
           damage>>

Good == {c \in CellNames : file.whole /\ Accepted(file.cookies[c], c)}

Saving(p) == save[p].phase \in {"open", "write"}
Writing(p) == save[p].phase = "write"

HInit ==
    /\ Init
    /\ overlapped = {} /\ damage = FALSE
    /\ seen = [p \in Servers |-> {}]
    /\ browsers = [p \in Servers |-> 0]

HNext ==
    /\ Next
    /\ overlapped' =
          {p \in Servers : Saving(p)' /\
              \/ p \in overlapped
              \/ \E q \in Servers \ {p} : Writing(q) \/ Writing(q)'}
    /\ seen' = [p \in Servers |->
                  IF call'[p].tool # "login" \/ Len(call'[p].cells) > 1 THEN {}
                  ELSE (seen[p] \cup Good') \cap {Head(call'[p].cells)}]
    /\ browsers' = [p \in Servers |->
                      IF call'[p].tool # "query" THEN 0
                      ELSE IF /\ save'[p].phase = "browser"
                              /\ save[p].phase = "none"
                           THEN browsers[p] + 1 ELSE browsers[p]]
    /\ damage' = \/ damage
                 \/ \E p \in Servers : Writing(p) /\ save'[p].phase = "none"
                 \/ \E p \in Servers : \E q \in Servers \ {p} :
                        Writing(p)' /\ Writing(q)'

HSpec == HInit /\ [][HNext]_hvars

FairSpec == HSpec /\ Fairness

-----------------------------------------------------------------------------
(* Types of the file, the sessions, the calls and the saves.               *)
GTypeOK ==
    /\ file \in [whole: BOOLEAN, cookies: [CellNames -> Cookies]]
    /\ Len(session) <= MaxSessions
    /\ \A i \in 1..Len(session) :
          session[i] \in [cell: CellNames,
                          state: {"live", "dead"}]
    /\ \A p \in Servers :
          /\ call[p].phase \in {"idle", "check", "ensure", "login", "request",
                                "done"}
          /\ call[p].held \in 0..Len(session)
          /\ save[p].phase \in {"none", "browser", "load", "open", "write",
                                "validate", "ok", "failed"}
          /\ save[p].cookie \in 0..Len(session)
          /\ save[p].phase # "none" => call[p].phase = "login"

(* A save nobody else's overlapped changes the cookie of its cell, leaves  *)
(* those of the other cells alone, and a file that can be read (auth.py    *)
(* save_cookie).                                                           *)
SavesKeepOthers ==
    [][\A p \in Servers :
         Writing(p) /\ save'[p].phase = "validate" /\ p \notin overlapped =>
            /\ file'.whole
            /\ file'.cookies = [file.cookies EXCEPT
                                  ![Head(save[p].cells)] = save[p].cookie]]_hvars

(* A file that is no JSON outlives its writers only if a login was killed  *)
(* as it wrote or two processes wrote at a time: nothing repairs it then,  *)
(* every later save loads it first (auth.py _save_cookies).                *)
DamageExplained ==
    ~file.whole => damage \/ \E p \in Servers : Writing(p)

(* When the login tool says ok for one cell, the file held a good cookie   *)
(* of that cell at some moment of the call, whatever others saved in the   *)
(* meantime (login.py, server.py login).                                   *)
LoginOkTrue ==
    \A p \in Servers :
        call[p].tool = "login" /\ Len(call[p].cells) = 1
        /\ call[p].answer = "ok" =>
            Head(call[p].cells) \in seen[p]

(* A data tool opens at most two browsers, whatever its logins and its     *)
(* requests come to (client.py _ensure_auth, _get).                        *)
FewBrowsers ==
    \A p \in Servers : call[p].tool = "query" => browsers[p] <= 2

(* Every tool call ends, also when nobody ever signs in (server.py login,  *)
(* client.py _auto_login: the timeouts).                                   *)
CallsEnd ==
    \A p \in Servers : call[p].phase # "idle" ~> call[p].phase = "idle"
=============================================================================
