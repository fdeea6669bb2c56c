---------------------------- MODULE GrafanaSessions ----------------------------
(***************************************************************************)
(* The Grafana MCP servers of one user (.agents/skills/grafana-mcp): every *)
(* editor runs one, all of them keep the session cookies of the Grafana    *)
(* cells in one JSON file. A tool call checks the saved cookie, opens a    *)
(* browser login (a child process) when it is not accepted, and sends its  *)
(* request, with one more login after a 401. Saving a cookie loads the     *)
(* file, adds the cookie and writes the file anew, without a lock.         *)
(***************************************************************************)
EXTENDS Naturals, Sequences, FiniteSets

CONSTANTS
    Cells,          \* a sequence: the Grafana cells, in the order of CELL_URLS
    Servers,        \* the MCP server processes
    MaxSessions,    \* bound: sessions Grafana hands out
    MaxCalls        \* bound: tool calls

CellNames == {Cells[i] : i \in 1..Len(Cells)}

ASSUME SessionsAssumption ==
    /\ MaxSessions \in Nat \ {0} /\ MaxCalls \in Nat /\ IsFiniteSet(Servers)
    /\ Cells \in Seq(CellNames) /\ Len(Cells) > 1

NoCookie == 0
Cookies == 0..MaxSessions

VARIABLES
    file,       \* cookies.json: is it whole JSON, and the cookie of each cell
    session,    \* Grafana: the sessions handed out, a cookie being an index
    call,       \* the tool call each server works on
    save,       \* its login process, or its own saving of a pasted cookie
    calls       \* how many calls there have been

vars == <<file, session, call, save, calls>>

NoSave == [phase |-> "none", cells |-> <<>>, cookie |-> NoCookie,
           loaded |-> [c \in CellNames |-> NoCookie], cut |-> FALSE]
NoCall == [tool |-> "none", cells |-> <<>>, phase |-> "idle",
           held |-> NoCookie, retried |-> FALSE, answer |-> "none"]

\* No file yet, or one with a session that is still good for the first cell.
Init ==
    /\ \/ /\ session = <<>>
          /\ file = [whole |-> TRUE, cookies |-> [c \in CellNames |-> NoCookie]]
       \/ /\ session = <<[cell |-> Cells[1], state |-> "live"]>>
          /\ file = [whole |-> TRUE,
                     cookies |-> [c \in CellNames |->
                                    IF c = Cells[1] THEN 1 ELSE NoCookie]]
    /\ call = [p \in Servers |-> NoCall]
    /\ save = [p \in Servers |-> NoSave]
    /\ calls = 0

-----------------------------------------------------------------------------
(* Grafana.                                                                *)

\* What a cookie is worth at a cell: only a live session of that cell passes.
Accepted(cookie, cell) ==
    /\ cookie # NoCookie
    /\ session[cookie] = [cell |-> cell, state |-> "live"]

\* Whether a request with the cookie succeeds; the network may fail it.
Answers(cookie, cell) ==
    {FALSE} \cup {Accepted(cookie, cell)}

Expire(cookie) ==
    /\ session[cookie].state = "live"
    /\ session' = [session EXCEPT ![cookie].state = "dead"]
    /\ UNCHANGED <<file, call, save, calls>>

-----------------------------------------------------------------------------
(* The process that saves cookies: login.py for one cell or for all.       *)

Cell(p) == Head(save[p].cells)

\* The child starts with a browser for its first cell.
Browser(cells) == [NoSave EXCEPT !.phase = "browser", !.cells = cells]

\* A session the user brings about: the cookie of a finished login, or the one
\* the browser holds when the wait for it ended otherwise.
SignIn(p) ==
    /\ save[p].phase = "browser" /\ Len(session) < MaxSessions
    /\ \E state \in {"live", "dead"} :
           session' = Append(session, [cell |-> Cell(p), state |-> state])
    /\ save' = [save EXCEPT ![p].phase = "load",
                            ![p].cookie = Len(session) + 1]
    /\ UNCHANGED <<file, call, calls>>

\* Mutant: the process that finds no cookie ends well.
FinishedOk(p, valid) ==
    save' = [save EXCEPT ![p] =
        IF Len(@.cells) > 1 THEN Browser(Tail(@.cells))
        ELSE [@ EXCEPT !.phase = "ok"]]

\* The result for a cell. With all cells the process goes on to the next, and
\* ends well whatever the results.
Finished(p, valid) ==
    save' = [save EXCEPT ![p] =
        IF Len(@.cells) > 1 THEN Browser(Tail(@.cells))
        ELSE [@ EXCEPT !.phase = IF valid \/ Len(call[p].cells) > 1
                                 THEN "ok" ELSE "failed"]]

\* An exception ends the process, whatever cells are left.
Crash(p) == save' = [save EXCEPT ![p].phase = "failed"]

\* The browser has no session cookie, or there is no browser, or its page
\* cannot be opened or read, which raises.
NoSignIn(p) ==
    /\ save[p].phase = "browser"
    /\ Finished(p, FALSE) \/ Crash(p)
    /\ UNCHANGED <<file, session, call, calls>>

\* Mutant: the new cookie is all that is saved.
LoadNothing(p) ==
    /\ save[p].phase = "load"
    /\ save' = [save EXCEPT ![p].phase = "open"]
    /\ UNCHANGED <<file, session, call, calls>>

\* Mutant: the file is opened for writing before it is loaded.
LoadEmptied(p) ==
    /\ save[p].phase = "load"
    /\ file' = [file EXCEPT !.whole = FALSE]
    /\ Crash(p)
    /\ UNCHANGED <<session, call, calls>>

\* save_cookie: the file is loaded; one that is no JSON raises.
LoadCookies(p) ==
    /\ save[p].phase = "load"
    /\ IF file.whole
       THEN save' = [save EXCEPT ![p].phase = "open",
                                 ![p].loaded = file.cookies]
       ELSE Crash(p)
    /\ UNCHANGED <<file, session, call, calls>>

\* Opening it for writing empties it.
OpenFile(p) ==
    /\ save[p].phase = "open"
    /\ save' = [q \in Servers |-> [save[q] EXCEPT
                  !.phase = IF q = p THEN "write" ELSE @, !.cut = FALSE]]
    /\ file' = [file EXCEPT !.whole = FALSE]
    /\ UNCHANGED <<session, call, calls>>

Saved(cookies) == Cardinality({c \in CellNames : cookies[c] # NoCookie})

\* The text is written from the start of the file: over the one of a process
\* that wrote since, and a longer one shows behind it.
WriteFile(p) ==
    /\ save[p].phase = "write"
    /\ LET cookies == [save[p].loaded EXCEPT ![Cell(p)] = save[p].cookie]
       IN  file' = [whole |-> save[p].cut =>
                                 Saved(cookies) >= Saved(file.cookies),
                    cookies |-> cookies]
    /\ save' = [q \in Servers |->
                  IF q = p THEN [NoSave EXCEPT !.phase = "validate",
                                               !.cells = save[p].cells]
                  ELSE IF save[q].phase = "write"
                       THEN [save[q] EXCEPT !.cut = TRUE] ELSE save[q]]
    /\ UNCHANGED <<session, call, calls>>

\* validate_cookie takes the cookie that is in the file by then.
Validate(p) ==
    /\ save[p].phase = "validate"
    /\ IF ~file.whole THEN Crash(p)
       ELSE \E valid \in Answers(file.cookies[Cell(p)], Cell(p)) :
                Finished(p, valid)
    /\ UNCHANGED <<file, session, call, calls>>

Saver(p) ==
    SignIn(p) \/ NoSignIn(p) \/ LoadCookies(p) \/ OpenFile(p) \/ WriteFile(p)
    \/ Validate(p)

-----------------------------------------------------------------------------
(* The tool calls of a server.                                             *)

\* A data tool for a cell; login for a cell or for all; save_session.
CallTool(p) ==
    /\ call[p].phase = "idle" /\ calls < MaxCalls
    /\ calls' = calls + 1
    /\ \/ \E c \in CellNames :
             /\ call' = [call EXCEPT ![p] = [NoCall EXCEPT !.tool = "query",
                             !.cells = <<c>>, !.phase = "check"]]
             /\ UNCHANGED <<save, session>>
       \/ \E cells \in {Cells} \cup {<<c>> : c \in CellNames} :
             /\ call' = [call EXCEPT ![p] = [NoCall EXCEPT !.tool = "login",
                             !.cells = cells, !.phase = "login"]]
             /\ save' = [save EXCEPT ![p] = Browser(cells)]
             /\ UNCHANGED session
       \/ /\ Len(session) < MaxSessions
          /\ \E c \in CellNames, state \in {"live", "dead"} :
             /\ session' = Append(session, [cell |-> c, state |-> state])
             /\ call' = [call EXCEPT ![p] = [NoCall EXCEPT !.tool = "save",
                             !.cells = <<c>>, !.phase = "login"]]
             /\ save' = [save EXCEPT ![p] = [NoSave EXCEPT !.phase = "load",
                             !.cells = <<c>>, !.cookie = Len(session) + 1]]
    /\ UNCHANGED file

Asked(p) == Head(call[p].cells)

Answer(p, answer) ==
    call' = [call EXCEPT ![p].phase = "done", ![p].answer = answer,
                         ![p].held = NoCookie, ![p].retried = FALSE]

Relogin(p) ==
    /\ call' = [call EXCEPT ![p].phase = "login"]
    /\ save' = [save EXCEPT ![p] = Browser(call[p].cells)]

\* _ensure_auth: the cookie of the file, if there is one.
GetCookie(p) ==
    /\ call[p].phase = "check"
    /\ LET cookie == file.cookies[Asked(p)]
       IN  \/ ~file.whole /\ Answer(p, "error") /\ UNCHANGED save
           \/ file.whole /\ cookie = NoCookie /\ Relogin(p)
           \/ /\ file.whole /\ cookie # NoCookie
              /\ call' = [call EXCEPT ![p].phase = "ensure", ![p].held = cookie]
              /\ UNCHANGED save
    /\ UNCHANGED <<file, session, calls>>

\* It is used if validate_cookie passes, which takes the one then in the file.
EnsureAuth(p) ==
    /\ call[p].phase = "ensure"
    /\ \/ ~file.whole /\ Answer(p, "error") /\ UNCHANGED save
       \/ /\ file.whole
          /\ \E valid \in Answers(file.cookies[Asked(p)], Asked(p)) :
             IF valid
             THEN call' = [call EXCEPT ![p].phase = "request"] /\ UNCHANGED save
             ELSE Relogin(p)
    /\ UNCHANGED <<file, session, calls>>

\* After a login, whatever came of it: the cookie of the file.
Reread(p) ==
    /\ call[p].tool = "query" /\ call[p].phase = "login"
    /\ save[p].phase \in {"ok", "failed"}
    /\ save' = [save EXCEPT ![p] = NoSave]
    /\ LET cookie == file.cookies[Asked(p)]
       IN  IF ~file.whole \/ (cookie = NoCookie /\ ~call[p].retried)
           THEN Answer(p, "error")
           ELSE call' = [call EXCEPT ![p].phase = "request",
                          ![p].held = IF cookie = NoCookie THEN @ ELSE cookie]
    /\ UNCHANGED <<file, session, calls>>

\* Mutant: every 401 is answered by another login.
RequestAgain(p) ==
    /\ call[p].phase = "request"
    /\ \/ /\ Accepted(call[p].held, Asked(p))
          /\ Answer(p, "ok") /\ UNCHANGED save
       \/ ~Accepted(call[p].held, Asked(p)) /\ Relogin(p)
    /\ UNCHANGED <<file, session, calls>>

\* The request. A first 401 brings one more login and one more request.
Request(p) ==
    /\ call[p].phase = "request"
    /\ \/ /\ Accepted(call[p].held, Asked(p))
          /\ Answer(p, "ok") /\ UNCHANGED save
       \/ Answer(p, "error") /\ UNCHANGED save
       \/ /\ ~Accepted(call[p].held, Asked(p)) /\ ~call[p].retried
          /\ call' = [call EXCEPT ![p].phase = "login", ![p].retried = TRUE]
          /\ save' = [save EXCEPT ![p] = Browser(call[p].cells)]
    /\ UNCHANGED <<file, session, calls>>

\* The login tool reports the exit code of its process, save_session what its
\* validation said ("error" stands for all answers that tell of a failure);
\* for a single cell the login tool reads the file once more,
\* for the name of the user.
Report(p) ==
    /\ call[p].tool \in {"login", "save"} /\ call[p].phase = "login"
    /\ save[p].phase \in {"ok", "failed"}
    /\ Answer(p, IF \/ save[p].phase = "failed"
                    \/ /\ ~file.whole /\ call[p].tool = "login"
                       /\ Len(call[p].cells) = 1
                 THEN "error" ELSE "ok")
    /\ save' = [save EXCEPT ![p] = NoSave]
    /\ UNCHANGED <<file, session, calls>>

\* Mutant: the server waits for its login process without a limit.
LoginNeverTimesOut(p) == FALSE /\ UNCHANGED vars

\* Mutant: the login process is left running.
LoginLeft(p) ==
    /\ call[p].tool # "save" /\ call[p].phase = "login"
    /\ save[p].phase \notin {"none", "ok", "failed"}
    /\ Answer(p, "timeout")
    /\ UNCHANGED <<file, session, save, calls>>

\* After three minutes a server kills its login process, wherever it is.
LoginTimesOut(p) ==
    /\ call[p].tool # "save" /\ call[p].phase = "login"
    /\ save[p].phase \notin {"none", "ok", "failed"}
    /\ Answer(p, "timeout")
    /\ save' = [save EXCEPT ![p] = NoSave]
    /\ UNCHANGED <<file, session, calls>>

Return(p) ==
    /\ call[p].phase = "done"
    /\ call' = [call EXCEPT ![p] = NoCall]
    /\ UNCHANGED <<file, session, save, calls>>

Tool(p) ==
    GetCookie(p) \/ EnsureAuth(p) \/ Reread(p) \/ Request(p) \/ Report(p)
    \/ LoginTimesOut(p) \/ Return(p)

Next ==
    \/ \E cookie \in 1..Len(session) : Expire(cookie)
    \/ \E p \in Servers : Saver(p) \/ CallTool(p) \/ Tool(p)

Spec == Init /\ [][Next]_vars

\* Servers get on, and so do saves as far as nobody has to sign in: to that
\* only the timeouts put an end.
Fairness ==
    \A p \in Servers :
        /\ WF_vars(Tool(p))
        /\ WF_vars(LoadCookies(p) \/ OpenFile(p) \/ WriteFile(p) \/ Validate(p))
=============================================================================
