----------------------------- MODULE GrafanaProofs -----------------------------
(***************************************************************************)
(* The cookie file and the tool calls of any number of servers, cells,     *)
(* sessions and calls.                                                     *)
(***************************************************************************)
EXTENDS GrafanaChecks, SequenceTheorems, TLAPS

SessionType == [cell: CellNames, state: {"live", "dead"}]

CallType(n) ==
    [tool: {"none", "query", "login", "save"}, cells: Seq(CellNames),
     phase: {"idle", "check", "ensure", "login", "request", "done"},
     held: 0..n, retried: BOOLEAN, answer: {"none", "ok", "error", "timeout"}]

SaveType(n) ==
    [phase: {"none", "browser", "load", "open", "write", "validate", "ok",
             "failed"},
     cells: Seq(CellNames), cookie: 0..n, loaded: [CellNames -> 0..n],
     cut: BOOLEAN]

(* What the locals of a server say of its login process.                   *)
Matched(c, s) ==
    /\ s.phase # "none" => c.phase = "login" /\ s.cells # <<>>
    /\ c.phase # "idle" => c.cells # <<>>
    /\ c.phase \in {"check", "ensure", "request"} => c.tool = "query"

TypeInv ==
    /\ session \in Seq(SessionType) /\ Len(session) <= MaxSessions
    /\ file \in [whole: BOOLEAN, cookies: [CellNames -> 0..Len(session)]]
    /\ call \in [Servers -> CallType(Len(session))]
    /\ save \in [Servers -> SaveType(Len(session))]
    /\ \A p \in Servers : Matched(call[p], save[p])

LEMMA CellFacts ==
    /\ Cells \in Seq(CellNames) /\ Cells # <<>> /\ Cells[1] \in CellNames
    /\ \A c \in CellNames : <<c>> \in Seq(CellNames) /\ <<c>> # <<>>
BY SessionsAssumption DEF CellNames

LEMMA TypeInit == Init => TypeInv
<1> SUFFICES ASSUME Init  PROVE TypeInv
    OBVIOUS
<1>1. NoCall \in CallType(Len(session)) /\ NoSave \in SaveType(Len(session))
  <2>1. Len(session) \in Nat
      BY DEF Init
  <2> QED  BY <2>1, EmptySeq DEF NoCall, NoSave, CallType, SaveType, NoCookie
<1>2. Matched(NoCall, NoSave)
    BY DEF Matched, NoCall, NoSave
<1>3. /\ session \in Seq(SessionType) /\ Len(session) <= MaxSessions
      /\ file \in [whole: BOOLEAN, cookies: [CellNames -> 0..Len(session)]]
  <2>1. CASE session = <<>> /\ file = [whole |-> TRUE,
                                       cookies |-> [c \in CellNames |-> NoCookie]]
      BY <2>1, EmptySeq, SessionsAssumption DEF NoCookie
  <2>2. CASE /\ session = <<[cell |-> Cells[1], state |-> "live"]>>
             /\ file = [whole |-> TRUE,
                        cookies |-> [c \in CellNames |->
                                       IF c = Cells[1] THEN 1 ELSE NoCookie]]
      BY <2>2, CellFacts, SessionsAssumption DEF NoCookie, SessionType
  <2> QED  BY <2>1, <2>2 DEF Init
<1> QED  BY <1>1, <1>2, <1>3 DEF Init, TypeInv

-----------------------------------------------------------------------------
(* Most steps are those of one server: they give it other locals, and      *)
(* perhaps the file another content.                                       *)
LEMMA OneServer ==
    ASSUME TypeInv, NEW p \in Servers, NEW c, NEW s, NEW n \in Nat,
           session' \in Seq(SessionType), Len(session') = n,
           Len(session) <= n, n <= MaxSessions,
           file' \in [whole: BOOLEAN, cookies: [CellNames -> 0..n]],
           call' = [call EXCEPT ![p] = c], save' = [save EXCEPT ![p] = s],
           c \in CallType(n), s \in SaveType(n), Matched(c, s)
    PROVE  TypeInv'
<1>1. Len(session) \in Nat /\ 0..Len(session) \subseteq 0..n
    BY DEF TypeInv
<1>2. CallType(Len(session)) \subseteq CallType(n)
    BY <1>1 DEF CallType
<1>3. SaveType(Len(session)) \subseteq SaveType(n)
  <2>1. [CellNames -> 0..Len(session)] \subseteq [CellNames -> 0..n]
      BY <1>1
  <2> QED  BY <1>1, <2>1 DEF SaveType
<1>4. call' \in [Servers -> CallType(n)] /\ save' \in [Servers -> SaveType(n)]
    BY <1>2, <1>3 DEF TypeInv
<1>5. \A q \in Servers : Matched(call'[q], save'[q])
    BY DEF TypeInv
<1> QED  BY <1>4, <1>5 DEF TypeInv

(* What is known of one server, and of the records its steps start from.   *)
LEMMA Locals ==
    ASSUME TypeInv, NEW p \in Servers
    PROVE  /\ Len(session) \in Nat /\ session \in Seq(SessionType)
           /\ call[p] \in CallType(Len(session))
           /\ save[p] \in SaveType(Len(session))
           /\ Matched(call[p], save[p])
           /\ call = [call EXCEPT ![p] = call[p]]
           /\ save = [save EXCEPT ![p] = save[p]]
           /\ NoCall \in CallType(Len(session))
           /\ NoSave \in SaveType(Len(session))
           /\ \A cells \in Seq(CellNames) :
                 Browser(cells) \in SaveType(Len(session))
<1>1. Len(session) \in Nat
    BY DEF TypeInv
<1>2. NoCall \in CallType(Len(session)) /\ NoSave \in SaveType(Len(session))
    BY <1>1, EmptySeq DEF NoCall, NoSave, CallType, SaveType, NoCookie
<1>3. \A cells \in Seq(CellNames) : Browser(cells) \in SaveType(Len(session))
    BY <1>2 DEF Browser, NoSave, SaveType
<1> QED  BY <1>1, <1>2, <1>3 DEF TypeInv

LEMMA QuietStep ==
    ASSUME TypeInv, NEW p \in Servers, NEW c, NEW s, session' = session,
           file' = file, call' = [call EXCEPT ![p] = c],
           save' = [save EXCEPT ![p] = s], c \in CallType(Len(session)),
           s \in SaveType(Len(session)), Matched(c, s)
    PROVE  TypeInv'
<1>1. Len(session) \in Nat /\ Len(session) <= MaxSessions
    BY DEF TypeInv
<1>2. file' \in [whole: BOOLEAN, cookies: [CellNames -> 0..Len(session)]]
    BY DEF TypeInv
<1>3. session' \in Seq(SessionType) /\ Len(session') = Len(session)
    BY DEF TypeInv
<1> DEFINE n == Len(session)
<1>4. /\ n \in Nat /\ n <= MaxSessions /\ Len(session') = n
      /\ Len(session) <= n /\ c \in CallType(n) /\ s \in SaveType(n)
      /\ file' \in [whole: BOOLEAN, cookies: [CellNames -> 0..n]]
    BY <1>1, <1>2, <1>3
<1> HIDE DEF n
<1> QED  BY <1>3, <1>4, OneServer

-----------------------------------------------------------------------------
LEMMA TypeExpire ==
    ASSUME TypeInv, NEW cookie \in 1..Len(session), Expire(cookie)
    PROVE  TypeInv'
<1> DEFINE e == [session[cookie] EXCEPT !.state = "dead"]
<1>1. session' \in Seq(SessionType) /\ Len(session') = Len(session)
  <2>1. session \in Seq(SessionType) /\ session[cookie] \in SessionType
      BY ElementOfSeq DEF TypeInv
  <2>2. e \in SessionType /\ session' = [session EXCEPT ![cookie] = e]
      BY <2>1 DEF Expire, SessionType
  <2> HIDE DEF e
  <2> QED  BY <2>1, <2>2, ExceptSeq
<1> QED  BY <1>1 DEF TypeInv, Expire

LEMMA TypeFinished ==
    ASSUME TypeInv, NEW p \in Servers, NEW valid, Finished(p, valid),
           save[p].phase # "none", session' = session, file' = file, call' = call
    PROVE  TypeInv'
<1> DEFINE s == IF Len(save[p].cells) > 1 THEN Browser(Tail(save[p].cells))
                ELSE [save[p] EXCEPT !.phase = IF valid \/ Len(call[p].cells) > 1
                                               THEN "ok" ELSE "failed"]
<1>1. save' = [save EXCEPT ![p] = s]
    BY DEF Finished
<1>2. CASE Len(save[p].cells) > 1
  <2>1. save[p].cells \in Seq(CellNames) /\ save[p].cells # <<>>
      BY Locals DEF SaveType, Matched
  <2>2. Tail(save[p].cells) \in Seq(CellNames) /\ Tail(save[p].cells) # <<>>
    <3>1. Len(Tail(save[p].cells)) = Len(save[p].cells) - 1
          /\ Tail(save[p].cells) \in Seq(CellNames)
        BY <2>1, HeadTailProperties
    <3>2. Len(Tail(save[p].cells)) # 0
      <4>1. Len(save[p].cells) \in Nat
          BY <2>1, LenProperties
      <4> DEFINE k == Len(save[p].cells)
      <4> DEFINE t == Len(Tail(save[p].cells))
      <4>2. k \in Nat /\ k > 1 /\ t = k - 1
          BY <1>2, <3>1, <4>1
      <4> HIDE DEF k, t
      <4>3. t # 0
          BY <4>2
      <4> QED  BY <4>3 DEF t
    <3> QED  BY <3>1, <3>2, EmptySeq
  <2>3. s \in SaveType(Len(session)) /\ s.cells # <<>>
      BY <1>2, <2>2, Locals DEF Browser, NoSave
  <2>4. Matched(call[p], s)
      BY <2>3, Locals DEF Matched
  <2> HIDE DEF s
  <2> QED  BY <1>1, <2>3, <2>4, Locals, QuietStep
<1>3. CASE ~(Len(save[p].cells) > 1)
  <2>1. s \in SaveType(Len(session)) /\ s.cells = save[p].cells
      BY <1>3, Locals DEF SaveType
  <2>2. Matched(call[p], s)
      BY <2>1, Locals DEF Matched
  <2> HIDE DEF s
  <2> QED  BY <1>1, <2>1, <2>2, Locals, QuietStep
<1> QED  BY <1>2, <1>3

LEMMA TypeCrash ==
    ASSUME TypeInv, NEW p \in Servers, Crash(p), save[p].phase # "none",
           session' = session, file' = file, call' = call
    PROVE  TypeInv'
<1> DEFINE s == [save[p] EXCEPT !.phase = "failed"]
<1>1. save' = [save EXCEPT ![p] = s]
    BY DEF Crash
<1>2. s \in SaveType(Len(session)) /\ Matched(call[p], s)
    BY Locals DEF SaveType, Matched
<1> HIDE DEF s
<1> QED  BY <1>1, <1>2, Locals, QuietStep

(* The steps of a process that saves a cookie.                             *)
LEMMA TypeSaver ==
    ASSUME TypeInv, NEW p \in Servers, Saver(p)
    PROVE  TypeInv'
<1> DEFINE n == Len(session)
<1>0. n \in Nat /\ save[p] \in SaveType(n) /\ call[p] \in CallType(n)
      /\ Matched(call[p], save[p]) /\ call = [call EXCEPT ![p] = call[p]]
    BY Locals
<1>1. CASE SignIn(p)
  <2>1. PICK state \in {"live", "dead"} :
            session' = Append(session, [cell |-> Cell(p), state |-> state])
      BY <1>1 DEF SignIn
  <2>2. Cell(p) \in CellNames
    <3>1. save[p].cells \in Seq(CellNames) /\ save[p].cells # <<>>
        BY <1>0, <1>1 DEF SaveType, Matched, SignIn
    <3> QED  BY <3>1 DEF Cell
  <2>3. session' \in Seq(SessionType) /\ Len(session') = n + 1
    <3>1. [cell |-> Cell(p), state |-> state] \in SessionType
        BY <2>2 DEF SessionType
    <3> QED  BY <2>1, <3>1, Locals, AppendProperties
  <2>4. n + 1 \in Nat /\ n <= n + 1 /\ n + 1 <= MaxSessions
      BY <1>0, <1>1, SessionsAssumption DEF SignIn
  <2>5. file' \in [whole: BOOLEAN, cookies: [CellNames -> 0..(n + 1)]]
    <3>1. 0..n \subseteq 0..(n + 1)
        BY <1>0
    <3> QED  BY <1>1, <3>1 DEF SignIn, TypeInv
  <2> DEFINE s == [save[p] EXCEPT !.phase = "load", !.cookie = n + 1]
  <2>6. save' = [save EXCEPT ![p] = s]
      BY <1>1, Locals DEF SignIn, TypeInv
  <2>7. s \in SaveType(n + 1)
    <3>1. SaveType(n) \subseteq SaveType(n + 1)
      <4>1. 0..n \subseteq 0..(n + 1)
          BY <1>0
      <4>2. [CellNames -> 0..n] \subseteq [CellNames -> 0..(n + 1)]
          BY <4>1
      <4> QED  BY <4>1, <4>2 DEF SaveType
    <3>2. save[p] \in SaveType(n + 1) /\ n + 1 \in 0..(n + 1)
        BY <1>0, <3>1
    <3> HIDE DEF n
    <3> QED  BY <3>2 DEF SaveType
  <2>8. Matched(call[p], s)
      BY <1>0, <1>1 DEF Matched, SaveType, SignIn
  <2>9. call[p] \in CallType(n + 1)
      BY <1>0 DEF CallType
  <2>10. call' = [call EXCEPT ![p] = call[p]]
      BY <1>0, <1>1 DEF SignIn
  <2> HIDE DEF n, s
  <2> DEFINE m == n + 1
  <2>11. /\ m \in Nat /\ Len(session') = m /\ Len(session) <= m
         /\ m <= MaxSessions
         /\ file' \in [whole: BOOLEAN, cookies: [CellNames -> 0..m]]
         /\ call[p] \in CallType(m) /\ s \in SaveType(m)
      BY <2>3, <2>4, <2>5, <2>7, <2>9 DEF n
  <2> HIDE DEF m
  <2> QED  BY <2>11, <2>3, <2>6, <2>8, <2>10, OneServer
<1>2. CASE NoSignIn(p)
    BY <1>2, TypeFinished, TypeCrash DEF NoSignIn
<1>3. CASE LoadCookies(p)
  <2>1. CASE file.whole
    <3> DEFINE s == [save[p] EXCEPT !.phase = "open", !.loaded = file.cookies]
    <3>1. save' = [save EXCEPT ![p] = s]
        BY <1>3, <2>1 DEF LoadCookies, TypeInv
    <3>2. s \in SaveType(n) /\ Matched(call[p], s)
        BY <1>0, <1>3 DEF SaveType, Matched, LoadCookies, TypeInv
    <3> HIDE DEF s
    <3> QED  BY <1>0, <1>3, <3>1, <3>2, QuietStep DEF LoadCookies
  <2>2. CASE ~file.whole
      BY <1>3, <2>2, TypeCrash DEF LoadCookies
  <2> QED  BY <2>1, <2>2
<1>4. CASE OpenFile(p)
  <2>1. file' \in [whole: BOOLEAN, cookies: [CellNames -> 0..n]]
      BY <1>4 DEF OpenFile, TypeInv
  <2>2. \A q \in Servers : save'[q] \in SaveType(n) /\ Matched(call[q], save'[q])
    <3> TAKE q \in Servers
    <3>1. save[q] \in SaveType(n) /\ Matched(call[q], save[q])
        BY Locals
    <3>2. save'[q] = [save[q] EXCEPT !.phase = IF q = p THEN "write"
                                               ELSE save[q].phase, !.cut = FALSE]
        BY <1>4 DEF OpenFile
    <3>3. save'[q] \in SaveType(n)
        BY <3>1, <3>2 DEF SaveType
    <3>4. Matched(call[q], save'[q])
        BY <1>4, <3>1, <3>2 DEF Matched, SaveType, OpenFile
    <3> QED  BY <3>3, <3>4
  <2>3. save' \in [Servers -> SaveType(n)]
      BY <1>4, <2>2 DEF OpenFile
  <2> QED  BY <1>4, <2>1, <2>2, <2>3 DEF OpenFile, TypeInv
<1>5. CASE WriteFile(p)
  <2> DEFINE cookies == [save[p].loaded EXCEPT ![Cell(p)] = save[p].cookie]
  <2>1. file' \in [whole: BOOLEAN, cookies: [CellNames -> 0..n]]
    <3>1. cookies \in [CellNames -> 0..n]
        BY <1>0 DEF SaveType
    <3>2. file' = [whole |-> (save[p].cut => Saved(cookies) >= Saved(file.cookies)),
                   cookies |-> cookies]
        BY <1>5 DEF WriteFile
    <3> HIDE DEF cookies
    <3>3. (save[p].cut => Saved(cookies) >= Saved(file.cookies)) \in BOOLEAN
        OBVIOUS
    <3> QED  BY <3>1, <3>2, <3>3
  <2>2. \A q \in Servers : save'[q] \in SaveType(n) /\ Matched(call[q], save'[q])
    <3> TAKE q \in Servers
    <3>1. save[q] \in SaveType(n) /\ Matched(call[q], save[q])
          /\ NoSave \in SaveType(n)
        BY Locals
    <3>2. CASE q = p
      <4>1. save'[q] = [NoSave EXCEPT !.phase = "validate",
                                      !.cells = save[p].cells]
          BY <1>5, <3>2 DEF WriteFile
      <4>2. save'[q] \in SaveType(n)
          BY <1>0, <3>1, <4>1 DEF SaveType
      <4>3. Matched(call[q], save'[q])
          BY <1>5, <3>1, <3>2, <4>1 DEF Matched, NoSave, WriteFile
      <4> QED  BY <4>2, <4>3
    <3>3. CASE q # p /\ save[q].phase = "write"
      <4>1. save'[q] = [save[q] EXCEPT !.cut = TRUE]
          BY <1>5, <3>3 DEF WriteFile
      <4> QED  BY <3>1, <4>1 DEF SaveType, Matched
    <3>4. CASE q # p /\ save[q].phase # "write"
        BY <1>5, <3>1, <3>4 DEF WriteFile
    <3> QED  BY <3>2, <3>3, <3>4
  <2>3. save' \in [Servers -> SaveType(n)]
      BY <1>5, <2>2 DEF WriteFile
  <2> QED  BY <1>5, <2>1, <2>2, <2>3 DEF WriteFile, TypeInv
<1>6. CASE Validate(p)
    BY <1>6, TypeFinished, TypeCrash DEF Validate
<1> QED  BY <1>1, <1>2, <1>3, <1>4, <1>5, <1>6 DEF Saver

LEMMA OneMoreSession ==
    ASSUME NEW n \in Nat
    PROVE  CallType(n) \subseteq CallType(n + 1) /\ SaveType(n) \subseteq SaveType(n + 1)
           /\ 0..n \subseteq 0..(n + 1)
<1>1. 0..n \subseteq 0..(n + 1)
    OBVIOUS
<1>2. [CellNames -> 0..n] \subseteq [CellNames -> 0..(n + 1)]
    BY <1>1
<1> QED  BY <1>1, <1>2 DEF CallType, SaveType

LEMMA TypeCallTool ==
    ASSUME TypeInv, NEW p \in Servers, CallTool(p)
    PROVE  TypeInv'
<1>0. /\ file' = file /\ call[p].phase = "idle" /\ Len(session) \in Nat
      /\ NoCall \in CallType(Len(session)) /\ NoSave \in SaveType(Len(session))
      /\ save[p] \in SaveType(Len(session)) /\ Matched(call[p], save[p])
    BY Locals DEF CallTool
<1>1. save[p].phase = "none"
    BY <1>0 DEF Matched
<1>2. ASSUME NEW c \in CellNames, session' = session, save' = save,
             call' = [call EXCEPT ![p] = [NoCall EXCEPT !.tool = "query",
                        !.cells = <<c>>, !.phase = "check"]]
      PROVE  TypeInv'
  <2> DEFINE k == [NoCall EXCEPT !.tool = "query", !.cells = <<c>>,
                                 !.phase = "check"]
  <2>1. k \in CallType(Len(session)) /\ k.cells # <<>>
      BY <1>0, CellFacts DEF CallType, NoCall
  <2>2. Matched(k, save[p])
      BY <1>1, <2>1, CellFacts DEF Matched, NoCall
  <2>3. save' = [save EXCEPT ![p] = save[p]] /\ call' = [call EXCEPT ![p] = k]
      BY <1>2, Locals
  <2> HIDE DEF k
  <2> QED  BY <1>0, <1>2, <2>1, <2>2, <2>3, QuietStep
<1>3. ASSUME NEW cells \in {Cells} \cup {<<c>> : c \in CellNames},
             session' = session, save' = [save EXCEPT ![p] = Browser(cells)],
             call' = [call EXCEPT ![p] = [NoCall EXCEPT !.tool = "login",
                        !.cells = cells, !.phase = "login"]]
      PROVE  TypeInv'
  <2> DEFINE k == [NoCall EXCEPT !.tool = "login", !.cells = cells,
                                 !.phase = "login"]
             s == Browser(cells)
  <2>1. cells \in Seq(CellNames) /\ cells # <<>>
      BY <1>3, CellFacts
  <2>2. k \in CallType(Len(session)) /\ s \in SaveType(Len(session))
      BY <1>0, <2>1, Locals DEF CallType, NoCall
  <2>3. Matched(k, s)
      BY <2>1 DEF Matched, NoCall, Browser, NoSave
  <2> HIDE DEF k, s
  <2> QED  BY <1>0, <1>3, <2>2, <2>3, QuietStep DEF k, s
<1>4. ASSUME NEW c \in CellNames, NEW state \in {"live", "dead"},
             Len(session) < MaxSessions,
             session' = Append(session, [cell |-> c, state |-> state]),
             call' = [call EXCEPT ![p] = [NoCall EXCEPT !.tool = "save",
                        !.cells = <<c>>, !.phase = "login"]],
             save' = [save EXCEPT ![p] = [NoSave EXCEPT !.phase = "load",
                        !.cells = <<c>>, !.cookie = Len(session) + 1]]
      PROVE  TypeInv'
  <2> DEFINE n == Len(session)
             m == n + 1
             k == [NoCall EXCEPT !.tool = "save", !.cells = <<c>>,
                                 !.phase = "login"]
             s == [NoSave EXCEPT !.phase = "load", !.cells = <<c>>,
                                 !.cookie = m]
  <2>1. m \in Nat /\ Len(session) <= m /\ m <= MaxSessions /\ m \in 0..m
      BY <1>0, <1>4, SessionsAssumption
  <2>2. NoCall \in CallType(m) /\ NoSave \in SaveType(m) /\ 0..n \subseteq 0..m
      BY <1>0, OneMoreSession
  <2>3. session' \in Seq(SessionType) /\ Len(session') = m
    <3>1. [cell |-> c, state |-> state] \in SessionType
        BY <1>4 DEF SessionType
    <3> QED  BY <1>4, <3>1, Locals, AppendProperties
  <2>4. file' \in [whole: BOOLEAN, cookies: [CellNames -> 0..m]]
      BY <1>0, <2>2 DEF TypeInv
  <2>5. call' = [call EXCEPT ![p] = k] /\ save' = [save EXCEPT ![p] = s]
      BY <1>4
  <2>6. k \in CallType(m) /\ s \in SaveType(m) /\ Matched(k, s)
    <3> HIDE DEF m
    <3>1. k \in CallType(m)
        BY <2>2, CellFacts DEF CallType
    <3>2. s \in SaveType(m)
        BY <2>1, <2>2, CellFacts DEF SaveType
    <3>3. Matched(k, s)
        BY CellFacts DEF Matched, NoCall, NoSave
    <3> QED  BY <3>1, <3>2, <3>3
  <2> HIDE DEF m, k, s
  <2> QED  BY <2>1, <2>3, <2>4, <2>5, <2>6, OneServer
<1> QED  BY <1>2, <1>3, <1>4 DEF CallTool

(* The answer to a call, and the login a call opens.                       *)
LEMMA TypeAnswer ==
    ASSUME TypeInv, NEW p \in Servers, NEW answer \in {"ok", "error", "timeout"},
           Answer(p, answer), call[p].phase # "idle",
           \/ save' = [save EXCEPT ![p] = NoSave]
           \/ save' = save /\ save[p].phase = "none",
           session' = session, file' = file
    PROVE  TypeInv'
<1> DEFINE k == [call[p] EXCEPT !.phase = "done", !.answer = answer,
                                !.held = NoCookie, !.retried = FALSE]
<1>1. call' = [call EXCEPT ![p] = k]
    BY DEF Answer, TypeInv
<1>2. k \in CallType(Len(session)) /\ k.phase = "done" /\ k.cells # <<>>
  <2>1. call[p] \in CallType(Len(session)) /\ 0 \in 0..Len(session)
        /\ call[p].cells # <<>>
      BY Locals DEF Matched
  <2> QED  BY <2>1 DEF CallType, NoCookie
<1>3. PICK s \in SaveType(Len(session)) :
          s.phase = "none" /\ save' = [save EXCEPT ![p] = s]
    BY Locals DEF NoSave
<1>4. Matched(k, s)
    BY <1>2, <1>3 DEF Matched
<1> HIDE DEF k
<1> QED  BY <1>1, <1>2, <1>3, <1>4, QuietStep

LEMMA TypeLogin ==
    ASSUME TypeInv, NEW p \in Servers, NEW retried \in BOOLEAN,
           call[p].phase # "idle",
           call' = [call EXCEPT ![p] = [call[p] EXCEPT !.phase = "login",
                                                       !.retried = retried]],
           save' = [save EXCEPT ![p] = Browser(call[p].cells)],
           session' = session, file' = file
    PROVE  TypeInv'
<1> DEFINE k == [call[p] EXCEPT !.phase = "login", !.retried = retried]
           s == Browser(call[p].cells)
<1>1. /\ k \in CallType(Len(session)) /\ k.phase = "login"
      /\ k.cells = call[p].cells
      /\ call[p].cells \in Seq(CellNames) /\ call[p].cells # <<>>
    BY Locals DEF CallType, Matched
<1>2. s \in SaveType(Len(session)) /\ s.cells = call[p].cells
    BY <1>1, Locals DEF Browser, NoSave
<1>3. Matched(k, s)
    BY <1>1, <1>2 DEF Matched
<1> HIDE DEF k, s
<1> QED  BY <1>1, <1>2, <1>3, QuietStep DEF k, s

LEMMA TypeRequest ==
    ASSUME TypeInv, NEW p \in Servers,
           NEW phase \in {"ensure", "request"}, NEW held \in 0..Len(session),
           call' = [call EXCEPT ![p] = [call[p] EXCEPT !.phase = phase,
                                                       !.held = held]],
           call[p].tool = "query", call[p].phase # "idle",
           \/ save' = [save EXCEPT ![p] = NoSave]
           \/ save' = save /\ save[p].phase = "none",
           session' = session, file' = file
    PROVE  TypeInv'
<1> DEFINE k == [call[p] EXCEPT !.phase = phase, !.held = held]
<1>1. /\ k \in CallType(Len(session)) /\ k.phase = phase /\ k.tool = "query"
      /\ k.cells # <<>>
    BY Locals DEF CallType, Matched
<1>2. PICK s \in SaveType(Len(session)) :
          s.phase = "none" /\ save' = [save EXCEPT ![p] = s]
    BY Locals DEF NoSave
<1>3. Matched(k, s)
    BY <1>1, <1>2 DEF Matched
<1> HIDE DEF k
<1> QED  BY <1>1, <1>2, <1>3, QuietStep DEF k

(* The steps of a server that works on a call.                             *)
LEMMA TypeTool ==
    ASSUME TypeInv, NEW p \in Servers, Tool(p)
    PROVE  TypeInv'
<1>0. /\ call[p] \in CallType(Len(session)) /\ Matched(call[p], save[p])
      /\ save[p] \in SaveType(Len(session))
      /\ file.cookies \in [CellNames -> 0..Len(session)]
    BY Locals DEF TypeInv
<1>1. call[p].phase \in {"check", "ensure", "request"} =>
          /\ save[p].phase = "none" /\ call[p].tool = "query"
          /\ Asked(p) \in CellNames
  <2>1. ASSUME call[p].phase \in {"check", "ensure", "request", "login"}
        PROVE  Asked(p) \in CellNames
    <3>1. call[p].cells \in Seq(CellNames) /\ call[p].cells # <<>>
        BY <1>0, <2>1 DEF CallType, Matched
    <3> QED  BY <3>1 DEF Asked
  <2> QED  BY <1>0, <2>1 DEF Matched
<1>2. ASSUME Relogin(p), session' = session, file' = file,
             call[p].phase \in {"check", "ensure"}
      PROVE  TypeInv'
  <2>1. /\ call[p].retried \in BOOLEAN
        /\ [call[p] EXCEPT !.phase = "login"]
             = [call[p] EXCEPT !.phase = "login", !.retried = call[p].retried]
      BY <1>0 DEF CallType
  <2>2. call' = [call EXCEPT ![p] = [call[p] EXCEPT !.phase = "login"]]
      BY <1>2 DEF Relogin, TypeInv
  <2>3. call' = [call EXCEPT ![p] = [call[p] EXCEPT !.phase = "login",
                                                    !.retried = call[p].retried]]
      BY <2>1, <2>2
  <2> QED  BY <1>2, <2>1, <2>3, TypeLogin DEF Relogin
<1>3. CASE GetCookie(p)
  <2>1. CASE Answer(p, "error") /\ UNCHANGED save
      BY <1>1, <1>3, <2>1, TypeAnswer DEF GetCookie
  <2>2. CASE Relogin(p)
      BY <1>2, <1>3, <2>2 DEF GetCookie
  <2>3. CASE /\ call' = [call EXCEPT ![p].phase = "ensure",
                                     ![p].held = file.cookies[Asked(p)]]
             /\ UNCHANGED save
    <3>1. call' = [call EXCEPT ![p] = [call[p] EXCEPT !.phase = "ensure",
                                           !.held = file.cookies[Asked(p)]]]
        BY <2>3 DEF TypeInv
    <3>2. file.cookies[Asked(p)] \in 0..Len(session)
        BY <1>0, <1>1, <1>3 DEF GetCookie
    <3> QED  BY <1>1, <1>3, <2>3, <3>1, <3>2, TypeRequest DEF GetCookie
  <2> QED  BY <1>3, <2>1, <2>2, <2>3 DEF GetCookie
<1>4. CASE EnsureAuth(p)
  <2>1. CASE Answer(p, "error") /\ UNCHANGED save
      BY <1>1, <1>4, <2>1, TypeAnswer DEF EnsureAuth
  <2>2. CASE Relogin(p)
      BY <1>2, <1>4, <2>2 DEF EnsureAuth
  <2>3. CASE call' = [call EXCEPT ![p].phase = "request"] /\ UNCHANGED save
    <3>1. /\ call[p].held \in 0..Len(session)
          /\ [call[p] EXCEPT !.phase = "request"]
               = [call[p] EXCEPT !.phase = "request", !.held = call[p].held]
        BY <1>0 DEF CallType
    <3>2. call' = [call EXCEPT ![p] = [call[p] EXCEPT !.phase = "request"]]
        BY <2>3 DEF TypeInv
    <3>3. call' = [call EXCEPT ![p] = [call[p] EXCEPT !.phase = "request",
                                                      !.held = call[p].held]]
        BY <3>1, <3>2
    <3> QED  BY <1>1, <1>4, <2>3, <3>1, <3>3, TypeRequest DEF EnsureAuth
  <2> QED  BY <1>4, <2>1, <2>2, <2>3 DEF EnsureAuth
<1>5. CASE Reread(p)
  <2>1. CASE Answer(p, "error")
      BY <1>5, <2>1, TypeAnswer DEF Reread
  <2>2. CASE call' = [call EXCEPT ![p].phase = "request",
                        ![p].held = IF file.cookies[Asked(p)] = NoCookie THEN @
                                    ELSE file.cookies[Asked(p)]]
    <3> DEFINE held == IF file.cookies[Asked(p)] = NoCookie THEN call[p].held
                       ELSE file.cookies[Asked(p)]
    <3>1. call[p].cells \in Seq(CellNames) /\ call[p].cells # <<>>
        BY <1>0, <1>5 DEF CallType, Matched, Reread
    <3>2. file.cookies[Asked(p)] \in 0..Len(session)
        BY <1>0, <3>1 DEF Asked
    <3>3. held \in 0..Len(session)
        BY <1>0, <3>2 DEF CallType
    <3>4. call' = [call EXCEPT ![p] = [call[p] EXCEPT !.phase = "request",
                                                      !.held = held]]
        BY <2>2 DEF TypeInv
    <3> HIDE DEF held
    <3> QED  BY <1>5, <3>3, <3>4, TypeRequest DEF Reread
  <2> QED  BY <1>5, <2>1, <2>2 DEF Reread
<1>6. CASE Request(p)
  <2>1. CASE (Answer(p, "ok") \/ Answer(p, "error")) /\ UNCHANGED save
      BY <1>1, <1>6, <2>1, TypeAnswer DEF Request
  <2>2. CASE /\ call' = [call EXCEPT ![p].phase = "login", ![p].retried = TRUE]
             /\ save' = [save EXCEPT ![p] = Browser(call[p].cells)]
    <3>1. call' = [call EXCEPT ![p] = [call[p] EXCEPT !.phase = "login",
                                                      !.retried = TRUE]]
        BY <2>2 DEF TypeInv
    <3> QED  BY <1>6, <2>2, <3>1, TypeLogin DEF Request
  <2> QED  BY <1>6, <2>1, <2>2 DEF Request
<1>7. CASE Report(p)
  <2>1. PICK answer \in {"ok", "error", "timeout"} : Answer(p, answer)
      BY <1>7 DEF Report
  <2> QED  BY <1>7, <2>1, TypeAnswer DEF Report
<1>8. CASE LoginTimesOut(p)
    BY <1>8, TypeAnswer DEF LoginTimesOut
<1>9. CASE Return(p)
  <2>1. Matched(NoCall, save[p])
      BY <1>0, <1>9 DEF Return, Matched, NoCall
  <2> QED  BY <1>9, <2>1, Locals, QuietStep DEF Return
<1> QED  BY <1>3, <1>4, <1>5, <1>6, <1>7, <1>8, <1>9 DEF Tool

LEMMA TypeNext == TypeInv /\ [Next]_vars => TypeInv'
<1> SUFFICES ASSUME TypeInv, [Next]_vars  PROVE TypeInv'
    OBVIOUS
<1>1. CASE \E cookie \in 1..Len(session) : Expire(cookie)
    BY <1>1, TypeExpire
<1>2. CASE \E p \in Servers : Saver(p) \/ CallTool(p) \/ Tool(p)
    BY <1>2, TypeSaver, TypeCallTool, TypeTool
<1>3. CASE UNCHANGED vars
    BY <1>3 DEF vars, TypeInv
<1> QED  BY <1>1, <1>2, <1>3 DEF Next

(* Every behaviour of the servers is well typed, a login process belongs   *)
(* to the call that waits for it, and no cookie is known that Grafana has  *)
(* not handed out.                                                         *)
THEOREM SessionsTyped == HSpec => []GTypeOK
<1>1. TypeInv => GTypeOK
  <2> SUFFICES ASSUME TypeInv  PROVE GTypeOK
      OBVIOUS
  <2>1. Len(session) \in Nat /\ 0..Len(session) \subseteq Cookies
      BY SessionsAssumption DEF TypeInv, Cookies
  <2>2. file \in [whole: BOOLEAN, cookies: [CellNames -> Cookies]]
    <3>1. [CellNames -> 0..Len(session)] \subseteq [CellNames -> Cookies]
        BY <2>1
    <3> QED  BY <3>1 DEF TypeInv
  <2>3. \A i \in 1..Len(session) : session[i] \in SessionType
      BY ElementOfSeq DEF TypeInv
  <2>4. \A p \in Servers : /\ call[p] \in CallType(Len(session))
                           /\ save[p] \in SaveType(Len(session))
                           /\ Matched(call[p], save[p])
      BY DEF TypeInv
  <2> QED  BY <2>2, <2>3, <2>4
           DEF GTypeOK, TypeInv, SessionType, CallType, SaveType, Matched
<1>2. HInit => TypeInv
    BY TypeInit DEF HInit
<1>3. TypeInv /\ [HNext]_hvars => TypeInv'
    BY TypeNext DEF HNext, hvars, vars
<1> QED  BY <1>1, <1>2, <1>3, PTL DEF HSpec

-----------------------------------------------------------------------------
(* What a step that neither opens nor writes the file does to the savers.  *)
SaverKept(q) ==
    \/ save'[q] = save[q]
    \/ save'[q].phase = "none" /\ ~save'[q].cut
    \/ /\ ~Saving(q) /\ ~Writing(q)' /\ (save'[q].cut => save[q].cut)
       /\ Saving(q)' => save'[q].loaded = file.cookies

LEMMA FinishedKeeps ==
    ASSUME TypeInv, NEW p \in Servers, NEW valid, Finished(p, valid),
           save[p].phase \in {"browser", "validate"}
    PROVE  \A q \in Servers : SaverKept(q)
<1> SUFFICES ASSUME NEW q \in Servers  PROVE SaverKept(q)
    OBVIOUS
<1>1. CASE q # p
    BY <1>1 DEF Finished, SaverKept, TypeInv
<1>2. CASE q = p /\ Len(save[p].cells) > 1
  <2>1. save'[p] = Browser(Tail(save[p].cells))
      BY <1>2 DEF Finished, TypeInv
  <2>2. save'[p].phase = "browser" /\ ~save'[p].cut
      BY <2>1 DEF Browser, NoSave
  <2> QED  BY <1>2, <2>2 DEF SaverKept, Saving, Writing
<1>3. CASE q = p /\ ~(Len(save[p].cells) > 1)
  <2>1. PICK phase \in {"ok", "failed"} :
            save'[p] = [save[p] EXCEPT !.phase = phase]
      BY <1>3 DEF Finished, TypeInv
  <2>2. save'[p].phase \in {"ok", "failed"} /\ save'[p].cut = save[p].cut
      BY <2>1, Locals DEF SaveType
  <2> QED  BY <1>3, <2>2 DEF SaverKept, Saving, Writing
<1> QED  BY <1>1, <1>2, <1>3

LEMMA CrashKeeps ==
    ASSUME TypeInv, NEW p \in Servers, Crash(p),
           save[p].phase \in {"browser", "load", "validate"}
    PROVE  \A q \in Servers : SaverKept(q)
<1> SUFFICES ASSUME NEW q \in Servers  PROVE SaverKept(q)
    OBVIOUS
<1>1. CASE q # p
    BY <1>1 DEF Crash, SaverKept, TypeInv
<1>2. CASE q = p
  <2>1. save'[p].phase = "failed" /\ save'[p].cut = save[p].cut
      BY Locals DEF Crash, TypeInv, SaveType
  <2> QED  BY <1>2, <2>1 DEF SaverKept, Saving, Writing
<1> QED  BY <1>1, <1>2

(* A server's own step ends its login process, or opens one if it has none.*)
LEMMA OwnSaver ==
    ASSUME TypeInv, NEW p \in Servers, NEW s,
           \/ s.phase = "none" /\ ~s.cut
           \/ s.phase \in {"browser", "load"} /\ ~s.cut /\ save[p].phase = "none",
           save' = [save EXCEPT ![p] = s]
    PROVE  \A q \in Servers : SaverKept(q)
<1> SUFFICES ASSUME NEW q \in Servers  PROVE SaverKept(q)
    OBVIOUS
<1>1. CASE q # p
    BY <1>1 DEF SaverKept, TypeInv
<1>2. CASE q = p
  <2>1. save'[p] = s
      BY DEF TypeInv
  <2> QED  BY <1>2, <2>1 DEF SaverKept, Saving, Writing
<1> QED  BY <1>1, <1>2

LEMMA ServerKeeps ==
    ASSUME TypeInv, NEW p \in Servers, CallTool(p) \/ Tool(p)
    PROVE  file' = file /\ \A q \in Servers : SaverKept(q)
<1>1. /\ NoSave.phase = "none" /\ ~NoSave.cut
      /\ \A cells : Browser(cells).phase = "browser" /\ ~Browser(cells).cut
    BY DEF NoSave, Browser
<1>2. call[p].phase # "login" => save[p].phase = "none"
    BY Locals DEF Matched
<1>3. ASSUME save' = save  PROVE \A q \in Servers : SaverKept(q)
    BY <1>3 DEF SaverKept
<1>4. ASSUME save' = [save EXCEPT ![p] = NoSave]
      PROVE  \A q \in Servers : SaverKept(q)
    BY <1>1, <1>4, OwnSaver
<1>5. ASSUME NEW cells, save' = [save EXCEPT ![p] = Browser(cells)],
             call[p].phase # "login"
      PROVE  \A q \in Servers : SaverKept(q)
    BY <1>1, <1>2, <1>5, OwnSaver
<1>6. CASE CallTool(p)
  <2>1. ASSUME NEW c, save' = [save EXCEPT ![p] = [NoSave EXCEPT !.phase = "load",
                              !.cells = <<c>>, !.cookie = Len(session) + 1]]
        PROVE  \A q \in Servers : SaverKept(q)
    <3> DEFINE s == [NoSave EXCEPT !.phase = "load", !.cells = <<c>>,
                                   !.cookie = Len(session) + 1]
    <3>1. s.phase = "load" /\ ~s.cut
        BY DEF NoSave
    <3>2. save' = [save EXCEPT ![p] = s] /\ save[p].phase = "none"
        BY <1>2, <1>6, <2>1 DEF CallTool
    <3> HIDE DEF s
    <3> QED  BY <3>1, <3>2, OwnSaver
  <2> QED  BY <1>3, <1>5, <1>6, <2>1 DEF CallTool
<1>7. CASE GetCookie(p)
    BY <1>3, <1>5, <1>7 DEF GetCookie, Relogin
<1>8. CASE EnsureAuth(p)
    BY <1>3, <1>5, <1>8 DEF EnsureAuth, Relogin
<1>9. CASE Reread(p)
    BY <1>4, <1>9 DEF Reread
<1>10. CASE Request(p)
    BY <1>3, <1>5, <1>10 DEF Request
<1>11. CASE Report(p)
    BY <1>4, <1>11 DEF Report
<1>12. CASE LoginTimesOut(p)
    BY <1>4, <1>12 DEF LoginTimesOut
<1>13. CASE Return(p)
    BY <1>3, <1>13 DEF Return
<1> QED  BY <1>6, <1>7, <1>8, <1>9, <1>10, <1>11, <1>12, <1>13 DEF Tool

LEMMA SaveSteps ==
    ASSUME TypeInv, [Next]_vars
    PROVE  \/ \E p \in Servers : OpenFile(p) \/ WriteFile(p)
           \/ file' = file /\ \A q \in Servers : SaverKept(q)
<1>1. CASE save' = save /\ file' = file
    BY <1>1 DEF SaverKept
<1>2. CASE \E cookie \in 1..Len(session) : Expire(cookie)
    BY <1>1, <1>2 DEF Expire
<1>3. ASSUME NEW p \in Servers, SignIn(p)
      PROVE  file' = file /\ \A q \in Servers : SaverKept(q)
  <2>1. \A q \in Servers : q # p => save'[q] = save[q]
      BY <1>3 DEF SignIn, TypeInv
  <2>2. save'[p].phase = "load" /\ save'[p].cut = save[p].cut
      BY <1>3, Locals DEF SignIn, TypeInv, SaveType
  <2> QED  BY <1>3, <2>1, <2>2 DEF SignIn, SaverKept, Saving, Writing
<1>4. ASSUME NEW p \in Servers, NoSignIn(p)
      PROVE  file' = file /\ \A q \in Servers : SaverKept(q)
    BY <1>4, FinishedKeeps, CrashKeeps DEF NoSignIn
<1>5. ASSUME NEW p \in Servers, LoadCookies(p)
      PROVE  file' = file /\ \A q \in Servers : SaverKept(q)
  <2>1. CASE file.whole
    <3>1. \A q \in Servers : q # p => save'[q] = save[q]
        BY <1>5, <2>1 DEF LoadCookies, TypeInv
    <3>2. /\ save'[p].phase = "open" /\ save'[p].cut = save[p].cut
          /\ save'[p].loaded = file.cookies
        BY <1>5, <2>1, Locals DEF LoadCookies, TypeInv, SaveType
    <3> QED  BY <1>5, <3>1, <3>2 DEF LoadCookies, SaverKept, Saving, Writing
  <2>2. CASE ~file.whole
      BY <1>5, <2>2, CrashKeeps DEF LoadCookies
  <2> QED  BY <2>1, <2>2
<1>6. ASSUME NEW p \in Servers, Validate(p)
      PROVE  file' = file /\ \A q \in Servers : SaverKept(q)
    BY <1>6, FinishedKeeps, CrashKeeps DEF Validate
<1>7. CASE \E p \in Servers : CallTool(p) \/ Tool(p)
    BY <1>7, ServerKeeps
<1>8. CASE UNCHANGED vars
    BY <1>1, <1>8 DEF vars
<1> QED  BY <1>2, <1>3, <1>4, <1>5, <1>6, <1>7, <1>8 DEF Next, Saver

-----------------------------------------------------------------------------
(* Two processes that write at a time have done their damage; a text is    *)
(* cut only then.                                                          *)
DamageInv ==
    /\ \A p \in Servers : save[p].cut => damage
    /\ \A p \in Servers : \A q \in Servers \ {p} :
          Writing(p) /\ Writing(q) => damage
    /\ ~file.whole => damage \/ \E p \in Servers : Writing(p)

(* Whatever the interleaving of the saves, a file that no process writes   *)
(* is whole JSON unless a kill or two writers at a time broke it.          *)
THEOREM DamageIsExplained == HSpec => []DamageExplained
<1>1. HInit => TypeInv /\ DamageInv
  <2> SUFFICES ASSUME HInit  PROVE TypeInv /\ DamageInv
      OBVIOUS
  <2>1. TypeInv
      BY TypeInit DEF HInit
  <2>2. file.whole /\ \A p \in Servers : save[p] = NoSave
      BY DEF HInit, Init
  <2> QED  BY <2>1, <2>2 DEF DamageInv, NoSave, Writing
<1>2. TypeInv /\ DamageInv /\ [HNext]_hvars => TypeInv' /\ DamageInv'
  <2> SUFFICES ASSUME TypeInv, DamageInv, [HNext]_hvars
               PROVE  TypeInv' /\ DamageInv'
      OBVIOUS
  <2>1. [Next]_vars
      BY DEF HNext, hvars, vars
  <2>2. CASE UNCHANGED hvars
      BY <2>1, <2>2, TypeNext DEF hvars, DamageInv, Writing
  <2>3. CASE HNext
    <3>1. /\ damage => damage'
          /\ \A p \in Servers : Writing(p) /\ save'[p].phase = "none" => damage'
          /\ \A p \in Servers : \A q \in Servers \ {p} :
                Writing(p)' /\ Writing(q)' => damage'
        BY <2>3 DEF HNext
    <3>2. ASSUME NEW p \in Servers, OpenFile(p)  PROVE DamageInv'
      <4>1. \A q \in Servers : ~save'[q].cut
          BY <3>2, Locals DEF OpenFile, SaveType
      <4>2. Writing(p)'
          BY <3>2, Locals DEF OpenFile, SaveType, Writing
      <4> QED  BY <3>1, <4>1, <4>2 DEF DamageInv
    <3>3. ASSUME NEW p \in Servers, WriteFile(p)  PROVE DamageInv'
      <4>1. \A q \in Servers : save'[q].cut => damage
        <5> SUFFICES ASSUME NEW q \in Servers, save'[q].cut  PROVE damage
            OBVIOUS
        <5>1. CASE q = p
            BY <3>3, <5>1 DEF WriteFile, NoSave
        <5>2. CASE q # p /\ save[q].phase = "write"
            BY <3>3, <5>2 DEF WriteFile, DamageInv, Writing
        <5>3. CASE q # p /\ save[q].phase # "write"
            BY <3>3, <5>3 DEF WriteFile, DamageInv
        <5> QED  BY <5>1, <5>2, <5>3
      <4>2. ~file'.whole => save[p].cut
          BY <3>3 DEF WriteFile
      <4> QED  BY <3>1, <4>1, <4>2 DEF DamageInv
    <3>4. CASE file' = file /\ \A q \in Servers : SaverKept(q)
      <4>1. \A q \in Servers : save'[q].cut => save[q].cut
          BY <3>4 DEF SaverKept
      <4>2. \A q \in Servers : Writing(q) => Writing(q)' \/ damage'
          BY <3>1, <3>4 DEF SaverKept, Saving, Writing
      <4>3. ~file'.whole => damage' \/ \E q \in Servers : Writing(q)'
          BY <3>1, <3>4, <4>2 DEF DamageInv
      <4>4. \A q \in Servers : save'[q].cut => damage'
          BY <3>1, <4>1 DEF DamageInv
      <4> QED  BY <2>1, <3>1, <4>3, <4>4, TypeNext DEF DamageInv
    <3> QED  BY <2>1, <3>2, <3>3, <3>4, SaveSteps, TypeNext
  <2> QED  BY <2>2, <2>3
<1>3. DamageInv => DamageExplained
    BY DEF DamageInv, DamageExplained
<1> QED  BY <1>1, <1>2, <1>3, PTL DEF HSpec

-----------------------------------------------------------------------------
(* A save that nobody else's overlapped still has what is in the file.     *)
LoadedInv ==
    \A p \in Servers :
        /\ save[p].cut => Writing(p)
        /\ Saving(p) /\ p \notin overlapped =>
               save[p].loaded = file.cookies /\ ~save[p].cut

LEMMA LoadedStep == TypeInv /\ LoadedInv /\ [HNext]_hvars => LoadedInv'
<1> SUFFICES ASSUME TypeInv, LoadedInv, [HNext]_hvars, NEW p \in Servers
             PROVE  /\ save'[p].cut => Writing(p)'
                    /\ Saving(p)' /\ p \notin overlapped' =>
                           save'[p].loaded = file'.cookies /\ ~save'[p].cut
    BY DEF LoadedInv, Writing, Saving
<1>1. [Next]_vars
    BY DEF HNext, hvars, vars
<1>2. CASE UNCHANGED hvars
    BY <1>2 DEF hvars, LoadedInv, Writing, Saving
<1>3. CASE HNext
  <2>1. Saving(p)' /\ p \notin overlapped' =>
            /\ p \notin overlapped
            /\ \A q \in Servers \ {p} : ~Writing(q) /\ ~Writing(q)'
      BY <1>3 DEF HNext
  <2>2. ASSUME NEW q \in Servers, OpenFile(q)
        PROVE  /\ save'[p].cut => Writing(p)'
               /\ Saving(p)' /\ p \notin overlapped' =>
                     save'[p].loaded = file'.cookies /\ ~save'[p].cut
    <3>1. ~save'[p].cut /\ save'[p].loaded = save[p].loaded
          /\ file'.cookies = file.cookies /\ (Saving(p)' => Saving(p))
        BY <2>2, Locals DEF OpenFile, SaveType, Saving, TypeInv
    <3> QED  BY <2>1, <3>1 DEF LoadedInv
  <2>3. ASSUME NEW q \in Servers, WriteFile(q)
        PROVE  /\ save'[p].cut => Writing(p)'
               /\ Saving(p)' /\ p \notin overlapped' =>
                     save'[p].loaded = file'.cookies /\ ~save'[p].cut
    <3>1. CASE p = q
        BY <2>3, <3>1 DEF WriteFile, NoSave, Saving
    <3>2. CASE p # q
      <4>1. p \in overlapped' \/ ~Saving(p)'
          BY <2>1, <2>3, <3>2 DEF WriteFile, Writing
      <4>2. save'[p].cut => Writing(p)'
        <5>1. CASE save[p].phase = "write"
            BY <2>3, <3>2, <5>1, Locals DEF WriteFile, SaveType, Writing
        <5>2. CASE save[p].phase # "write"
            BY <2>3, <3>2, <5>2 DEF WriteFile, LoadedInv, Writing
        <5> QED  BY <5>1, <5>2
      <4> QED  BY <4>1, <4>2
    <3> QED  BY <3>1, <3>2
  <2>4. CASE file' = file /\ \A q \in Servers : SaverKept(q)
    <3>1. CASE save'[p] = save[p]
        BY <2>1, <2>4, <3>1 DEF LoadedInv, Writing, Saving
    <3>2. CASE save'[p].phase = "none" /\ ~save'[p].cut
        BY <3>2 DEF Saving
    <3>3. CASE /\ ~Saving(p) /\ ~Writing(p)' /\ (save'[p].cut => save[p].cut)
               /\ Saving(p)' => save'[p].loaded = file.cookies
        BY <2>4, <3>3 DEF LoadedInv, Writing, Saving
    <3> QED  BY <2>4, <3>1, <3>2, <3>3 DEF SaverKept
  <2> QED  BY <1>1, <2>2, <2>3, <2>4, SaveSteps
<1> QED  BY <1>2, <1>3

(* A save that runs alone leaves the cookies of the other cells and a file *)
(* that can be read; the overlaps that take this away are the only ones.   *)
THEOREM LoneSavesKeepOthers == HSpec => SavesKeepOthers
<1> DEFINE Kept(p) ==
        Writing(p) /\ save'[p].phase = "validate" /\ p \notin overlapped =>
            /\ file'.whole
            /\ file'.cookies = [file.cookies EXCEPT
                                  ![Head(save[p].cells)] = save[p].cookie]
<1>1. HInit => TypeInv /\ LoadedInv
  <2> SUFFICES ASSUME HInit  PROVE TypeInv /\ LoadedInv
      OBVIOUS
  <2>1. TypeInv /\ \A p \in Servers : save[p] = NoSave
      BY TypeInit DEF HInit, Init
  <2> QED  BY <2>1 DEF LoadedInv, NoSave, Saving
<1>2. TypeInv /\ LoadedInv /\ [HNext]_hvars => TypeInv' /\ LoadedInv'
    BY TypeNext, LoadedStep DEF HNext, hvars, vars
<1>3. TypeInv /\ LoadedInv /\ [HNext]_hvars => [\A p \in Servers : Kept(p)]_hvars
  <2> SUFFICES ASSUME TypeInv, LoadedInv, [HNext]_hvars, NEW p \in Servers,
                      Writing(p), save'[p].phase = "validate", p \notin overlapped
               PROVE  Kept(p)
      OBVIOUS
  <2>1. [Next]_vars
      BY DEF HNext, hvars, vars
  <2>2. ASSUME NEW q \in Servers, OpenFile(q)  PROVE Kept(p)
      BY <2>2, Locals DEF OpenFile, SaveType, Writing
  <2>3. ASSUME NEW q \in Servers, WriteFile(q)  PROVE Kept(p)
    <3>1. CASE q # p
        BY <2>3, <3>1, Locals DEF WriteFile, SaveType, Writing
    <3>2. CASE q = p
      <4>1. save[p].loaded = file.cookies /\ ~save[p].cut
          BY DEF LoadedInv, Saving, Writing
      <4>2. file'.whole /\ file'.cookies = [save[p].loaded EXCEPT
                                              ![Cell(p)] = save[p].cookie]
          BY <2>3, <3>2, <4>1 DEF WriteFile
      <4> QED  BY <4>1, <4>2 DEF Cell
    <3> QED  BY <3>1, <3>2
  <2>4. CASE file' = file /\ \A q \in Servers : SaverKept(q)
      BY <2>4 DEF SaverKept, Saving, Writing
  <2> QED  BY <2>1, <2>2, <2>3, <2>4, SaveSteps
<1> QED  BY <1>1, <1>2, <1>3, PTL DEF HSpec, SavesKeepOthers

-----------------------------------------------------------------------------
(* Nobody else's step touches a call or the course of its login.           *)
LEMMA OthersKept ==
    ASSUME TypeInv, NEW p \in Servers, NEW q \in Servers, q # p,
           Saver(p) \/ CallTool(p) \/ Tool(p)
    PROVE  /\ call'[q] = call[q] /\ save'[q].phase = save[q].phase
           /\ save'[q].cells = save[q].cells
<1>1. ASSUME OpenFile(p) \/ WriteFile(p)
      PROVE  /\ call'[q] = call[q] /\ save'[q].phase = save[q].phase
             /\ save'[q].cells = save[q].cells
  <2>1. save[q] \in SaveType(Len(session))
      BY Locals
  <2>2. CASE OpenFile(p)
      BY <2>1, <2>2 DEF OpenFile, SaveType
  <2>3. CASE WriteFile(p)
    <3>1. CASE save[q].phase = "write"
        BY <2>1, <2>3, <3>1 DEF WriteFile, SaveType
    <3>2. CASE save[q].phase # "write"
        BY <2>3, <3>2 DEF WriteFile
    <3> QED  BY <2>3, <3>1, <3>2 DEF WriteFile
  <2> QED  BY <1>1, <2>2, <2>3
<1>2. ASSUME save'[q] = save[q], call'[q] = call[q]
      PROVE  /\ call'[q] = call[q] /\ save'[q].phase = save[q].phase
             /\ save'[q].cells = save[q].cells
    BY <1>2
<1>3. SignIn(p) \/ NoSignIn(p) \/ LoadCookies(p) \/ Validate(p) =>
          save'[q] = save[q] /\ call'[q] = call[q]
    BY DEF SignIn, NoSignIn, LoadCookies, Validate, Finished, Crash, TypeInv
<1>4. CallTool(p) => save'[q] = save[q] /\ call'[q] = call[q]
    BY DEF CallTool, TypeInv
<1>5. GetCookie(p) \/ EnsureAuth(p) \/ Request(p) =>
          save'[q] = save[q] /\ call'[q] = call[q]
    BY DEF GetCookie, EnsureAuth, Request, Relogin, Answer, TypeInv
<1>6. Reread(p) \/ Report(p) \/ LoginTimesOut(p) \/ Return(p) =>
          save'[q] = save[q] /\ call'[q] = call[q]
    BY DEF Reread, Report, LoginTimesOut, Return, Answer, TypeInv
<1> QED  BY <1>1, <1>2, <1>3, <1>4, <1>5, <1>6 DEF Saver, Tool

(* The login process of a single cell ends well only if the cookie then in *)
(* the file is good.                                                       *)
LEMMA SaverOwn ==
    ASSUME TypeInv, NEW p \in Servers, Saver(p)
    PROVE  /\ call' = call /\ save[p].phase # "none"
           /\ Len(call[p].cells) = 1 /\ save[p].cells = call[p].cells =>
                 /\ save'[p].cells = save[p].cells
                 /\ save'[p].phase = "ok" => Head(call[p].cells) \in Good'
<1>0. save[p] \in SaveType(Len(session))
    BY Locals
<1>1. call' = call /\ save[p].phase # "none"
    BY DEF Saver, SignIn, NoSignIn, LoadCookies, OpenFile, WriteFile, Validate
<1> SUFFICES ASSUME Len(call[p].cells) = 1, save[p].cells = call[p].cells
             PROVE  /\ save'[p].cells = save[p].cells
                    /\ save'[p].phase = "ok" => Head(call[p].cells) \in Good'
    BY <1>1
<1>2. ASSUME NEW valid, Finished(p, valid)
      PROVE  save'[p].cells = save[p].cells /\ (save'[p].phase = "ok" => valid)
    BY <1>0, <1>2 DEF Finished, TypeInv, SaveType
<1>3. ASSUME Crash(p)
      PROVE  save'[p].cells = save[p].cells /\ save'[p].phase = "failed"
    BY <1>0, <1>3 DEF Crash, TypeInv, SaveType
<1>4. CASE SignIn(p) \/ OpenFile(p) \/ WriteFile(p)
  <2>1. CASE SignIn(p)
      BY <1>0, <2>1 DEF SignIn, TypeInv, SaveType
  <2>2. CASE OpenFile(p)
      BY <1>0, <2>2 DEF OpenFile, SaveType
  <2>3. CASE WriteFile(p)
      BY <1>0, <2>3 DEF WriteFile, NoSave
  <2> QED  BY <1>4, <2>1, <2>2, <2>3
<1>5. CASE NoSignIn(p)
    BY <1>2, <1>3, <1>5 DEF NoSignIn
<1>6. CASE LoadCookies(p)
  <2>1. CASE file.whole
      BY <1>0, <1>6, <2>1 DEF LoadCookies, TypeInv, SaveType
  <2>2. CASE ~file.whole
      BY <1>3, <1>6, <2>2 DEF LoadCookies
  <2> QED  BY <2>1, <2>2
<1>7. CASE Validate(p)
  <2>1. CASE ~file.whole
      BY <1>3, <1>7, <2>1 DEF Validate
  <2>2. CASE file.whole
    <3>1. PICK valid \in Answers(file.cookies[Cell(p)], Cell(p)) :
              Finished(p, valid)
        BY <1>7, <2>2 DEF Validate
    <3>2. valid => Accepted(file.cookies[Cell(p)], Cell(p))
        BY <3>1 DEF Answers
    <3>3. Cell(p) \in CellNames /\ Cell(p) = Head(call[p].cells)
      <4>1. call[p].cells \in Seq(CellNames) /\ call[p].cells # <<>>
          BY <1>0, <1>1, Locals DEF SaveType, Matched
      <4> QED  BY <4>1 DEF Cell
    <3>4. file' = file /\ session' = session
        BY <1>7 DEF Validate
    <3>5. valid => Cell(p) \in Good'
        BY <2>2, <3>2, <3>3, <3>4 DEF Good, Accepted
    <3> QED  BY <1>2, <3>1, <3>3, <3>5
  <2> QED  BY <2>1, <2>2
<1> QED  BY <1>4, <1>5, <1>6, <1>7 DEF Saver

LoginInv(q) ==
    call[q].tool = "login" /\ Len(call[q].cells) = 1 =>
        /\ save[q].phase # "none" => save[q].cells = call[q].cells
        /\ save[q].phase = "ok" => Head(call[q].cells) \in seen[q]
        /\ call[q].answer = "ok" => Head(call[q].cells) \in seen[q]

(* What a call keeps while it goes on, and what it must have seen.         *)
LEMMA LoginCarried ==
    ASSUME NEW q \in Servers, HNext, LoginInv(q),
           call'[q].tool = call[q].tool, call'[q].cells = call[q].cells,
           call'[q].answer = "ok" => call[q].answer = "ok" \/ save[q].phase = "ok",
           call[q].tool = "login" /\ Len(call[q].cells) = 1 =>
              /\ save'[q].phase # "none" => save'[q].cells = call[q].cells
              /\ save'[q].phase = "ok" =>
                    save[q].phase = "ok" \/ Head(call[q].cells) \in Good'
    PROVE  LoginInv(q)'
<1> SUFFICES ASSUME call'[q].tool = "login", Len(call'[q].cells) = 1
             PROVE  /\ save'[q].phase # "none" => save'[q].cells = call'[q].cells
                    /\ save'[q].phase = "ok" => Head(call'[q].cells) \in seen'[q]
                    /\ call'[q].answer = "ok" => Head(call'[q].cells) \in seen'[q]
    BY DEF LoginInv
<1>1. seen'[q] = (seen[q] \cup Good') \cap {Head(call[q].cells)}
  <2>1. seen'[q] = IF call'[q].tool # "login" \/ Len(call'[q].cells) > 1 THEN {}
                   ELSE (seen[q] \cup Good') \cap {Head(call'[q].cells)}
      BY DEF HNext
  <2>2. ~(Len(call'[q].cells) > 1)
      OBVIOUS
  <2> QED  BY <2>1, <2>2
<1> QED  BY <1>1 DEF LoginInv

LEMMA LoginTool ==
    ASSUME TypeInv, NEW p \in Servers, HNext, LoginInv(p), Tool(p)
    PROVE  LoginInv(p)'
<1>0. call[p] \in CallType(Len(session)) /\ Matched(call[p], save[p])
    BY Locals
<1>1. CASE Return(p)
    BY <1>1 DEF Return, NoCall, LoginInv, TypeInv
<1>2. CASE GetCookie(p) \/ EnsureAuth(p) \/ Request(p) \/ Reread(p)
  <2>1. call[p].tool = "query"
      BY <1>0, <1>2 DEF Matched, GetCookie, EnsureAuth, Request, Reread
  <2>2. ASSUME NEW answer, Answer(p, answer)  PROVE call'[p].tool = "query"
      BY <1>0, <2>1, <2>2 DEF Answer, TypeInv, CallType
  <2>3. ASSUME NEW phase, call' = [call EXCEPT ![p].phase = phase]
        PROVE  call'[p].tool = "query"
      BY <1>0, <2>1, <2>3 DEF TypeInv, CallType
  <2>4. ASSUME NEW phase, NEW held,
               call' = [call EXCEPT ![p].phase = phase, ![p].held = held]
        PROVE  call'[p].tool = "query"
      BY <1>0, <2>1, <2>4 DEF TypeInv, CallType
  <2>5. ASSUME NEW phase, NEW retried,
               call' = [call EXCEPT ![p].phase = phase, ![p].retried = retried]
        PROVE  call'[p].tool = "query"
      BY <1>0, <2>1, <2>5 DEF TypeInv, CallType
  <2>6. CASE GetCookie(p)
      BY <2>2, <2>3, <2>4, <2>6 DEF GetCookie, Relogin, LoginInv
  <2>7. CASE EnsureAuth(p)
      BY <2>2, <2>3, <2>7 DEF EnsureAuth, Relogin, LoginInv
  <2>8. CASE Request(p)
      BY <2>2, <2>5, <2>8 DEF Request, LoginInv
  <2>9. CASE Reread(p)
    <3>1. CASE Answer(p, "error")
        BY <2>2, <3>1 DEF LoginInv
    <3>2. CASE call' = [call EXCEPT ![p].phase = "request",
                          ![p].held = IF file.cookies[Asked(p)] = NoCookie THEN @
                                      ELSE file.cookies[Asked(p)]]
        BY <1>0, <2>1, <3>2 DEF TypeInv, CallType, LoginInv
    <3> QED  BY <2>9, <3>1, <3>2 DEF Reread
  <2> QED  BY <1>2, <2>6, <2>7, <2>8, <2>9
<1>3. CASE Report(p) \/ LoginTimesOut(p)
  <2>1. PICK answer \in {"ok", "error", "timeout"} :
            Answer(p, answer) /\ (answer = "ok" => save[p].phase = "ok")
      BY <1>3 DEF Report, LoginTimesOut
  <2>2. /\ call'[p].tool = call[p].tool /\ call'[p].cells = call[p].cells
        /\ call'[p].answer = answer
      BY <1>0, <2>1 DEF Answer, TypeInv, CallType
  <2>3. save'[p].phase = "none"
      BY <1>3 DEF Report, LoginTimesOut, NoSave, TypeInv
  <2> QED  BY <2>1, <2>2, <2>3, LoginCarried
<1> QED  BY <1>1, <1>2, <1>3 DEF Tool

LEMMA LoginCallTool ==
    ASSUME TypeInv, NEW p \in Servers, HNext, CallTool(p)
    PROVE  LoginInv(p)'
<1>1. ASSUME NEW cells,
             call' = [call EXCEPT ![p] = [NoCall EXCEPT !.tool = "login",
                        !.cells = cells, !.phase = "login"]],
             save' = [save EXCEPT ![p] = Browser(cells)]
      PROVE  LoginInv(p)'
  <2>1. call'[p].cells = cells /\ call'[p].answer = "none"
      BY <1>1 DEF NoCall, TypeInv
  <2>2. save'[p].cells = cells /\ save'[p].phase = "browser"
      BY <1>1 DEF Browser, NoSave, TypeInv
  <2> QED  BY <2>1, <2>2 DEF LoginInv
<1>2. ASSUME NEW c, NEW tool \in {"query", "save"}, NEW phase,
             call' = [call EXCEPT ![p] = [NoCall EXCEPT !.tool = tool,
                        !.cells = <<c>>, !.phase = phase]]
      PROVE  LoginInv(p)'
    BY <1>2 DEF NoCall, TypeInv, LoginInv
<1> QED  BY <1>1, <1>2 DEF CallTool

(* The login tool never tells of a cell it is signed in to while the file  *)
(* held no good cookie of it during the whole call.                        *)
THEOREM LoginOkIsTrue == HSpec => []LoginOkTrue
<1> DEFINE Inv == \A q \in Servers : LoginInv(q)
<1>1. HInit => TypeInv /\ Inv
  <2> SUFFICES ASSUME HInit  PROVE TypeInv /\ Inv
      OBVIOUS
  <2>1. TypeInv /\ \A q \in Servers : call[q] = NoCall
      BY TypeInit DEF HInit, Init
  <2> QED  BY <2>1 DEF LoginInv, NoCall
<1>2. TypeInv /\ Inv /\ [HNext]_hvars => TypeInv' /\ Inv'
  <2>0. TypeInv /\ [HNext]_hvars => TypeInv'
      BY TypeNext DEF HNext, hvars, vars
  <2> SUFFICES ASSUME TypeInv, Inv, [HNext]_hvars, NEW q \in Servers
               PROVE  LoginInv(q)'
      BY <2>0
  <2>1. LoginInv(q)
      OBVIOUS
  <2>2. CASE UNCHANGED hvars
      BY <2>1, <2>2 DEF hvars, LoginInv
  <2>3. CASE HNext
    <3>1. ASSUME call' = call, save' = save  PROVE LoginInv(q)'
        BY <2>1, <2>3, <3>1, LoginCarried DEF LoginInv
    <3>2. ASSUME NEW p \in Servers, Saver(p) \/ CallTool(p) \/ Tool(p)
          PROVE  LoginInv(q)'
      <4>1. CASE q # p
          BY <2>1, <2>3, <3>2, <4>1, OthersKept, LoginCarried DEF LoginInv
      <4>2. CASE q = p /\ Saver(p)
          BY <2>1, <2>3, <4>2, SaverOwn, LoginCarried DEF LoginInv
      <4>3. CASE q = p /\ (CallTool(p) \/ Tool(p))
          BY <2>1, <2>3, <4>3, LoginCallTool, LoginTool
      <4> QED  BY <3>2, <4>1, <4>2, <4>3
    <3> QED  BY <2>1, <2>3, <3>1, <3>2 DEF HNext, Next, Expire
  <2> QED  BY <2>1, <2>2, <2>3
<1>3. Inv => LoginOkTrue
    BY DEF LoginInv, LoginOkTrue
<1> QED  BY <1>1, <1>2, <1>3, PTL DEF HSpec

-----------------------------------------------------------------------------
(* How many browsers a data tool has opened, by where it is.               *)
QueryInv(q) ==
    /\ browsers[q] \in Nat
    /\ call[q].phase = "idle" => call[q].tool # "query"
    /\ call[q].tool # "query" => browsers[q] = 0
    /\ call[q].tool = "query" => browsers[q] <= 2
    /\ call[q].tool = "query" /\ call[q].phase \in {"check", "ensure"} =>
          browsers[q] = 0 /\ ~call[q].retried
    /\ (/\ call[q].tool = "query" /\ call[q].phase \in {"login", "request"}
        /\ ~call[q].retried) => browsers[q] <= 1

LEMMA QueryCarried ==
    ASSUME NEW q \in Servers, HNext, QueryInv(q), call'[q] = call[q],
           save'[q].phase = "browser" => save[q].phase # "none"
    PROVE  QueryInv(q)'
<1>1. browsers'[q] = IF call'[q].tool # "query" THEN 0 ELSE browsers[q]
    BY DEF HNext
<1> QED  BY <1>1 DEF QueryInv

(* A step of a data tool's own: it goes on without a login, or opens one.  *)
LEMMA QueryGoesOn ==
    ASSUME NEW q \in Servers, HNext, QueryInv(q), call[q].tool = "query",
           call'[q].tool = "query", save'[q].phase # "browser",
           \/ call'[q].phase = "done"
           \/ call'[q].phase = "ensure" /\ call[q].phase = "check"
           \/ /\ call'[q].phase = "request"
              /\ call[q].phase \in {"ensure", "login", "request"},
           call'[q].phase # "done" => call'[q].retried = call[q].retried
    PROVE  QueryInv(q)'
<1>1. browsers'[q] = browsers[q]
    BY DEF HNext
<1> QED  BY <1>1 DEF QueryInv

LEMMA QueryOpens ==
    ASSUME NEW q \in Servers, HNext, QueryInv(q), call[q].tool = "query",
           call'[q].tool = "query", call'[q].phase = "login",
           \/ call[q].phase \in {"check", "ensure"}
           \/ call[q].phase = "request" /\ ~call[q].retried /\ call'[q].retried
    PROVE  QueryInv(q)'
<1>1. \/ browsers'[q] = browsers[q]
      \/ browsers'[q] = browsers[q] + 1
    BY DEF HNext
<1> QED  BY <1>1 DEF QueryInv

LEMMA NoQuery ==
    ASSUME NEW q \in Servers, HNext, call'[q].tool # "query"
    PROVE  QueryInv(q)'
<1>1. browsers'[q] = 0
    BY DEF HNext
<1> QED  BY <1>1 DEF QueryInv

LEMMA QueryTool ==
    ASSUME TypeInv, NEW p \in Servers, HNext, QueryInv(p), Tool(p)
    PROVE  QueryInv(p)'
<1>0. call[p] \in CallType(Len(session)) /\ Matched(call[p], save[p])
    BY Locals
<1>1. ASSUME NEW answer, Answer(p, answer)
      PROVE  call'[p].phase = "done" /\ call'[p].tool = call[p].tool
    BY <1>0, <1>1 DEF Answer, TypeInv, CallType
<1>2. ASSUME NEW answer, Answer(p, answer), save'[p].phase # "browser"
      PROVE  QueryInv(p)'
    BY <1>1, <1>2, NoQuery, QueryGoesOn
<1>3. ASSUME save' = save, call[p].phase # "login"
      PROVE  save'[p].phase # "browser"
    BY <1>0, <1>3 DEF Matched
<1>4. ASSUME save' = [save EXCEPT ![p] = NoSave]  PROVE save'[p].phase # "browser"
    BY <1>4 DEF NoSave, TypeInv
<1>5. ASSUME call[p].tool = "query", Relogin(p), call[p].phase \in {"check", "ensure"}
      PROVE  QueryInv(p)'
  <2>1. call'[p].tool = "query" /\ call'[p].phase = "login"
      BY <1>0, <1>5 DEF Relogin, TypeInv, CallType
  <2> QED  BY <1>5, <2>1, QueryOpens
<1>6. ASSUME NEW phase \in {"ensure", "request"}, NEW held, call[p].tool = "query",
             \/ call' = [call EXCEPT ![p].phase = phase, ![p].held = held]
             \/ call' = [call EXCEPT ![p].phase = phase]
      PROVE  call'[p].tool = "query" /\ call'[p].phase = phase
             /\ call'[p].retried = call[p].retried
    BY <1>0, <1>6 DEF TypeInv, CallType
<1>7. CASE GetCookie(p)
  <2>1. call[p].tool = "query" /\ call[p].phase = "check"
      BY <1>0, <1>7 DEF GetCookie, Matched
  <2>2. CASE Answer(p, "error") /\ UNCHANGED save
      BY <1>2, <1>3, <2>1, <2>2
  <2>3. CASE Relogin(p)
      BY <1>5, <2>1, <2>3
  <2>4. CASE /\ call' = [call EXCEPT ![p].phase = "ensure",
                                     ![p].held = file.cookies[Asked(p)]]
             /\ UNCHANGED save
    <3>1. /\ call'[p].tool = "query" /\ call'[p].phase = "ensure"
          /\ call'[p].retried = call[p].retried
        BY <1>6, <2>1, <2>4
    <3> QED  BY <1>3, <2>1, <2>4, <3>1, QueryGoesOn
  <2> QED  BY <1>7, <2>2, <2>3, <2>4 DEF GetCookie
<1>8. CASE EnsureAuth(p)
  <2>1. call[p].tool = "query" /\ call[p].phase = "ensure"
      BY <1>0, <1>8 DEF EnsureAuth, Matched
  <2>2. CASE Answer(p, "error") /\ UNCHANGED save
      BY <1>2, <1>3, <2>1, <2>2
  <2>3. CASE Relogin(p)
      BY <1>5, <2>1, <2>3
  <2>4. CASE call' = [call EXCEPT ![p].phase = "request"] /\ UNCHANGED save
    <3>1. /\ call'[p].tool = "query" /\ call'[p].phase = "request"
          /\ call'[p].retried = call[p].retried
        BY <1>6, <2>1, <2>4
    <3> QED  BY <1>3, <2>1, <2>4, <3>1, QueryGoesOn
  <2> QED  BY <1>8, <2>2, <2>3, <2>4 DEF EnsureAuth
<1>9. CASE Reread(p)
  <2>1. call[p].tool = "query" /\ call[p].phase = "login" /\ save'[p].phase # "browser"
      BY <1>4, <1>9 DEF Reread
  <2>2. CASE Answer(p, "error")
      BY <1>2, <2>1, <2>2
  <2>3. CASE call' = [call EXCEPT ![p].phase = "request",
                        ![p].held = IF file.cookies[Asked(p)] = NoCookie THEN @
                                    ELSE file.cookies[Asked(p)]]
    <3>1. /\ call'[p].tool = "query" /\ call'[p].phase = "request"
          /\ call'[p].retried = call[p].retried
        BY <1>0, <2>1, <2>3 DEF TypeInv, CallType
    <3> QED  BY <2>1, <3>1, QueryGoesOn
  <2> QED  BY <1>9, <2>2, <2>3 DEF Reread
<1>10. CASE Request(p)
  <2>1. call[p].tool = "query" /\ call[p].phase = "request"
      BY <1>0, <1>10 DEF Request, Matched
  <2>2. CASE (Answer(p, "ok") \/ Answer(p, "error")) /\ UNCHANGED save
      BY <1>2, <1>3, <2>1, <2>2
  <2>3. CASE /\ ~call[p].retried
             /\ call' = [call EXCEPT ![p].phase = "login", ![p].retried = TRUE]
    <3>1. call'[p].tool = "query" /\ call'[p].phase = "login" /\ call'[p].retried
        BY <1>0, <2>1, <2>3 DEF TypeInv, CallType
    <3> QED  BY <2>1, <2>3, <3>1, QueryOpens
  <2> QED  BY <1>10, <2>2, <2>3 DEF Request
<1>11. CASE Report(p)
  <2>1. PICK answer : Answer(p, answer)
      BY <1>11 DEF Report
  <2> QED  BY <1>2, <1>4, <1>11, <2>1 DEF Report
<1>12. CASE LoginTimesOut(p)
    BY <1>2, <1>4, <1>12 DEF LoginTimesOut
<1>13. CASE Return(p)
    BY <1>13, NoQuery DEF Return, NoCall, TypeInv
<1> QED  BY <1>7, <1>8, <1>9, <1>10, <1>11, <1>12, <1>13 DEF Tool

LEMMA QueryCallTool ==
    ASSUME TypeInv, NEW p \in Servers, HNext, QueryInv(p), CallTool(p)
    PROVE  QueryInv(p)'
<1>1. ASSUME NEW c, save' = save,
             call' = [call EXCEPT ![p] = [NoCall EXCEPT !.tool = "query",
                        !.cells = <<c>>, !.phase = "check"]]
      PROVE  QueryInv(p)'
  <2>1. call'[p].tool = "query" /\ call'[p].phase = "check" /\ ~call'[p].retried
      BY <1>1 DEF NoCall, TypeInv
  <2>2. browsers[p] = 0
      BY DEF QueryInv, CallTool
  <2>3. browsers'[p] = 0
      BY <1>1, <2>1, <2>2 DEF HNext
  <2> QED  BY <2>1, <2>3 DEF QueryInv
<1>2. ASSUME NEW cells, NEW tool \in {"login", "save"},
             call' = [call EXCEPT ![p] = [NoCall EXCEPT !.tool = tool,
                        !.cells = cells, !.phase = "login"]]
      PROVE  QueryInv(p)'
    BY <1>2, NoQuery DEF NoCall, TypeInv
<1> QED  BY <1>1, <1>2 DEF CallTool

(* However its cookies come and go, a data tool opens at most two browsers *)
(* (one before its request, one after a 401).                              *)
THEOREM BrowsersAreFew == HSpec => []FewBrowsers
<1> DEFINE Inv == \A q \in Servers : QueryInv(q)
<1>1. HInit => TypeInv /\ Inv
  <2> SUFFICES ASSUME HInit  PROVE TypeInv /\ Inv
      OBVIOUS
  <2>1. TypeInv /\ \A q \in Servers : call[q] = NoCall /\ browsers[q] = 0
      BY TypeInit DEF HInit, Init
  <2> QED  BY <2>1 DEF QueryInv, NoCall
<1>2. TypeInv /\ Inv /\ [HNext]_hvars => TypeInv' /\ Inv'
  <2>0. TypeInv /\ [HNext]_hvars => TypeInv'
      BY TypeNext DEF HNext, hvars, vars
  <2> SUFFICES ASSUME TypeInv, Inv, [HNext]_hvars, NEW q \in Servers
               PROVE  QueryInv(q)'
      BY <2>0
  <2>1. QueryInv(q)
      OBVIOUS
  <2>2. CASE UNCHANGED hvars
      BY <2>1, <2>2 DEF hvars, QueryInv
  <2>3. CASE HNext
    <3>1. ASSUME call' = call, save' = save  PROVE QueryInv(q)'
        BY <2>1, <2>3, <3>1, QueryCarried
    <3>2. ASSUME NEW p \in Servers, Saver(p) \/ CallTool(p) \/ Tool(p)
          PROVE  QueryInv(q)'
      <4>1. CASE q # p
          BY <2>1, <2>3, <3>2, <4>1, OthersKept, QueryCarried
      <4>2. CASE q = p /\ Saver(p)
          BY <2>1, <2>3, <4>2, SaverOwn, QueryCarried
      <4>3. CASE q = p /\ (CallTool(p) \/ Tool(p))
          BY <2>1, <2>3, <4>3, QueryCallTool, QueryTool
      <4> QED  BY <3>2, <4>1, <4>2, <4>3
    <3> QED  BY <2>1, <2>3, <3>1, <3>2 DEF HNext, Next, Expire
  <2> QED  BY <2>1, <2>2, <2>3
<1>3. Inv => FewBrowsers
    BY DEF QueryInv, FewBrowsers
<1> QED  BY <1>1, <1>2, <1>3, PTL DEF HSpec
=============================================================================
