-------------------------- MODULE WebBridge_proofs --------------------------
(***************************************************************************)
(* Proofs about WebBridge, for any number of browsers and whatever they    *)
(* may ask. IInv, the conjunction of what the run checks, is inductive:    *)
(* one lemma for what happens to connections, one for the handlers and one *)
(* for the shutdown.                                                       *)
(***************************************************************************)
EXTENDS WebBridge, TLAPS

IInv == Types /\ ConnectionsMatch /\ ShutdownMatches /\ EndsAreAccounted

LEMMA InitIInv == Init => IInv
<1> SUFFICES ASSUME Init PROVE IInv
  OBVIOUS
<1> USE WebAssumption DEF Init
<1>1. Types
  BY DEF Types, Stages
<1>2. ConnectionsMatch
  BY DEF ConnectionsMatch
<1>3. ShutdownMatches
  BY DEF ShutdownMatches
<1>4. EndsAreAccounted
  BY DEF EndsAreAccounted, EndAccounted
<1>5. QED
  BY <1>1, <1>2, <1>3, <1>4 DEF IInv


\* What browsers and net/http do to a connection.
LEMMA ConnectionPreserves ==
  ASSUME IInv, NEW c \in Browsers,
         Stall(c) \/ Leave(c) \/ Accept(c) \/ Register(c) \/
         HangUp(c) \/ (\E r \in Asks[c] : ReadRequest(c, r)) \/ Activate(c) \/ NoticeEnd(c) \/
         Finish(c)
  PROVE  IInv'
<1> USE WebAssumption, IInv DEF IInv, Writing, Waiting, Handling, Stages, Stopping, Causes, DaemonErrors,
        connVars, handlerVars, mainVars
<1>1. ASSUME Stall(c)
      PROVE  IInv'
  <2> USE <1>1 DEF Stall
  <2>1. Types'
    BY DEF Types
  <2>2. ConnectionsMatch'
    BY DEF Types, ConnectionsMatch
  <2>3. ShutdownMatches'
    BY DEF Types, ConnectionsMatch, ShutdownMatches
  <2>4. EndsAreAccounted'
    BY DEF Types, ConnectionsMatch, EndsAreAccounted, EndAccounted, Quietly, Ended
  <2>5. QED
    BY <2>1, <2>2, <2>3, <2>4 DEF IInv
<1>2. ASSUME Leave(c)
      PROVE  IInv'
  <2> USE <1>2 DEF Leave
  <2>1. Types'
    BY DEF Types
  <2>2. ConnectionsMatch'
    BY DEF Types, ConnectionsMatch
  <2>3. ShutdownMatches'
    BY DEF Types, ConnectionsMatch, ShutdownMatches
  <2>4. EndsAreAccounted'
    BY DEF Types, ConnectionsMatch, EndsAreAccounted, EndAccounted, Quietly, Ended
  <2>5. QED
    BY <2>1, <2>2, <2>3, <2>4 DEF IInv
<1>3. ASSUME Accept(c)
      PROVE  IInv'
  <2> USE <1>3 DEF Accept
  <2>1. Types'
    BY DEF Types
  <2>2. ConnectionsMatch'
    BY DEF Types, ConnectionsMatch
  <2>3. ShutdownMatches'
    BY DEF Types, ConnectionsMatch, ShutdownMatches
  <2>4. EndsAreAccounted'
    BY DEF Types, ConnectionsMatch, EndsAreAccounted, EndAccounted, Quietly, Ended
  <2>5. QED
    BY <2>1, <2>2, <2>3, <2>4 DEF IInv
<1>4. ASSUME Register(c)
      PROVE  IInv'
  <2> USE <1>4 DEF Register, SetState, Changed
  <2>1. Types'
    BY DEF Types
  <2>2. ConnectionsMatch'
    BY DEF Types, ConnectionsMatch
  <2>3. ShutdownMatches'
    BY DEF Types, ConnectionsMatch, ShutdownMatches
  <2>4. EndsAreAccounted'
    BY DEF Types, ConnectionsMatch, EndsAreAccounted, EndAccounted, Quietly, Ended
  <2>5. QED
    BY <2>1, <2>2, <2>3, <2>4 DEF IInv
<1>5. ASSUME HangUp(c)
      PROVE  IInv'
  <2> USE <1>5 DEF HangUp, SetState, Changed
  <2>1. Types'
    BY DEF Types
  <2>2. ConnectionsMatch'
    BY DEF Types, ConnectionsMatch
  <2>3. ShutdownMatches'
    BY DEF Types, ConnectionsMatch, ShutdownMatches
  <2>4. EndsAreAccounted'
    BY DEF Types, ConnectionsMatch, EndsAreAccounted, EndAccounted, Quietly, Ended
  <2>5. QED
    BY <2>1, <2>2, <2>3, <2>4 DEF IInv
<1>6. ASSUME \E r \in Asks[c] : ReadRequest(c, r)
      PROVE  IInv'
  <2> USE <1>6 DEF ReadRequest
  <2>1. Types'
    BY DEF Types
  <2>2. ConnectionsMatch'
    BY DEF Types, ConnectionsMatch
  <2>3. ShutdownMatches'
    BY DEF Types, ConnectionsMatch, ShutdownMatches
  <2>4. EndsAreAccounted'
    BY DEF Types, ConnectionsMatch, EndsAreAccounted, EndAccounted, Quietly, Ended
  <2>5. QED
    BY <2>1, <2>2, <2>3, <2>4 DEF IInv
<1>7. ASSUME Activate(c)
      PROVE  IInv'
  <2> USE <1>7 DEF Activate, SetState, Changed
  <2>1. Types'
    BY DEF Types
  <2>2. ConnectionsMatch'
    BY DEF Types, ConnectionsMatch
  <2>3. ShutdownMatches'
    BY DEF Types, ConnectionsMatch, ShutdownMatches
  <2>4. EndsAreAccounted'
    BY DEF Types, ConnectionsMatch, EndsAreAccounted, EndAccounted, Quietly, Ended
  <2>5. QED
    BY <2>1, <2>2, <2>3, <2>4 DEF IInv
<1>8. ASSUME NoticeEnd(c)
      PROVE  IInv'
  <2> USE <1>8 DEF NoticeEnd
  <2>1. Types'
    BY DEF Types
  <2>2. ConnectionsMatch'
    BY DEF Types, ConnectionsMatch
  <2>3. ShutdownMatches'
    BY DEF Types, ConnectionsMatch, ShutdownMatches
  <2>4. EndsAreAccounted'
    BY DEF Types, ConnectionsMatch, EndsAreAccounted, EndAccounted, Quietly, Ended
  <2>5. QED
    BY <2>1, <2>2, <2>3, <2>4 DEF IInv
<1>9. ASSUME Finish(c)
      PROVE  IInv'
  <2> USE <1>9 DEF Finish, SetState, Changed
  <2>1. Types'
    BY DEF Types
  <2>2. ConnectionsMatch'
    BY DEF Types, ConnectionsMatch
  <2>3. ShutdownMatches'
    BY DEF Types, ConnectionsMatch, ShutdownMatches
  <2>4. EndsAreAccounted'
    BY DEF Types, ConnectionsMatch, EndsAreAccounted, EndAccounted, Quietly, Ended
  <2>5. QED
    BY <2>1, <2>2, <2>3, <2>4 DEF IInv
<1>10. QED
  BY <1>1, <1>2, <1>3, <1>4, <1>5, <1>6, <1>7, <1>8, <1>9

\* A handler that took no step, and whose request ended at most meanwhile, is
\* accounted for as it was.
LEMMA OthersAccounted ==
  ASSUME EndsAreAccounted, NEW d \in Browsers,
         stage'[d] = stage[d], failure'[d] = failure[d],
         told'[d] = told[d], logged'[d] = logged[d], Ended(d) => Ended(d)'
  PROVE  EndAccounted(d)'
  BY DEF EndsAreAccounted, EndAccounted, Quietly

\* The steps of a handler.
LEMMA HandlerPreserves ==
  ASSUME IInv, NEW c \in Browsers,
         Route(c) \/ DecodeBody(c) \/ Call(c) \/ Reply(c) \/
         Page(c) \/ Head(c) \/ Subscribe(c) \/ Receive(c) \/
         ReturnCanceled(c) \/ Send(c) \/ Report(c) \/ Last(c)
  PROVE  IInv'
<1> USE WebAssumption, IInv DEF IInv, Writing, Waiting, Handling, Stages, Stopping, Causes, DaemonErrors,
        connVars, handlerVars, mainVars, othersOfWrite
<1>1. ASSUME Route(c)
      PROVE  IInv'
  <2>1. PICK to \in {"reply", "page", "head", "body", "call"} : Enter(c, "route", to)
    BY <1>1 DEF Route
  <2>2. UNCHANGED <<failure, told, logged, othersOfWrite>>
    BY <1>1 DEF Route
  <2> USE <2>1, <2>2 DEF Enter, Go
  <2>3. Types'
    BY DEF Types
  <2>4. ConnectionsMatch'
    BY DEF Types, ConnectionsMatch
  <2>5. ShutdownMatches'
    BY DEF Types, ShutdownMatches
  <2>6. EndsAreAccounted'
    BY DEF Types, EndsAreAccounted, EndAccounted, Quietly, Ended
  <2>7. QED
    BY <2>3, <2>4, <2>5, <2>6 DEF IInv
<1>2. ASSUME DecodeBody(c)
      PROVE  IInv'
  <2> USE <1>2 DEF DecodeBody, Enter, Go
  <2>1. Types'
    BY DEF Types
  <2>2. ConnectionsMatch'
    BY DEF Types, ConnectionsMatch
  <2>3. ShutdownMatches'
    BY DEF Types, ConnectionsMatch, ShutdownMatches
  <2>4. EndsAreAccounted'
    BY DEF Types, ConnectionsMatch, EndsAreAccounted, EndAccounted, Quietly, Ended
  <2>5. QED
    BY <2>1, <2>2, <2>3, <2>4 DEF IInv
<1>3. ASSUME Call(c)
      PROVE  IInv'
  <2> USE <1>3 DEF Call, Enter, Go
  <2>1. Types'
    BY DEF Types
  <2>2. ConnectionsMatch'
    BY DEF Types, ConnectionsMatch
  <2>3. ShutdownMatches'
    BY DEF Types, ConnectionsMatch, ShutdownMatches
  <2>4. EndsAreAccounted'
    BY DEF Types, ConnectionsMatch, EndsAreAccounted, EndAccounted, Quietly, Ended
  <2>5. QED
    BY <2>1, <2>2, <2>3, <2>4 DEF IInv
<1>4. ASSUME Reply(c)
      PROVE  IInv'
  <2> USE <1>4 DEF Reply, WriteFails, GoesWrong, Return, Go
  <2>1. Types'
    BY DEF Types
  <2>2. ConnectionsMatch'
    BY DEF Types, ConnectionsMatch
  <2>3. ShutdownMatches'
    BY DEF Types, ConnectionsMatch, ShutdownMatches
  <2>4. EndsAreAccounted'
    <3>1. \A d \in Browsers \ {c} : EndAccounted(d)'
      BY OthersAccounted DEF Types, Ended
    <3>2. stage[c] = "reply" /\ told[c] = {} /\ logged[c] = {}
      BY DEF EndsAreAccounted, EndAccounted
    <3>3. ASSUME Return(c, "reply", {}), UNCHANGED <<failure, told>>
          PROVE  EndAccounted(c)'
      BY <3>2, <3>3 DEF Types, EndsAreAccounted, EndAccounted, Quietly, Ended
    <3>4. ASSUME WriteFails(c, "reply", {"delivery"}), UNCHANGED told
          PROVE  EndAccounted(c)'
      BY <3>2, <3>4 DEF Types, EndsAreAccounted, EndAccounted, Quietly, Ended
    <3>5. EndAccounted(c)'
      BY <3>3, <3>4
    <3>6. QED
      BY <3>1, <3>5 DEF EndsAreAccounted
  <2>5. QED
    BY <2>1, <2>2, <2>3, <2>4 DEF IInv
<1>5. ASSUME Page(c)
      PROVE  IInv'
  <2> USE <1>5 DEF Page, Return, Go
  <2>1. Types'
    BY DEF Types
  <2>2. ConnectionsMatch'
    BY DEF Types, ConnectionsMatch
  <2>3. ShutdownMatches'
    BY DEF Types, ConnectionsMatch, ShutdownMatches
  <2>4. EndsAreAccounted'
    BY DEF Types, ConnectionsMatch, EndsAreAccounted, EndAccounted, Quietly, Ended
  <2>5. QED
    BY <2>1, <2>2, <2>3, <2>4 DEF IInv
<1>6. ASSUME Head(c)
      PROVE  IInv'
  <2> USE <1>6 DEF Head, Flushed, WriteFails, GoesWrong, Return, Go
  <2>1. Types'
    BY DEF Types
  <2>2. ConnectionsMatch'
    BY DEF Types, ConnectionsMatch
  <2>3. ShutdownMatches'
    BY DEF Types, ConnectionsMatch, ShutdownMatches
  <2>4. EndsAreAccounted'
    <3>1. \A d \in Browsers \ {c} : EndAccounted(d)'
      BY OthersAccounted DEF Types, Ended
    <3>2. stage[c] = "head" /\ told[c] = {} /\ logged[c] = {}
      BY DEF EndsAreAccounted, EndAccounted
    <3>3. ASSUME Flushed(c, "head", "subscribe"), UNCHANGED told
          PROVE  EndAccounted(c)'
      BY <3>2, <3>3 DEF Types, EndsAreAccounted, EndAccounted, Quietly, Ended
    <3>4. ASSUME WriteFails(c, "head", {"delivery"}), UNCHANGED told
          PROVE  EndAccounted(c)'
      BY <3>2, <3>4 DEF Types, EndsAreAccounted, EndAccounted, Quietly, Ended
    <3>5. EndAccounted(c)'
      BY <3>3, <3>4
    <3>6. QED
      BY <3>1, <3>5 DEF EndsAreAccounted
  <2>5. QED
    BY <2>1, <2>2, <2>3, <2>4 DEF IInv
<1>7. ASSUME Subscribe(c)
      PROVE  IInv'
  <2> USE <1>7 DEF Subscribe, Enter, Judge, GoesWrong, QuietStreamEnd, Go
  <2>1. Types'
    BY DEF Types
  <2>2. ConnectionsMatch'
    BY DEF Types, ConnectionsMatch
  <2>3. ShutdownMatches'
    BY DEF Types, ConnectionsMatch, ShutdownMatches
  <2>4. EndsAreAccounted'
    <3>1. \A d \in Browsers \ {c} : EndAccounted(d)'
      BY OthersAccounted DEF Types, Ended
    <3>2. failure[c] = {} /\ told[c] = {} /\ logged[c] = {}
      BY DEF EndsAreAccounted, EndAccounted
    <3>3. ASSUME NEW causes \in DaemonErrors, Judge(c, "subscribe", causes)
          PROVE  EndAccounted(c)'
      BY <3>2, <3>3 DEF Types, EndAccounted, Quietly, Ended
    <3>4. ASSUME Enter(c, "subscribe", "receive"), UNCHANGED <<failure, told, logged>>
          PROVE  EndAccounted(c)'
      BY <3>2, <3>4 DEF Types, EndAccounted, Quietly, Ended
    <3>5. ASSUME Go(c, "subscribe", "report"), GoesWrong(c, {"other"}), UNCHANGED <<told, logged>>
          PROVE  EndAccounted(c)'
      BY <3>2, <3>5 DEF Types, EndAccounted
    <3>6. EndAccounted(c)'
      BY <3>3, <3>4, <3>5
    <3>7. QED
      BY <3>1, <3>6 DEF EndsAreAccounted
  <2>5. QED
    BY <2>1, <2>2, <2>3, <2>4 DEF IInv
<1>8. ASSUME Receive(c)
      PROVE  IInv'
  <2> USE <1>8 DEF Receive, Enter, Judge, GoesWrong, QuietStreamEnd, Go
  <2>1. Types'
    BY DEF Types
  <2>2. ConnectionsMatch'
    BY DEF Types, ConnectionsMatch
  <2>3. ShutdownMatches'
    BY DEF Types, ConnectionsMatch, ShutdownMatches
  <2>4. EndsAreAccounted'
    <3>1. \A d \in Browsers \ {c} : EndAccounted(d)'
      BY OthersAccounted DEF Types, Ended
    <3>2. failure[c] = {} /\ told[c] = {} /\ logged[c] = {}
      BY DEF EndsAreAccounted, EndAccounted
    <3>3. ASSUME NEW causes \in DaemonErrors, Judge(c, "receive", causes)
          PROVE  EndAccounted(c)'
      BY <3>2, <3>3 DEF Types, EndAccounted, Quietly, Ended
    <3>4. ASSUME Enter(c, "receive", IF Ended(c) THEN "flush" ELSE "send"), UNCHANGED <<failure, told, logged>>
          PROVE  EndAccounted(c)'
      BY <3>2, <3>4 DEF Types, EndAccounted, Quietly, Ended
    <3>5. ASSUME Go(c, "receive", "report"), GoesWrong(c, {"other"}), UNCHANGED <<told, logged>>
          PROVE  EndAccounted(c)'
      BY <3>2, <3>5 DEF Types, EndAccounted
    <3>6. EndAccounted(c)'
      BY <3>3, <3>4, <3>5
    <3>7. QED
      BY <3>1, <3>6 DEF EndsAreAccounted
  <2>5. QED
    BY <2>1, <2>2, <2>3, <2>4 DEF IInv
<1>9. ASSUME ReturnCanceled(c)
      PROVE  IInv'
  <2> USE <1>9 DEF ReturnCanceled, Judge, GoesWrong, QuietStreamEnd, Go
  <2>1. Types'
    BY DEF Types
  <2>2. ConnectionsMatch'
    BY DEF Types, ConnectionsMatch
  <2>3. ShutdownMatches'
    BY DEF Types, ConnectionsMatch, ShutdownMatches
  <2>4. EndsAreAccounted'
    BY DEF Types, ConnectionsMatch, EndsAreAccounted, EndAccounted, Quietly, Ended
  <2>5. QED
    BY <2>1, <2>2, <2>3, <2>4 DEF IInv
<1>10. ASSUME Send(c)
      PROVE  IInv'
  <2> USE <1>10 DEF Send, Flushed, WriteFails, GoesWrong, Return, Go
  <2>1. Types'
    BY DEF Types
  <2>2. ConnectionsMatch'
    BY DEF Types, ConnectionsMatch
  <2>3. ShutdownMatches'
    BY DEF Types, ConnectionsMatch, ShutdownMatches
  <2>4. EndsAreAccounted'
    <3>1. \A d \in Browsers \ {c} : EndAccounted(d)'
      BY OthersAccounted DEF Types, Ended
    <3>2. stage[c] = "send" /\ told[c] = {} /\ logged[c] = {}
      BY DEF EndsAreAccounted, EndAccounted
    <3>3. ASSUME Flushed(c, "send", "receive"), UNCHANGED told
          PROVE  EndAccounted(c)'
      BY <3>2, <3>3 DEF Types, EndsAreAccounted, EndAccounted, Quietly, Ended
    <3>4. ASSUME WriteFails(c, "send", {"delivery"}), UNCHANGED told
          PROVE  EndAccounted(c)'
      BY <3>2, <3>4 DEF Types, EndsAreAccounted, EndAccounted, Quietly, Ended
    <3>5. EndAccounted(c)'
      BY <3>3, <3>4
    <3>6. QED
      BY <3>1, <3>5 DEF EndsAreAccounted
  <2>5. QED
    BY <2>1, <2>2, <2>3, <2>4 DEF IInv
<1>11. ASSUME Report(c)
      PROVE  IInv'
  <2> USE <1>11 DEF Report, Return, Enter, Go
  <2>1. Types'
    BY DEF Types
  <2>2. ConnectionsMatch'
    BY DEF Types, ConnectionsMatch
  <2>3. ShutdownMatches'
    BY DEF Types, ConnectionsMatch, ShutdownMatches
  <2>4. EndsAreAccounted'
    <3>1. \A d \in Browsers \ {c} : EndAccounted(d)'
      BY OthersAccounted DEF Types, Ended
    <3>2. stage[c] = "report" /\ told[c] = {} /\ logged[c] = {}
      BY DEF EndsAreAccounted, EndAccounted
    <3>3. ASSUME Return(c, "report", failure[c]), UNCHANGED <<failure, told>>
          PROVE  EndAccounted(c)'
      BY <3>2, <3>3 DEF Types, EndsAreAccounted, EndAccounted, Quietly, Ended
    <3>4. ASSUME Enter(c, "report", "last"), UNCHANGED <<failure, told, logged>>
          PROVE  EndAccounted(c)'
      BY <3>2, <3>4 DEF Types, EndsAreAccounted, EndAccounted, Quietly, Ended
    <3>5. EndAccounted(c)'
      BY <3>3, <3>4
    <3>6. QED
      BY <3>1, <3>5 DEF EndsAreAccounted
  <2>5. QED
    BY <2>1, <2>2, <2>3, <2>4 DEF IInv
<1>12. ASSUME Last(c)
      PROVE  IInv'
  <2> USE <1>12 DEF Last, Flushed, WriteFails, Undelivered, GoesWrong, Return, Go
  <2>1. Types'
    BY DEF Types
  <2>2. ConnectionsMatch'
    BY DEF Types, ConnectionsMatch
  <2>3. ShutdownMatches'
    BY DEF Types, ConnectionsMatch, ShutdownMatches
  <2>4. EndsAreAccounted'
    <3>1. \A d \in Browsers \ {c} : EndAccounted(d)'
      BY OthersAccounted DEF Types, Ended
    <3>2. stage[c] = "last" /\ told[c] = {} /\ logged[c] = {}
      BY DEF EndsAreAccounted, EndAccounted
    <3>3. ASSUME Flushed(c, "last", "flush"), told' = [told EXCEPT ![c] = failure[c]]
          PROVE  EndAccounted(c)'
      BY <3>2, <3>3 DEF Types, EndsAreAccounted, EndAccounted, Quietly, Ended
    <3>4. ASSUME WriteFails(c, "last", Undelivered(c)), UNCHANGED told
          PROVE  EndAccounted(c)'
      BY <3>2, <3>4 DEF Types, EndsAreAccounted, EndAccounted, Quietly, Ended
    <3>5. EndAccounted(c)'
      BY <3>3, <3>4
    <3>6. QED
      BY <3>1, <3>5 DEF EndsAreAccounted
  <2>5. QED
    BY <2>1, <2>2, <2>3, <2>4 DEF IInv
<1>13. QED
  BY <1>1, <1>2, <1>3, <1>4, <1>5, <1>6, <1>7, <1>8, <1>9, <1>10, <1>11, <1>12

\* The loop of Serve and the shutdown.
LEMMA ShutdownPreserves ==
  ASSUME IInv, 
         ServeEnds \/ Signal \/ StopServing \/ Shutdown \/
         Drain \/ ShutdownExpires \/ ForceClose \/ JoinServe \/
         WaitForHandlers \/ CloseClient
  PROVE  IInv'
<1> USE WebAssumption, IInv DEF IInv, Writing, Waiting, Handling, Stages, Stopping, Causes, DaemonErrors,
        connVars, handlerVars, mainVars
<1>1. ASSUME ServeEnds
      PROVE  IInv'
  <2> USE <1>1 DEF ServeEnds
  <2>1. Types'
    BY DEF Types
  <2>2. ConnectionsMatch'
    BY DEF Types, ConnectionsMatch
  <2>3. ShutdownMatches'
    BY DEF Types, ConnectionsMatch, ShutdownMatches
  <2>4. EndsAreAccounted'
    BY DEF Types, ConnectionsMatch, EndsAreAccounted, EndAccounted, Quietly, Ended
  <2>5. QED
    BY <2>1, <2>2, <2>3, <2>4 DEF IInv
<1>2. ASSUME Signal
      PROVE  IInv'
  <2> USE <1>2 DEF Signal
  <2>1. Types'
    BY DEF Types
  <2>2. ConnectionsMatch'
    BY DEF Types, ConnectionsMatch
  <2>3. ShutdownMatches'
    BY DEF Types, ConnectionsMatch, ShutdownMatches
  <2>4. EndsAreAccounted'
    BY DEF Types, ConnectionsMatch, EndsAreAccounted, EndAccounted, Quietly, Ended
  <2>5. QED
    BY <2>1, <2>2, <2>3, <2>4 DEF IInv
<1>3. ASSUME StopServing
      PROVE  IInv'
  <2> USE <1>3 DEF StopServing
  <2>1. Types'
    BY DEF Types
  <2>2. ConnectionsMatch'
    BY DEF Types, ConnectionsMatch
  <2>3. ShutdownMatches'
    BY DEF Types, ConnectionsMatch, ShutdownMatches
  <2>4. EndsAreAccounted'
    BY DEF Types, ConnectionsMatch, EndsAreAccounted, EndAccounted, Quietly, Ended
  <2>5. QED
    BY <2>1, <2>2, <2>3, <2>4 DEF IInv
<1>4. ASSUME Shutdown
      PROVE  IInv'
  <2> USE <1>4 DEF Shutdown
  <2>1. Types'
    BY DEF Types
  <2>2. ConnectionsMatch'
    BY DEF Types, ConnectionsMatch
  <2>3. ShutdownMatches'
    BY DEF Types, ConnectionsMatch, ShutdownMatches
  <2>4. EndsAreAccounted'
    BY DEF Types, ConnectionsMatch, EndsAreAccounted, EndAccounted, Quietly, Ended
  <2>5. QED
    BY <2>1, <2>2, <2>3, <2>4 DEF IInv
<1>5. ASSUME Drain
      PROVE  IInv'
  <2> USE <1>5 DEF Drain
  <2>1. Types'
    BY DEF Types
  <2>2. ConnectionsMatch'
    BY DEF Types, ConnectionsMatch
  <2>3. ShutdownMatches'
    BY DEF Types, ConnectionsMatch, ShutdownMatches
  <2>4. EndsAreAccounted'
    BY DEF Types, ConnectionsMatch, EndsAreAccounted, EndAccounted, Quietly, Ended
  <2>5. QED
    BY <2>1, <2>2, <2>3, <2>4 DEF IInv
<1>6. ASSUME ShutdownExpires
      PROVE  IInv'
  <2> USE <1>6 DEF ShutdownExpires
  <2>1. Types'
    BY DEF Types
  <2>2. ConnectionsMatch'
    BY DEF Types, ConnectionsMatch
  <2>3. ShutdownMatches'
    BY DEF Types, ConnectionsMatch, ShutdownMatches
  <2>4. EndsAreAccounted'
    BY DEF Types, ConnectionsMatch, EndsAreAccounted, EndAccounted, Quietly, Ended
  <2>5. QED
    BY <2>1, <2>2, <2>3, <2>4 DEF IInv
<1>7. ASSUME ForceClose
      PROVE  IInv'
  <2> USE <1>7 DEF ForceClose
  <2>1. Types'
    BY DEF Types
  <2>2. ConnectionsMatch'
    BY DEF Types, ConnectionsMatch
  <2>3. ShutdownMatches'
    BY DEF Types, ConnectionsMatch, ShutdownMatches
  <2>4. EndsAreAccounted'
    BY DEF Types, ConnectionsMatch, EndsAreAccounted, EndAccounted, Quietly, Ended
  <2>5. QED
    BY <2>1, <2>2, <2>3, <2>4 DEF IInv
<1>8. ASSUME JoinServe
      PROVE  IInv'
  <2> USE <1>8 DEF JoinServe
  <2>1. Types'
    BY DEF Types
  <2>2. ConnectionsMatch'
    BY DEF Types, ConnectionsMatch
  <2>3. ShutdownMatches'
    BY DEF Types, ConnectionsMatch, ShutdownMatches
  <2>4. EndsAreAccounted'
    BY DEF Types, ConnectionsMatch, EndsAreAccounted, EndAccounted, Quietly, Ended
  <2>5. QED
    BY <2>1, <2>2, <2>3, <2>4 DEF IInv
<1>9. ASSUME WaitForHandlers
      PROVE  IInv'
  <2> USE <1>9 DEF WaitForHandlers
  <2>1. Types'
    BY DEF Types
  <2>2. ConnectionsMatch'
    BY DEF Types, ConnectionsMatch
  <2>3. ShutdownMatches'
    BY DEF Types, ConnectionsMatch, ShutdownMatches
  <2>4. EndsAreAccounted'
    BY DEF Types, ConnectionsMatch, EndsAreAccounted, EndAccounted, Quietly, Ended
  <2>5. QED
    BY <2>1, <2>2, <2>3, <2>4 DEF IInv
<1>10. ASSUME CloseClient
      PROVE  IInv'
  <2> USE <1>10 DEF CloseClient
  <2>1. Types'
    BY DEF Types
  <2>2. ConnectionsMatch'
    BY DEF Types, ConnectionsMatch
  <2>3. ShutdownMatches'
    BY DEF Types, ConnectionsMatch, ShutdownMatches
  <2>4. EndsAreAccounted'
    BY DEF Types, ConnectionsMatch, EndsAreAccounted, EndAccounted, Quietly, Ended
  <2>5. QED
    BY <2>1, <2>2, <2>3, <2>4 DEF IInv
<1>11. QED
  BY <1>1, <1>2, <1>3, <1>4, <1>5, <1>6, <1>7, <1>8, <1>9, <1>10

LEMMA StutterPreserves == IInv /\ UNCHANGED vars => IInv'
  BY DEF IInv, vars, mainVars, connVars, handlerVars, Types, ConnectionsMatch,
         ShutdownMatches, EndsAreAccounted, EndAccounted, Quietly, Ended

LEMMA StepPreserves == IInv /\ [Next]_vars => IInv'
<1>1. ASSUME IInv, NEW c \in Browsers, Browser(c) \/ Daemon(c) \/ Connection(c)
      PROVE  IInv'
  BY <1>1, ConnectionPreserves, HandlerPreserves DEF Browser, Daemon, Connection, Step
<1>2. ASSUME IInv, ServeEnds \/ Signal \/ Main
      PROVE  IInv'
  BY <1>2, ShutdownPreserves DEF Main
<1>3. QED
  BY <1>1, <1>2, StutterPreserves DEF Next

\* IInv holds in every reachable state.
THEOREM Invariance == Spec => []IInv
<1>1. QED
  BY InitIInv, StepPreserves, PTL DEF Spec

\* Once serveHTTP has returned no handler runs, and none can begin.
THEOREM ClientTheorem == Spec => []ClientOutlivesHandlers
<1>1. IInv => NothingLeft
  <2> SUFFICES ASSUME IInv, server \in {"returned", "released"}, NEW c \in Browsers
               PROVE  conn[c] \in {"none", "closed"} /\ stage[c] \in {"none", "done"}
    BY DEF NothingLeft
  <2>1. conn[c] \notin {"new", "active", "idle"}
    BY DEF IInv, ConnectionsMatch, ShutdownMatches
  <2>2. conn[c] # "accepted"
    BY DEF IInv, ConnectionsMatch, ShutdownMatches
  <2>3. QED
    BY <2>1, <2>2 DEF IInv, Types, ConnectionsMatch
<1>2. IInv => ClientOutlivesHandlers
  BY <1>1 DEF IInv, ClientOutlivesHandlers
<1>3. QED
  BY <1>2, Invariance, PTL

\* Whatever went wrong for a handler is told or logged in full when it is over, the
\* failure to deliver the terminal frame included; only the expected end of a stream
\* is passed over (stream.go:81-97, 128-217).
THEOREM EndsTheorem == Spec => []EndsAreAccounted
<1>1. IInv => EndsAreAccounted
  BY DEF IInv
<1>2. QED
  BY <1>1, Invariance, PTL

\* The shutdown expires only because of a browser: the requests are cancelled by
\* then, so that neither a stream nor a call of the daemon is what it waits for.
THEOREM ForcedTheorem == Spec => ForcedOnlyByBrowsers
<1>1. IInv /\ [Next]_vars =>
        [ShutdownExpires => \E c \in tracked : SilentBrowser(c)]_vars
  BY DEF IInv, ShutdownMatches, ShutdownExpires, Lasting, Ended
<1>2. QED
  BY <1>1, Invariance, PTL DEF Spec, ForcedOnlyByBrowsers
=============================================================================
