-------------------------- MODULE Controller_proofs --------------------------
(***************************************************************************)
(* Proofs about Controller: what an operation may rely on, what it reports *)
(* and what it has seen of the instrument when it succeeds, for any number *)
(* of callers, any requests and any bound on the observations.             *)
(***************************************************************************)
EXTENDS Controller, SequenceTheorems, TLAPS

-----------------------------------------------------------------------------
(* Constants, tasks and results.                                           *)

LEMMA ObservationsAreNatural == MaxObservations \in Nat /\ MaxObservations > 1
  BY ControllerAssumption

LEMMA NoneIsNoValue ==
  /\ None \notin Clients /\ None \notin Functions /\ None \notin Outputs
  /\ None \notin Deliveries /\ None \notin Operations
  BY ControllerAssumption

LEMMA RepliesDiffer ==
  /\ Unavailable \notin Functions /\ Unavailable \notin Outputs /\ Unavailable # None
  /\ Malformed \notin Functions /\ Malformed \notin Outputs /\ Malformed # None
  /\ Unavailable # Malformed
  BY ControllerAssumption

LEMMA DimensionsAreNoSettings ==
  ASSUME NEW s \in Settings
  PROVE  s # "function" /\ s # "output" /\ s # "meter"
  BY ControllerAssumption DEF Dimensions

LEMMA NewBarrierTyped == NewBarrier \in Barrier
  BY ObservationsAreNatural DEF NewBarrier, Barrier

LEMMA StepsTyped ==
  /\ "done" \in Steps /\ "returned" \in Steps
  /\ Writing \subseteq Steps /\ Barriers \subseteq Steps /\ Reading \subseteq Steps
  BY DEF Steps

LEMMA NoTaskTyped ==
  /\ NoTask \in Task /\ NoTask.at = "done" /\ NoTask.todo = <<>> /\ NoTask.request = NoRequest
  /\ NoTask.barrier = NewBarrier /\ NoTask.live = FALSE /\ NoTask.preserved = None
<1>1. NoRequest \in Request
  BY DEF NoRequest, Request, Operations
<1>2. QED
  BY <1>1, NewBarrierTyped, StepsTyped DEF NoTask, Task

LEMMA TaskParts ==
  ASSUME NEW t \in Task
  PROVE  /\ t.at \in Steps /\ t.request \in Request /\ t.todo \in Seq(Commands)
         /\ t.preserved \in Outputs \cup {None} /\ t.barrier \in Barrier /\ t.live \in BOOLEAN
  BY DEF Task

LEMMA RequestParts ==
  ASSUME NEW r \in Request
  PROVE  /\ r.op \in Operations /\ r.target \in Functions \cup {None}
         /\ r.output \in Outputs \cup {None} /\ r.commands \in Seq(Commands)
  BY DEF Request

\* A task that moves to another step, and one that returns.
LEMMA MovedTask ==
  ASSUME NEW t \in Task, NEW at \in Steps
  PROVE  LET u == [t EXCEPT !.at = at, !.barrier = NewBarrier] IN
         /\ u \in Task /\ u.at = at /\ u.barrier = NewBarrier
         /\ u.request = t.request /\ u.todo = t.todo /\ u.preserved = t.preserved
         /\ u.live = t.live
  BY NewBarrierTyped DEF Task

LEMMA ReturnedTask ==
  LET u == [NoTask EXCEPT !.at = "returned"] IN
  /\ u \in Task /\ u.at = "returned" /\ u.barrier = NewBarrier
  /\ u.request = NoRequest /\ u.todo = <<>>
  BY NoTaskTyped, StepsTyped DEF Task

\* What nobody relies on: a client without an open transaction.
LEMMA IdleFits ==
  ASSUME NEW t \in Task, t.at \in {"done", "returned"}, t.request = NoRequest,
         t.todo = <<>>, t.barrier = NewBarrier, NEW i
  PROVE  StepsFit(t) /\ CountersStop(t) /\ StepsFollow(t, i)
<1>1. DOMAIN t.todo = {}
  OBVIOUS
<1>2. ~Selects(t.request)
  BY DEF Selects, NoRequest
<1>3. StepsFit(t)
  BY <1>1, <1>2 DEF StepsFit, NoRequest
<1>4. CountersStop(t)
  BY ObservationsAreNatural DEF CountersStop, NewBarrier, RequiredMatches, Exhausted
<1>5. StepsFollow(t, i)
  BY DEF StepsFollow, NoRequest
<1>6. QED
  BY <1>3, <1>4, <1>5

LEMMA FreshCountersStop ==
  ASSUME NEW t, t.barrier = NewBarrier
  PROVE  CountersStop(t)
  BY ObservationsAreNatural DEF CountersStop, NewBarrier, RequiredMatches, Exhausted

LEMMA NewResultTyped ==
  ASSUME NEW op
  PROVE  /\ NewResult(op) \in Result
         /\ NewResult(op).completed = 0 /\ NewResult(op).error = FALSE
         /\ op # "generator" => NewResult(op).delivery = None
  BY DEF NewResult, Result, Deliveries, Compensations

LEMMA ResultParts ==
  ASSUME NEW r \in Result
  PROVE  /\ r.error \in BOOLEAN /\ r.delivery \in Deliveries \cup {None}
         /\ r.compensation \in Compensations /\ r.output \in Outputs \cup {None, Unknown}
         /\ r.completed \in Nat
  BY DEF Result

LEMMA OutputTargetTyped ==
  ASSUME NEW t \in Task
  PROVE  OutputTarget(t) \in Outputs \cup {None}
  BY TaskParts, RequestParts DEF OutputTarget

LEMMA InstrumentParts ==
  ASSUME NEW i \in Instrument
  PROVE  /\ i.function \in Dimension(Functions) /\ i.output \in Dimension(Outputs)
         /\ i.meter \in Dimension(Functions) /\ i.settings \in [Settings -> AnyValue]
  BY DEF Instrument

-----------------------------------------------------------------------------
(* Commands.                                                               *)

LEMMA CommandParts ==
  ASSUME NEW command \in Commands
  PROVE  /\ command.setting \in Dimensions \cup Settings
         /\ command.setting \in {"function", "meter"} => command.value \in Functions \cup {None}
         /\ command.setting = "output" => command.value \in Outputs \cup {None}
         /\ command.setting \in Settings => command.value \in AnyValue \cup {None}
<1>1. ASSUME command \in [setting : {"function", "meter"}, value : Functions \cup {None}]
      PROVE  command.setting \in {"function", "meter"} /\ command.value \in Functions \cup {None}
  BY <1>1
<1>2. ASSUME command \in [setting : {"output"}, value : Outputs \cup {None}]
      PROVE  command.setting = "output" /\ command.value \in Outputs \cup {None}
  BY <1>2
<1>3. ASSUME command \in [setting : Settings, value : AnyValue \cup {None}]
      PROVE  command.setting \in Settings /\ command.value \in AnyValue \cup {None}
  BY <1>3
<1>4. QED
  BY <1>1, <1>2, <1>3, DimensionsAreNoSettings DEF Commands, Dimensions

\* The first command that is left, and the rest.
LEMMA HeadAndTail ==
  ASSUME NEW q \in Seq(Commands), q # <<>>
  PROVE  /\ Head(q) \in Commands /\ Tail(q) \in Seq(Commands)
         /\ 1 \in DOMAIN q /\ Head(q) = q[1]
         /\ \A i \in DOMAIN Tail(q) : i + 1 \in DOMAIN q /\ Tail(q)[i] = q[i + 1]
<1>1. Len(q) \in Nat /\ Len(q) # 0 /\ DOMAIN q = 1..Len(q)
  BY EmptySeq, LenProperties
<1>2. Tail(q) \in Seq(Commands) /\ Len(Tail(q)) = Len(q) - 1 /\ Head(q) = q[1]
  BY HeadTailProperties
<1>3. DOMAIN Tail(q) = 1..(Len(q) - 1) /\ \A i \in 1..(Len(q) - 1) : Tail(q)[i] = q[i + 1]
  BY <1>1, <1>2, LenProperties
<1>4. QED
  BY <1>1, <1>2, <1>3, ElementOfSeq

\* What a command may do to the instrument.
LEMMA CommandLands ==
  ASSUME instrument \in Instrument, NEW command \in Commands,
         NEW i \in AfterCommand(command),
         \A d \in Dimensions : instrument[d].now = instrument[d].next => ~instrument[d].premature
  PROVE  /\ i \in Instrument
         /\ \A d \in Dimensions : i[d].now = i[d].next => ~i[d].premature
         /\ command.setting # "function" => i.function = instrument.function
         /\ command.setting # "output" => i.output = instrument.output
         /\ command.setting # "meter" => i.meter = instrument.meter
         /\ command.setting # "probe" => i.settings["probe"] = instrument.settings["probe"]
         /\ command.setting = "function" /\ IsWrite(command) => i.function.next = command.value
         /\ command.setting = "output" /\ IsWrite(command) => i.output.next = command.value
         /\ command.setting = "meter" /\ IsWrite(command) => i.meter.next = command.value
<1> DEFINE s == command.setting
           v == command.value
<1>1. s \in Dimensions \cup Settings
  BY CommandParts
<1>2. CASE ~IsWrite(command)
  BY <1>2 DEF AfterCommand
<1>3. CASE IsWrite(command) /\ s \in Dimensions
  <2>1. i = [instrument EXCEPT ![s].next = v, ![s].premature = FALSE]
    BY <1>3 DEF AfterCommand
  <2>2. CASE s = "function"
    <3>1. v \in Functions
      BY <2>2, <1>3, CommandParts DEF IsWrite
    <3>2. QED
      BY <2>1, <2>2, <3>1 DEF Instrument, Dimension, Dimensions
  <2>3. CASE s = "output"
    <3>1. v \in Outputs
      BY <2>3, <1>3, CommandParts DEF IsWrite
    <3>2. QED
      BY <2>1, <2>3, <3>1 DEF Instrument, Dimension, Dimensions
  <2>4. CASE s = "meter"
    <3>1. v \in Functions
      BY <2>4, <1>3, CommandParts DEF IsWrite
    <3>2. QED
      BY <2>1, <2>4, <3>1 DEF Instrument, Dimension, Dimensions
  <2>5. QED
    BY <1>3, <2>2, <2>3, <2>4 DEF Dimensions
<1>4. CASE IsWrite(command) /\ s \in Settings /\ s \notin Dimensions
  <2>1. i = instrument \/ i = [instrument EXCEPT !.settings[s] = v]
    BY <1>4 DEF AfterCommand
  <2>2. v \in AnyValue /\ s # "function" /\ s # "output" /\ s # "meter"
    BY <1>4, CommandParts, DimensionsAreNoSettings DEF IsWrite
  <2>3. CASE i = [instrument EXCEPT !.settings[s] = v]
    <3>1. /\ i \in Instrument /\ i.function = instrument.function
          /\ i.output = instrument.output /\ i.meter = instrument.meter
          /\ i.settings = [instrument.settings EXCEPT ![s] = v]
      BY <2>2, <2>3, <1>4 DEF Instrument, Dimension
    <3>2. s # "probe" => i.settings["probe"] = instrument.settings["probe"]
      BY <3>1, InstrumentParts
    <3>3. QED
      BY <3>1, <3>2, <2>2 DEF Dimensions
  <2>4. QED
    BY <2>1, <2>2, <2>3
<1>5. QED
  BY <1>1, <1>2, <1>3, <1>4

-----------------------------------------------------------------------------
(* The invariant, and the step of one client.                              *)

IInv == TypeOK /\ StepsRelyOnRequest /\ InstrumentFollows /\ WritesAreReported

LEMMA InitEstablishes == Init => IInv
<1> SUFFICES ASSUME Init PROVE IInv
  OBVIOUS
<1>1. /\ task = [c \in Clients |-> NoTask]
      /\ result = [c \in Clients |-> NewResult(None)]
      /\ holder = None
      /\ reached = [c \in Clients |-> 0]
  BY DEF Init
<1>2. /\ instrument \in Instrument
      /\ \A d \in Dimensions : ~instrument[d].premature
  <2>1. PICK function \in Functions, meter \in Functions, output \in Outputs,
             settings \in [Settings -> AnyValue] :
          instrument =
            [function |-> [now |-> function, next |-> function, premature |-> FALSE],
             output |-> [now |-> output, next |-> output, premature |-> FALSE],
             meter |-> [now |-> meter, next |-> meter, premature |-> FALSE],
             settings |-> settings]
    BY DEF Init
  <2>2. QED
    BY <2>1 DEF Instrument, Dimension, Dimensions
<1>3. TypeOK
  <2>1. task \in [Clients -> Task] /\ result \in [Clients -> Result]
    BY <1>1, NoTaskTyped, NewResultTyped
  <2>2. \A c \in Clients : ~InTransaction(c) /\ holder # c
    BY <1>1, NoTaskTyped, NoneIsNoValue DEF InTransaction
  <2>3. QED
    BY <1>1, <1>2, <2>1, <2>2 DEF TypeOK
<1>4. StepsRelyOnRequest
  BY <1>1, NoTaskTyped, IdleFits DEF StepsRelyOnRequest
<1>5. InstrumentFollows
  BY <1>1, <1>2, NoTaskTyped, IdleFits DEF InstrumentFollows
<1>6. WritesAreReported
  <2>1. NewResult(None).delivery = None /\ NewResult(None).completed = 0
    BY NewResultTyped, NoneIsNoValue DEF Operations
  <2>2. WritesFit(NoTask, NewResult(None), 0)
    BY <2>1, NoTaskTyped, NoneIsNoValue DEF WritesFit, Deliveries
  <2>3. QED
    BY <1>1, <2>2 DEF WritesAreReported
<1>7. QED
  BY <1>3, <1>4, <1>5, <1>6 DEF IInv

\* A step of one client keeps the invariant when its own task does, and the
\* instrument changes only in its transaction.
LEMMA OneMoves ==
  ASSUME IInv, NEW c \in Clients, NEW t \in Task, NEW r \in Result, NEW n \in Nat,
         task' = [task EXCEPT ![c] = t], result' = [result EXCEPT ![c] = r],
         reached' = [reached EXCEPT ![c] = n],
         holder' \in Clients \cup {None},
         \A b \in Clients :
           holder' = b <=> IF b = c THEN t.at \notin {"done", "returned"} ELSE holder = b,
         t.at \notin {"done", "returned"} => t.request \in RequestsOf[c],
         instrument' \in Instrument,
         instrument' = instrument \/ \A b \in Clients : b # c => holder # b,
         \A d \in Dimensions : instrument'[d].now = instrument'[d].next => ~instrument'[d].premature,
         StepsFit(t), CountersStop(t), StepsFollow(t, instrument'), WritesFit(t, r, n)
  PROVE  IInv'
<1>1. /\ task' \in [Clients -> Task] /\ task'[c] = t
      /\ \A b \in Clients : b # c => task'[b] = task[b]
  BY DEF IInv, TypeOK
<1>2. /\ result' \in [Clients -> Result] /\ result'[c] = r
      /\ \A b \in Clients : b # c => result'[b] = result[b]
  BY DEF IInv, TypeOK
<1>3. /\ reached' \in [Clients -> Nat] /\ reached'[c] = n
      /\ \A b \in Clients : b # c => reached'[b] = reached[b]
  BY DEF IInv, TypeOK
<1>4. TypeOK'
  <2>1. ASSUME NEW b \in Clients
        PROVE  /\ holder' = b <=> task'[b].at \notin {"done", "returned"}
               /\ task'[b].at \notin {"done", "returned"} => task'[b].request \in RequestsOf[b]
    <3>1. CASE b = c
      BY <3>1, <1>1
    <3>2. CASE b # c
      BY <3>2, <1>1 DEF IInv, TypeOK, InTransaction
    <3>3. QED
      BY <3>1, <3>2
  <2>2. QED
    BY <1>1, <1>2, <1>3, <2>1 DEF TypeOK, InTransaction
<1>5. StepsRelyOnRequest'
  BY <1>1 DEF IInv, StepsRelyOnRequest
<1>6. InstrumentFollows'
  <2>1. ASSUME NEW b \in Clients, b # c
        PROVE  StepsFollow(task[b], instrument')
    <3>1. CASE instrument' = instrument
      BY <2>1, <3>1 DEF IInv, InstrumentFollows
    <3>2. CASE holder # b
      <4>1. task[b].at \in {"done", "returned"}
        BY <3>2 DEF IInv, TypeOK, InTransaction
      <4>2. QED
        BY <4>1 DEF StepsFollow
    <3>3. QED
      BY <2>1, <3>1, <3>2
  <2>2. QED
    BY <1>1, <2>1 DEF InstrumentFollows
<1>7. WritesAreReported'
  BY <1>1, <1>2, <1>3 DEF IInv, WritesAreReported
<1>8. QED
  BY <1>4, <1>5, <1>6, <1>7 DEF IInv

\* What the client whose transaction is open may rely on.
LEMMA OwnState ==
  ASSUME IInv, NEW c \in Clients, InTransaction(c)
  PROVE  /\ task[c] \in Task /\ result[c] \in Result /\ reached[c] \in Nat
         /\ holder = c /\ task[c].request \in RequestsOf[c]
         /\ StepsFit(task[c]) /\ CountersStop(task[c]) /\ StepsFollow(task[c], instrument)
         /\ WritesFit(task[c], result[c], reached[c])
         /\ reached[c] = result[c].completed
         /\ instrument \in Instrument
         /\ \A d \in Dimensions : instrument[d].now = instrument[d].next => ~instrument[d].premature
<1>1. WritesFit(task[c], result[c], reached[c])
  BY DEF IInv, WritesAreReported
<1>2. QED
  BY <1>1 DEF IInv, TypeOK, StepsRelyOnRequest, InstrumentFollows, WritesFit, InTransaction

\* Steps in a transaction, in the form in which the actions take them.
LEMMA TransactionGoesOn ==
  ASSUME IInv, NEW c \in Clients, InTransaction(c), NEW t \in Task, NEW r \in Result,
         NEW n \in Nat,
         Goto(c, t), result' = [result EXCEPT ![c] = r], reached' = [reached EXCEPT ![c] = n],
         UNCHANGED holder, t.at \notin {"done", "returned"}, t.request = task[c].request,
         instrument' \in Instrument,
         \A d \in Dimensions : instrument'[d].now = instrument'[d].next => ~instrument'[d].premature,
         StepsFit(t), CountersStop(t), StepsFollow(t, instrument'), WritesFit(t, r, n)
  PROVE  IInv'
<1>1. holder = c /\ holder' = c /\ task[c].request \in RequestsOf[c] /\ c # None
  BY OwnState, NoneIsNoValue
<1>2. \A b \in Clients :
        holder' = b <=> IF b = c THEN t.at \notin {"done", "returned"} ELSE holder = b
  BY <1>1
<1>3. \A b \in Clients : b # c => holder # b
  BY <1>1
<1>4. QED
  BY <1>1, <1>2, <1>3, OneMoves DEF Goto

LEMMA TransactionEnds ==
  ASSUME IInv, NEW c \in Clients, InTransaction(c), NEW r \in Result, NEW n \in Nat,
         Returns(c, r), reached' = [reached EXCEPT ![c] = n],
         instrument' \in Instrument,
         \A d \in Dimensions : instrument'[d].now = instrument'[d].next => ~instrument'[d].premature,
         n >= r.completed, n <= r.completed + 1, n > r.completed => r.error,
         r.error /\ r.delivery = "notAttempted" => n = 0
  PROVE  IInv'
<1> DEFINE t == [NoTask EXCEPT !.at = "returned"]
<1>1. t \in Task /\ t.at = "returned" /\ t.request = NoRequest /\ t.todo = <<>> /\ t.barrier = NewBarrier
  BY ReturnedTask
<1>2. StepsFit(t) /\ CountersStop(t) /\ StepsFollow(t, instrument')
  BY <1>1, IdleFits
<1>3. WritesFit(t, r, n)
  BY <1>1 DEF WritesFit
<1>4. /\ task' = [task EXCEPT ![c] = t] /\ result' = [result EXCEPT ![c] = r]
      /\ holder' = None /\ holder = c
  BY OwnState DEF Returns
<1>5. \A b \in Clients :
        holder' = b <=> IF b = c THEN t.at \notin {"done", "returned"} ELSE holder = b
  BY <1>1, <1>4, NoneIsNoValue
<1> HIDE DEF t
<1>6. QED
  BY <1>1, <1>2, <1>3, <1>4, <1>5, OneMoves

-----------------------------------------------------------------------------
(* How an operation fails, and how it goes on.                             *)

LEMMA FailureTyped ==
  ASSUME NEW t \in Task, NEW r \in Result
  PROVE  /\ Failure(t, r) \in Result /\ Failure(t, r).error = TRUE
         /\ Failure(t, r).completed = r.completed
         /\ Failure(t, r).delivery = FailedDelivery(t, r)
<1>1. t.barrier.previous \in Outputs \cup {None}
  BY TaskParts DEF Barrier
<1>2. OutputReport(t, r) \in Result /\ OutputReport(t, r).completed = r.completed
  <2>1. CASE t.at \in {"output", "verify", "compensate", "compensated"}
    <3>1. OutputReport(t, r) = [r EXCEPT !.output = Unknown, !.compensation = "failed"]
      BY <2>1 DEF OutputReport
    <3>2. QED
      BY <3>1 DEF Result, Compensations
  <2>2. CASE t.at \in {"function", "context", "settings"} /\ t.preserved # None
    <3>1. OutputReport(t, r) = [r EXCEPT !.output = Unknown, !.compensation = "notAttempted"]
      BY <2>2 DEF OutputReport
    <3>2. QED
      BY <3>1 DEF Result, Compensations
  <2>3. CASE t.at = "preflight"
    <3>1. OutputReport(t, r) = [r EXCEPT !.output = t.barrier.previous]
      BY <2>3 DEF OutputReport
    <3>2. QED
      BY <3>1, <1>1 DEF Result
  <2>4. CASE /\ t.at \notin {"output", "verify", "compensate", "compensated", "preflight"}
             /\ ~(t.at \in {"function", "context", "settings"} /\ t.preserved # None)
    <3>1. OutputReport(t, r) = r
      BY <2>4 DEF OutputReport
    <3>2. QED
      BY <3>1
  <2>5. QED
    BY <2>1, <2>2, <2>3, <2>4
<1>3. FailedDelivery(t, r) \in Deliveries \cup {None}
  BY ResultParts DEF FailedDelivery, Deliveries
<1> DEFINE f == OutputReport(t, r)
<1>4. Failure(t, r) = [f EXCEPT !.error = TRUE, !.delivery = FailedDelivery(t, r)]
  BY DEF Failure
<1> HIDE DEF f
<1>5. f \in Result /\ f.completed = r.completed
  BY <1>2 DEF f
<1>6. QED
  BY <1>3, <1>4, <1>5 DEF Result

\* An operation fails, its last write perhaps delivered.
LEMMA OperationFails ==
  ASSUME IInv, NEW c \in Clients, InTransaction(c), Fails(c), NEW n \in Nat,
         reached' = [reached EXCEPT ![c] = n],
         n = reached[c] \/ (n = reached[c] + 1 /\ task[c].at # "preflight"),
         instrument' \in Instrument,
         \A d \in Dimensions : instrument'[d].now = instrument'[d].next => ~instrument'[d].premature
  PROVE  IInv'
<1> DEFINE t == task[c]
           f == Failure(t, result[c])
<1>1. /\ t \in Task /\ result[c] \in Result /\ reached[c] = result[c].completed
      /\ WritesFit(t, result[c], reached[c])
  BY OwnState
<1>2. /\ f \in Result /\ f.error = TRUE /\ f.completed = result[c].completed
      /\ f.delivery = FailedDelivery(t, result[c])
  BY <1>1, FailureTyped
<1>3. Returns(c, f)
  BY DEF Fails
<1>4. n >= f.completed /\ n <= f.completed + 1
  BY <1>1, <1>2, ResultParts
<1>5. f.delivery = "notAttempted" => n = 0
  <2>1. t.at \notin {"done", "returned"}
    BY DEF InTransaction
  <2>2. t.request.op # "generator" => f.delivery # "notAttempted"
    BY <1>1, <1>2, <2>1 DEF WritesFit, FailedDelivery
  <2>3. t.request.op = "generator" /\ f.delivery = "notAttempted" => t.at = "preflight"
    BY <1>2 DEF FailedDelivery
  <2>4. t.at = "preflight" => reached[c] = 0 /\ n = 0
    BY <1>1 DEF WritesFit
  <2>5. QED
    BY <2>2, <2>3, <2>4
<1> HIDE DEF t, f
<1>6. QED
  BY <1>2, <1>3, <1>4, <1>5, TransactionEnds

\* What follows when the given commands are left.
LEMMA FollowingStep ==
  ASSUME NEW t \in Task, NEW todo \in Seq(Commands)
  PROVE  LET at == Following(t, todo) IN
         /\ at \in {"settings", "output", "final", "readback", "end"}
         /\ at = "settings" <=> todo # <<>>
         /\ at = "output" => t.request.op = "generator" /\ OutputTarget(t) # None
         /\ at = "final" => t.request.op = "dmm" /\ t.request.commands # <<>>
         /\ at = "readback" => t.request.op \in {"average", "keepAwake"}
         /\ at = "end" => /\ t.request.op = "generator" => OutputTarget(t) = None
                          /\ t.request.op = "dmm" => t.request.commands = <<>>
                          /\ t.request.op \notin {"average", "keepAwake"}
<1>1. CASE todo # <<>>
  BY <1>1 DEF Following
<1>2. CASE todo = <<>>
  <2>1. CASE t.request.op = "generator" /\ OutputTarget(t) # None
    BY <1>2, <2>1 DEF Following
  <2>2. CASE t.request.op = "dmm" /\ t.request.commands # <<>>
    BY <1>2, <2>2 DEF Following
  <2>3. CASE t.request.op \in {"average", "keepAwake"}
    BY <1>2, <2>3 DEF Following
  <2>4. CASE /\ ~(t.request.op = "generator" /\ OutputTarget(t) # None)
             /\ ~(t.request.op = "dmm" /\ t.request.commands # <<>>)
             /\ t.request.op \notin {"average", "keepAwake"}
    BY <1>2, <2>4 DEF Following
  <2>5. QED
    BY <2>1, <2>2, <2>3, <2>4
<1>3. QED
  BY <1>1, <1>2

LEMMA OperationGoesOn ==
  ASSUME IInv, NEW c \in Clients, InTransaction(c), NEW todo \in Seq(Commands),
         NEW r \in Result, Proceeds(c, todo, r),
         reached' = [reached EXCEPT ![c] = r.completed],
         task[c].request.op # "generator" => r.delivery # "notAttempted",
         instrument' \in Instrument,
         \A d \in Dimensions : instrument'[d].now = instrument'[d].next => ~instrument'[d].premature,
         \A i \in DOMAIN todo : \E j \in DOMAIN task[c].request.commands :
           todo[i] = task[c].request.commands[j],
         Selects(task[c].request) =>
           /\ OutputTarget(task[c]) # None
           /\ Active(instrument'.function, task[c].request.target),
         task[c].request.op = "dmm" /\ task[c].request.target \notin Companions =>
           Active(instrument'.meter, task[c].request.target),
         task[c].request.op = "channel" =>
           \A i \in DOMAIN todo : todo[i].setting = "scale" =>
             <<instrument'.settings["probe"], todo[i].value>> \in Fitting
  PROVE  IInv'
<1> DEFINE t == task[c]
           at == Following(t, todo)
<1>1. t \in Task /\ StepsFit(t) /\ r.completed \in Nat
  BY OwnState, ResultParts
<1>2. /\ at \in {"settings", "output", "final", "readback", "end"}
      /\ at = "settings" <=> todo # <<>>
      /\ at = "output" => t.request.op = "generator" /\ OutputTarget(t) # None
      /\ at = "final" => t.request.op = "dmm"
      /\ at = "readback" => t.request.op \in {"average", "keepAwake"}
  BY <1>1, FollowingStep
<1>3. CASE at = "end"
  <2> DEFINE f == IF t.request.op = "generator" THEN [r EXCEPT !.delivery = "unverified"] ELSE r
  <2>1. Returns(c, f)
    BY <1>3 DEF Proceeds
  <2>2. f \in Result /\ f.completed = r.completed /\ f.delivery # "notAttempted"
    BY DEF Result, Deliveries
  <2> HIDE DEF f
  <2>3. /\ r.completed >= f.completed /\ r.completed <= f.completed + 1
        /\ ~(r.completed > f.completed)
    BY <1>1, <2>2
  <2>4. QED
    BY <1>1, <2>1, <2>2, <2>3, TransactionEnds
<1>4. CASE at # "end"
  <2> DEFINE u == [t EXCEPT !.at = at, !.todo = todo, !.barrier = NewBarrier]
  <2>1. Goto(c, u) /\ result' = [result EXCEPT ![c] = r] /\ UNCHANGED holder
    BY <1>4 DEF Proceeds
  <2>2. at \in Steps
    BY <1>2, <1>4 DEF Steps, Writing, Barriers, Reading
  <2>3. /\ u \in Task /\ u.at = at /\ u.todo = todo /\ u.barrier = NewBarrier
        /\ u.request = t.request /\ u.preserved = t.preserved
    BY <1>1, <2>2, NewBarrierTyped DEF Task
  <2> HIDE DEF u
  <2>4. OutputTarget(u) = OutputTarget(t)
    BY <2>3 DEF OutputTarget
  <2>5. u.at \notin {"done", "returned"}
    BY <1>2, <2>3
  <2>6. StepsFit(u)
    BY <1>1, <1>2, <1>4, <2>3, <2>4 DEF StepsFit
  <2>7. CountersStop(u)
    BY <2>3, FreshCountersStop
  <2>8. StepsFollow(u, instrument')
    <3>1. u.at = "settings" /\ t.request.op = "channel" =>
            \A n \in DOMAIN u.todo : u.todo[n].setting = "scale" =>
              <<instrument'.settings["probe"], u.todo[n].value>> \in Fitting
      BY <2>3
    <3>2. u.at \notin {"context", "verify", "initial"}
      BY <1>2, <2>3
    <3>3. QED
      BY <2>3, <3>1, <3>2 DEF StepsFollow
  <2>9. WritesFit(u, r, r.completed)
    BY <1>1, <1>2, <2>3, <2>5 DEF WritesFit
  <2>10. u.request = task[c].request
    BY <2>3
  <2> HIDE DEF t, at
  <2>11. QED
    BY <1>1, <2>1, <2>3, <2>5, <2>6, <2>7, <2>8, <2>9, <2>10, TransactionGoesOn
<1>5. QED
  BY <1>3, <1>4

-----------------------------------------------------------------------------
(* The commands of an operation.                                           *)

\* Every step of Writing has a command to send, and what it is.
LEMMA PendingCommand ==
  ASSUME NEW t \in Task, StepsFit(t), t.at \in Writing
  PROVE  /\ Pending(t) \in Commands
         /\ t.at = "function" => /\ Pending(t).setting = "function"
                                 /\ Pending(t).value = t.request.target
                                 /\ IsWrite(Pending(t))
         /\ t.at = "configure" => /\ Pending(t).setting = "meter"
                                  /\ Pending(t).value = t.request.target
                                  /\ t.request.target # None => IsWrite(Pending(t))
         /\ t.at = "compensate" => Pending(t).setting = "output"
         /\ t.at = "output" => /\ Pending(t).setting = "output"
                               /\ Pending(t).value = OutputTarget(t)
                               /\ IsWrite(Pending(t))
         /\ t.at = "settings" => /\ Pending(t) = Head(t.todo)
                                 /\ \E j \in DOMAIN t.request.commands :
                                      Pending(t) = t.request.commands[j]
<1>1. /\ t.request.target \in Functions \cup {None} /\ t.preserved \in Outputs \cup {None}
      /\ OutputTarget(t) \in Outputs \cup {None} /\ t.todo \in Seq(Commands)
  BY TaskParts, RequestParts, OutputTargetTyped
<1>2. t.at \in {"settings", "function", "output", "compensate", "configure"}
  BY DEF Writing
<1>3. CASE t.at = "function"
  <2>1. t.request.target # None
    BY <1>3 DEF StepsFit, Selects
  <2>2. Pending(t) = [setting |-> "function", value |-> t.request.target]
    BY <1>3 DEF Pending
  <2>3. Pending(t) \in Commands
    BY <1>1, <2>1, <2>2 DEF Commands
  <2>4. QED
    BY <1>3, <2>1, <2>2, <2>3 DEF IsWrite
<1>4. CASE t.at = "configure"
  <2>1. Pending(t) = [setting |-> "meter", value |-> t.request.target]
    BY <1>4 DEF Pending
  <2>2. Pending(t) \in Commands
    BY <1>1, <2>1 DEF Commands
  <2>3. QED
    BY <1>4, <2>1, <2>2 DEF IsWrite
<1>5. CASE t.at = "compensate"
  <2>1. Pending(t) = [setting |-> "output", value |-> t.preserved]
    BY <1>5 DEF Pending
  <2>2. Pending(t) \in Commands
    BY <1>1, <2>1 DEF Commands
  <2>3. QED
    BY <1>5, <2>1, <2>2
<1>6. CASE t.at = "output"
  <2>1. OutputTarget(t) # None
    BY <1>6 DEF StepsFit
  <2>2. Pending(t) = [setting |-> "output", value |-> OutputTarget(t)]
    BY <1>6 DEF Pending
  <2>3. Pending(t) \in Commands
    BY <1>1, <2>1, <2>2 DEF Commands
  <2>4. QED
    BY <1>1, <1>6, <2>1, <2>2, <2>3 DEF IsWrite
<1>7. CASE t.at = "settings"
  <2>1. t.todo # <<>>
    BY <1>7 DEF StepsFit
  <2>2. Pending(t) = Head(t.todo)
    BY <1>7 DEF Pending
  <2>3. Head(t.todo) \in Commands /\ 1 \in DOMAIN t.todo /\ Head(t.todo) = t.todo[1]
    BY <1>1, <2>1, HeadAndTail
  <2>4. \E j \in DOMAIN t.request.commands : t.todo[1] = t.request.commands[j]
    BY <2>3 DEF StepsFit
  <2>5. QED
    BY <1>7, <2>2, <2>3, <2>4
<1>8. QED
  BY <1>2, <1>3, <1>4, <1>5, <1>6, <1>7

\* The commands of the operations that have to keep what they have established.
LEMMA SettingsCommands ==
  ASSUME NEW c \in Clients, NEW r \in RequestsOf[c], NEW j \in DOMAIN r.commands
  PROVE  /\ r.op \in {"generator", "dmm"} => r.commands[j].setting \in Settings
         /\ r.op = "channel" => r.commands[j].setting # "probe"
  BY RequestAssumption

LEMMA RequestsTyped ==
  ASSUME NEW c \in Clients, NEW r \in RequestsOf[c]
  PROVE  /\ r \in Request
         /\ r.op \in {"average", "keepAwake"} => r.commands # <<>>
         /\ r.op = "dmm" => r.target # None
         /\ r.op = "generator" => r.target # None \/ r.output # None \/ r.commands # <<>>
         /\ r.op \in {"writes", "snapshot", "controls", "channel"} =>
              r.commands # <<>> /\ r.target = None
<1>1. RequestsOf \in [Clients -> SUBSET Request]
  BY ControllerAssumption
<1>2. QED
  BY <1>1, RequestAssumption

\* A command has landed.
LEMMA WriteLands ==
  ASSUME IInv, NEW c \in Clients, InTransaction(c), task[c].at \in Writing,
         Lands(c, Pending(task[c]))
  PROVE  /\ instrument' \in Instrument
         /\ \A d \in Dimensions : instrument'[d].now = instrument'[d].next => ~instrument'[d].premature
         /\ LET command == Pending(task[c]) IN
            /\ command.setting # "function" => instrument'.function = instrument.function
            /\ command.setting # "output" => instrument'.output = instrument.output
            /\ command.setting # "meter" => instrument'.meter = instrument.meter
            /\ command.setting # "probe" =>
                 instrument'.settings["probe"] = instrument.settings["probe"]
            /\ command.setting = "function" /\ IsWrite(command) =>
                 instrument'.function.next = command.value
            /\ command.setting = "output" /\ IsWrite(command) =>
                 instrument'.output.next = command.value
            /\ command.setting = "meter" /\ IsWrite(command) =>
                 instrument'.meter.next = command.value
         /\ reached' = [reached EXCEPT ![c] =
                          result[c].completed + IF IsWrite(Pending(task[c])) THEN 1 ELSE 0]
<1> DEFINE command == Pending(task[c])
<1>1. command \in Commands
  BY OwnState, PendingCommand
<1>2. instrument' \in AfterCommand(command)
  BY DEF Lands
<1>3. reached' = [reached EXCEPT ![c] = result[c].completed + IF IsWrite(command) THEN 1 ELSE 0]
  BY OwnState DEF Lands, IInv, TypeOK
<1>4. /\ instrument \in Instrument
      /\ \A d \in Dimensions : instrument[d].now = instrument[d].next => ~instrument[d].premature
  BY OwnState
<1> HIDE DEF command
<1>5. QED
  BY <1>1, <1>2, <1>3, <1>4, CommandLands DEF command

\* An operation starts to wait for the instrument.
LEMMA BarrierStarts ==
  ASSUME IInv, NEW c \in Clients, InTransaction(c), task[c].at # "preflight",
         NEW at \in {"context", "verify", "initial", "compensate", "compensated"},
         NEW r \in Result, Awaits(c, at, r),
         reached' = [reached EXCEPT ![c] = r.completed],
         task[c].request.op # "generator" => r.delivery # "notAttempted",
         instrument' \in Instrument,
         \A d \in Dimensions : instrument'[d].now = instrument'[d].next => ~instrument'[d].premature,
         at # "initial" => Selects(task[c].request),
         at = "initial" => task[c].request.op = "dmm",
         at \in {"compensate", "compensated"} => task[c].request.output = None,
         at = "context" => instrument'.function.next = task[c].request.target,
         at = "verify" => /\ Active(instrument'.function, task[c].request.target)
                          /\ instrument'.output.next = OutputTarget(task[c]),
         at = "initial" => instrument'.meter.next = task[c].request.target
  PROVE  IInv'
<1> DEFINE t == task[c]
           u == [t EXCEPT !.at = at, !.barrier = NewBarrier]
<1>1. t \in Task /\ StepsFit(t) /\ r.completed \in Nat
  BY OwnState, ResultParts
<1>2. at \in Steps
  BY DEF Steps, Writing, Barriers
<1>3. /\ u \in Task /\ u.at = at /\ u.barrier = NewBarrier
      /\ u.request = t.request /\ u.todo = t.todo /\ u.preserved = t.preserved
  BY <1>1, <1>2, MovedTask
<1>4. Goto(c, u) /\ result' = [result EXCEPT ![c] = r] /\ UNCHANGED holder
  BY DEF Awaits
<1> HIDE DEF u
<1>5. OutputTarget(u) = OutputTarget(t)
  BY <1>3 DEF OutputTarget
<1>6. StepsFit(u)
  <2>1. /\ Selects(t.request) => OutputTarget(t) # None
        /\ t.preserved # None => t.request.output = None
    BY <1>1 DEF StepsFit
  <2>2. \A i \in DOMAIN t.todo : \E j \in DOMAIN t.request.commands :
          t.todo[i] = t.request.commands[j]
    BY <1>1 DEF StepsFit
  <2>3. QED
    BY <1>3, <1>5, <2>1, <2>2 DEF StepsFit
<1>7. CountersStop(u)
  BY <1>3, FreshCountersStop
<1>8. StepsFollow(u, instrument')
  <2>1. \A dimension, wanted : dimension.next = wanted => Seen(dimension, wanted, NewBarrier)
    BY DEF Seen, NewBarrier
  <2>2. u.at \notin {"settings", "output", "final"}
    BY <1>3
  <2>3. QED
    BY <1>3, <1>5, <2>1, <2>2 DEF StepsFollow
<1>9. WritesFit(u, r, r.completed)
  BY <1>1, <1>3 DEF WritesFit
<1>10. u.at \notin {"done", "returned"} /\ u.request = task[c].request
  BY <1>3
<1> HIDE DEF t
<1>11. QED
  BY <1>1, <1>3, <1>4, <1>6, <1>7, <1>8, <1>9, <1>10, TransactionGoesOn

LEMMA SentKeeps ==
  ASSUME IInv, NEW c \in Clients, Sent(c)
  PROVE  IInv'
<1> DEFINE t == task[c]
           command == Pending(t)
           report == [result[c] EXCEPT !.completed = @ + IF IsWrite(command) THEN 1 ELSE 0]
<1>1. t.at \in Writing /\ Lands(c, command)
  BY DEF Sent, Sends
<1>2. InTransaction(c)
  BY <1>1 DEF InTransaction, Writing
<1>3. /\ t \in Task /\ StepsFit(t) /\ StepsFollow(t, instrument)
      /\ WritesFit(t, result[c], reached[c])
      /\ t.request \in RequestsOf[c] /\ t.request \in Request /\ result[c] \in Result
  BY <1>2, OwnState, RequestsTyped
<1>4. /\ instrument' \in Instrument
      /\ \A d \in Dimensions : instrument'[d].now = instrument'[d].next => ~instrument'[d].premature
      /\ command.setting # "function" => instrument'.function = instrument.function
      /\ command.setting # "output" => instrument'.output = instrument.output
      /\ command.setting # "meter" => instrument'.meter = instrument.meter
      /\ command.setting # "probe" => instrument'.settings["probe"] = instrument.settings["probe"]
      /\ command.setting = "function" /\ IsWrite(command) => instrument'.function.next = command.value
      /\ command.setting = "output" /\ IsWrite(command) => instrument'.output.next = command.value
      /\ command.setting = "meter" /\ IsWrite(command) => instrument'.meter.next = command.value
      /\ reached' = [reached EXCEPT ![c] = result[c].completed + IF IsWrite(command) THEN 1 ELSE 0]
  BY <1>1, <1>2, WriteLands
<1>5. /\ report \in Result /\ report.delivery = result[c].delivery
      /\ report.completed = result[c].completed + IF IsWrite(command) THEN 1 ELSE 0
  BY <1>3 DEF Result
<1>6. reached' = [reached EXCEPT ![c] = report.completed]
  BY <1>4, <1>5
<1>7. t.request.op # "generator" => report.delivery # "notAttempted"
  BY <1>2, <1>3, <1>5 DEF WritesFit, InTransaction
<1>8. /\ t.at = "function" => command.setting = "function" /\ command.value = t.request.target /\ IsWrite(command)
      /\ t.at = "configure" => /\ command.setting = "meter" /\ command.value = t.request.target
                               /\ t.request.target # None => IsWrite(command)
      /\ t.at = "output" => command.setting = "output" /\ command.value = OutputTarget(t) /\ IsWrite(command)
      /\ t.at = "settings" => \E j \in DOMAIN t.request.commands : command = t.request.commands[j]
  BY <1>1, <1>3, PendingCommand
<1>9. \/ t.at = "function" /\ Awaits(c, "context", report)
      \/ t.at = "configure" /\ Awaits(c, "initial", report)
      \/ t.at = "compensate" /\ Awaits(c, "compensated", report)
      \/ t.at = "output" /\ t.request.target # None /\ Awaits(c, "verify", report)
      \/ /\ t.at = "output" /\ t.request.target = None
         /\ Returns(c, [report EXCEPT !.delivery = "unverified"])
      \/ t.at = "settings" /\ Proceeds(c, Tail(t.todo), report)
  BY DEF Sent
<1> HIDE DEF command, report
<1>10. CASE t.at = "function" /\ Awaits(c, "context", report)
  <2>1. Selects(t.request)
    BY <1>3, <1>10 DEF StepsFit
  <2>2. instrument'.function.next = t.request.target
    BY <1>4, <1>8, <1>10
  <2> HIDE DEF t
  <2>3. QED
    BY <1>2, <1>4, <1>5, <1>6, <1>7, <1>10, <2>1, <2>2, BarrierStarts DEF t
<1>11. CASE t.at = "configure" /\ Awaits(c, "initial", report)
  <2>1. t.request.op = "dmm"
    BY <1>3, <1>11 DEF StepsFit
  <2>2. t.request.target # None
    BY <1>3, <2>1, RequestsTyped
  <2>3. instrument'.meter.next = t.request.target
    BY <1>4, <1>8, <1>11, <2>2
  <2>4. QED
    BY <1>2, <1>4, <1>5, <1>6, <1>7, <1>11, <2>1, <2>3, BarrierStarts
<1>12. CASE t.at = "compensate" /\ Awaits(c, "compensated", report)
  <2>1. Selects(t.request) /\ t.request.output = None
    BY <1>3, <1>12 DEF StepsFit
  <2>2. QED
    BY <1>2, <1>4, <1>5, <1>6, <1>7, <1>12, <2>1, BarrierStarts
<1>13. CASE t.at = "output" /\ t.request.target # None /\ Awaits(c, "verify", report)
  <2>1. Selects(t.request)
    BY <1>3, <1>13 DEF StepsFit, Selects
  <2>2. Active(instrument.function, t.request.target)
    BY <1>3, <1>13, <2>1 DEF StepsFollow
  <2>3. instrument'.function = instrument.function
    BY <1>4, <1>8, <1>13
  <2>4. instrument'.output.next = OutputTarget(t)
    BY <1>4, <1>8, <1>13
  <2>5. QED
    BY <1>2, <1>4, <1>5, <1>6, <1>7, <1>13, <2>1, <2>2, <2>3, <2>4, BarrierStarts
<1>14. CASE /\ t.at = "output" /\ t.request.target = None
            /\ Returns(c, [report EXCEPT !.delivery = "unverified"])
  <2> DEFINE f == [report EXCEPT !.delivery = "unverified"]
  <2>1. f \in Result /\ f.delivery = "unverified" /\ f.completed = report.completed
    BY <1>5 DEF Result, Deliveries
  <2>2. Returns(c, f)
    BY <1>14
  <2> HIDE DEF f
  <2>3. /\ report.completed \in Nat /\ report.completed >= f.completed
        /\ report.completed <= f.completed + 1 /\ ~(report.completed > f.completed)
        /\ f.delivery # "notAttempted"
    BY <1>5, <2>1, ResultParts
  <2> HIDE DEF t
  <2>4. QED
    BY <1>2, <1>4, <1>6, <2>1, <2>2, <2>3, TransactionEnds
<1>15. CASE t.at = "settings" /\ Proceeds(c, Tail(t.todo), report)
  <2>1. t.todo \in Seq(Commands) /\ t.todo # <<>>
    BY <1>3, <1>15, TaskParts DEF StepsFit
  <2>2. /\ Tail(t.todo) \in Seq(Commands)
        /\ \A i \in DOMAIN Tail(t.todo) : i + 1 \in DOMAIN t.todo /\ Tail(t.todo)[i] = t.todo[i + 1]
    BY <2>1, HeadAndTail
  <2>3. \A i \in DOMAIN Tail(t.todo) : \E j \in DOMAIN t.request.commands :
          Tail(t.todo)[i] = t.request.commands[j]
    BY <1>3, <2>2 DEF StepsFit
  <2>4. /\ t.request.op \in {"generator", "dmm"} => command.setting \in Settings
        /\ t.request.op = "channel" => command.setting # "probe"
    BY <1>3, <1>8, <1>15, SettingsCommands
  <2>5. /\ t.request.op \in {"generator", "dmm"} =>
             instrument'.function = instrument.function /\ instrument'.meter = instrument.meter
        /\ t.request.op = "channel" => instrument'.settings["probe"] = instrument.settings["probe"]
    BY <1>4, <2>4, DimensionsAreNoSettings
  <2>6. Selects(t.request) =>
          OutputTarget(t) # None /\ Active(instrument'.function, t.request.target)
    BY <1>3, <1>15, <2>5 DEF StepsFit, StepsFollow, Selects
  <2>7. t.request.op = "dmm" /\ t.request.target \notin Companions =>
          Active(instrument'.meter, t.request.target)
    BY <1>3, <1>15, <2>5 DEF StepsFollow
  <2>8. t.request.op = "channel" =>
          \A i \in DOMAIN Tail(t.todo) : Tail(t.todo)[i].setting = "scale" =>
            <<instrument'.settings["probe"], Tail(t.todo)[i].value>> \in Fitting
    BY <1>3, <1>15, <2>2, <2>5 DEF StepsFollow
  <2> DEFINE rest == Tail(t.todo)
  <2>9. /\ rest \in Seq(Commands) /\ Proceeds(c, rest, report)
        /\ \A i \in DOMAIN rest : \E j \in DOMAIN t.request.commands :
             rest[i] = t.request.commands[j]
        /\ t.request.op = "channel" =>
             \A i \in DOMAIN rest : rest[i].setting = "scale" =>
               <<instrument'.settings["probe"], rest[i].value>> \in Fitting
    BY <1>15, <2>2, <2>3, <2>8
  <2> HIDE DEF rest
  <2>10. QED
    BY <1>2, <1>4, <1>5, <1>6, <1>7, <2>6, <2>7, <2>9, OperationGoesOn
<1>16. QED
  BY <1>9, <1>10, <1>11, <1>12, <1>13, <1>14, <1>15

\* Nothing has changed but what the client says.
LEMMA InstrumentKept ==
  ASSUME IInv, NEW c \in Clients, InTransaction(c), UNCHANGED <<instrument, reached>>
  PROVE  /\ instrument' \in Instrument /\ instrument' = instrument
         /\ \A d \in Dimensions : instrument'[d].now = instrument'[d].next => ~instrument'[d].premature
         /\ reached' = [reached EXCEPT ![c] = reached[c]]
         /\ reached' = [reached EXCEPT ![c] = result[c].completed]
         /\ reached[c] \in Nat
<1>1. reached = [reached EXCEPT ![c] = reached[c]] /\ reached[c] = result[c].completed
  BY OwnState DEF IInv, TypeOK
<1>2. QED
  BY <1>1, OwnState

LEMMA FailsQuietly ==
  ASSUME IInv, NEW c \in Clients, InTransaction(c), Fails(c), UNCHANGED <<instrument, reached>>
  PROVE  IInv'
<1>1. reached[c] \in Nat /\ reached' = [reached EXCEPT ![c] = reached[c]]
  BY InstrumentKept
<1>2. QED
  BY <1>1, InstrumentKept, OperationFails

LEMMA ReturnsQuietly ==
  ASSUME IInv, NEW c \in Clients, InTransaction(c), NEW r \in Result, Returns(c, r),
         UNCHANGED <<instrument, reached>>,
         r.completed = result[c].completed, r.delivery # "notAttempted"
  PROVE  IInv'
<1>1. /\ reached[c] = r.completed /\ reached[c] \in Nat /\ r.completed \in Nat
  BY OwnState
<1>2. reached[c] >= r.completed /\ reached[c] <= r.completed + 1 /\ ~(reached[c] > r.completed)
  BY <1>1
<1>3. QED
  BY <1>1, <1>2, InstrumentKept, TransactionEnds

LEMMA NotSentKeeps ==
  ASSUME IInv, NEW c \in Clients, NotSent(c)
  PROVE  IInv'
<1> DEFINE t == task[c]
           command == Pending(t)
<1>1. t.at \in Writing /\ SendFails(c, command)
  BY DEF NotSent
<1>2. InTransaction(c)
  BY <1>1 DEF InTransaction, Writing
<1>3. /\ t \in Task /\ StepsFit(t) /\ t.request \in RequestsOf[c] /\ result[c] \in Result
      /\ WritesFit(t, result[c], reached[c]) /\ reached[c] = result[c].completed
      /\ result[c].completed \in Nat
  BY <1>2, OwnState, ResultParts
<1>4. PICK n \in Nat :
        /\ reached' = [reached EXCEPT ![c] = n]
        /\ n = reached[c] \/ (n = reached[c] + 1 /\ IsWrite(command))
        /\ instrument' \in Instrument
        /\ \A d \in Dimensions : instrument'[d].now = instrument'[d].next => ~instrument'[d].premature
  <2>1. CASE Lands(c, command)
    <3> DEFINE n == result[c].completed + IF IsWrite(command) THEN 1 ELSE 0
    <3>1. /\ reached' = [reached EXCEPT ![c] = n] /\ instrument' \in Instrument
          /\ \A d \in Dimensions : instrument'[d].now = instrument'[d].next => ~instrument'[d].premature
      BY <1>1, <1>2, <2>1, WriteLands
    <3>2. n \in Nat /\ (n = reached[c] \/ (n = reached[c] + 1 /\ IsWrite(command)))
      <4>1. CASE IsWrite(command)
        BY <1>3, <4>1
      <4>2. CASE ~IsWrite(command)
        BY <1>3, <4>2
      <4>3. QED
        BY <4>1, <4>2
    <3> HIDE DEF n
    <3>3. QED
      BY <3>1, <3>2
  <2>2. CASE UNCHANGED <<instrument, reached>>
    <3>1. /\ reached[c] \in Nat /\ reached' = [reached EXCEPT ![c] = reached[c]]
          /\ instrument' \in Instrument
          /\ \A d \in Dimensions : instrument'[d].now = instrument'[d].next => ~instrument'[d].premature
      BY <1>2, <2>2, InstrumentKept
    <3>2. QED
      BY <3>1
  <2>3. QED
    BY <1>1, <2>1, <2>2 DEF SendFails
<1>5. CASE RangeMissing(t) /\ Returns(c, result[c])
  <2>1. t.request.op = "controls"
    BY <1>5 DEF RangeMissing
  <2>2. t.at = "settings"
    BY <1>1, <1>3, <2>1 DEF StepsFit, Selects, Writing
  <2>3. PICK j \in DOMAIN t.request.commands : command = t.request.commands[j]
    BY <1>1, <1>3, <2>2, PendingCommand
  <2>4. ~IsWrite(command)
    BY <1>3, <2>1, <2>3, RequestAssumption DEF IsWrite
  <2>5. n = result[c].completed
    BY <1>3, <1>4, <2>4
  <2>6. result[c].delivery # "notAttempted"
    BY <1>2, <1>3, <2>1 DEF WritesFit, InTransaction
  <2>7. n >= result[c].completed /\ n <= result[c].completed + 1 /\ ~(n > result[c].completed)
    BY <1>3, <2>5
  <2> HIDE DEF t, command
  <2>8. QED
    BY <1>2, <1>3, <1>4, <1>5, <2>6, <2>7, TransactionEnds
<1>6. CASE Fails(c)
  <2>1. t.at # "preflight"
    BY <1>1 DEF Writing
  <2>2. QED
    BY <1>2, <1>4, <1>6, <2>1, OperationFails
<1>7. QED
  BY <1>5, <1>6 DEF NotSent

LEMMA UnparsableKeeps ==
  ASSUME IInv, NEW c \in Clients, Unparsable(c)
  PROVE  IInv'
<1>1. InTransaction(c) /\ Fails(c) /\ UNCHANGED <<instrument, reached>>
  BY DEF Unparsable, InTransaction
<1>2. QED
  BY <1>1, FailsQuietly

LEMMA ReadFailsKeeps ==
  ASSUME IInv, NEW c \in Clients, ReadFails(c)
  PROVE  IInv'
<1>1. InTransaction(c) /\ Fails(c) /\ UNCHANGED <<instrument, reached>>
  BY DEF ReadFails, InTransaction, Reading
<1>2. QED
  BY <1>1, FailsQuietly

LEMMA BarrierBreaksKeeps ==
  ASSUME IInv, NEW c \in Clients, BarrierBreaks(c)
  PROVE  IInv'
<1>1. InTransaction(c) /\ Fails(c) /\ UNCHANGED <<instrument, reached>>
  BY DEF BarrierBreaks, InTransaction, Barriers
<1>2. QED
  BY <1>1, FailsQuietly

LEMMA BarrierGivesUpKeeps ==
  ASSUME IInv, NEW c \in Clients, BarrierGivesUp(c)
  PROVE  IInv'
<1> DEFINE t == task[c]
<1>1. InTransaction(c) /\ UNCHANGED <<instrument, reached>>
  BY DEF BarrierGivesUp, InTransaction, Barriers
<1>2. CASE MustCompensate(t)
  <2>1. Awaits(c, "compensate", result[c]) /\ t.at = "context" /\ t.preserved # None
    BY <1>2 DEF BarrierGivesUp, MustCompensate
  <2>2. /\ StepsFit(t) /\ t \in Task /\ result[c] \in Result /\ WritesFit(t, result[c], reached[c])
        /\ t.request.op # "generator" => result[c].delivery # "notAttempted"
    BY <1>1, OwnState DEF WritesFit, InTransaction
  <2>3. Selects(t.request)
    BY <2>1, <2>2 DEF StepsFit
  <2>4. t.request.output = None
    BY <2>1, <2>2 DEF StepsFit
  <2>5. QED
    BY <1>1, <2>1, <2>2, <2>3, <2>4, InstrumentKept, BarrierStarts
<1>3. CASE ~MustCompensate(t)
  <2>1. Fails(c)
    BY <1>3 DEF BarrierGivesUp
  <2>2. QED
    BY <1>1, <2>1, FailsQuietly
<1>4. QED
  BY <1>2, <1>3

-----------------------------------------------------------------------------
(* The barriers.                                                           *)

\* One reply, of which a barrier counts what it should.
LEMMA ReplyCounted ==
  ASSUME NEW t \in Task, t.at \in Barriers, t.barrier.verdict = "open", CountersStop(t),
         NEW reply, t.at = "preflight" => reply \in {Unavailable, Malformed} \cup Outputs
  PROVE  LET b == Counted(t, reply)
             u == [t EXCEPT !.barrier = b] IN
         /\ b \in Barrier /\ u \in Task /\ CountersStop(u)
         /\ b.verdict # "semantic" /\ b.matches > 0 /\ Wanted(t) # None =>
              reply = Wanted(t) /\ b.matches = t.barrier.matches + 1
         /\ b.verdict = "converged" => b.matches = 2 /\ t.barrier.matches = 1
<1> DEFINE old == t.barrier
           b == Counted(t, reply)
           u == [t EXCEPT !.barrier = b]
           matches == Matches(old, reply, Wanted(t))
           observations == IF IsCounted(t.at) THEN old.observations + 1 ELSE 0
<1>1. /\ old.matches \in 0..1 /\ old.observations \in 0..(MaxObservations - 1)
      /\ old.previous \in Outputs \cup {None} /\ MaxObservations \in Nat /\ MaxObservations > 1
      /\ old \in Barrier
  BY ObservationsAreNatural, TaskParts DEF Barrier, CountersStop, RequiredMatches, Exhausted
<1>2. CASE reply = Malformed
  <2>1. b = [old EXCEPT !.previous = None, !.verdict = "semantic"]
    BY <1>2 DEF Counted
  <2>2. b \in Barrier /\ b.verdict = "semantic"
    BY <1>1, <2>1 DEF Barrier
  <2> HIDE DEF b
  <2>3. u \in Task /\ u.barrier = b
    BY <2>2 DEF Task
  <2> HIDE DEF u
  <2>4. CountersStop(u)
    BY <2>2, <2>3 DEF CountersStop
  <2>5. QED
    BY <2>2, <2>3, <2>4 DEF u, b
<1>3. CASE reply # Malformed
  <2> DEFINE previous == IF t.at = "preflight" /\ reply # Unavailable THEN reply ELSE None
             verdict == IF matches >= RequiredMatches THEN "converged"
                        ELSE IF IsCounted(t.at) /\ Exhausted(observations) THEN "semantic"
                        ELSE "open"
  <2>1. b = [matches |-> matches, observations |-> observations,
             previous |-> previous, verdict |-> verdict]
    BY <1>3 DEF Counted
  <2>2. /\ matches \in 0..2 /\ matches <= old.matches + 1
        /\ matches > 0 => reply # Unavailable
        /\ matches = 2 => old.matches = 1
        /\ matches > 0 /\ Wanted(t) # None => reply = Wanted(t) /\ matches = old.matches + 1
    BY <1>1 DEF Matches
  <2>3. observations \in 0..MaxObservations /\ (~IsCounted(t.at) => observations = 0)
    BY <1>1
  <2>4. previous \in Outputs \cup {None}
    BY <1>3
  <2>5. t.at = "preflight" /\ matches > 0 => previous # None
    BY <1>3, <2>2, NoneIsNoValue
  <2> HIDE DEF matches, observations, previous
  <2>6. /\ verdict \in {"open", "converged", "semantic"}
        /\ verdict = "open" => matches < 2 /\ ~Exhausted(observations)
        /\ verdict = "converged" => matches = 2
    BY <1>1, <2>2, <2>3 DEF RequiredMatches, Exhausted
  <2> HIDE DEF verdict
  <2>7. /\ b \in Barrier /\ b.matches = matches /\ b.observations = observations
        /\ b.previous = previous /\ b.verdict = verdict
    BY <2>1, <2>2, <2>3, <2>4, <2>6 DEF Barrier
  <2> HIDE DEF b
  <2>8. u \in Task /\ u.barrier = b /\ u.at = t.at
    BY <2>7 DEF Task
  <2> HIDE DEF u
  <2>9. CountersStop(u)
    BY <2>5, <2>6, <2>7, <2>8 DEF CountersStop, RequiredMatches
  <2>10. QED
    BY <2>2, <2>6, <2>7, <2>8, <2>9 DEF u, b
<1>4. QED
  BY <1>2, <1>3

\* What a dimension may answer.
LEMMA AnswerIsTrue ==
  ASSUME NEW d \in Dimensions, NEW wanted, NEW reply \in Replies(d, wanted),
         wanted # Unavailable, wanted # Malformed, wanted \notin Companions \/ d # "meter",
         reply = wanted
  PROVE  \/ instrument[d].now = wanted
         \/ ~instrument[d].premature /\ instrument[d].next = wanted
  BY DEF Replies

\* A barrier that has counted a reply has seen what it reports.
LEMMA SeenMore ==
  ASSUME NEW d \in Dimensions, NEW wanted, wanted # Unavailable, wanted # Malformed,
         wanted # None, wanted \notin Companions \/ d # "meter",
         NEW reply \in Replies(d, wanted), NEW old, NEW b,
         old.verdict = "open", old.matches \in Nat, b.matches \in Nat,
         Seen(instrument[d], wanted, old), NEW dimension,
         dimension.now = instrument[d].now, dimension.next = instrument[d].next,
         dimension.premature = (reply = instrument[d].next /\ reply # instrument[d].now),
         b.verdict # "semantic" /\ b.matches > 0 => reply = wanted /\ b.matches = old.matches + 1,
         b.verdict = "converged" => b.matches = 2 /\ old.matches = 1
  PROVE  Seen(dimension, wanted, b)
<1>1. dimension.next = wanted
  BY DEF Seen
<1>2. ASSUME b.verdict = "open", b.matches > 0
      PROVE  dimension.now = wanted \/ dimension.premature
  BY <1>1, <1>2
<1>3. ASSUME b.verdict = "converged"
      PROVE  dimension.now = wanted
  <2>1. reply = wanted /\ old.matches > 0
    BY <1>3
  <2>2. instrument[d].now = wanted \/ instrument[d].premature
    BY <2>1 DEF Seen
  <2>3. QED
    BY <2>1, <2>2, AnswerIsTrue
<1>4. QED
  BY <1>1, <1>2, <1>3 DEF Seen

LEMMA ObserveKeeps ==
  ASSUME IInv, NEW c \in Clients, Observe(c)
  PROVE  IInv'
<1> DEFINE t == task[c]
           d == Observed(t.at)
<1>1. PICK reply \in Replies(d, Wanted(t)) :
        /\ Goto(c, [t EXCEPT !.barrier = Counted(t, reply)])
        /\ instrument' = [instrument EXCEPT ![d].premature =
                            reply = instrument[d].next /\ reply # instrument[d].now]
  BY DEF Observe
<1>2. t.at \in Barriers /\ t.barrier.verdict = "open" /\ UNCHANGED <<result, holder, reached>>
  BY DEF Observe
<1>3. InTransaction(c)
  BY <1>2 DEF InTransaction, Barriers
<1>4. /\ t \in Task /\ StepsFit(t) /\ CountersStop(t) /\ StepsFollow(t, instrument)
      /\ WritesFit(t, result[c], reached[c]) /\ instrument \in Instrument
      /\ \A e \in Dimensions : instrument[e].now = instrument[e].next => ~instrument[e].premature
      /\ t.request \in RequestsOf[c] /\ result[c] \in Result /\ reached[c] \in Nat
  BY <1>3, OwnState
<1>5. /\ t.at \in {"preflight", "verify", "compensated"} => d = "output"
      /\ t.at = "context" => d = "function"
      /\ t.at \in {"initial", "final"} => d = "meter"
      /\ d \in Dimensions
  BY <1>2 DEF Observed, Barriers, Dimensions
<1> DEFINE dimension == [instrument[d] EXCEPT !.premature =
                           reply = instrument[d].next /\ reply # instrument[d].now]
<1>6. /\ instrument' \in Instrument /\ instrument'.settings = instrument.settings
      /\ \A e \in Dimensions : e # d => instrument'[e] = instrument[e]
      /\ instrument'[d] = dimension
      /\ dimension.now = instrument[d].now /\ dimension.next = instrument[d].next
      /\ dimension.premature = (reply = instrument[d].next /\ reply # instrument[d].now)
  BY <1>1, <1>4, <1>5 DEF Instrument, Dimension, Dimensions
<1>7. \A e \in Dimensions : instrument'[e].now = instrument'[e].next => ~instrument'[e].premature
  BY <1>4, <1>6
<1>8. \A e \in Dimensions : instrument'[e].now = instrument[e].now /\ instrument'[e].next = instrument[e].next
  BY <1>6
<1> DEFINE b == Counted(t, reply)
           u == [t EXCEPT !.barrier = b]
<1>9. t.at = "preflight" => reply \in {Unavailable, Malformed} \cup Outputs
  <2>1. t.at = "preflight" => d = "output" /\ Wanted(t) = None
    BY <1>5 DEF Wanted
  <2>2. instrument.output.now \in Outputs /\ instrument.output.next \in Outputs
    BY <1>4, InstrumentParts DEF Dimension
  <2>3. QED
    BY <2>1, <2>2 DEF Replies
<1>10. /\ b \in Barrier /\ u \in Task /\ CountersStop(u)
       /\ b.verdict # "semantic" /\ b.matches > 0 /\ Wanted(t) # None =>
            reply = Wanted(t) /\ b.matches = t.barrier.matches + 1
       /\ b.verdict = "converged" => b.matches = 2 /\ t.barrier.matches = 1
  BY <1>2, <1>4, <1>9, ReplyCounted
<1>11. Goto(c, u)
  BY <1>1
<1> HIDE DEF b, dimension
<1>12. /\ u.at = t.at /\ u.request = t.request /\ u.todo = t.todo /\ u.preserved = t.preserved
       /\ u.barrier = b
  BY <1>4 DEF Task
<1> HIDE DEF u
<1>13. OutputTarget(u) = OutputTarget(t)
  BY <1>12 DEF OutputTarget
<1>14. StepsFit(u)
  BY <1>4, <1>12, <1>13 DEF StepsFit
<1>15. t.barrier.matches \in Nat /\ b.matches \in Nat
  <2>1. t.barrier \in Barrier
    BY <1>4, TaskParts
  <2>2. \A barrier \in Barrier : barrier.matches \in Nat
    BY DEF Barrier
  <2>3. QED
    BY <1>10, <2>1, <2>2
<1>16. ASSUME Wanted(t) \in Functions \cup Outputs, Wanted(t) \notin Companions \/ d # "meter",
              Seen(instrument[d], Wanted(t), t.barrier)
       PROVE  Seen(instrument'[d], Wanted(t), b)
  <2>1. Wanted(t) # None /\ Wanted(t) # Unavailable /\ Wanted(t) # Malformed
    BY <1>16, NoneIsNoValue, RepliesDiffer
  <2> DEFINE wanted == Wanted(t)
             old == t.barrier
             new == instrument'[d]
  <2>2. /\ reply \in Replies(d, wanted) /\ wanted # None /\ wanted # Unavailable /\ wanted # Malformed
        /\ wanted \notin Companions \/ d # "meter"
        /\ Seen(instrument[d], wanted, old)
        /\ old.verdict = "open" /\ old.matches \in Nat
        /\ new.now = instrument[d].now /\ new.next = instrument[d].next
        /\ new.premature = (reply = instrument[d].next /\ reply # instrument[d].now)
        /\ b.verdict # "semantic" /\ b.matches > 0 => reply = wanted /\ b.matches = old.matches + 1
        /\ b.verdict = "converged" => b.matches = 2 /\ old.matches = 1
    BY <1>1, <1>2, <1>6, <1>10, <1>15, <1>16, <2>1
  <2> HIDE DEF wanted, old, new, d
  <2>3. Seen(new, wanted, b)
    BY <1>5, <1>15, <2>2, SeenMore
  <2>4. QED
    BY <2>3 DEF new, wanted, old
<1>17. StepsFollow(u, instrument')
  <2>1. ASSUME t.at = "context"
        PROVE  Seen(instrument'.function, t.request.target, b)
    <3>1. t.request.target \in Functions /\ Wanted(t) = t.request.target /\ d = "function"
      BY <1>4, <1>5, <2>1, TaskParts, RequestParts DEF StepsFit, Selects, Wanted
    <3>2. Seen(instrument.function, t.request.target, t.barrier)
      BY <1>4, <2>1 DEF StepsFollow
    <3>3. QED
      BY <1>16, <3>1, <3>2
  <2>2. ASSUME t.at = "verify"
        PROVE  Seen(instrument'.output, OutputTarget(t), b)
    <3>1. OutputTarget(t) \in Outputs /\ Wanted(t) = OutputTarget(t) /\ d = "output"
      BY <1>4, <1>5, <2>2, OutputTargetTyped DEF StepsFit, Wanted
    <3>2. Seen(instrument.output, OutputTarget(t), t.barrier)
      BY <1>4, <2>2 DEF StepsFollow
    <3>3. QED
      BY <1>16, <3>1, <3>2
  <2>3. ASSUME t.at = "initial", t.request.op = "dmm", t.request.target \notin Companions
        PROVE  Seen(instrument'.meter, t.request.target, b)
    <3>1. t.request.target \in Functions /\ Wanted(t) = t.request.target /\ d = "meter"
      BY <1>4, <1>5, <2>3, TaskParts, RequestParts, RequestsTyped DEF Wanted
    <3>2. Seen(instrument.meter, t.request.target, t.barrier)
      BY <1>4, <2>3 DEF StepsFollow
    <3>3. QED
      BY <1>16, <2>3, <3>1, <3>2
  <2>4. /\ t.at \in {"settings", "output", "verify"} /\ Selects(t.request) =>
             Active(instrument'.function, t.request.target)
        /\ t.at \in {"settings", "final"} /\ t.request.op = "dmm" /\ t.request.target \notin Companions =>
             Active(instrument'.meter, t.request.target)
    BY <1>4, <1>8 DEF StepsFollow, Active, Dimensions
  <2>5. t.at # "settings"
    BY <1>2 DEF Barriers
  <2>6. QED
    BY <1>12, <1>13, <2>1, <2>2, <2>3, <2>4, <2>5 DEF StepsFollow
<1>18. WritesFit(u, result[c], reached[c])
  BY <1>4, <1>12 DEF WritesFit
<1>19. /\ result' = [result EXCEPT ![c] = result[c]] /\ reached' = [reached EXCEPT ![c] = reached[c]]
  BY <1>2 DEF IInv, TypeOK
<1>20. u.at \notin {"done", "returned"} /\ u.request = task[c].request /\ UNCHANGED holder
  BY <1>2, <1>3, <1>12 DEF InTransaction
<1>21. u \in Task /\ CountersStop(u)
  BY <1>10
<1> HIDE DEF t, d
<1>22. QED
  BY <1>3, <1>4, <1>6, <1>7, <1>11, <1>14, <1>17, <1>18, <1>19, <1>20, <1>21, TransactionGoesOn

LEMMA BarrierConvergesKeeps ==
  ASSUME IInv, NEW c \in Clients, BarrierConverges(c)
  PROVE  IInv'
<1> DEFINE t == task[c]
           report == result[c]
<1>1. t.at \in Barriers /\ t.barrier.verdict = "converged" /\ UNCHANGED <<instrument, reached>>
  BY DEF BarrierConverges
<1>2. InTransaction(c)
  BY <1>1 DEF InTransaction, Barriers
<1>3. /\ t \in Task /\ StepsFit(t) /\ CountersStop(t) /\ StepsFollow(t, instrument)
      /\ WritesFit(t, report, reached[c]) /\ report \in Result /\ reached[c] = report.completed
      /\ t.request.op # "generator" => report.delivery # "notAttempted"
  BY <1>2, OwnState DEF WritesFit, InTransaction
<1>4. t.preserved \in Outputs \cup {None} /\ t.barrier.previous \in Outputs \cup {None}
  BY <1>3, TaskParts DEF Barrier
<1>5. CASE t.at = "preflight" /\ Goto(c, [t EXCEPT !.at = "function", !.preserved = t.barrier.previous,
                                                   !.barrier = NewBarrier])
           /\ result' = [result EXCEPT ![c].compensation = "unverified", ![c].output = t.barrier.previous]
           /\ UNCHANGED holder
  <2> DEFINE u == [t EXCEPT !.at = "function", !.preserved = t.barrier.previous, !.barrier = NewBarrier]
             r == [report EXCEPT !.compensation = "unverified", !.output = t.barrier.previous]
  <2>1. "function" \in Steps
    BY DEF Steps, Writing
  <2>2. /\ u \in Task /\ u.at = "function" /\ u.preserved = t.barrier.previous
        /\ u.barrier = NewBarrier /\ u.request = t.request /\ u.todo = t.todo
    BY <1>3, <1>4, <2>1, NewBarrierTyped DEF Task
  <2>3. r \in Result /\ r.completed = report.completed /\ result' = [result EXCEPT ![c] = r]
    BY <1>3, <1>4, <1>5 DEF Result, Compensations, IInv, TypeOK
  <2>4. Goto(c, u)
    BY <1>5
  <2> HIDE DEF u, r
  <2>5. t.barrier.previous # None
    BY <1>1, <1>3, <1>5 DEF CountersStop, RequiredMatches
  <2>6. Selects(t.request) /\ t.request.output = None
    BY <1>3, <1>5 DEF StepsFit
  <2>7. OutputTarget(u) # None
    BY <2>2, <2>5, <2>6 DEF OutputTarget
  <2>8. StepsFit(u)
    <3>1. \A i \in DOMAIN t.todo : \E j \in DOMAIN t.request.commands : t.todo[i] = t.request.commands[j]
      BY <1>3 DEF StepsFit
    <3>2. QED
      BY <2>2, <2>6, <2>7, <3>1 DEF StepsFit
  <2>9. CountersStop(u) /\ StepsFollow(u, instrument')
    BY <2>2, FreshCountersStop DEF StepsFollow
  <2>10. WritesFit(u, r, reached[c])
    <3>1. t.request.op = "generator" /\ r.completed \in Nat
      BY <2>3, <2>6, ResultParts DEF Selects
    <3>2. QED
      BY <1>3, <2>2, <2>3, <3>1 DEF WritesFit
  <2> HIDE DEF t
  <2>11. u.at \notin {"done", "returned"} /\ u.request = task[c].request /\ UNCHANGED holder
    BY <1>5, <2>2 DEF t
  <2>12. QED
    BY <1>1, <1>2, <2>2, <2>3, <2>4, <2>8, <2>9, <2>10, <2>11, InstrumentKept, TransactionGoesOn
<1>6. CASE t.at \in {"context", "initial"} /\ Proceeds(c, t.todo, report)
  <2>1. t.at = "context" => Selects(t.request) /\ Active(instrument.function, t.request.target)
    BY <1>1, <1>3, <1>6 DEF StepsFit, StepsFollow, Seen, Active
  <2>2. t.at = "initial" => /\ t.request.op = "dmm"
                            /\ t.request.target \notin Companions => Active(instrument.meter, t.request.target)
    BY <1>1, <1>3, <1>6 DEF StepsFit, StepsFollow, Seen, Active
  <2>3. /\ Selects(t.request) =>
             OutputTarget(t) # None /\ Active(instrument'.function, t.request.target)
        /\ t.request.op = "dmm" /\ t.request.target \notin Companions =>
             Active(instrument'.meter, t.request.target)
        /\ t.request.op # "channel"
    BY <1>1, <1>3, <1>6, <2>1, <2>2 DEF StepsFit, Selects
  <2> DEFINE todo == t.todo
  <2>4. /\ todo \in Seq(Commands) /\ Proceeds(c, todo, report)
        /\ \A i \in DOMAIN todo : \E j \in DOMAIN t.request.commands : todo[i] = t.request.commands[j]
    BY <1>3, <1>6, TaskParts DEF StepsFit
  <2> HIDE DEF todo
  <2>5. QED
    BY <1>1, <1>2, <1>3, <2>3, <2>4, InstrumentKept, OperationGoesOn
<1>7. CASE t.at = "compensated"
           /\ Returns(c, [Failure(t, report) EXCEPT !.compensation = "verified", !.output = t.preserved])
  <2> DEFINE f == Failure(t, report)
             r == [f EXCEPT !.compensation = "verified", !.output = t.preserved]
  <2>1. t.request.op = "generator"
    BY <1>3, <1>7 DEF StepsFit, Selects
  <2>2. f \in Result /\ f.completed = report.completed /\ f.delivery = "partialOrUnknown"
    BY <1>3, <1>7, <2>1, FailureTyped DEF FailedDelivery
  <2> HIDE DEF f
  <2>3. r \in Result /\ r.completed = report.completed /\ r.delivery # "notAttempted"
    BY <1>4, <2>2 DEF Result, Compensations
  <2>4. Returns(c, r)
    BY <1>7 DEF f
  <2> HIDE DEF r
  <2>5. QED
    BY <1>1, <1>2, <2>3, <2>4, ReturnsQuietly
<1>8. CASE t.at = "verify"
           /\ Returns(c, [report EXCEPT !.compensation = "verified", !.output = OutputTarget(t),
                            !.delivery = IF t.request.commands = <<>> THEN "verified" ELSE "unverified"])
  <2> DEFINE r == [report EXCEPT !.compensation = "verified", !.output = OutputTarget(t),
                     !.delivery = IF t.request.commands = <<>> THEN "verified" ELSE "unverified"]
  <2>1. OutputTarget(t) \in Outputs \cup {None}
    BY <1>3, OutputTargetTyped
  <2>2. r \in Result /\ r.completed = report.completed /\ r.delivery # "notAttempted"
    BY <1>3, <2>1 DEF Result, Compensations, Deliveries
  <2>3. Returns(c, r)
    BY <1>8
  <2> HIDE DEF r
  <2>4. QED
    BY <1>1, <1>2, <2>2, <2>3, ReturnsQuietly
<1>9. CASE t.at = "final" /\ Returns(c, report)
  <2>1. report.delivery # "notAttempted"
    BY <1>3, <1>9 DEF StepsFit
  <2>2. QED
    BY <1>1, <1>2, <1>3, <1>9, <2>1, ReturnsQuietly
<1>10. QED
  BY <1>5, <1>6, <1>7, <1>8, <1>9 DEF BarrierConverges

-----------------------------------------------------------------------------
(* The single queries.                                                     *)

\* An operation that only read goes on with all of its commands.
LEMMA ReadingGoesOn ==
  ASSUME IInv, NEW c \in Clients, task[c].at \in {"probe", "timer"},
         Proceeds(c, task[c].todo, result[c]), UNCHANGED <<instrument, reached>>,
         task[c].at = "probe" => ProbeAccepts(task[c].todo, instrument.settings["probe"])
  PROVE  IInv'
<1> DEFINE t == task[c]
           todo == t.todo
<1>1. InTransaction(c)
  BY DEF InTransaction
<1>2. /\ t \in Task /\ StepsFit(t) /\ result[c] \in Result /\ reached[c] = result[c].completed
      /\ t.request.op # "generator" => result[c].delivery # "notAttempted"
  BY <1>1, OwnState DEF WritesFit, InTransaction
<1>3. /\ t.request.op \in {"channel", "keepAwake"}
      /\ t.request.op = "channel" => t.at = "probe"
  BY <1>2 DEF StepsFit
<1>4. /\ todo \in Seq(Commands) /\ Proceeds(c, todo, result[c])
      /\ \A i \in DOMAIN todo : \E j \in DOMAIN t.request.commands : todo[i] = t.request.commands[j]
      /\ t.request.op = "channel" =>
           \A i \in DOMAIN todo : todo[i].setting = "scale" =>
             <<instrument'.settings["probe"], todo[i].value>> \in Fitting
  BY <1>2, <1>3, TaskParts DEF StepsFit, ProbeAccepts
<1>5. ~Selects(t.request) /\ t.request.op # "dmm"
  BY <1>3 DEF Selects
<1> HIDE DEF todo
<1>6. QED
  BY <1>1, <1>2, <1>4, <1>5, InstrumentKept, OperationGoesOn

LEMMA ProbeReadKeeps ==
  ASSUME IInv, NEW c \in Clients, ProbeRead(c)
  PROVE  IInv'
<1>1. task[c].at = "probe" /\ InTransaction(c) /\ UNCHANGED <<instrument, reached>>
  BY DEF ProbeRead, InTransaction
<1>2. CASE ProbeAccepts(task[c].todo, instrument.settings["probe"])
  BY <1>1, <1>2, ReadingGoesOn DEF ProbeRead
<1>3. CASE ~ProbeAccepts(task[c].todo, instrument.settings["probe"])
  BY <1>1, <1>3, FailsQuietly DEF ProbeRead
<1>4. QED
  BY <1>2, <1>3

LEMMA TimerReadKeeps ==
  ASSUME IInv, NEW c \in Clients, TimerRead(c)
  PROVE  IInv'
  BY ReadingGoesOn DEF TimerRead

LEMMA ReadBackKeeps ==
  ASSUME IInv, NEW c \in Clients, ReadBack(c)
  PROVE  IInv'
<1>1. task[c].at = "readback" /\ InTransaction(c) /\ UNCHANGED <<instrument, reached>>
  BY DEF ReadBack, InTransaction
<1>2. CASE ReadBackMatches(task[c].request.commands[1])
  <2>1. Returns(c, result[c])
    BY <1>2 DEF ReadBack
  <2>2. result[c] \in Result /\ result[c].delivery # "notAttempted"
    BY <1>1, OwnState DEF WritesFit, StepsFit
  <2>3. QED
    BY <1>1, <2>1, <2>2, ReturnsQuietly
<1>3. CASE ~ReadBackMatches(task[c].request.commands[1])
  BY <1>1, <1>3, FailsQuietly DEF ReadBack
<1>4. QED
  BY <1>2, <1>3

-----------------------------------------------------------------------------
(* Admission, the caller, and the instrument.                              *)

LEMMA IdleState ==
  ASSUME IInv, NEW c \in Clients, ~InTransaction(c)
  PROVE  /\ task[c] \in Task /\ result[c] \in Result /\ reached[c] \in Nat /\ holder # c
         /\ instrument \in Instrument
         /\ \A d \in Dimensions : instrument[d].now = instrument[d].next => ~instrument[d].premature
         /\ holder \in Clients \cup {None}
         /\ task[c].at = "done" => reached[c] = 0
         /\ reached' = reached => reached' = [reached EXCEPT ![c] = reached[c]]
  BY DEF IInv, TypeOK, InstrumentFollows, WritesAreReported, WritesFit

\* A client leaves or enters a step outside of any transaction.
LEMMA IdleMoves ==
  ASSUME IInv, NEW c \in Clients, ~InTransaction(c), NEW t \in Task, NEW r \in Result,
         NEW n \in Nat, Goto(c, t), result' = [result EXCEPT ![c] = r],
         reached' = [reached EXCEPT ![c] = n], UNCHANGED <<holder, instrument>>,
         t.at \in {"done", "returned"}, t.request = NoRequest, t.todo = <<>>,
         t.barrier = NewBarrier, WritesFit(t, r, n)
  PROVE  IInv'
<1>1. StepsFit(t) /\ CountersStop(t) /\ StepsFollow(t, instrument')
  BY IdleFits
<1>2. \A b \in Clients :
        holder' = b <=> IF b = c THEN t.at \notin {"done", "returned"} ELSE holder = b
  BY IdleState
<1>3. QED
  BY <1>1, <1>2, IdleState, OneMoves DEF Goto

LEMMA CollectKeeps ==
  ASSUME IInv, NEW c \in Clients, Collect(c)
  PROVE  IInv'
<1> DEFINE r == NewResult(None)
           t == NoTask
<1>1. /\ ~InTransaction(c) /\ Goto(c, t) /\ result' = [result EXCEPT ![c] = r]
      /\ reached' = [reached EXCEPT ![c] = 0] /\ UNCHANGED <<holder, instrument>>
  BY DEF Collect, InTransaction, Goto
<1>2. r \in Result /\ r.completed = 0 /\ r.delivery = None
  BY NewResultTyped, NoneIsNoValue DEF Operations
<1>3. /\ t \in Task /\ t.at \in {"done", "returned"} /\ t.request = NoRequest /\ t.todo = <<>>
      /\ t.barrier = NewBarrier
  BY NoTaskTyped
<1> HIDE DEF r
<1>4. WritesFit(t, r, 0)
  BY <1>2, NoTaskTyped, NoneIsNoValue DEF WritesFit, Deliveries
<1> HIDE DEF t
<1>5. r \in Result /\ t \in Task /\ 0 \in Nat
  BY <1>2, <1>3
<1>6. QED
  BY <1>1, <1>3, <1>4, <1>5, IdleMoves

LEMMA NotAdmittedKeeps ==
  ASSUME IInv, NEW c \in Clients, NotAdmitted(c)
  PROVE  IInv'
<1>1. PICK q \in RequestsOf[c] :
        result' = [result EXCEPT ![c] = [NewResult(q.op) EXCEPT !.error = TRUE]]
  BY DEF NotAdmitted
<1> DEFINE r == [NewResult(q.op) EXCEPT !.error = TRUE]
           t == [NoTask EXCEPT !.at = "returned"]
<1>2. /\ ~InTransaction(c) /\ task[c].at = "done" /\ Goto(c, t)
      /\ UNCHANGED <<holder, instrument, reached>>
  BY DEF NotAdmitted, InTransaction
<1>3. r \in Result /\ r.completed = 0 /\ r.error = TRUE
  <2> DEFINE fresh == NewResult(q.op)
  <2>1. fresh \in Result /\ fresh.completed = 0
    BY NewResultTyped
  <2> HIDE DEF fresh
  <2>2. [fresh EXCEPT !.error = TRUE] \in Result /\ [fresh EXCEPT !.error = TRUE].completed = 0
        /\ [fresh EXCEPT !.error = TRUE].error = TRUE
    BY <2>1 DEF Result
  <2>3. QED
    BY <2>2 DEF fresh
<1>4. /\ t \in Task /\ t.at = "returned" /\ t.request = NoRequest /\ t.todo = <<>>
      /\ t.barrier = NewBarrier
  BY ReturnedTask
<1>5. result' = [result EXCEPT ![c] = r]
  BY <1>1
<1> HIDE DEF r, t
<1>6. WritesFit(t, r, 0)
  BY <1>3, <1>4 DEF WritesFit
<1>7. reached[c] = 0 /\ reached' = [reached EXCEPT ![c] = 0]
  BY <1>2, IdleState
<1>8. QED
  BY <1>2, <1>3, <1>4, <1>5, <1>6, <1>7, IdleMoves

LEMMA OpeningStep ==
  ASSUME NEW c \in Clients, NEW r \in RequestsOf[c]
  PROVE  LET at == Opening(r) IN
         /\ at \in {"preflight", "function", "configure", "probe", "timer", "settings",
                    "output", "readback"}
         /\ at = "preflight" => Selects(r) /\ r.output = None
         /\ at = "function" => Selects(r) /\ r.output # None
         /\ Selects(r) => at \in {"preflight", "function"}
         /\ at = "configure" <=> r.op = "dmm"
         /\ at = "probe" <=> r.op = "channel"
         /\ at = "timer" <=> r.op = "keepAwake"
         /\ at = "readback" => r.op \in {"average", "keepAwake"}
         /\ at = "settings" => r.commands # <<>>
         /\ at = "output" => r.op = "generator" /\ r.output # None
<1>1. /\ r \in Request /\ r.op \in Operations /\ r.commands \in Seq(Commands)
      /\ r.op \in {"average", "keepAwake"} => r.commands # <<>>
      /\ r.op = "generator" => r.target # None \/ r.output # None \/ r.commands # <<>>
      /\ r.op \in {"writes", "snapshot", "controls", "channel"} => r.commands # <<>> /\ r.target = None
  BY RequestsTyped, RequestParts
<1>2. CASE r.op = "generator" /\ r.target # None
  <2>1. Opening(r) = IF r.output = None THEN "preflight" ELSE "function"
    BY <1>2 DEF Opening
  <2>2. QED
    BY <1>2, <2>1 DEF Selects
<1>3. CASE r.op = "dmm"
  <2>1. Opening(r) = "configure"
    BY <1>3 DEF Opening
  <2>2. QED
    BY <1>3, <2>1 DEF Selects
<1>4. CASE r.op = "channel"
  <2>1. Opening(r) = "probe"
    BY <1>4 DEF Opening
  <2>2. QED
    BY <1>4, <2>1 DEF Selects
<1>5. CASE r.op = "keepAwake"
  <2>1. Opening(r) = "timer"
    BY <1>5 DEF Opening
  <2>2. QED
    BY <1>5, <2>1 DEF Selects
<1>6. CASE r.op \notin {"dmm", "channel", "keepAwake"} /\ ~(r.op = "generator" /\ r.target # None)
  <2> DEFINE t == [NoTask EXCEPT !.request = r]
  <2>1. t \in Task /\ t.request = r /\ t.preserved = None
    BY <1>1, NoTaskTyped DEF Task
  <2>2. Opening(r) = Following(t, r.commands)
    BY <1>6 DEF Opening
  <2> HIDE DEF t
  <2>3. OutputTarget(t) = r.output
    BY <2>1 DEF OutputTarget
  <2> DEFINE at == Following(t, r.commands)
  <2>4. /\ at \in {"settings", "output", "final", "readback", "end"}
        /\ at = "settings" <=> r.commands # <<>>
        /\ at = "output" => r.op = "generator" /\ r.output # None
        /\ at = "final" => r.op = "dmm"
        /\ at = "readback" => r.op \in {"average", "keepAwake"}
        /\ at = "end" => (r.op = "generator" => r.output = None) /\ r.op \notin {"average", "keepAwake"}
    BY <1>1, <2>1, <2>3, FollowingStep
  <2> HIDE DEF at
  <2>5. at # "end"
    <3>1. r.op \in {"writes", "snapshot", "controls", "average", "generator"}
      BY <1>1, <1>6 DEF Operations
    <3>2. QED
      BY <1>1, <1>6, <2>4, <3>1
  <2>6. Opening(r) = at /\ ~Selects(r)
    BY <1>6, <2>2 DEF at, Selects
  <2>7. QED
    BY <1>6, <2>4, <2>5, <2>6
<1>7. QED
  BY <1>2, <1>3, <1>4, <1>5, <1>6

LEMMA AdmitKeeps ==
  ASSUME IInv, NEW c \in Clients, Admit(c)
  PROVE  IInv'
<1>1. /\ task[c].at = "done" /\ holder = None /\ holder' = c /\ UNCHANGED <<instrument, reached>>
      /\ ~InTransaction(c)
  BY DEF Admit, Admissible, InTransaction
<1>2. PICK q \in RequestsOf[c] :
        /\ Goto(c, [NoTask EXCEPT !.at = Opening(q), !.request = q, !.todo = q.commands,
                                  !.live = TRUE])
        /\ result' = [result EXCEPT ![c] =
             [NewResult(q.op) EXCEPT !.compensation =
                IF Opening(q) = "preflight" THEN "notAttempted" ELSE @]]
  BY DEF Admit
<1> DEFINE at == Opening(q)
           t == [NoTask EXCEPT !.at = at, !.request = q, !.todo = q.commands, !.live = TRUE]
           fresh == NewResult(q.op)
           r == [fresh EXCEPT !.compensation = IF at = "preflight" THEN "notAttempted" ELSE @]
<1>3. q \in Request /\ q.commands \in Seq(Commands)
  BY RequestsTyped, RequestParts
<1>4. /\ at \in {"preflight", "function", "configure", "probe", "timer", "settings",
                 "output", "readback"}
      /\ at = "preflight" => Selects(q) /\ q.output = None
      /\ at = "function" => Selects(q) /\ q.output # None
      /\ Selects(q) => at \in {"preflight", "function"}
      /\ at = "configure" <=> q.op = "dmm"
      /\ at = "probe" <=> q.op = "channel"
      /\ at = "timer" <=> q.op = "keepAwake"
      /\ at = "readback" => q.op \in {"average", "keepAwake"}
      /\ at = "settings" => q.commands # <<>>
      /\ at = "output" => q.op = "generator" /\ q.output # None
  BY OpeningStep
<1>5. Goto(c, t) /\ result' = [result EXCEPT ![c] = r]
  BY <1>2
<1> HIDE DEF at
<1>6. at \in Steps /\ at \notin {"done", "returned"}
  BY <1>4 DEF Steps, Writing, Barriers, Reading
<1>7. /\ t \in Task /\ t.at = at /\ t.request = q /\ t.todo = q.commands
      /\ t.preserved = None /\ t.barrier = NewBarrier
  BY <1>3, <1>6, NoTaskTyped DEF Task
<1>8. /\ r \in Result /\ r.completed = 0
      /\ q.op # "generator" => r.delivery = None
  <2>1. fresh \in Result /\ fresh.completed = 0 /\ (q.op # "generator" => fresh.delivery = None)
    BY NewResultTyped
  <2> HIDE DEF fresh
  <2>2. QED
    BY <2>1 DEF Result, Compensations
<1> HIDE DEF t, r
<1>9. OutputTarget(t) = q.output
  BY <1>7 DEF OutputTarget
<1>10. StepsFit(t)
  <2>1. Selects(q) => IF t.at = "preflight" THEN t.preserved = None ELSE OutputTarget(t) # None
    BY <1>4, <1>7, <1>9
  <2>2. \A i \in DOMAIN t.todo : \E j \in DOMAIN q.commands : t.todo[i] = q.commands[j]
    BY <1>7
  <2>3. QED
    BY <1>4, <1>7, <1>9, <2>1, <2>2 DEF StepsFit
<1>11. CountersStop(t)
  BY <1>7, FreshCountersStop
<1>12. StepsFollow(t, instrument')
  BY <1>4, <1>7 DEF StepsFollow
<1>13. WritesFit(t, r, 0)
  BY <1>4, <1>7, <1>8, NoneIsNoValue DEF WritesFit, Deliveries
<1>14. reached' = [reached EXCEPT ![c] = 0]
  BY <1>1, IdleState
<1>15. \A b \in Clients :
         holder' = b <=> IF b = c THEN t.at \notin {"done", "returned"} ELSE holder = b
  BY <1>1, <1>6, <1>7, NoneIsNoValue
<1>16. /\ instrument' \in Instrument /\ instrument' = instrument
       /\ \A d \in Dimensions : instrument'[d].now = instrument'[d].next => ~instrument'[d].premature
       /\ holder' \in Clients \cup {None}
       /\ t.at \notin {"done", "returned"} => t.request \in RequestsOf[c]
  BY <1>1, <1>7, IdleState
<1>17. task' = [task EXCEPT ![c] = t] /\ result' = [result EXCEPT ![c] = r]
  BY <1>5 DEF Goto
<1>18. t \in Task /\ r \in Result /\ 0 \in Nat
  BY <1>7, <1>8
<1>19. QED
  BY <1>10, <1>11, <1>12, <1>13, <1>14, <1>15, <1>16, <1>17, <1>18, OneMoves

LEMMA ContextEndsKeeps ==
  ASSUME IInv, NEW c \in Clients, ContextEnds(c)
  PROVE  IInv'
<1> DEFINE t == task[c]
           u == [t EXCEPT !.live = FALSE]
<1>1. InTransaction(c) /\ Goto(c, u) /\ UNCHANGED <<result, holder, instrument, reached>>
  BY DEF ContextEnds
<1>2. /\ t \in Task /\ result[c] \in Result /\ reached[c] \in Nat
      /\ StepsFit(t) /\ CountersStop(t) /\ StepsFollow(t, instrument)
      /\ WritesFit(t, result[c], reached[c])
  BY <1>1, OwnState
<1>3. /\ u \in Task /\ u.at = t.at /\ u.request = t.request /\ u.todo = t.todo
      /\ u.preserved = t.preserved /\ u.barrier = t.barrier
  BY <1>2 DEF Task
<1> HIDE DEF u
<1>4. OutputTarget(u) = OutputTarget(t)
  BY <1>3 DEF OutputTarget
<1>5. StepsFit(u) /\ CountersStop(u)
  BY <1>2, <1>3, <1>4 DEF StepsFit, CountersStop
<1>6. StepsFollow(u, instrument')
  BY <1>1, <1>2, <1>3, <1>4 DEF StepsFollow
<1>7. WritesFit(u, result[c], reached[c])
  BY <1>2, <1>3 DEF WritesFit
<1>8. result' = [result EXCEPT ![c] = result[c]]
  BY <1>1 DEF IInv, TypeOK
<1>9. u.at \notin {"done", "returned"} /\ u.request = task[c].request
  BY <1>1, <1>3 DEF InTransaction
<1> HIDE DEF t
<1>10. QED
  BY <1>1, <1>2, <1>3, <1>5, <1>6, <1>7, <1>8, <1>9, InstrumentKept, TransactionGoesOn

\* The instrument takes up what was written: nothing that was active before.
LEMMA Settled ==
  ASSUME IInv, NEW d \in Dimensions, Settles(d)
  PROVE  /\ instrument' \in Instrument
         /\ \A e \in Dimensions : instrument'[e].now = instrument'[e].next => ~instrument'[e].premature
         /\ instrument[d].now # instrument[d].next
         /\ instrument'[d].now = instrument[d].next /\ instrument'[d].next = instrument[d].next
         /\ d # "function" => instrument'.output.next = instrument.output.next
         /\ \A e \in Dimensions \ {"output"} : e # d => instrument'[e] = instrument[e]
         /\ d = "meter" => instrument'.output = instrument.output
         /\ instrument'.settings = instrument.settings
<1> DEFINE new == [now |-> instrument[d].next, next |-> instrument[d].next, premature |-> FALSE]
<1>1. /\ instrument \in Instrument
      /\ \A e \in Dimensions : instrument[e].now = instrument[e].next => ~instrument[e].premature
  BY DEF IInv, TypeOK, InstrumentFollows
<1>2. PICK o \in IF d = "function"
                 THEN {instrument.output, [now |-> "on", next |-> "on", premature |-> FALSE],
                       [now |-> "off", next |-> "off", premature |-> FALSE]}
                 ELSE {instrument.output} :
        instrument' = [[instrument EXCEPT !.output = o]
                         EXCEPT ![d].now = instrument[d].next, ![d].next = instrument[d].next,
                                ![d].premature = FALSE]
  BY DEF Settles
<1>3. instrument[d].now # instrument[d].next
  BY DEF Settles
<1>4. /\ o \in Dimension(Outputs) /\ (o.now = o.next => ~o.premature)
      /\ d # "function" => o = instrument.output
  <2>1. "on" \in Outputs /\ "off" \in Outputs
    BY DEF Outputs
  <2>2. instrument.output \in Dimension(Outputs)
    BY <1>1, InstrumentParts
  <2>3. instrument.output.now = instrument.output.next => ~instrument.output.premature
    BY <1>1 DEF Dimensions
  <2>4. CASE o = instrument.output
    BY <2>2, <2>3, <2>4
  <2>5. CASE d = "function" /\ o = [now |-> "on", next |-> "on", premature |-> FALSE]
    <3>1. o.premature = FALSE /\ o \in Dimension(Outputs)
      BY <2>1, <2>5 DEF Dimension
    <3>2. QED
      BY <2>5, <3>1
  <2>6. CASE d = "function" /\ o = [now |-> "off", next |-> "off", premature |-> FALSE]
    <3>1. o.premature = FALSE /\ o \in Dimension(Outputs)
      BY <2>1, <2>6 DEF Dimension
    <3>2. QED
      BY <2>6, <3>1
  <2>7. QED
    BY <1>2, <2>4, <2>5, <2>6
<1>5. CASE d = "function"
  BY <1>1, <1>2, <1>3, <1>4, <1>5 DEF Instrument, Dimension, Dimensions
<1>6. CASE d = "output"
  BY <1>1, <1>2, <1>3, <1>4, <1>6 DEF Instrument, Dimension, Dimensions
<1>7. CASE d = "meter"
  BY <1>1, <1>2, <1>3, <1>4, <1>7 DEF Instrument, Dimension, Dimensions
<1>8. QED
  BY <1>5, <1>6, <1>7 DEF Dimensions

LEMMA SettlesKeeps ==
  ASSUME IInv, NEW d \in Dimensions, Settles(d)
  PROVE  IInv'
<1>1. /\ instrument' \in Instrument
      /\ \A e \in Dimensions : instrument'[e].now = instrument'[e].next => ~instrument'[e].premature
      /\ instrument[d].now # instrument[d].next
      /\ instrument'[d].now = instrument[d].next /\ instrument'[d].next = instrument[d].next
      /\ d # "function" => instrument'.output.next = instrument.output.next
      /\ \A e \in Dimensions \ {"output"} : e # d => instrument'[e] = instrument[e]
      /\ d = "meter" => instrument'.output = instrument.output
      /\ instrument'.settings = instrument.settings
  BY Settled
<1>2. UNCHANGED <<task, result, holder, reached>>
  BY DEF Settles
<1>3. TypeOK'
  BY <1>1, <1>2 DEF IInv, TypeOK, InTransaction
<1>4. StepsRelyOnRequest' /\ WritesAreReported'
  BY <1>2 DEF IInv, StepsRelyOnRequest, WritesAreReported
<1>5. ASSUME NEW wanted, NEW b
      PROVE  /\ Seen(instrument.function, wanted, b) => Seen(instrument'.function, wanted, b)
             /\ Active(instrument.function, wanted) =>
                  d # "function" /\ Active(instrument'.function, wanted)
             /\ Seen(instrument.meter, wanted, b) => Seen(instrument'.meter, wanted, b)
             /\ Active(instrument.meter, wanted) => Active(instrument'.meter, wanted)
             /\ Seen(instrument.output, wanted, b) /\ d # "function" =>
                  Seen(instrument'.output, wanted, b)
  <2>1. CASE d = "function"
    BY <1>1, <2>1 DEF Seen, Active, Dimensions
  <2>2. CASE d = "output"
    BY <1>1, <2>2 DEF Seen, Active, Dimensions
  <2>3. CASE d = "meter"
    BY <1>1, <2>3 DEF Seen, Active, Dimensions
  <2>4. QED
    BY <2>1, <2>2, <2>3 DEF Dimensions
<1>6. ASSUME NEW c \in Clients
      PROVE  StepsFollow(task[c], instrument')
  <2> DEFINE t == task[c]
             r == t.request
  <2>1. StepsFollow(t, instrument)
    BY DEF IInv, InstrumentFollows
  <2>2. t.at = "verify" => Selects(r)
    BY DEF IInv, StepsRelyOnRequest, StepsFit
  <2>3. t.at = "context" => Seen(instrument'.function, r.target, t.barrier)
    BY <1>5, <2>1 DEF StepsFollow
  <2>4. t.at \in {"settings", "output", "verify"} /\ Selects(r) => Active(instrument'.function, r.target)
    BY <1>5, <2>1 DEF StepsFollow
  <2>5. t.at = "verify" => Seen(instrument'.output, OutputTarget(t), t.barrier)
    <3>1. ASSUME t.at = "verify"
          PROVE  Active(instrument.function, r.target) /\ Seen(instrument.output, OutputTarget(t), t.barrier)
      BY <2>1, <2>2, <3>1 DEF StepsFollow
    <3>2. QED
      BY <1>5, <3>1
  <2>6. r.op = "dmm" /\ r.target \notin Companions =>
          /\ t.at = "initial" => Seen(instrument'.meter, r.target, t.barrier)
          /\ t.at \in {"settings", "final"} => Active(instrument'.meter, r.target)
    BY <1>5, <2>1 DEF StepsFollow
  <2>7. t.at = "settings" /\ r.op = "channel" =>
          \A n \in DOMAIN t.todo : t.todo[n].setting = "scale" =>
            <<instrument'.settings["probe"], t.todo[n].value>> \in Fitting
    BY <1>1, <2>1 DEF StepsFollow
  <2>8. QED
    BY <2>3, <2>4, <2>5, <2>6, <2>7 DEF StepsFollow
<1>7. InstrumentFollows'
  BY <1>1, <1>2, <1>6 DEF InstrumentFollows
<1>8. QED
  BY <1>3, <1>4, <1>7 DEF IInv

-----------------------------------------------------------------------------
(* The theorems.                                                           *)

LEMMA NextKeeps == IInv /\ [Next]_vars => IInv'
<1> SUFFICES ASSUME IInv, [Next]_vars PROVE IInv'
  OBVIOUS
<1>1. CASE UNCHANGED vars
  BY <1>1 DEF vars, IInv, TypeOK, StepsRelyOnRequest, InstrumentFollows, WritesAreReported, InTransaction
<1>2. ASSUME NEW c \in Clients, Admit(c) \/ NotAdmitted(c) \/ Collect(c) \/ ContextEnds(c)
      PROVE  IInv'
  BY <1>2, AdmitKeeps, NotAdmittedKeeps, CollectKeeps, ContextEndsKeeps
<1>3. ASSUME NEW c \in Clients, OperationStep(c)
      PROVE  IInv'
  BY <1>3, SentKeeps, NotSentKeeps, UnparsableKeeps, ObserveKeeps, BarrierBreaksKeeps,
     BarrierConvergesKeeps, BarrierGivesUpKeeps, ProbeReadKeeps, TimerReadKeeps, ReadBackKeeps,
     ReadFailsKeeps DEF OperationStep
<1>4. ASSUME NEW d \in Dimensions, Settles(d)
      PROVE  IInv'
  BY <1>4, SettlesKeeps
<1>5. QED
  BY <1>1, <1>2, <1>3, <1>4 DEF Next

\* The invariant that the properties rest on: every step of every operation finds
\* the request, the counters and the instrument as it relies on them.
THEOREM Invariance == Spec => []IInv
  BY InitEstablishes, NextKeeps, PTL DEF Spec

\* Only a step of the operation itself ends it.
LEMMA EndsBySelf ==
  ASSUME IInv, Next, NEW c \in Clients, Ends(c)
  PROVE  OperationStep(c) /\ InTransaction(c)
<1>1. task[c].at \notin {"done", "returned"} /\ task'[c].at = "returned"
  BY DEF Ends, InTransaction
<1>2. \A b \in Clients : \A t : Goto(b, t) /\ b # c => task'[c] = task[c]
  BY DEF Goto, IInv, TypeOK
<1>3. \A b \in Clients : \A r : Returns(b, r) /\ b # c => task'[c] = task[c]
  BY DEF Returns, IInv, TypeOK
<1>4. ASSUME NEW b \in Clients, Admit(b) \/ NotAdmitted(b) \/ ContextEnds(b)
      PROVE  FALSE
  <2>1. CASE b # c
    BY <1>1, <1>2, <1>4, <2>1 DEF Admit, NotAdmitted, ContextEnds
  <2>2. CASE b = c
    <3>1. ContextEnds(c)
      BY <1>1, <1>4, <2>2 DEF Admit, NotAdmitted
    <3>2. task[c] \in Task /\ task' = [task EXCEPT ![c] = [task[c] EXCEPT !.live = FALSE]]
      BY <3>1 DEF ContextEnds, Goto, IInv, TypeOK
    <3>3. task'[c].at = task[c].at
      BY <3>2 DEF Task, IInv, TypeOK
    <3>4. QED
      BY <1>1, <3>3
  <2>3. QED
    BY <2>1, <2>2
<1>5. ASSUME NEW b \in Clients, Collect(b)
      PROVE  FALSE
  BY <1>1, <1>5, NoTaskTyped DEF Collect, IInv, TypeOK
<1>6. ASSUME NEW d \in Dimensions, Settles(d)
      PROVE  FALSE
  BY <1>1, <1>6 DEF Settles
<1>7. ASSUME NEW b \in Clients, OperationStep(b), b # c
      PROVE  FALSE
  <2>1. InTransaction(b) /\ InTransaction(c)
    BY <1>1, <1>7 DEF OperationStep, InTransaction, Sent, NotSent, Unparsable, Observe,
       BarrierBreaks, BarrierConverges, BarrierGivesUp, ProbeRead, TimerRead, ReadBack, ReadFails,
       Writing, Barriers, Reading
  <2>2. QED
    BY <1>7, <2>1, OwnState
<1>8. QED
  BY <1>1, <1>4, <1>5, <1>6, <1>7 DEF Next, InTransaction

\* An operation that goes on does not end, unless it has nothing left to do.
LEMMA ProceedsToEnd ==
  ASSUME IInv, NEW c \in Clients, InTransaction(c), NEW todo \in Seq(Commands), NEW r \in Result,
         Proceeds(c, todo, r), task'[c].at = "returned"
  PROVE  /\ todo = <<>>
         /\ task[c].request.op = "generator" => OutputTarget(task[c]) = None
         /\ task[c].request.op \notin {"average", "keepAwake"}
<1> DEFINE t == task[c]
           at == Following(t, todo)
<1>1. t \in Task
  BY OwnState
<1>2. /\ at \in {"settings", "output", "final", "readback", "end"}
      /\ at = "settings" <=> todo # <<>>
      /\ at = "end" => /\ t.request.op = "generator" => OutputTarget(t) = None
                       /\ t.request.op \notin {"average", "keepAwake"}
  BY <1>1, FollowingStep
<1> HIDE DEF at
<1>3. ASSUME at # "end"
      PROVE  FALSE
  <2> DEFINE u == [t EXCEPT !.at = at, !.todo = todo, !.barrier = NewBarrier]
  <2>1. Goto(c, u)
    BY <1>3 DEF Proceeds, at
  <2>2. u.at = at
    BY <1>1 DEF Task
  <2> HIDE DEF u
  <2>3. task'[c] = u
    BY <2>1 DEF Goto, IInv, TypeOK
  <2>4. QED
    BY <1>2, <2>2, <2>3
<1>4. QED
  BY <1>2, <1>3

LEMMA FailsWithError ==
  ASSUME IInv, NEW c \in Clients, InTransaction(c), Fails(c)
  PROVE  result'[c] = Failure(task[c], result[c]) /\ result'[c].error
<1>1. result' = [result EXCEPT ![c] = Failure(task[c], result[c])]
  BY DEF Fails, Returns
<1>2. Failure(task[c], result[c]).error = TRUE
  BY OwnState, FailureTyped
<1>3. QED
  BY <1>1, <1>2 DEF IInv, TypeOK

\* How an operation can end: it fails; its last write is sent; a read of the
\* controls misses the range; its last commands or its last barrier are done; or
\* what it read back is what it wrote.
Completed(c) ==
  \E todo \in Seq(Commands), r \in Result :
    /\ Proceeds(c, todo, r) /\ task[c].at # "preflight"
    /\ task[c].request.op = "dmm" => /\ task[c].at \in {"settings", "initial"}
                                     /\ task[c].at = "initial" => task[c].barrier.verdict = "converged"
                                     /\ instrument'.meter = instrument.meter

LEMMA Endings ==
  ASSUME IInv, NEW c \in Clients, InTransaction(c), OperationStep(c), task'[c].at = "returned"
  PROVE  \/ Fails(c) /\ (task[c].at \in Writing \/ UNCHANGED reached)
         \/ task[c].at = "output" /\ task[c].request.target = None
         \/ task[c].request.op = "controls"
         \/ Completed(c)
         \/ BarrierConverges(c) /\ task[c].at \in {"compensated", "verify", "final"}
         \/ ReadBack(c) /\ ReadBackMatches(task[c].request.commands[1])
<1> DEFINE t == task[c]
<1>1. /\ t \in Task /\ StepsFit(t) /\ result[c] \in Result /\ t.request \in RequestsOf[c]
      /\ t.todo \in Seq(Commands)
  BY OwnState, TaskParts
<1>2. ASSUME NEW at \in {"context", "initial", "compensated", "verify", "compensate"}, NEW r,
             Awaits(c, at, r)
      PROVE  FALSE
  <2>1. task'[c] = [t EXCEPT !.at = at, !.barrier = NewBarrier]
    BY <1>2 DEF Awaits, Goto, IInv, TypeOK
  <2>2. task'[c].at = at
    BY <1>1, <2>1 DEF Task
  <2>3. QED
    BY <2>2
<1>3. CASE Sent(c)
  <2> DEFINE report == [result[c] EXCEPT !.completed = @ + IF IsWrite(Pending(t)) THEN 1 ELSE 0]
  <2>1. \/ t.at = "output" /\ t.request.target = None
        \/ t.at = "settings" /\ Proceeds(c, Tail(t.todo), report)
    BY <1>2, <1>3 DEF Sent
  <2>2. CASE t.at = "settings" /\ Proceeds(c, Tail(t.todo), report)
    <3>1. report \in Result
      <4>1. result[c].completed \in Nat /\ result[c].completed + 1 \in Nat
        BY <1>1, ResultParts
      <4>2. QED
        BY <1>1, <4>1 DEF Result
    <3>2. Tail(t.todo) \in Seq(Commands)
      BY <1>1, <2>2, HeadAndTail DEF StepsFit
    <3>3. t.request.op = "dmm" => instrument'.meter = instrument.meter
      <4>1. Lands(c, Pending(t)) /\ t.at \in Writing
        BY <1>3 DEF Sent, Sends
      <4>2. Pending(t).setting # "meter" => instrument'.meter = instrument.meter
        BY <4>1, WriteLands
      <4>3. \E j \in DOMAIN t.request.commands : Pending(t) = t.request.commands[j]
        BY <1>1, <2>2, <4>1, PendingCommand
      <4>4. t.request.op = "dmm" => Pending(t).setting # "meter"
        BY <1>1, <4>3, SettingsCommands, DimensionsAreNoSettings
      <4>5. QED
        BY <4>2, <4>4
    <3> HIDE DEF report
    <3>4. Completed(c)
      BY <2>2, <3>1, <3>2, <3>3 DEF Completed
    <3>5. QED
      BY <3>4
  <2>3. QED
    BY <2>1, <2>2
<1>4. CASE NotSent(c)
  BY <1>4 DEF NotSent, RangeMissing
<1>5. CASE Unparsable(c) \/ BarrierBreaks(c) \/ ReadFails(c)
  BY <1>5 DEF Unparsable, BarrierBreaks, ReadFails
<1>6. CASE Observe(c)
  <2>1. PICK b : Goto(c, [t EXCEPT !.barrier = b])
    BY <1>6 DEF Observe
  <2>2. task'[c] = [t EXCEPT !.barrier = b]
    BY <2>1 DEF Goto, IInv, TypeOK
  <2>3. task'[c].at = t.at
    BY <1>1, <2>2 DEF Task
  <2>4. QED
    BY <2>3 DEF InTransaction
<1>7. CASE BarrierConverges(c)
  <2>1. CASE t.at = "preflight"
    <3>1. Goto(c, [t EXCEPT !.at = "function", !.preserved = t.barrier.previous,
                            !.barrier = NewBarrier])
      BY <1>7, <2>1 DEF BarrierConverges
    <3>2. task'[c] = [t EXCEPT !.at = "function", !.preserved = t.barrier.previous,
                               !.barrier = NewBarrier]
      BY <3>1 DEF Goto, IInv, TypeOK
    <3>3. task'[c].at = "function"
      BY <1>1, <3>2 DEF Task
    <3>4. QED
      BY <3>3
  <2>2. CASE t.at \in {"context", "initial"}
    <3>1. Proceeds(c, t.todo, result[c]) /\ t.barrier.verdict = "converged" /\ instrument' = instrument
      BY <1>7, <2>2 DEF BarrierConverges
    <3>2. t.at = "context" => t.request.op = "generator"
      BY <1>1 DEF StepsFit, Selects
    <3>3. Completed(c)
      BY <1>1, <2>2, <3>1, <3>2 DEF Completed
    <3>4. QED
      BY <3>3
  <2>3. QED
    BY <1>7, <2>1, <2>2 DEF BarrierConverges
<1>8. CASE BarrierGivesUp(c)
  BY <1>2, <1>8 DEF BarrierGivesUp
<1>9. CASE ProbeRead(c) \/ TimerRead(c)
  <2>1. t.at \in {"probe", "timer"}
    BY <1>9 DEF ProbeRead, TimerRead
  <2>2. t.request.op # "dmm"
    BY <1>1, <2>1 DEF StepsFit
  <2>3. (Fails(c) /\ UNCHANGED reached) \/ Proceeds(c, t.todo, result[c])
    BY <1>9 DEF ProbeRead, TimerRead
  <2>4. Proceeds(c, t.todo, result[c]) => Completed(c)
    BY <1>1, <2>1, <2>2 DEF Completed
  <2>5. QED
    BY <2>3, <2>4
<1>10. CASE ReadBack(c)
  BY <1>10 DEF ReadBack
<1>11. QED
  BY <1>3, <1>4, <1>5, <1>6, <1>7, <1>8, <1>9, <1>10 DEF OperationStep

LEMMA SuccessStep ==
  ASSUME IInv, Next, NEW c \in Clients, Ends(c), ~result'[c].error
  PROVE  LET r == task[c].request IN
         /\ r.op = "generator" /\ r.target # None =>
              /\ instrument'.function.now = r.target
              /\ instrument'.output.now = OutputTarget(task[c])
         /\ r.op = "dmm" /\ r.target \notin Companions => instrument'.meter.now = r.target
         /\ r.op \in {"average", "keepAwake"} =>
              instrument'.settings[r.commands[1].setting] = r.commands[1].value
<1> DEFINE t == task[c]
           r == t.request
<1>1. OperationStep(c) /\ InTransaction(c) /\ task'[c].at = "returned"
  BY EndsBySelf DEF Ends
<1>2. /\ StepsFit(t) /\ CountersStop(t) /\ StepsFollow(t, instrument) /\ t \in Task
      /\ result[c] \in Result
  BY <1>1, OwnState
<1>3. ~Fails(c)
  BY <1>1, FailsWithError
<1>4. CASE t.at = "output" /\ r.target = None
  BY <1>2, <1>4 DEF StepsFit
<1>5. CASE r.op = "controls"
  BY <1>5
<1>6. CASE Completed(c)
  <2>1. PICK todo \in Seq(Commands), q \in Result :
          /\ Proceeds(c, todo, q) /\ t.at # "preflight"
          /\ r.op = "dmm" => /\ t.at \in {"settings", "initial"}
                             /\ t.at = "initial" => t.barrier.verdict = "converged"
                             /\ instrument'.meter = instrument.meter
    BY <1>6 DEF Completed
  <2>2. /\ r.op = "generator" => OutputTarget(t) = None
        /\ r.op \notin {"average", "keepAwake"}
    BY <1>1, <2>1, ProceedsToEnd
  <2>3. ~Selects(r)
    BY <1>2, <2>1, <2>2 DEF StepsFit, Selects
  <2>4. r.op = "dmm" /\ r.target \notin Companions => instrument'.meter.now = r.target
    BY <1>2, <2>1 DEF StepsFollow, Active, Seen
  <2>5. QED
    BY <2>2, <2>3, <2>4 DEF Selects
<1>7. CASE BarrierConverges(c) /\ t.at \in {"compensated", "verify", "final"}
  <2>1. t.barrier.verdict = "converged" /\ instrument' = instrument
    BY <1>7 DEF BarrierConverges
  <2>2. t.at # "compensated"
    <3>1. ASSUME t.at = "compensated"
          PROVE  FALSE
      <4> DEFINE f == Failure(t, result[c])
                 q == [f EXCEPT !.compensation = "verified", !.output = t.preserved]
      <4>1. Returns(c, q)
        BY <1>7, <3>1 DEF BarrierConverges
      <4>2. f \in Result /\ f.error = TRUE
        BY <1>2, FailureTyped
      <4> HIDE DEF f
      <4>3. q.error = TRUE
        BY <4>2 DEF Result
      <4> HIDE DEF q
      <4>4. result'[c] = q
        BY <4>1 DEF Returns, IInv, TypeOK
      <4>5. QED
        BY <4>3, <4>4
    <3>2. QED
      BY <3>1
  <2>3. CASE t.at = "verify"
    BY <1>2, <2>1, <2>3 DEF StepsFit, StepsFollow, Selects, Active, Seen
  <2>4. CASE t.at = "final"
    BY <1>2, <2>1, <2>4 DEF StepsFit, StepsFollow, Active
  <2>5. QED
    BY <1>7, <2>2, <2>3, <2>4
<1>8. CASE ReadBack(c) /\ ReadBackMatches(r.commands[1])
  BY <1>2, <1>8 DEF ReadBack, ReadBackMatches, StepsFit
<1> HIDE DEF t, r
<1>9. QED
  BY <1>1, <1>3, <1>4, <1>5, <1>6, <1>7, <1>8, Endings DEF t, r

\* What an operation returns without an error, or reports as verified, is so.
THEOREM SuccessTheorem == Spec => SuccessIsTrue
<1>1. IInv /\ [Next]_vars =>
        [\A c \in Clients : Ends(c) /\ ~result'[c].error =>
           LET r == task[c].request IN
           /\ r.op = "generator" /\ r.target # None =>
                /\ instrument'.function.now = r.target
                /\ instrument'.output.now = OutputTarget(task[c])
           /\ r.op = "dmm" /\ r.target \notin Companions => instrument'.meter.now = r.target
           /\ r.op \in {"average", "keepAwake"} =>
                instrument'.settings[r.commands[1].setting] = r.commands[1].value]_vars
  BY SuccessStep
<1>2. QED
  BY <1>1, Invariance, PTL DEF Spec, SuccessIsTrue

\* A failure at a step reports the output accordingly.
LEMMA FailureReports ==
  ASSUME NEW t \in Task, NEW r \in Result
  PROVE  /\ t.at \in {"output", "verify", "compensate", "compensated"} =>
              /\ Failure(t, r).output = Unknown
              /\ Failure(t, r).compensation = "failed"
         /\ t.at \in {"function", "context", "settings"} /\ t.preserved # None =>
              /\ Failure(t, r).output = Unknown
              /\ Failure(t, r).compensation = "notAttempted"
<1>1. CASE t.at \in {"output", "verify", "compensate", "compensated"}
  <2>1. OutputReport(t, r) = [r EXCEPT !.output = Unknown, !.compensation = "failed"]
    BY <1>1 DEF OutputReport
  <2>2. QED
    BY <1>1, <2>1 DEF Failure, Result
<1>2. CASE t.at \in {"function", "context", "settings"} /\ t.preserved # None
  <2>1. OutputReport(t, r) = [r EXCEPT !.output = Unknown, !.compensation = "notAttempted"]
    BY <1>2 DEF OutputReport
  <2>2. QED
    BY <1>2, <2>1 DEF Failure, Result
<1>3. QED
  BY <1>1, <1>2

LEMMA OutcomeStep ==
  ASSUME IInv, Next, NEW c \in Clients, Ends(c), result'[c].error,
         task[c].request.op = "generator", task[c].request.target # None,
         task[c].request.output = None, reached'[c] > 0
  PROVE  LET t == task[c]
             r == result'[c] IN
         \/ r.compensation = "verified" /\ r.output = t.preserved /\ t.barrier.matches = 2
         \/ r.compensation \in {"failed", "notAttempted"} /\ r.output = Unknown
<1> DEFINE t == task[c]
           r == result'[c]
<1>1. OperationStep(c) /\ InTransaction(c) /\ task'[c].at = "returned"
  BY EndsBySelf DEF Ends
<1>2. /\ t \in Task /\ result[c] \in Result /\ StepsFit(t) /\ CountersStop(t)
      /\ WritesFit(t, result[c], reached[c])
  BY <1>1, OwnState
<1>3. Selects(t.request) /\ (t.at # "preflight" => t.preserved # None)
  BY <1>2 DEF Selects, StepsFit, OutputTarget
<1>4. \A q : Returns(c, q) => result'[c] = q
  BY DEF Returns, IInv, TypeOK
<1>5. CASE Fails(c) /\ (t.at \in Writing \/ UNCHANGED reached)
  <2>1. r = Failure(t, result[c])
    BY <1>1, <1>5, FailsWithError
  <2>2. t.at # "preflight"
    BY <1>2, <1>5 DEF WritesFit, Writing
  <2>3. t.at \in {"function", "context", "settings", "output", "verify", "compensate", "compensated"}
    BY <1>1, <1>2, <1>3, <2>2, TaskParts
       DEF StepsFit, Selects, Steps, Writing, Barriers, Reading, InTransaction
  <2>4. QED
    BY <1>2, <1>3, <2>1, <2>2, <2>3, FailureReports
<1>6. CASE Completed(c)
  <2>1. PICK todo \in Seq(Commands), q \in Result :
          Proceeds(c, todo, q) /\ t.at # "preflight"
    BY <1>6 DEF Completed
  <2>2. OutputTarget(t) = None
    BY <1>1, <2>1, ProceedsToEnd
  <2>3. QED
    BY <1>3, <2>1, <2>2 DEF OutputTarget
<1>7. CASE BarrierConverges(c) /\ t.at \in {"compensated", "verify", "final"}
  <2>1. t.barrier.matches = 2
    BY <1>2, <1>7 DEF BarrierConverges, CountersStop, RequiredMatches
  <2>2. CASE t.at = "compensated"
    <3> DEFINE f == Failure(t, result[c])
               q == [f EXCEPT !.compensation = "verified", !.output = t.preserved]
    <3>1. r = q
      BY <1>4, <1>7, <2>2 DEF BarrierConverges
    <3>2. f \in Result
      BY <1>2, FailureTyped
    <3> HIDE DEF f
    <3>3. q.compensation = "verified" /\ q.output = t.preserved
      BY <3>2 DEF Result
    <3>4. QED
      BY <2>1, <3>1, <3>3
  <2>3. CASE t.at = "verify"
    <3>1. OutputTarget(t) = t.preserved
      BY DEF OutputTarget
    <3>2. r = [result[c] EXCEPT !.compensation = "verified", !.output = OutputTarget(t),
                 !.delivery = IF t.request.commands = <<>> THEN "verified" ELSE "unverified"]
      BY <1>4, <1>7, <2>3 DEF BarrierConverges
    <3>3. r.compensation = "verified" /\ r.output = t.preserved
      BY <1>2, <3>1, <3>2 DEF Result
    <3>4. QED
      BY <2>1, <3>3
  <2>4. t.at # "final"
    BY <1>2 DEF StepsFit
  <2>5. QED
    BY <1>7, <2>2, <2>3, <2>4
<1>8. CASE ReadBack(c)
  BY <1>2, <1>8 DEF ReadBack, StepsFit
<1> HIDE DEF t, r
<1>9. QED
  BY <1>1, <1>5, <1>6, <1>7, <1>8, Endings DEF t, r

\* What an operation reports of its writes and of the output, however it ends, is
\* not better than what happened.
THEOREM OutcomeTheorem == Spec => OutcomeIsReported
<1>1. IInv => TypeOK /\ StepsRelyOnRequest /\ InstrumentFollows /\ WritesAreReported
  BY DEF IInv
<1>2. IInv /\ [Next]_vars =>
        [\A c \in Clients : Ends(c) /\ result'[c].error =>
           LET t == task[c]
               r == result'[c] IN
           t.request.op = "generator" /\ t.request.target # None /\ t.request.output = None
             /\ reached'[c] > 0 =>
           \/ r.compensation = "verified" /\ r.output = t.preserved /\ t.barrier.matches = 2
           \/ r.compensation \in {"failed", "notAttempted"} /\ r.output = Unknown]_vars
  BY OutcomeStep
<1>3. QED
  BY <1>1, <1>2, Invariance, PTL DEF Spec, OutcomeIsReported, LostOutputIsReported

\* No setting is written into a state of the instrument that it was not meant for.
THEOREM SettingsTheorem == Spec => SettingsFit
<1>1. IInv =>
        \A c \in Clients :
          task[c].at \in {"settings", "output"} /\ reached'[c] > reached[c] =>
          LET r == task[c].request IN
          /\ r.op = "generator" /\ r.target # None => instrument.function.now = r.target
          /\ r.op = "dmm" /\ r.target \notin Companions => instrument.meter.now = r.target
  <2> SUFFICES ASSUME IInv, NEW c \in Clients, task[c].at \in {"settings", "output"}
               PROVE  LET r == task[c].request IN
                      /\ r.op = "generator" /\ r.target # None => instrument.function.now = r.target
                      /\ r.op = "dmm" /\ r.target \notin Companions => instrument.meter.now = r.target
    OBVIOUS
  <2>1. StepsFit(task[c]) /\ StepsFollow(task[c], instrument)
    BY DEF IInv, StepsRelyOnRequest, InstrumentFollows
  <2>2. QED
    BY <2>1 DEF StepsFit, StepsFollow, Selects, Active
<1>2. IInv =>
        \A c \in Clients :
          /\ task[c].at = "settings" /\ task[c].request.op = "channel"
          /\ reached'[c] > reached[c] /\ Head(task[c].todo).setting = "scale"
          => <<instrument.settings["probe"], Head(task[c].todo).value>> \in Fitting
  <2> SUFFICES ASSUME IInv, NEW c \in Clients, task[c].at = "settings",
                      task[c].request.op = "channel", Head(task[c].todo).setting = "scale"
               PROVE  <<instrument.settings["probe"], Head(task[c].todo).value>> \in Fitting
    OBVIOUS
  <2>1. StepsFit(task[c]) /\ StepsFollow(task[c], instrument) /\ task[c].todo \in Seq(Commands)
    BY TaskParts DEF IInv, TypeOK, StepsRelyOnRequest, InstrumentFollows
  <2>2. 1 \in DOMAIN task[c].todo /\ Head(task[c].todo) = task[c].todo[1]
    BY <2>1, HeadAndTail DEF StepsFit
  <2>3. QED
    BY <2>1, <2>2 DEF StepsFollow
<1>3. QED
  BY <1>1, <1>2, Invariance, PTL DEF Spec, SettingsFit, SettingsMeetTheirFunction, ScaleFitsProbe

=============================================================================
