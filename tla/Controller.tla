----------------------------- MODULE Controller -----------------------------
(***************************************************************************)
(* pkg/owoncontrol: Controller turns a typed request into the commands of  *)
(* one transaction of the session. Some operations are one list of writes; *)
(* others read before they write (the probe of a channel, the shutdown     *)
(* timer, the generator output), wait for the instrument to follow (the    *)
(* barriers of the generator and of the multimeter), read back what they   *)
(* wrote, or repair what a failed step left behind, and report what they   *)
(* know of the outcome.                                                    *)
(*                                                                         *)
(* The session is what OwonSession promises: one transaction at a time. A  *)
(* session that is closed, or cannot be recovered, refuses an operation    *)
(* like a context that is done: every operation ends with its first        *)
(* failure, so no more of the session is seen here.                        *)
(*                                                                         *)
(* The instrument is external. It takes up a new waveform, output or meter *)
(* function some time after the write, and taking up a waveform may switch *)
(* the output. Until then its answers show the old value, no value, or the *)
(* new value, but the new value never twice in a row: this is what the     *)
(* barriers rely on when they ask for two consecutive matches.             *)
(***************************************************************************)
EXTENDS Naturals, Sequences

CONSTANTS
  Clients,         \* the concurrent callers
  RequestsOf,      \* what each of them may request
  Functions,       \* waveforms and meter functions
  Companions,      \* meter functions whose query answers AC or DC whatever is active
  Values,          \* for each plain setting, its values
  Ignorable,       \* the settings that a firmware may accept and ignore
  Fitting,         \* the pairs of probe and scale that can be written
  MaxObservations, \* generatorMaximum{Context,Output}Observations, 8 in the code
  None,            \* a nil pointer
  Unavailable,     \* the reply "error"
  Malformed,       \* a reply that does not parse
  Unknown          \* GeneratorObservationUnknown

Outputs == {"on", "off"}
Settings == DOMAIN Values
Dimensions == {"function", "output", "meter"}

\* A command without a value is a query.
AnyValue == UNION {Values[s] : s \in Settings}
Commands == [setting : {"function", "meter"}, value : Functions \cup {None}]
              \cup [setting : {"output"}, value : Outputs \cup {None}]
              \cup [setting : Settings, value : AnyValue \cup {None}]
Operations == {"writes", "snapshot", "controls", "channel", "average",
               "keepAwake", "generator", "dmm"}
\* A compiled request: the waveform or function to select, the output to set,
\* and the other commands, in their order.
Request == [op : Operations, target : Functions \cup {None},
            output : Outputs \cup {None}, commands : Seq(Commands)]

Deliveries == {"notAttempted", "verified", "unverified", "partialOrUnknown"}

ASSUME ControllerAssumption ==
  /\ RequestsOf \in [Clients -> SUBSET Request]
  /\ Companions \subseteq Functions
  /\ Ignorable \subseteq Settings
  /\ {"probe", "scale"} \subseteq Settings /\ Dimensions \cap Settings = {}
  /\ Fitting \subseteq Values["probe"] \X Values["scale"]
  /\ MaxObservations \in Nat \ {0, 1}
  /\ None \notin Clients \cup Functions \cup Outputs \cup Deliveries \cup Operations \cup AnyValue
  /\ {Unavailable, Malformed} \cap (Functions \cup Outputs \cup {None}) = {}
  /\ Unavailable # Malformed /\ Unknown \notin Outputs
\* What the compilers produce.
ASSUME RequestAssumption ==
  \A c \in Clients : \A r \in RequestsOf[c] :
    /\ r.op \in {"average", "keepAwake"} => r.commands # <<>>
    /\ r.op = "dmm" => r.target # None
    /\ r.op = "generator" => r.target # None \/ r.output # None \/ r.commands # <<>>
    /\ r.op \in {"generator", "dmm"} =>
         \A i \in DOMAIN r.commands : r.commands[i].setting \in Settings
    /\ r.op \in {"writes", "snapshot", "controls", "channel"} =>
         r.commands # <<>> /\ r.target = None
    /\ r.op = "channel" => \A i \in DOMAIN r.commands : r.commands[i].setting # "probe"
    /\ r.op = "controls" => \A i \in DOMAIN r.commands : r.commands[i].value = None

VARIABLES
  task,        \* for each client, where its operation is
  result,      \* for each client, what its last operation returned, or has so far
  holder,      \* the client whose transaction is open
  instrument,  \* the instrument
  reached      \* for each client, its writes that reached the instrument (history)

vars == <<task, result, holder, instrument, reached>>

Writing == {"settings", "function", "output", "compensate", "configure"}
Barriers == {"preflight", "context", "verify", "compensated", "initial", "final"}
Reading == {"probe", "timer", "readback"}
Steps == {"done", "returned"} \cup Writing \cup Barriers \cup Reading

\* The counters of a barrier: consecutive matches, observations, the value of
\* the last reply, and how the barrier ends.
Barrier == [matches : 0..2, observations : 0..MaxObservations,
            previous : Outputs \cup {None},
            verdict : {"open", "converged", "semantic"}]
NewBarrier == [matches |-> 0, observations |-> 0, previous |-> None, verdict |-> "open"]

Compensations == {"notRequired", "notAttempted", "unverified", "verified", "failed"}
\* A result at the start of an operation; only the generator's says how much was delivered.
NewResult(op) == [error |-> FALSE,
                  delivery |-> IF op = "generator" THEN "notAttempted" ELSE None,
                  compensation |-> "notRequired", output |-> None, completed |-> 0]

NoRequest == [op |-> "writes", target |-> None, output |-> None, commands |-> <<>>]
NoTask == [at |-> "done", request |-> NoRequest, todo |-> <<>>, preserved |-> None,
           barrier |-> NewBarrier, live |-> FALSE]
InTransaction(c) == task[c].at \notin {"done", "returned"}

Init ==
  /\ task = [c \in Clients |-> NoTask]
  /\ result = [c \in Clients |-> NewResult(None)]
  /\ holder = None
  /\ \E function, meter \in Functions, output \in Outputs,
        settings \in [Settings -> AnyValue] :
       /\ \A s \in Settings : settings[s] \in Values[s]
       /\ instrument =
            [function |-> [now |-> function, next |-> function, premature |-> FALSE],
             output |-> [now |-> output, next |-> output, premature |-> FALSE],
             meter |-> [now |-> meter, next |-> meter, premature |-> FALSE],
             settings |-> settings]
  /\ reached = [c \in Clients |-> 0]

-----------------------------------------------------------------------------
(* The exchanges of an operation with the instrument.                      *)

\* Transaction.Execute sends nothing once the context is done.
MaySend(c) == task[c].live

OutputTarget(t) == IF t.request.output # None THEN t.request.output ELSE t.preserved

\* The command that a step sends.
Pending(t) ==
  CASE t.at = "function" -> [setting |-> "function", value |-> t.request.target]
    [] t.at = "configure" -> [setting |-> "meter", value |-> t.request.target]
    [] t.at = "compensate" -> [setting |-> "output", value |-> t.preserved]
    [] t.at = "output" -> [setting |-> "output", value |-> OutputTarget(t)]
    [] OTHER -> Head(t.todo)

IsWrite(command) == command.value # None

\* What the instrument may be once a command has reached it.
AfterCommand(command) ==
  LET s == command.setting
      v == command.value IN
  IF ~IsWrite(command) THEN {instrument}
  ELSE IF s \in Dimensions
  THEN {[instrument EXCEPT ![s].next = v, ![s].premature = FALSE]}
  ELSE {[instrument EXCEPT !.settings[s] = v]}
         \cup (IF s \in Ignorable THEN {instrument} ELSE {})

Lands(c, command) ==
  /\ instrument' \in AfterCommand(command)
  /\ reached' = [reached EXCEPT ![c] = @ + IF IsWrite(command) THEN 1 ELSE 0]

\* The exchange succeeds.
Sends(c, command) ==
  /\ MaySend(c)
  /\ Lands(c, command)

\* The command is refused before the exchange, or the exchange fails: then the
\* command may have reached the instrument.
SendFails(c, command) ==
  \/ MaySend(c) /\ Lands(c, command)
  \/ UNCHANGED <<instrument, reached>>

Query(setting) == [setting |-> setting, value |-> None]

\* The replies to the query of a dimension, for an operation that wants a value.
Replies(d, wanted) ==
  {Unavailable, Malformed, instrument[d].now}
    \cup (IF instrument[d].premature THEN {} ELSE {instrument[d].next})
    \cup (IF d = "meter" /\ wanted \in Companions THEN {wanted} ELSE {})

\* Nobody but its caller sees a result: what comes next may wait until it is taken.
Quiet == \A c \in Clients : task[c].at # "returned"

\* The instrument takes up what was written; a new waveform may switch the output.
Settles(d) ==
  /\ instrument[d].now # instrument[d].next /\ Quiet
  /\ \E o \in IF d = "function" THEN {instrument.output, [now |-> "on", next |-> "on", premature |-> FALSE],
                                      [now |-> "off", next |-> "off", premature |-> FALSE]}
              ELSE {instrument.output} :
       instrument' = [[instrument EXCEPT !.output = o]
                        EXCEPT ![d].now = instrument[d].next, ![d].next = instrument[d].next,
                               ![d].premature = FALSE]
  /\ UNCHANGED <<task, result, holder, reached>>

-----------------------------------------------------------------------------
(* How an operation moves on and returns.                                  *)

Goto(c, next) == task' = [task EXCEPT ![c] = next]

\* The next step of an operation, with the counters of a barrier at zero.
Awaits(c, at, report) ==
  /\ Goto(c, [task[c] EXCEPT !.at = at, !.barrier = NewBarrier])
  /\ result' = [result EXCEPT ![c] = report]
  /\ UNCHANGED holder

\* The operation returns, and its deferred Transaction.Close ends the transaction.
Returns(c, report) ==
  /\ task' = [task EXCEPT ![c] = [NoTask EXCEPT !.at = "returned"]]
  /\ result' = [result EXCEPT ![c] = report]
  /\ holder' = None

\* newGeneratorConvergenceError: nothing was attempted when no write completed
\* and the failed phase precedes the first one.
FailedDelivery(t, report) ==
  IF t.request.op # "generator" THEN report.delivery
  ELSE IF report.completed = 0 /\ t.at = "preflight"
  THEN "notAttempted" ELSE "partialOrUnknown"

\* Mutant: the failure of a later write forgets the output.
OutputReportEarlyOnly(t, report) ==
  CASE t.at \in {"output", "verify", "compensate", "compensated"} ->
         [report EXCEPT !.output = Unknown, !.compensation = "failed"]
    [] t.at \in {"function", "context"} /\ t.preserved # None ->
         [report EXCEPT !.output = Unknown, !.compensation = "notAttempted"]
    [] t.at = "preflight" -> [report EXCEPT !.output = t.barrier.previous]
    [] OTHER -> report

\* What a generator operation reports about the output when the step fails.
OutputReport(t, report) ==
  CASE t.at \in {"output", "verify", "compensate", "compensated"} ->
         [report EXCEPT !.output = Unknown, !.compensation = "failed"]
    [] t.at \in {"function", "context", "settings"} /\ t.preserved # None ->
         [report EXCEPT !.output = Unknown, !.compensation = "notAttempted"]
    [] t.at = "preflight" -> [report EXCEPT !.output = t.barrier.previous]
    [] OTHER -> report

Failure(t, report) ==
  [OutputReport(t, report) EXCEPT !.error = TRUE, !.delivery = FailedDelivery(t, report)]

Fails(c) == Returns(c, Failure(task[c], result[c]))

\* The step that follows when the given commands are left.
Following(t, todo) ==
  IF todo # <<>> THEN "settings"
  ELSE CASE t.request.op = "generator" /\ OutputTarget(t) # None -> "output"
         [] t.request.op = "dmm" /\ t.request.commands # <<>> -> "final"
         [] t.request.op \in {"average", "keepAwake"} -> "readback"
         [] OTHER -> "end"

\* The operation goes on with the commands that are left, or returns its result.
Proceeds(c, todo, report) ==
  LET at == Following(task[c], todo) IN
  IF at = "end"
  THEN Returns(c, IF task[c].request.op = "generator"
                  THEN [report EXCEPT !.delivery = "unverified"] ELSE report)
  ELSE /\ Goto(c, [task[c] EXCEPT !.at = at, !.todo = todo, !.barrier = NewBarrier])
       /\ result' = [result EXCEPT ![c] = report]
       /\ UNCHANGED holder

\* The first step of an admitted operation.
Opening(r) ==
  CASE r.op = "generator" /\ r.target # None ->
         IF r.output = None THEN "preflight" ELSE "function"
    [] r.op = "dmm" -> "configure"
    [] r.op = "channel" -> "probe"
    [] r.op = "keepAwake" -> "timer"
    [] OTHER -> Following([NoTask EXCEPT !.request = r], r.commands)

-----------------------------------------------------------------------------
(* The operations.                                                         *)

\* The caller takes the result.
Collect(c) ==
  /\ task[c].at = "returned"
  /\ task' = [task EXCEPT ![c] = NoTask]
  /\ result' = [result EXCEPT ![c] = NewResult(None)]
  /\ reached' = [reached EXCEPT ![c] = 0]
  /\ UNCHANGED <<holder, instrument>>

\* The caller cancels, or the caller's deadline or the budget of the operation expires.
ContextEnds(c) ==
  /\ InTransaction(c) /\ task[c].live
  /\ Goto(c, [task[c] EXCEPT !.live = FALSE])
  /\ UNCHANGED <<result, holder, instrument, reached>>

Admissible(c) == holder = None

\* The compiled request is admitted: Session.Begin, with the recovery of a
\* poisoned session, and OperationContext. Waiting for it changes nothing.
Admit(c) ==
  /\ task[c].at = "done" /\ Admissible(c) /\ Quiet
  /\ holder' = c
  /\ \E r \in RequestsOf[c] :
       /\ Goto(c, [NoTask EXCEPT !.at = Opening(r), !.request = r, !.todo = r.commands,
                                 !.live = TRUE])
       /\ result' = [result EXCEPT ![c] =
            [NewResult(r.op) EXCEPT !.compensation =
               IF Opening(r) = "preflight" THEN "notAttempted" ELSE @]]
  /\ UNCHANGED <<instrument, reached>>

\* The context is done before the operation is admitted, the session is closed,
\* or its recovery fails. (Looked at between the transactions of the others only:
\* they do not notice it.)
NotAdmitted(c) ==
  /\ task[c].at = "done" /\ Admissible(c) /\ Quiet
  /\ Goto(c, [NoTask EXCEPT !.at = "returned"])
  /\ \E r \in RequestsOf[c] :
       result' = [result EXCEPT ![c] = [NewResult(r.op) EXCEPT !.error = TRUE]]
  /\ UNCHANGED <<holder, instrument, reached>>

\* A write, or a query whose reply the operation only collects, succeeds.
Sent(c) ==
  LET t == task[c]
      command == Pending(t)
      report == [result[c] EXCEPT !.completed = @ + IF IsWrite(command) THEN 1 ELSE 0] IN
  /\ t.at \in Writing
  /\ Sends(c, command)
  /\ \/ t.at = "function" /\ Awaits(c, "context", report)
     \/ t.at = "configure" /\ Awaits(c, "initial", report)
     \/ t.at = "compensate" /\ Awaits(c, "compensated", report)
     \/ t.at = "output" /\ t.request.target # None /\ Awaits(c, "verify", report)
     \/ /\ t.at = "output" /\ t.request.target = None
        /\ Returns(c, [report EXCEPT !.delivery = "unverified"])
     \/ t.at = "settings" /\ Proceeds(c, Tail(t.todo), report)

\* The snapshot of the controls is returned without the meter range when only
\* the query of that range failed.
RangeMissing(t) ==
  t.request.op = "controls" /\ Len(t.todo) = 1 /\ t.live

NotSent(c) ==
  /\ task[c].at \in Writing
  /\ SendFails(c, Pending(task[c]))
  /\ \/ RangeMissing(task[c]) /\ Returns(c, result[c])
     \/ Fails(c)  \* among others because the context has ended meanwhile

\* A collected reply does not parse.
Unparsable(c) ==
  /\ task[c].at = "settings" /\ ~IsWrite(Head(task[c].todo)) /\ MaySend(c)
  /\ ~RangeMissing(task[c])
  /\ Fails(c)
  /\ UNCHANGED <<instrument, reached>>

-----------------------------------------------------------------------------
(* The barriers: waitForGeneratorOutput, waitForGeneratorWaveform and      *)
(* waitForDMMFunction.                                                     *)

Observed(at) ==
  CASE at \in {"preflight", "verify", "compensated"} -> "output"
    [] at = "context" -> "function"
    [] at \in {"initial", "final"} -> "meter"

\* The value a barrier waits for; the preflight waits for any output.
Wanted(t) ==
  CASE t.at = "preflight" -> None
    [] t.at = "compensated" -> t.preserved
    [] t.at = "verify" -> OutputTarget(t)
    [] t.at \in {"context", "initial", "final"} -> t.request.target

\* Only the barriers of the generator count their observations.
IsCounted(at) == at \notin {"initial", "final"}

\* Mutant: the matches need not be consecutive.
MatchesAnywhere(barrier, reply, wanted) ==
  barrier.matches +
    IF reply = Unavailable \/ (wanted # None /\ reply # wanted) THEN 0 ELSE 1

Matches(barrier, reply, wanted) ==
  IF reply = Unavailable \/ (wanted # None /\ reply # wanted) THEN 0
  ELSE IF wanted = None /\ barrier.previous # reply THEN 1
  ELSE barrier.matches + 1

\* Mutant: one match is enough.
RequiredMatchesOne == 1

RequiredMatches == 2

Exhausted(observations) == observations >= MaxObservations

\* One reply; a malformed one ends the barrier at once.
Counted(t, reply) ==
  LET b == t.barrier
      matches == Matches(b, reply, Wanted(t))
      observations == IF IsCounted(t.at) THEN b.observations + 1 ELSE 0 IN
  IF reply = Malformed
  THEN [b EXCEPT !.previous = None, !.verdict = "semantic"]
  ELSE [matches |-> matches, observations |-> observations,
        previous |-> IF t.at = "preflight" /\ reply # Unavailable THEN reply ELSE None,
        verdict |-> IF matches >= RequiredMatches THEN "converged"
                    ELSE IF IsCounted(t.at) /\ Exhausted(observations) THEN "semantic"
                    ELSE "open"]

Observe(c) ==
  LET t == task[c]
      d == Observed(t.at) IN
  /\ t.at \in Barriers /\ t.barrier.verdict = "open"
  /\ MaySend(c)
  /\ \E reply \in Replies(d, Wanted(t)) :
       /\ Goto(c, [t EXCEPT !.barrier = Counted(t, reply)])
       /\ instrument' = [instrument EXCEPT ![d].premature =
                           reply = instrument[d].next /\ reply # instrument[d].now]
  /\ UNCHANGED <<result, holder, reached>>

\* A query fails, or the context is done before the next one or at the end.
BarrierBreaks(c) ==
  LET t == task[c] IN
  /\ t.at \in Barriers
  /\ \/ t.barrier.verdict = "open" /\ Fails(c)
     \/ t.barrier.verdict = "converged" /\ ~t.live /\ Fails(c)
  /\ UNCHANGED <<instrument, reached>>

\* Two consecutive matches.
BarrierConverges(c) ==
  LET t == task[c]
      report == result[c] IN
  /\ t.at \in Barriers /\ t.barrier.verdict = "converged" /\ t.live
  /\ \/ /\ t.at = "preflight"
        /\ Goto(c, [t EXCEPT !.at = "function", !.preserved = t.barrier.previous,
                             !.barrier = NewBarrier])
        /\ result' = [result EXCEPT ![c].compensation = "unverified",
                                    ![c].output = t.barrier.previous]
        /\ UNCHANGED holder
     \/ t.at \in {"context", "initial"} /\ Proceeds(c, t.todo, report)
     \/ /\ t.at = "compensated"
        /\ Returns(c, [Failure(t, report) EXCEPT !.compensation = "verified",
                                                 !.output = t.preserved])
     \/ /\ t.at = "verify"
        /\ Returns(c, [report EXCEPT !.compensation = "verified", !.output = OutputTarget(t),
                        !.delivery = IF t.request.commands = <<>>
                                     THEN "verified" ELSE "unverified"])
     \/ t.at = "final" /\ Returns(c, report)
  /\ UNCHANGED <<instrument, reached>>

\* A malformed reply or the last observation: an output that was to be
\* preserved is written again.
MustCompensate(t) == t.at = "context" /\ t.preserved # None

BarrierGivesUp(c) ==
  LET t == task[c] IN
  /\ t.at \in Barriers /\ t.barrier.verdict = "semantic"
  /\ IF MustCompensate(t)
     THEN Awaits(c, "compensate", result[c])
     ELSE Fails(c)
  /\ UNCHANGED <<instrument, reached>>

-----------------------------------------------------------------------------
(* The single queries whose reply decides how an operation goes on.        *)

\* ValidateChannelProbe: every scale of the patch fits the probe.
ProbeAccepts(commands, probe) ==
  \A i \in DOMAIN commands :
    commands[i].setting = "scale" => <<probe, commands[i].value>> \in Fitting

\* SetChannel reads the probe from the screen header.
ProbeRead(c) ==
  LET t == task[c] IN
  /\ t.at = "probe" /\ MaySend(c)
  /\ IF ProbeAccepts(t.todo, instrument.settings["probe"])
     THEN Proceeds(c, t.todo, result[c])
     ELSE Fails(c)
  /\ UNCHANGED <<instrument, reached>>

\* EnsureKeepAwake requires a timer that parses before it writes.
TimerRead(c) ==
  /\ task[c].at = "timer" /\ MaySend(c)
  /\ Proceeds(c, task[c].todo, result[c])
  /\ UNCHANGED <<instrument, reached>>

\* EnsureKeepAwake and SetAcquisition read back what they wrote first.
ReadBackMatches(command) == instrument.settings[command.setting] = command.value

ReadBack(c) ==
  LET t == task[c] IN
  /\ t.at = "readback" /\ MaySend(c)
  /\ IF ReadBackMatches(t.request.commands[1])
     THEN Returns(c, result[c])
     ELSE Fails(c)
  /\ UNCHANGED <<instrument, reached>>

\* The query fails, or its reply does not parse.
ReadFails(c) ==
  /\ task[c].at \in Reading
  /\ Fails(c)
  /\ UNCHANGED <<instrument, reached>>

-----------------------------------------------------------------------------
OperationStep(c) ==
  \/ Sent(c) \/ NotSent(c) \/ Unparsable(c)
  \/ Observe(c) \/ BarrierBreaks(c) \/ BarrierConverges(c) \/ BarrierGivesUp(c)
  \/ ProbeRead(c) \/ TimerRead(c) \/ ReadBack(c) \/ ReadFails(c)

Next ==
  \/ \E c \in Clients :
       \/ Admit(c) \/ NotAdmitted(c) \/ Collect(c) \/ ContextEnds(c)
       \/ OperationStep(c)
  \/ \E d \in Dimensions : Settles(d)

\* Mutant: only the caller's deadline bounds the barriers of the multimeter.
BudgetExpiresNever(c) == FALSE

\* The goroutine of an operation runs, and the operation budget of a multimeter
\* transition expires: only the observations of the generator are counted.
BudgetExpires(c) == task[c].at \in {"initial", "final"} /\ ContextEnds(c)

Fairness ==
  \A c \in Clients :
    /\ WF_vars(Collect(c))
    /\ WF_vars(OperationStep(c))
    /\ WF_vars(BudgetExpires(c))

Spec == Init /\ [][Next]_vars /\ Fairness

-----------------------------------------------------------------------------
(* Properties.                                                             *)

Task == [at : Steps, request : Request, todo : Seq(Commands), preserved : Outputs \cup {None},
         barrier : Barrier, live : BOOLEAN]
Result == [error : BOOLEAN, delivery : Deliveries \cup {None}, compensation : Compensations,
           output : Outputs \cup {None, Unknown}, completed : Nat]
Dimension(values) == [now : values, next : values, premature : BOOLEAN]
Instrument == [function : Dimension(Functions), output : Dimension(Outputs),
               meter : Dimension(Functions), settings : [Settings -> AnyValue]]

\* Every counter keeps its bound, a transaction is held by the operation that
\* runs in it, and only by that one.
TypeOK ==
  /\ task \in [Clients -> Task]
  /\ result \in [Clients -> Result]
  /\ holder \in Clients \cup {None}
  /\ instrument \in Instrument
  /\ reached \in [Clients -> Nat]
  /\ \A c \in Clients :
       /\ holder = c <=> InTransaction(c)
       /\ InTransaction(c) => task[c].request \in RequestsOf[c]

\* What each step of an operation may rely on: its kind of request, an output that
\* is known before a waveform is written, commands that are those of the request,
\* and counters that stop where they must.
Selects(r) == r.op = "generator" /\ r.target # None
CountersStop(t) ==
  LET b == t.barrier IN
  /\ b.verdict = "open" => b.matches < RequiredMatches /\ ~Exhausted(b.observations)
  /\ b.verdict = "converged" => b.matches = RequiredMatches
  /\ t.at = "preflight" /\ b.matches > 0 /\ b.verdict # "semantic" => b.previous # None
StepsFit(t) ==
  LET r == t.request IN
  /\ t.at \in {"preflight", "function", "context", "verify", "compensate", "compensated"} =>
       Selects(r)
  /\ t.at = "output" => r.op = "generator" /\ OutputTarget(t) # None
  /\ t.at \in {"preflight", "compensate", "compensated"} => r.output = None
  /\ Selects(r) => IF t.at = "preflight" THEN t.preserved = None ELSE OutputTarget(t) # None
  /\ t.preserved # None => r.output = None
  /\ t.at \in {"configure", "initial", "final"} => r.op = "dmm"
  /\ t.at = "probe" => r.op = "channel"
  /\ t.at = "timer" => r.op = "keepAwake"
  /\ t.at = "readback" => r.op \in {"average", "keepAwake"}
  /\ t.at = "settings" => t.todo # <<>>
  /\ \A i \in DOMAIN t.todo : \E j \in DOMAIN r.commands : t.todo[i] = r.commands[j]
StepsRelyOnRequest == \A c \in Clients : StepsFit(task[c]) /\ CountersStop(task[c])

\* What a barrier has seen of a dimension, and what holds once it has converged.
Seen(dimension, wanted, b) ==
  /\ dimension.next = wanted
  /\ b.verdict = "open" /\ b.matches > 0 => dimension.now = wanted \/ dimension.premature
  /\ b.verdict = "converged" => dimension.now = wanted
Active(dimension, wanted) == dimension.now = wanted /\ dimension.next = wanted
StepsFollow(t, i) ==
  LET r == t.request IN
  /\ t.at = "context" => Seen(i.function, r.target, t.barrier)
  /\ t.at \in {"settings", "output", "verify"} /\ Selects(r) =>
       Active(i.function, r.target)
  /\ t.at = "verify" => Seen(i.output, OutputTarget(t), t.barrier)
  /\ r.op = "dmm" /\ r.target \notin Companions =>
       /\ t.at = "initial" => Seen(i.meter, r.target, t.barrier)
       /\ t.at \in {"settings", "final"} => Active(i.meter, r.target)
  /\ t.at = "settings" /\ r.op = "channel" =>
       \A n \in DOMAIN t.todo : t.todo[n].setting = "scale" =>
         <<i.settings["probe"], t.todo[n].value>> \in Fitting
InstrumentFollows ==
  /\ \A c \in Clients : StepsFollow(task[c], instrument)
  /\ \A d \in Dimensions :
       instrument[d].now = instrument[d].next => ~instrument[d].premature

Ends(c) == InTransaction(c) /\ task'[c].at = "returned"

\* What an operation returns without an error, or reports as verified, is so: the
\* selected waveform and meter function are active, the output is the requested
\* one or the one from before the waveform, and a setting that is read back has
\* its value. (Multimeter functions whose query does not name the active function
\* are excepted.)
SuccessIsTrue ==
  [][\A c \in Clients : Ends(c) /\ ~result'[c].error =>
       LET r == task[c].request IN
       /\ r.op = "generator" /\ r.target # None =>
            /\ instrument'.function.now = r.target
            /\ instrument'.output.now = OutputTarget(task[c])
       /\ r.op = "dmm" /\ r.target \notin Companions => instrument'.meter.now = r.target
       /\ r.op \in {"average", "keepAwake"} =>
            instrument'.settings[r.commands[1].setting] = r.commands[1].value]_vars

\* A generator operation that had to preserve the output and fails after a write
\* reached the instrument has either seen the old output twice after it restored
\* it, or reports the output as unknown: the value read before the waveform is
\* never reported as the current one.
LostOutputIsReported ==
  [][\A c \in Clients : Ends(c) /\ result'[c].error =>
       LET t == task[c]
           r == result'[c] IN
       t.request.op = "generator" /\ t.request.target # None /\ t.request.output = None
         /\ reached'[c] > 0 =>
       \/ r.compensation = "verified" /\ r.output = t.preserved /\ t.barrier.matches = 2
       \/ r.compensation \in {"failed", "notAttempted"} /\ r.output = Unknown]_vars

\* The writes that an operation reports as completed reached the instrument, and at
\* most the one that failed reached it besides. An operation that reports that
\* nothing was attempted changed nothing.
WritesFit(t, r, n) ==
  /\ n >= r.completed /\ n <= r.completed + 1
  /\ t.at # "returned" =>
       n = r.completed /\ (t.request.op # "generator" => r.delivery # "notAttempted")
  /\ t.at \in {"done", "preflight"} => n = 0
  /\ t.at = "returned" /\ n > r.completed => r.error
  /\ t.at = "returned" /\ r.error /\ r.delivery = "notAttempted" => n = 0
WritesAreReported == \A c \in Clients : WritesFit(task[c], result[c], reached[c])

\* Together: every step finds its request and the instrument as it relies on them,
\* and what an operation reports of its writes and of the output, however it ends,
\* is not better than what happened.
OutcomeIsReported ==
  /\ [](TypeOK /\ StepsRelyOnRequest /\ InstrumentFollows /\ WritesAreReported)
  /\ LostOutputIsReported

\* The settings of a waveform or of a meter function reach the instrument only
\* once that waveform or function is active.
SettingsMeetTheirFunction ==
  [][\A c \in Clients :
       task[c].at \in {"settings", "output"} /\ reached'[c] > reached[c] =>
       LET r == task[c].request IN
       /\ r.op = "generator" /\ r.target # None => instrument.function.now = r.target
       /\ r.op = "dmm" /\ r.target \notin Companions => instrument.meter.now = r.target]_vars

\* A scale that a patch without a probe writes fits the probe that the channel has
\* at that moment, whatever the other callers do to the probe.
ScaleFitsProbe ==
  [][\A c \in Clients :
       /\ task[c].at = "settings" /\ task[c].request.op = "channel"
       /\ reached'[c] > reached[c] /\ Head(task[c].todo).setting = "scale"
       => <<instrument.settings["probe"], Head(task[c].todo).value>> \in Fitting]_vars

\* Together: no setting is written into a state of the instrument that it was not
\* meant for.
SettingsFit == SettingsMeetTheirFunction /\ ScaleFitsProbe

\* Every admitted operation returns, although the instrument may never follow a
\* write, may answer "error" for ever, and the caller may never cancel.
EveryOperationReturns ==
  \A c \in Clients : InTransaction(c) ~> task[c].at = "returned"
=============================================================================
