--------------------------- MODULE PollScheduler ---------------------------
(***************************************************************************)
(* pkg/owonrpc/owonserver: subscriptionPollScheduler spreads the polls of  *)
(* all streams over time. A poll charges a weight, the transport commands  *)
(* it is estimated to take; the scheduler grants the waiting polls in FIFO *)
(* order, each one a slot of weight * workUnitInterval that begins where   *)
(* the slot before it ends. There is no goroutine of its own: every waiter *)
(* reads the clock, takes the mutex and dispatches for everyone.           *)
(*                                                                         *)
(* Time is discrete and kept relative to now, so a run need not end: an    *)
(* instant is the number of ticks it lies ahead (negative: ago), and Tick  *)
(* moves everything one tick closer. A goroutine may be preempted between  *)
(* time.Now() and the mutex: what it dispatches with is then old, by at    *)
(* most MaxAge.                                                            *)
(***************************************************************************)
EXTENDS Integers, Sequences, FiniteSets, SequencesExt

CONSTANTS
  Streams,   \* the streams that poll; a cancelled one is followed by another
  Weights,   \* the weights of their polls
  Capacity,  \* scheduler.capacity
  Window,    \* subscriptionPollWorkWindow, in ticks
  MaxAge     \* the bound on the age of a clock reading when it is used

WorkUnitInterval == Window \div Capacity

ASSUME SchedulerAssumption ==
  /\ IsFiniteSet(Streams)
  /\ Weights \subseteq Nat \ {0}
  /\ {Capacity, Window} \subseteq Nat \ {0}
  /\ WorkUnitInterval > 0
  /\ MaxAge \in Nat

VARIABLES
  ahead,      \* scheduler.committedUntil, never older than MaxAge
  queue,      \* scheduler.queue: the streams whose poll waits
  weight,     \* per stream: request.weight, 0 without a request
  granted,    \* the streams whose request.granted is closed
  cancelled,  \* the streams whose context is done
  waiter,     \* per stream: where acquire is
  reading,    \* per stream: the age of the clock reading it dispatches with
  timer,      \* per stream: when its timer fires
  slots       \* a history: the recent slots, each with its start and its weight

queueVars == <<ahead, queue, granted, slots>>
vars == <<queueVars, weight, cancelled, waiter, reading, timer>>

WaiterStates == {"idle", "looping", "dispatching", "selecting", "fired"}
Blocked == {"looping", "dispatching", "selecting", "fired"}
Largest(a, b) == IF a >= b THEN a ELSE b
WorkDuration(w) == w * WorkUnitInterval

Init ==
  /\ ahead = 0
  /\ queue = <<>>
  /\ weight = [s \in Streams |-> 0]
  /\ granted = {} /\ cancelled = {}
  /\ waiter = [s \in Streams |-> "idle"]
  /\ reading = [s \in Streams |-> 0]
  /\ timer = [s \in Streams |-> 0]
  /\ slots = {}

-----------------------------------------------------------------------------
(* The scheduler, under its mutex                                          *)

\* Mutant: the slot of a poll takes one unit, whatever its weight.
EndOfSlotUnweighted(start, w) == start + WorkUnitInterval

EndOfSlot(start, w) == start + WorkDuration(w)

\* Mutant: the lightest waiting poll goes first.
NextInLineLightest(q, weights) ==
  CHOOSE i \in DOMAIN q : \A j \in DOMAIN q : weights[q[i]] <= weights[q[j]]

NextInLine(q, weights) == 1

\* dispatchLocked with a clock reading of the given age, on queue q. It grants
\* the first poll if the committed slots have ended; the slot it grants ends
\* after that reading, so the loop goes round once.
DispatchLocked(q, age, weights) ==
  IF q # <<>> /\ ahead <= -age
  THEN LET i == NextInLine(q, weights)
           w == weights[q[i]]
           slot == [start |-> -age, weight |-> w]
       IN /\ granted' = granted \cup {q[i]}
          /\ queue' = RemoveAt(q, i)
          /\ ahead' = EndOfSlot(-age, w)
          /\ slots' = {old \in slots : old.start >= -age - Window} \cup {slot}
  ELSE /\ queue' = q
       /\ UNCHANGED <<ahead, granted, slots>>

\* Mutant: each waiter sleeps until its own slot in the present line.
NextWakeupOwnSlot(s) ==
  IF queue' = <<>> THEN 1
  ELSE Largest(1, ahead' + reading[s]
                  + IF s = Head(queue') THEN 0 ELSE WorkDuration(weight[Head(queue')]))

\* nextWakeupLocked: until the first poll's slot, as seen from the reading.
NextWakeup(s) == IF queue' = <<>> THEN 1 ELSE Largest(1, ahead' + reading[s])

-----------------------------------------------------------------------------
(* acquire                                                                 *)

Moves(s, from, to) == waiter[s] = from /\ waiter' = [waiter EXCEPT ![s] = to]

FitsBudget(w) == w <= Capacity

\* acquire finds its context done: the stream is over, another takes its name.
AcquireCancelled(s) ==
  /\ waiter[s] = "idle" /\ s \in cancelled
  /\ cancelled' = cancelled \ {s}
  /\ UNCHANGED <<queueVars, weight, waiter, reading, timer>>

\* acquire and enqueue, which refuses what exceeds the budget and reads the clock under the mutex.
Enqueue(s) ==
  /\ s \notin cancelled
  /\ \E w \in Weights :
       /\ FitsBudget(w)
       /\ weight' = [weight EXCEPT ![s] = w]
       /\ DispatchLocked(Append(queue, s), 0, weight')
  /\ Moves(s, "idle", "looping")
  /\ UNCHANGED <<cancelled, reading, timer>>

\* wait: time.Now(), before the mutex of dispatchAndNextWakeup or of dispatch.
ReadClock(s) ==
  /\ Moves(s, "looping", "dispatching")
  /\ reading' = [reading EXCEPT ![s] = 0]
  /\ UNCHANGED <<queueVars, weight, cancelled, timer>>

DispatchAndNextWakeup(s) ==
  /\ Moves(s, "dispatching", "selecting")
  /\ DispatchLocked(queue, reading[s], weight)
  /\ timer' = [timer EXCEPT ![s] = NextWakeup(s)]
  /\ reading' = [reading EXCEPT ![s] = 0]
  /\ UNCHANGED <<weight, cancelled>>

\* Mutant: the wait has no timer.
TimerFiresNever(s) == FALSE

\* The three cases of the select. A granted request may still lose to ctx.Done.
TimerFires(s) ==
  /\ timer[s] = 0
  /\ Moves(s, "selecting", "fired")
  /\ UNCHANGED <<queueVars, weight, cancelled, reading, timer>>

Granted(s) ==
  /\ s \in granted
  /\ Moves(s, "selecting", "idle")
  /\ granted' = granted \ {s}
  /\ timer' = [timer EXCEPT ![s] = 0]
  /\ weight' = [weight EXCEPT ![s] = 0]
  /\ UNCHANGED <<ahead, queue, slots, cancelled, reading>>

\* cancel: a request that is still queued leaves it, and the line is dispatched.
\* The stream is over.
Cancelled(s) ==
  /\ s \in cancelled
  /\ Moves(s, "selecting", "idle")
  /\ \/ \E i \in DOMAIN queue :
          queue[i] = s /\ DispatchLocked(RemoveAt(queue, i), 0, weight)
     \/ /\ s \notin ToSet(queue)
        /\ granted' = granted \ {s}
        /\ UNCHANGED <<ahead, queue, slots>>
  /\ cancelled' = cancelled \ {s}
  /\ timer' = [timer EXCEPT ![s] = 0]
  /\ weight' = [weight EXCEPT ![s] = 0]
  /\ UNCHANGED reading

\* The timer case: dispatch, with the time it fired, and round the loop again.
Redispatch(s) ==
  /\ Moves(s, "fired", "looping")
  /\ DispatchLocked(queue, reading[s], weight)
  /\ reading' = [reading EXCEPT ![s] = 0]
  /\ UNCHANGED <<weight, cancelled, timer>>

Cancel(s) ==
  /\ waiter[s] \in Blocked /\ s \notin cancelled
  /\ cancelled' = cancelled \cup {s}
  /\ UNCHANGED <<queueVars, weight, waiter, reading, timer>>

\* What a reading can be compared with is as old as MaxAge. The history keeps
\* the slots that can touch a window with a later one, which begins at ahead at
\* the earliest.
Older(slot) == [slot EXCEPT !.start = @ - 1]
Tick ==
  /\ \A s \in Streams : waiter[s] \in {"dispatching", "fired"} => reading[s] < MaxAge
  /\ ahead' = Largest(ahead - 1, -MaxAge)
  /\ timer' = [s \in Streams |-> Largest(timer[s] - 1, 0)]
  /\ reading' = [s \in Streams |-> IF waiter[s] \in {"dispatching", "fired"}
                                   THEN reading[s] + 1 ELSE 0]
  /\ slots' = {slot \in {Older(old) : old \in slots} : slot.start >= ahead' - Window}
  /\ UNCHANGED <<queue, granted, weight, cancelled, waiter>>

Acquire(s) ==
  \/ ReadClock(s) \/ DispatchAndNextWakeup(s)
  \/ TimerFires(s) \/ Granted(s) \/ Cancelled(s) \/ Redispatch(s)

Next ==
  \/ \E s \in Streams :
       Enqueue(s) \/ Acquire(s) \/ Cancel(s) \/ AcquireCancelled(s)
  \/ Tick

Spec == Init /\ [][Next]_vars

\* The goroutines run and time passes (strongly: the bound MaxAge may disable a
\* Tick again and again). A select whose grant or whose context is ready whenever
\* it is reached does not take its timer case for ever: Go chooses among the ready
\* cases at random.
FairSpec ==
  /\ Spec
  /\ SF_vars(Tick)
  /\ \A s \in Streams : WF_vars(Acquire(s)) /\ SF_vars(Granted(s) \/ Cancelled(s))

-----------------------------------------------------------------------------
(* Properties                                                              *)

TypeOK ==
  /\ ahead \in -MaxAge .. WorkDuration(Capacity)
  /\ queue \in Seq(Streams)
  /\ weight \in [Streams -> 0..Capacity]
  /\ granted \subseteq Streams /\ cancelled \subseteq Streams
  /\ waiter \in [Streams -> WaiterStates]
  /\ reading \in [Streams -> 0..MaxAge]
  /\ timer \in [Streams -> 0 .. WorkDuration(Capacity) + MaxAge + 1]
  /\ slots \subseteq [start : Int, weight : 1..Capacity]

\* The queue holds exactly the polls that wait and were not granted, once each:
\* a cancelled stream leaves nothing behind that could take a slot later.
QueueHoldsWaiters ==
  /\ IsInjective(queue)
  /\ ToSet(queue) = {s \in Streams : waiter[s] \in Blocked} \ granted
  /\ \A s \in Streams : waiter[s] \in Blocked <=> weight[s] # 0
  /\ \A s \in granted : waiter[s] \in Blocked

\* Whoever dispatches, and however old its reading, slots never overlap, and time
\* is committed for a slot that was granted, never for a poll that left the line.
EndOf(slot) == slot.start + WorkDuration(slot.weight)
SlotsDisjoint ==
  /\ \A a, b \in slots : a = b \/ EndOf(a) <= b.start \/ EndOf(b) <= a.start
  /\ \A a \in slots : a.start <= 0 /\ EndOf(a) <= ahead
  /\ ahead > 0 => \E a \in slots : EndOf(a) = ahead

\* The transport commands that the polls of these slots are charged with, one by one.
CommandsOf(some) == {unit \in some \X (1..Capacity) : unit[2] <= unit[1].weight}
WorkOf(some) == Cardinality(CommandsOf(some))
InWindow(slot) ==
  {earlier \in slots : earlier.start \in slot.start - Window + 1 .. slot.start}

\* Of the slots that begin in one window all but the last fit into it.
WindowBounded ==
  \A slot \in slots : WorkDuration(WorkOf(InWindow(slot) \ {slot})) < Window

\* The comment on defaultMaximumSubscriptionPollWork: the server admits at most
\* the budget of commands per window.
AtMostCapacityPerWindow ==
  \A slot \in slots : WorkOf(InWindow(slot)) <= Capacity

\* No waiter sleeps past the moment at which the first poll in line can have its
\* slot, by more than the age of the reading it computed its timer from, even if
\* those before it in line were cancelled meanwhile.
WakesInTime ==
  \A s \in Streams :
    waiter[s] = "selecting" /\ s \notin granted => timer[s] <= Largest(1, ahead + MaxAge)

\* Together: the line, its timers and the committed time agree with one another.
LineConsistent == TypeOK /\ QueueHoldsWaiters /\ SlotsDisjoint /\ WakesInTime

\* A poll is never granted before one that entered the line earlier and still
\* waits.
GrantsInOrder ==
  [][\A i, j \in DOMAIN queue :
       i < j /\ queue[j] \in granted' => queue[i] \notin ToSet(queue')]_vars

\* Every poll that waits is granted, or cancelled: a broad one is not starved by
\* light ones.
EveryPollIsGranted ==
  \A s \in Streams : waiter[s] \in Blocked ~> waiter[s] = "idle"

=============================================================================
