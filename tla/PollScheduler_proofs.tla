------------------------- MODULE PollScheduler_proofs -------------------------
(***************************************************************************)
(* Proofs about PollScheduler: its line, its slots and its timers, for any *)
(* number of streams, any weights, any budget and any age of the readings. *)
(***************************************************************************)
EXTENDS PollScheduler, SequenceTheorems, FiniteSetTheorems, TLAPS

-----------------------------------------------------------------------------
(* Numbers and sequences.                                                  *)

LEMMA UnitIsNatural == WorkUnitInterval \in Nat \ {0}
  BY SchedulerAssumption DEF WorkUnitInterval

LEMMA DurationIsPositive ==
  ASSUME NEW w \in 1..Capacity
  PROVE  WorkDuration(w) \in Nat /\ WorkDuration(w) > 0 /\ WorkDuration(w) <= WorkDuration(Capacity)
<1>1. w \in Nat /\ w > 0 /\ w <= Capacity /\ Capacity \in Nat
  BY SchedulerAssumption
<1> DEFINE u == WorkUnitInterval
<1>2. u \in Nat /\ u > 0
  BY UnitIsNatural
<1> HIDE DEF u
<1>3. w * u \in Nat /\ w * u > 0 /\ w * u <= Capacity * u
  BY <1>1, <1>2
<1>4. QED
  BY <1>3 DEF WorkDuration, u

LEMMA BudgetFitsWindow == WorkDuration(Capacity) \in Nat /\ WorkDuration(Capacity) <= Window
  BY SchedulerAssumption DEF WorkDuration, WorkUnitInterval

LEMMA LargestOfTwo ==
  ASSUME NEW a \in Int, NEW b \in Int
  PROVE  /\ Largest(a, b) \in Int /\ Largest(a, b) >= a /\ Largest(a, b) >= b
         /\ Largest(a, b) = a \/ Largest(a, b) = b
<1>1. CASE a >= b
  BY <1>1 DEF Largest
<1>2. CASE b > a
  BY <1>2 DEF Largest
<1>3. QED
  BY <1>1, <1>2

\* What remains of a sequence without one of its elements.
LEMMA RemovedAt ==
  ASSUME NEW S, NEW q \in Seq(S), NEW i \in 1..Len(q)
  PROVE  /\ RemoveAt(q, i) \in Seq(S)
         /\ Len(RemoveAt(q, i)) = Len(q) - 1
         /\ \A j \in 1..(Len(q) - 1) :
              RemoveAt(q, i)[j] = IF j < i THEN q[j] ELSE q[j + 1]
<1> DEFINE before == SubSeq(q, 1, i - 1)
           after == SubSeq(q, i + 1, Len(q))
<1>1. Len(q) \in Nat
  BY LenProperties
<1>2. before \in Seq(S) /\ Len(before) = i - 1 /\ \A j \in 1..(i - 1) : before[j] = q[j]
  BY <1>1, SubSeqProperties
<1>3. /\ after \in Seq(S) /\ Len(after) = Len(q) - i
      /\ \A j \in 1..(Len(q) - i) : after[j] = q[i + j]
  BY <1>1, SubSeqProperties
<1> HIDE DEF before, after
<1> DEFINE rest == before \o after
<1>4. /\ rest \in Seq(S) /\ Len(rest) = Len(q) - 1
      /\ \A j \in 1..(Len(q) - 1) : rest[j] = IF j <= i - 1 THEN before[j] ELSE after[j - (i - 1)]
  <2>1. Len(before) + Len(after) = Len(q) - 1
    BY <1>1, <1>2, <1>3
  <2>2. /\ rest \in Seq(S) /\ Len(rest) = Len(before) + Len(after)
        /\ \A j \in 1..(Len(before) + Len(after)) :
             rest[j] = IF j <= Len(before) THEN before[j] ELSE after[j - Len(before)]
    BY <1>2, <1>3, ConcatProperties
  <2> HIDE DEF rest
  <2>3. QED
    BY <1>2, <2>1, <2>2
<1> HIDE DEF rest
<1>5. ASSUME NEW j \in 1..(Len(q) - 1)
      PROVE  rest[j] = IF j < i THEN q[j] ELSE q[j + 1]
  <2>1. CASE j < i
    BY <1>1, <1>2, <1>4, <2>1
  <2>2. CASE j >= i
    <3>1. j - (i - 1) \in 1..(Len(q) - i) /\ i + (j - (i - 1)) = j + 1
      BY <1>1, <2>2
    <3>2. after[j - (i - 1)] = q[j + 1]
      BY <1>3, <3>1
    <3>3. QED
      BY <1>1, <1>4, <2>2, <3>2
  <2>3. QED
    BY <1>1, <2>1, <2>2
<1>6. QED
  BY <1>4, <1>5 DEF RemoveAt, rest, before, after

LEMMA RemovedOnce ==
  ASSUME NEW S, NEW q \in Seq(S), IsInjective(q), NEW i \in 1..Len(q)
  PROVE  /\ IsInjective(RemoveAt(q, i))
         /\ ToSet(RemoveAt(q, i)) = ToSet(q) \ {q[i]}
<1> DEFINE r == RemoveAt(q, i)
<1>1. /\ r \in Seq(S) /\ Len(r) = Len(q) - 1 /\ Len(q) \in Nat
      /\ \A j \in 1..(Len(q) - 1) : r[j] = IF j < i THEN q[j] ELSE q[j + 1]
  BY RemovedAt, LenProperties
<1>2. DOMAIN r = 1..(Len(q) - 1) /\ DOMAIN q = 1..Len(q)
  BY <1>1, LenProperties
<1> HIDE DEF r
<1>3. IsInjective(r)
  <2> DEFINE at(j) == IF j < i THEN j ELSE j + 1
  <2>1. \A j \in DOMAIN r : at(j) \in DOMAIN q /\ r[j] = q[at(j)]
    BY <1>1, <1>2
  <2>2. \A j, k \in DOMAIN r : at(j) = at(k) => j = k
    BY <1>1, <1>2
  <2> HIDE DEF at
  <2>3. QED
    BY <2>1, <2>2 DEF IsInjective
<1>4. ASSUME NEW j \in 1..(Len(q) - 1)
      PROVE  r[j] \in ToSet(q) \ {q[i]}
  BY <1>1, <1>2, <1>4 DEF IsInjective, ToSet
<1>5. ASSUME NEW j \in 1..Len(q), q[j] # q[i]
      PROVE  q[j] \in ToSet(r)
  <2>1. CASE j < i
    BY <1>1, <1>2, <2>1 DEF ToSet
  <2>2. CASE j > i
    <3>1. j - 1 \in 1..(Len(q) - 1) /\ r[j - 1] = q[j]
      BY <1>1, <2>2
    <3>2. QED
      BY <1>2, <3>1 DEF ToSet
  <2>3. QED
    BY <1>1, <1>5, <2>1, <2>2
<1>6. ToSet(r) = ToSet(q) \ {q[i]}
  BY <1>2, <1>4, <1>5 DEF ToSet
<1>7. QED
  BY <1>3, <1>6 DEF r

LEMMA AppendedOnce ==
  ASSUME NEW S, NEW q \in Seq(S), IsInjective(q), NEW e \in S, e \notin ToSet(q)
  PROVE  /\ Append(q, e) \in Seq(S) /\ IsInjective(Append(q, e))
         /\ ToSet(Append(q, e)) = ToSet(q) \cup {e}
<1> DEFINE r == Append(q, e)
<1>1. /\ r \in Seq(S) /\ Len(r) = Len(q) + 1 /\ Len(q) \in Nat
      /\ \A j \in 1..Len(q) : r[j] = q[j]
      /\ r[Len(q) + 1] = e
  BY AppendProperties, LenProperties
<1>2. DOMAIN r = 1..(Len(q) + 1) /\ DOMAIN q = 1..Len(q)
  BY <1>1, LenProperties
<1> HIDE DEF r
<1>3. \A j \in 1..Len(q) : q[j] # e
  BY <1>2 DEF ToSet
<1>4. IsInjective(r)
  BY <1>1, <1>2, <1>3 DEF IsInjective
<1>5. ToSet(r) = ToSet(q) \cup {e}
  BY <1>1, <1>2 DEF ToSet
<1>6. QED
  BY <1>1, <1>4, <1>5 DEF r

-----------------------------------------------------------------------------
(* One dispatch, by whomever and with whatever reading.                    *)

\* The line after a dispatch of q: it is q, or its first poll was granted.
LEMMA DispatchGrantsFirst ==
  ASSUME NEW q \in Seq(Streams), IsInjective(q), NEW age, NEW weights,
         DispatchLocked(q, age, weights)
  PROVE  /\ queue' \in Seq(Streams) /\ IsInjective(queue')
         /\ \/ queue' = q /\ granted' = granted
            \/ /\ q # <<>> /\ q[1] \in Streams /\ q[1] \in ToSet(q)
               /\ granted' = granted \cup {q[1]}
               /\ ToSet(queue') = ToSet(q) \ {q[1]}
<1>1. CASE q # <<>> /\ ahead <= -age
  <2>1. 1 \in 1..Len(q) /\ q[1] \in Streams /\ DOMAIN q = 1..Len(q)
    BY <1>1, LenProperties, EmptySeq, ElementOfSeq
  <2>2. queue' = RemoveAt(q, 1) /\ granted' = granted \cup {q[1]}
    BY <1>1 DEF DispatchLocked, NextInLine
  <2>3. q[1] \in ToSet(q)
    BY <2>1 DEF ToSet
  <2>4. RemoveAt(q, 1) \in Seq(Streams)
    BY <2>1, RemovedAt
  <2>5. IsInjective(RemoveAt(q, 1)) /\ ToSet(RemoveAt(q, 1)) = ToSet(q) \ {q[1]}
    BY <2>1, RemovedOnce
  <2>6. QED
    BY <1>1, <2>1, <2>2, <2>3, <2>4, <2>5
<1>2. CASE ~(q # <<>> /\ ahead <= -age)
  BY <1>2 DEF DispatchLocked
<1>3. QED
  BY <1>1, <1>2

SlotTypes ==
  /\ ahead \in -MaxAge .. WorkDuration(Capacity)
  /\ slots \subseteq [start : Int, weight : 1..Capacity]

\* The committed time never goes back, and the slots stay disjoint.
LEMMA DispatchKeepsSlots ==
  ASSUME SlotTypes, SlotsDisjoint, NEW q \in Seq(Streams), NEW age \in 0..MaxAge,
         NEW weights, \A s \in ToSet(q) : weights[s] \in 1..Capacity,
         DispatchLocked(q, age, weights)
  PROVE  SlotTypes' /\ SlotsDisjoint' /\ ahead' >= ahead
<1> USE SchedulerAssumption
<1>1. CASE q # <<>> /\ ahead <= -age
  <2> DEFINE w == weights[q[1]]
             new == [start |-> -age, weight |-> w]
  <2>1. w \in 1..Capacity
    BY <1>1, LenProperties, EmptySeq DEF ToSet
  <2>2. /\ ahead' = -age + WorkDuration(w)
        /\ slots' = {old \in slots : old.start >= -age - Window} \cup {new}
    BY <1>1 DEF DispatchLocked, NextInLine, EndOfSlot
  <2> HIDE DEF w
  <2>3. /\ WorkDuration(w) \in Nat /\ WorkDuration(w) > 0
        /\ WorkDuration(w) <= WorkDuration(Capacity) /\ WorkDuration(Capacity) \in Nat
    BY <2>1, DurationIsPositive, BudgetFitsWindow
  <2>4. age \in Int /\ -age <= 0 /\ -age >= -MaxAge /\ ahead \in Int
    BY <2>3 DEF SlotTypes
  <2>5. SlotTypes' /\ ahead' >= ahead
    BY <1>1, <2>1, <2>2, <2>3, <2>4 DEF SlotTypes
  <2>6. \A a \in slots : /\ a.start \in Int /\ EndOf(a) \in Int
                         /\ a.start <= 0 /\ EndOf(a) <= ahead
    BY DurationIsPositive DEF SlotTypes, SlotsDisjoint, EndOf
  <2>7. EndOf(new) = ahead' /\ new.start = -age
    BY <2>2 DEF EndOf
  <2> HIDE DEF new
  <2>8. SlotsDisjoint'
    <3>1. \A a, b \in slots' : a = b \/ EndOf(a) <= b.start \/ EndOf(b) <= a.start
      BY <1>1, <2>2, <2>4, <2>6, <2>7 DEF SlotsDisjoint
    <3>2. \A a \in slots' : a.start <= 0 /\ EndOf(a) <= ahead'
      BY <2>2, <2>4, <2>5, <2>6, <2>7
    <3>3. \E a \in slots' : EndOf(a) = ahead'
      BY <2>2, <2>7
    <3>4. QED
      BY <3>1, <3>2, <3>3 DEF SlotsDisjoint, EndOf
  <2>9. QED
    BY <2>5, <2>8
<1>2. CASE ~(q # <<>> /\ ahead <= -age)
  <2>1. UNCHANGED <<ahead, slots>>
    BY <1>2 DEF DispatchLocked
  <2>2. ahead \in Int
    BY BudgetFitsWindow DEF SlotTypes
  <2>3. QED
    BY <2>1, <2>2 DEF SlotTypes, SlotsDisjoint, EndOf
<1>3. QED
  BY <1>1, <1>2

-----------------------------------------------------------------------------
(* The actions.                                                            *)

LEMMA InitLine == Init => LineConsistent
<1> SUFFICES ASSUME Init PROVE LineConsistent
  OBVIOUS
<1> USE SchedulerAssumption, BudgetFitsWindow DEF Init
<1>1. TypeOK
  BY EmptySeq DEF TypeOK, WaiterStates
<1>2. QueueHoldsWaiters
  BY DEF QueueHoldsWaiters, IsInjective, ToSet, Blocked
<1>3. SlotsDisjoint
  BY DEF SlotsDisjoint
<1>4. WakesInTime
  BY DEF WakesInTime
<1>5. QED
  BY <1>1, <1>2, <1>3, <1>4 DEF LineConsistent

\* A poll in line has a weight that fits the budget.
LEMMA WaitersFit ==
  ASSUME LineConsistent, NEW s \in ToSet(queue)
  PROVE  s \in Streams /\ weight[s] \in 1..Capacity
  BY SchedulerAssumption DEF LineConsistent, TypeOK, QueueHoldsWaiters

LEMMA SlotsTyped == LineConsistent => SlotTypes
  BY DEF LineConsistent, TypeOK, SlotTypes

LEMMA NowIsRead == 0 \in 0..MaxAge
  BY SchedulerAssumption

\* What is taken up to a later moment is no less.
LEMMA LargestGrows ==
  ASSUME NEW a \in Int, NEW b \in Int, NEW n \in Nat, b >= a
  PROVE  Largest(1, a + n) <= Largest(1, b + n)
<1>1. CASE 1 >= b + n
  BY <1>1 DEF Largest
<1>2. CASE ~(1 >= b + n)
  BY <1>2 DEF Largest
<1>3. QED
  BY <1>1, <1>2

\* A timer that is set stays in time while time is only committed.
LEMMA TimersStayInTime ==
  ASSUME LineConsistent, SlotTypes', ahead' >= ahead,
         \A s \in Streams : waiter'[s] = "selecting" /\ s \notin granted' =>
           waiter[s] = "selecting" /\ s \notin granted /\ timer'[s] = timer[s]
  PROVE  WakesInTime'
<1>1. ahead \in Int /\ ahead' \in Int /\ MaxAge \in Nat
  BY SchedulerAssumption, BudgetFitsWindow, SlotsTyped DEF SlotTypes
<1>2. Largest(1, ahead + MaxAge) <= Largest(1, ahead' + MaxAge)
  BY <1>1, LargestGrows, Zenon
<1>3. Largest(1, ahead + MaxAge) \in Int /\ Largest(1, ahead' + MaxAge) \in Int
  <2>1. ahead + MaxAge \in Int /\ ahead' + MaxAge \in Int
    BY <1>1
  <2>2. 1 \in Int
    OBVIOUS
  <2>3. QED
    BY <2>1, <2>2, LargestOfTwo, Zenon
<1>4. SUFFICES ASSUME NEW s \in Streams, waiter'[s] = "selecting", s \notin granted'
               PROVE  timer'[s] <= Largest(1, ahead' + MaxAge)
  BY DEF WakesInTime
<1>5. timer'[s] = timer[s] /\ timer[s] <= Largest(1, ahead + MaxAge) /\ timer[s] \in Int
  BY <1>4, BudgetFitsWindow, SchedulerAssumption DEF LineConsistent, TypeOK, WakesInTime
<1>6. QED
  BY <1>2, <1>3, <1>5

LEMMA EnqueuePreserves ==
  ASSUME LineConsistent, NEW s \in Streams, Enqueue(s)
  PROVE  LineConsistent'
<1> USE SchedulerAssumption DEF LineConsistent
<1>1. PICK w \in Weights :
        /\ FitsBudget(w)
        /\ weight' = [weight EXCEPT ![s] = w]
        /\ DispatchLocked(Append(queue, s), 0, weight')
  BY DEF Enqueue
<1> DEFINE q == Append(queue, s)
<1>2. w \in 1..Capacity
  BY <1>1 DEF FitsBudget
<1>3. /\ s \notin cancelled /\ waiter[s] = "idle"
      /\ waiter' = [waiter EXCEPT ![s] = "looping"]
      /\ UNCHANGED <<cancelled, reading, timer>>
  BY DEF Enqueue, Moves
<1>4. s \notin ToSet(queue) /\ s \notin granted
  BY <1>3 DEF QueueHoldsWaiters, Blocked
<1>5. q \in Seq(Streams) /\ IsInjective(q) /\ ToSet(q) = ToSet(queue) \cup {s}
  BY <1>4, AppendedOnce DEF TypeOK, QueueHoldsWaiters
<1> HIDE DEF q
<1>6. /\ queue' \in Seq(Streams) /\ IsInjective(queue')
      /\ \/ queue' = q /\ granted' = granted
         \/ \E h \in ToSet(q) : /\ h \in Streams /\ granted' = granted \cup {h}
                                /\ ToSet(queue') = ToSet(q) \ {h}
  BY <1>1, <1>5, DispatchGrantsFirst DEF q
<1>7. SlotTypes' /\ SlotsDisjoint' /\ ahead' >= ahead
  <2>1. \A t \in ToSet(q) : weight'[t] \in 1..Capacity
    BY <1>1, <1>2, <1>5, WaitersFit DEF TypeOK
  <2>2. QED
    BY <1>1, <1>5, <2>1, SlotsTyped, NowIsRead, DispatchKeepsSlots DEF q
<1>8. TypeOK'
  BY <1>1, <1>2, <1>3, <1>6, <1>7 DEF TypeOK, SlotTypes, WaiterStates
<1>9. QueueHoldsWaiters'
  <2>1. {t \in Streams : waiter'[t] \in Blocked} = {t \in Streams : waiter[t] \in Blocked} \cup {s}
    BY <1>3 DEF TypeOK, Blocked
  <2>2. ToSet(queue') = {t \in Streams : waiter'[t] \in Blocked} \ granted'
    BY <1>4, <1>5, <1>6, <2>1 DEF QueueHoldsWaiters
  <2>3. \A t \in Streams : waiter'[t] \in Blocked <=> weight'[t] # 0
    BY <1>1, <1>2, <1>3 DEF TypeOK, QueueHoldsWaiters, Blocked
  <2>4. \A t \in granted' : waiter'[t] \in Blocked
    BY <1>5, <1>6, <2>1 DEF QueueHoldsWaiters, TypeOK
  <2>5. QED
    BY <1>6, <2>2, <2>3, <2>4 DEF QueueHoldsWaiters
<1>10. WakesInTime'
  <2>1. \A t \in Streams : waiter'[t] = "selecting" /\ t \notin granted' =>
          waiter[t] = "selecting" /\ t \notin granted /\ timer'[t] = timer[t]
    BY <1>3, <1>6 DEF TypeOK
  <2>2. QED
    BY <1>7, <2>1, TimersStayInTime
<1>11. QED
  BY <1>7, <1>8, <1>9, <1>10

\* A dispatch of the line as it is, by a waiter that stays one.
LEMMA RoundPreserves ==
  ASSUME LineConsistent, NEW s \in Streams, NEW age \in 0..MaxAge,
         DispatchLocked(queue, age, weight), UNCHANGED <<weight, cancelled>>,
         waiter[s] \in Blocked, NEW to \in Blocked,
         waiter' = [waiter EXCEPT ![s] = to],
         reading' = [reading EXCEPT ![s] = 0]
  PROVE  /\ QueueHoldsWaiters' /\ SlotsDisjoint' /\ SlotTypes' /\ ahead' >= ahead
         /\ queue' \in Seq(Streams) /\ granted \subseteq granted' /\ granted' \subseteq Streams
         /\ waiter' \in [Streams -> WaiterStates] /\ reading' \in [Streams -> 0..MaxAge]
<1> USE SchedulerAssumption DEF LineConsistent
<1>1. queue \in Seq(Streams) /\ IsInjective(queue)
  BY DEF TypeOK, QueueHoldsWaiters
<1>2. /\ queue' \in Seq(Streams) /\ IsInjective(queue')
      /\ \/ queue' = queue /\ granted' = granted
         \/ \E h \in ToSet(queue) : /\ h \in Streams /\ granted' = granted \cup {h}
                                    /\ ToSet(queue') = ToSet(queue) \ {h}
  BY <1>1, DispatchGrantsFirst
<1>3. SlotTypes' /\ SlotsDisjoint' /\ ahead' >= ahead
  BY <1>1, WaitersFit, DispatchKeepsSlots DEF TypeOK, SlotTypes
<1>4. /\ granted \subseteq granted' /\ granted' \subseteq Streams
      /\ waiter' \in [Streams -> WaiterStates] /\ reading' \in [Streams -> 0..MaxAge]
  BY <1>2 DEF TypeOK, Blocked, WaiterStates
<1>5. \A t \in Streams : waiter'[t] \in Blocked <=> waiter[t] \in Blocked
  BY DEF TypeOK
<1>6. QueueHoldsWaiters'
  BY <1>2, <1>5 DEF QueueHoldsWaiters, TypeOK
<1>7. QED
  BY <1>2, <1>3, <1>4, <1>6

LEMMA DispatchAndNextWakeupPreserves ==
  ASSUME LineConsistent, NEW s \in Streams, DispatchAndNextWakeup(s)
  PROVE  LineConsistent'
<1> USE SchedulerAssumption, BudgetFitsWindow
<1>1. /\ waiter[s] = "dispatching" /\ waiter' = [waiter EXCEPT ![s] = "selecting"]
      /\ DispatchLocked(queue, reading[s], weight)
      /\ timer' = [timer EXCEPT ![s] = NextWakeup(s)]
      /\ reading' = [reading EXCEPT ![s] = 0]
      /\ UNCHANGED <<weight, cancelled>>
  BY DEF DispatchAndNextWakeup, Moves
<1>2. reading[s] \in 0..MaxAge
  BY DEF LineConsistent, TypeOK
<1>3. /\ QueueHoldsWaiters' /\ SlotsDisjoint' /\ SlotTypes' /\ ahead' >= ahead
      /\ queue' \in Seq(Streams) /\ granted \subseteq granted' /\ granted' \subseteq Streams
      /\ waiter' \in [Streams -> WaiterStates] /\ reading' \in [Streams -> 0..MaxAge]
  BY <1>1, <1>2, RoundPreserves DEF Blocked
<1>4. /\ NextWakeup(s) \in 0 .. WorkDuration(Capacity) + MaxAge + 1
      /\ NextWakeup(s) <= Largest(1, ahead' + MaxAge)
  <2>1. /\ ahead' \in Int /\ ahead' <= WorkDuration(Capacity) /\ MaxAge \in Nat
        /\ reading[s] \in Nat /\ reading[s] <= MaxAge
    BY <1>2, <1>3 DEF SlotTypes
  <2>2. NextWakeup(s) = 1 \/ NextWakeup(s) = Largest(1, ahead' + reading[s])
    BY DEF NextWakeup
  <2>3. QED
    <3>1. /\ Largest(1, ahead' + reading[s]) \in Int /\ Largest(1, ahead' + reading[s]) >= 1
          /\ \/ Largest(1, ahead' + reading[s]) = 1
             \/ Largest(1, ahead' + reading[s]) = ahead' + reading[s]
          /\ Largest(1, ahead' + MaxAge) \in Int /\ Largest(1, ahead' + MaxAge) >= 1
          /\ Largest(1, ahead' + MaxAge) >= ahead' + MaxAge
      <4>1. ahead' + reading[s] \in Int /\ ahead' + MaxAge \in Int
        BY <2>1
      <4>2. 1 \in Int
        OBVIOUS
      <4>3. QED
        BY <4>1, <4>2, LargestOfTwo, Zenon
    <3>2. QED
      BY <2>1, <2>2, <3>1
<1>5. TypeOK'
  BY <1>1, <1>3, <1>4 DEF LineConsistent, TypeOK, SlotTypes
<1>6. WakesInTime'
  <2>1. SUFFICES ASSUME NEW t \in Streams, waiter'[t] = "selecting", t \notin granted'
                 PROVE  timer'[t] <= Largest(1, ahead' + MaxAge)
    BY DEF WakesInTime
  <2>2. CASE t = s
    BY <1>1, <1>4, <2>2 DEF LineConsistent, TypeOK
  <2>3. CASE t # s
    <3>1. waiter[t] = "selecting" /\ t \notin granted /\ timer'[t] = timer[t]
      BY <1>1, <1>3, <2>1, <2>3 DEF LineConsistent, TypeOK
    <3>2. timer[t] <= Largest(1, ahead + MaxAge) /\ timer[t] \in Int
      BY <3>1 DEF LineConsistent, TypeOK, WakesInTime
    <3>3. ahead \in Int /\ ahead' \in Int
      BY <1>3, SlotsTyped DEF SlotTypes
    <3>4. QED
      BY <1>3, <3>1, <3>2, <3>3 DEF Largest
  <2>4. QED
    BY <2>2, <2>3
<1>7. QED
  BY <1>3, <1>5, <1>6 DEF LineConsistent

LEMMA RedispatchPreserves ==
  ASSUME LineConsistent, NEW s \in Streams, Redispatch(s)
  PROVE  LineConsistent'
<1> USE SchedulerAssumption, BudgetFitsWindow
<1>1. /\ waiter[s] = "fired" /\ waiter' = [waiter EXCEPT ![s] = "looping"]
      /\ DispatchLocked(queue, reading[s], weight)
      /\ reading' = [reading EXCEPT ![s] = 0]
      /\ UNCHANGED <<weight, cancelled, timer>>
  BY DEF Redispatch, Moves
<1>2. reading[s] \in 0..MaxAge
  BY DEF LineConsistent, TypeOK
<1>3. /\ QueueHoldsWaiters' /\ SlotsDisjoint' /\ SlotTypes' /\ ahead' >= ahead
      /\ queue' \in Seq(Streams) /\ granted \subseteq granted' /\ granted' \subseteq Streams
      /\ waiter' \in [Streams -> WaiterStates] /\ reading' \in [Streams -> 0..MaxAge]
  BY <1>1, <1>2, RoundPreserves DEF Blocked
<1>4. TypeOK'
  BY <1>1, <1>3 DEF LineConsistent, TypeOK, SlotTypes
<1>5. WakesInTime'
  <2>1. \A t \in Streams : waiter'[t] = "selecting" /\ t \notin granted' =>
          waiter[t] = "selecting" /\ t \notin granted /\ timer'[t] = timer[t]
    BY <1>1, <1>3 DEF LineConsistent, TypeOK
  <2>2. QED
    BY <1>3, <2>1, TimersStayInTime
<1>6. QED
  BY <1>3, <1>4, <1>5 DEF LineConsistent

\* A cancelled poll leaves the line, which is dispatched without it.
LEMMA CancelledPreserves ==
  ASSUME LineConsistent, NEW s \in Streams, Cancelled(s)
  PROVE  LineConsistent'
<1> USE SchedulerAssumption, BudgetFitsWindow DEF LineConsistent
<1>1. /\ waiter[s] = "selecting" /\ waiter' = [waiter EXCEPT ![s] = "idle"]
      /\ cancelled' = cancelled \ {s} /\ timer' = [timer EXCEPT ![s] = 0]
      /\ weight' = [weight EXCEPT ![s] = 0] /\ UNCHANGED reading
  BY DEF Cancelled, Moves
<1>2. /\ {t \in Streams : waiter'[t] \in Blocked} = {t \in Streams : waiter[t] \in Blocked} \ {s}
      /\ s \in {t \in Streams : waiter[t] \in Blocked}
      /\ \A t \in Streams : waiter'[t] \in Blocked <=> weight'[t] # 0
      /\ waiter' \in [Streams -> WaiterStates] /\ weight' \in [Streams -> 0..Capacity]
      /\ timer' \in [Streams -> 0 .. WorkDuration(Capacity) + MaxAge + 1]
  BY <1>1 DEF TypeOK, QueueHoldsWaiters, Blocked, WaiterStates
<1>3. ASSUME NEW i \in DOMAIN queue, queue[i] = s, DispatchLocked(RemoveAt(queue, i), 0, weight)
      PROVE  LineConsistent'
  <2> DEFINE q == RemoveAt(queue, i)
  <2>1. queue \in Seq(Streams) /\ IsInjective(queue) /\ i \in 1..Len(queue) /\ s \in ToSet(queue)
    BY <1>3, LenProperties DEF TypeOK, QueueHoldsWaiters, ToSet
  <2>2. q \in Seq(Streams) /\ IsInjective(q) /\ ToSet(q) = ToSet(queue) \ {s}
    BY <1>3, <2>1, RemovedAt, RemovedOnce
  <2> HIDE DEF q
  <2>3. /\ queue' \in Seq(Streams) /\ IsInjective(queue')
        /\ \/ queue' = q /\ granted' = granted
           \/ \E h \in ToSet(q) : /\ h \in Streams /\ granted' = granted \cup {h}
                                  /\ ToSet(queue') = ToSet(q) \ {h}
    BY <1>3, <2>2, DispatchGrantsFirst DEF q
  <2>4. SlotTypes' /\ SlotsDisjoint' /\ ahead' >= ahead
    <3>1. \A t \in ToSet(q) : weight[t] \in 1..Capacity
      BY <2>2, WaitersFit
    <3>2. QED
      BY <1>3, <2>2, <3>1, SlotsTyped, NowIsRead, DispatchKeepsSlots DEF q
  <2>5. TypeOK'
    BY <1>1, <1>2, <2>3, <2>4 DEF TypeOK, SlotTypes
  <2>6. s \notin granted /\ ToSet(q) \subseteq {t \in Streams : waiter'[t] \in Blocked}
    BY <1>2, <2>1, <2>2 DEF QueueHoldsWaiters
  <2>7. QueueHoldsWaiters'
    <3>1. ToSet(queue') = {t \in Streams : waiter'[t] \in Blocked} \ granted'
      BY <1>2, <2>2, <2>3 DEF QueueHoldsWaiters
    <3>2. \A t \in granted' : waiter'[t] \in Blocked
      BY <1>2, <2>3, <2>6 DEF QueueHoldsWaiters, TypeOK
    <3>3. QED
      BY <1>2, <2>3, <3>1, <3>2 DEF QueueHoldsWaiters
  <2>8. WakesInTime'
    <3>1. \A t \in Streams : waiter'[t] = "selecting" /\ t \notin granted' =>
            waiter[t] = "selecting" /\ t \notin granted /\ timer'[t] = timer[t]
      BY <1>1, <2>3 DEF TypeOK
    <3>2. QED
      BY <2>4, <3>1, TimersStayInTime
  <2>9. QED
    BY <2>4, <2>5, <2>7, <2>8
<1>4. ASSUME s \notin ToSet(queue), granted' = granted \ {s}, UNCHANGED <<ahead, queue, slots>>
      PROVE  LineConsistent'
  <2>1. TypeOK'
    BY <1>1, <1>2, <1>4 DEF TypeOK
  <2>2. QueueHoldsWaiters'
    <3>1. ToSet(queue') = {t \in Streams : waiter'[t] \in Blocked} \ granted'
      BY <1>2, <1>4 DEF QueueHoldsWaiters
    <3>2. \A t \in granted' : waiter'[t] \in Blocked
      BY <1>2, <1>4 DEF QueueHoldsWaiters, TypeOK
    <3>3. QED
      BY <1>2, <1>4, <3>1, <3>2 DEF QueueHoldsWaiters
  <2>3. SlotsDisjoint' /\ WakesInTime'
    BY <1>1, <1>4 DEF TypeOK, SlotsDisjoint, EndOf, WakesInTime
  <2>4. QED
    BY <2>1, <2>2, <2>3
<1>5. QED
  BY <1>3, <1>4 DEF Cancelled

LEMMA GrantedPreserves ==
  ASSUME LineConsistent, NEW s \in Streams, Granted(s)
  PROVE  LineConsistent'
<1> USE SchedulerAssumption, BudgetFitsWindow DEF LineConsistent, Granted, Moves
<1>1. TypeOK'
  BY DEF TypeOK, WaiterStates
<1>2. QueueHoldsWaiters'
  BY DEF TypeOK, QueueHoldsWaiters, Blocked
<1>3. SlotsDisjoint' /\ WakesInTime'
  BY DEF TypeOK, SlotsDisjoint, EndOf, WakesInTime
<1>4. QED
  BY <1>1, <1>2, <1>3

\* The steps of a waiter that leave the line alone.
LEMMA WaiterPreserves ==
  ASSUME LineConsistent, NEW s \in Streams,
         ReadClock(s) \/ TimerFires(s) \/ Cancel(s) \/ AcquireCancelled(s)
  PROVE  LineConsistent'
<1> USE SchedulerAssumption
        DEF LineConsistent, ReadClock, TimerFires, Cancel, AcquireCancelled, Moves, queueVars
<1>1. TypeOK'
  <2>1. waiter' \in [Streams -> WaiterStates]
    BY DEF TypeOK, WaiterStates
  <2>2. reading' \in [Streams -> 0..MaxAge]
    <3>1. reading' = reading \/ reading' = [reading EXCEPT ![s] = 0]
      OBVIOUS
    <3>2. QED
      BY <3>1, NowIsRead DEF TypeOK
  <2>3. cancelled' \subseteq Streams
    BY DEF TypeOK
  <2>4. UNCHANGED <<ahead, queue, weight, granted, timer, slots>>
    OBVIOUS
  <2>5. QED
    BY <2>1, <2>2, <2>3, <2>4 DEF TypeOK
<1>2. QueueHoldsWaiters'
  BY DEF TypeOK, QueueHoldsWaiters, Blocked
<1>3. SlotsDisjoint'
  BY DEF SlotsDisjoint, EndOf
<1>4. WakesInTime'
  BY DEF TypeOK, WakesInTime
<1>5. QED
  BY <1>1, <1>2, <1>3, <1>4

LEMMA TickPreserves ==
  ASSUME LineConsistent, Tick
  PROVE  LineConsistent'
<1> USE SchedulerAssumption, BudgetFitsWindow DEF LineConsistent, Tick
<1>1. ahead' \in -MaxAge .. WorkDuration(Capacity) /\ ahead \in Int /\ ahead' \in Int
      /\ ahead' >= ahead - 1 /\ (ahead' = ahead - 1 \/ ahead' = -MaxAge)
  BY DEF TypeOK, Largest
<1>2. \A a \in slots : /\ Older(a) \in [start : Int, weight : 1..Capacity]
                       /\ Older(a).start = a.start - 1 /\ Older(a).weight = a.weight
                       /\ WorkDuration(a.weight) \in Nat /\ EndOf(a) \in Int
                       /\ WorkDuration(a.weight) <= Window
                       /\ a.start \in Int /\ EndOf(Older(a)) = EndOf(a) - 1
  <2> SUFFICES ASSUME NEW a \in slots
               PROVE  /\ Older(a) \in [start : Int, weight : 1..Capacity]
                      /\ Older(a).start = a.start - 1 /\ Older(a).weight = a.weight
                      /\ WorkDuration(a.weight) \in Nat /\ EndOf(a) \in Int
                      /\ WorkDuration(a.weight) <= Window
                      /\ a.start \in Int /\ EndOf(Older(a)) = EndOf(a) - 1
    OBVIOUS
  <2>1. a \in [start : Int, weight : 1..Capacity]
    BY DEF TypeOK
  <2>2. /\ Older(a) \in [start : Int, weight : 1..Capacity]
        /\ Older(a).start = a.start - 1 /\ Older(a).weight = a.weight
    BY <2>1 DEF Older
  <2>3. WorkDuration(a.weight) \in Nat /\ WorkDuration(a.weight) <= WorkDuration(Capacity)
    BY <2>1, DurationIsPositive
  <2>4. EndOf(a) = a.start + WorkDuration(a.weight)
        /\ EndOf(Older(a)) = a.start - 1 + WorkDuration(a.weight)
    BY <2>2 DEF EndOf
  <2>5. QED
    BY <2>1, <2>2, <2>3, <2>4
<1>3. slots' = {slot \in {Older(old) : old \in slots} : slot.start >= ahead' - Window}
  OBVIOUS
<1>4. TypeOK'
  <2>1. slots' \subseteq [start : Int, weight : 1..Capacity]
    BY <1>2, <1>3
  <2>2. timer' \in [Streams -> 0 .. WorkDuration(Capacity) + MaxAge + 1]
    BY DEF TypeOK, Largest
  <2>4. reading' \in [Streams -> 0..MaxAge]
    BY DEF TypeOK
  <2>3. QED
    BY <1>1, <2>1, <2>2, <2>4 DEF TypeOK
<1>5. QueueHoldsWaiters'
  BY DEF QueueHoldsWaiters
<1>6. SlotsDisjoint'
  <2> HIDE DEF Tick
  <2>1. ASSUME NEW a \in slots', NEW b \in slots'
        PROVE  a = b \/ EndOf(a) <= b.start \/ EndOf(b) <= a.start
    <3>1. PICK x \in slots, y \in slots : a = Older(x) /\ b = Older(y)
      BY <1>3
    <3>2. x = y \/ EndOf(x) <= y.start \/ EndOf(y) <= x.start
      BY DEF SlotsDisjoint
    <3>3. QED
      BY <1>2, <3>1, <3>2
  <2>2. ASSUME NEW a \in slots'
        PROVE  a.start <= 0 /\ EndOf(a) <= ahead'
    <3>1. PICK x \in slots : a = Older(x)
      BY <1>3
    <3>2. x.start <= 0 /\ EndOf(x) <= ahead
      BY DEF SlotsDisjoint
    <3>3. QED
      BY <1>1, <1>2, <3>1, <3>2
  <2>3. ASSUME ahead' > 0
        PROVE  \E a \in slots' : EndOf(a) = ahead'
    <3>1. ahead > 0 /\ ahead' = ahead - 1
      BY <1>1, <2>3
    <3>2. PICK x \in slots : EndOf(x) = ahead
      BY <3>1 DEF SlotsDisjoint
    <3>3. EndOf(Older(x)) = ahead' /\ Older(x).start >= ahead' - Window
      BY <1>1, <1>2, <3>1, <3>2 DEF EndOf
    <3>4. QED
      BY <1>3, <3>3
  <2>4. QED
    BY <2>1, <2>2, <2>3 DEF SlotsDisjoint, EndOf
<1>7. WakesInTime'
  BY <1>1 DEF TypeOK, WakesInTime, Largest
<1>8. QED
  BY <1>4, <1>5, <1>6, <1>7

LEMMA StepPreserves == LineConsistent /\ [Next]_vars => LineConsistent'
<1>1. ASSUME LineConsistent, NEW s \in Streams,
             Enqueue(s) \/ Acquire(s) \/ Cancel(s) \/ AcquireCancelled(s)
      PROVE  LineConsistent'
  BY <1>1, EnqueuePreserves, DispatchAndNextWakeupPreserves, RedispatchPreserves,
     CancelledPreserves, GrantedPreserves, WaiterPreserves DEF Acquire
<1>2. ASSUME LineConsistent, UNCHANGED vars
      PROVE  LineConsistent'
  BY <1>2 DEF vars, queueVars, LineConsistent, TypeOK, QueueHoldsWaiters, SlotsDisjoint,
              EndOf, WakesInTime
<1>3. QED
  BY <1>1, <1>2, TickPreserves DEF Next

\* The line holds exactly the polls that wait, slots never overlap, time is only
\* committed for polls that were granted, and no waiter oversleeps.
THEOREM LineTheorem == Spec => []LineConsistent
<1>1. QED
  BY InitLine, StepPreserves, PTL DEF Spec

\* What a dispatch grants is the first poll of its line.
LEMMA FirstIsGranted ==
  ASSUME NEW q \in Seq(Streams), IsInjective(q), NEW age, NEW weights,
         DispatchLocked(q, age, weights), NEW s, s \in granted', s \notin granted
  PROVE  q # <<>> /\ s = q[1] /\ ToSet(queue') \subseteq ToSet(q)
  BY DispatchGrantsFirst

\* The line is served in the order of arrival.
THEOREM OrderTheorem == Spec => GrantsInOrder
<1> DEFINE InOrder == \A i, j \in DOMAIN queue :
                        i < j /\ queue[j] \in granted' => queue[i] \notin ToSet(queue')
<1>1. ASSUME LineConsistent, [Next]_vars
      PROVE  [InOrder]_vars
  <2> SUFFICES ASSUME NEW i \in DOMAIN queue, NEW j \in DOMAIN queue, i < j,
                      queue[j] \in granted'
               PROVE  queue[i] \notin ToSet(queue')
    OBVIOUS
  <2>1. /\ queue \in Seq(Streams) /\ IsInjective(queue) /\ DOMAIN queue = 1..Len(queue)
        /\ Len(queue) \in Nat /\ queue[j] \in ToSet(queue) /\ queue[j] \notin granted
        /\ queue # <<>>
    BY <1>1, LenProperties, EmptySeq DEF LineConsistent, TypeOK, QueueHoldsWaiters, ToSet
  <2>2. ASSUME NEW s \in Streams, Enqueue(s)
        PROVE  FALSE
    <3>1. PICK w \in Weights : DispatchLocked(Append(queue, s), 0, weight')
      BY <2>2 DEF Enqueue
    <3>2. s \notin ToSet(queue)
      BY <1>1, <2>2 DEF LineConsistent, QueueHoldsWaiters, Enqueue, Moves, Blocked
    <3>3. /\ Append(queue, s) \in Seq(Streams) /\ IsInjective(Append(queue, s))
          /\ Append(queue, s)[1] = queue[1]
      BY <2>1, <3>2, AppendedOnce, AppendProperties
    <3>4. queue[j] = queue[1]
      BY <2>1, <3>1, <3>3, FirstIsGranted
    <3>5. QED
      BY <2>1, <3>4 DEF IsInjective
  <2>3. ASSUME NEW age, DispatchLocked(queue, age, weight)
        PROVE  FALSE
    <3>1. queue[j] = queue[1]
      BY <2>1, <2>3, FirstIsGranted
    <3>2. QED
      BY <2>1, <3>1 DEF IsInjective
  <2>4. ASSUME NEW s \in Streams, NEW k \in DOMAIN queue, queue[k] = s,
               DispatchLocked(RemoveAt(queue, k), 0, weight)
        PROVE  queue[i] \notin ToSet(queue')
    <3> DEFINE q == RemoveAt(queue, k)
    <3>1. /\ q \in Seq(Streams) /\ IsInjective(q) /\ ToSet(q) = ToSet(queue) \ {s}
          /\ Len(q) = Len(queue) - 1
          /\ \A n \in 1..(Len(queue) - 1) : q[n] = IF n < k THEN queue[n] ELSE queue[n + 1]
      BY <2>1, <2>4, RemovedAt, RemovedOnce
    <3> HIDE DEF q
    <3>2. q # <<>> /\ queue[j] = q[1] /\ ToSet(queue') \subseteq ToSet(q)
      BY <2>1, <2>4, <3>1, FirstIsGranted DEF q
    <3>3. q[1] = IF 1 < k THEN queue[1] ELSE queue[2]
      BY <2>1, <3>1, <3>2, EmptySeq
    <3>4. k = 1 /\ i = 1
      BY <2>1, <3>2, <3>3 DEF IsInjective
    <3>5. QED
      BY <2>4, <3>1, <3>2, <3>4
  <2>5. granted' # granted
    BY <2>1
  <2>6. ~(UNCHANGED granted \/ \E s \in Streams : granted' = granted \ {s})
    BY <2>1
  <2>7. PICK s \in Streams :
          Enqueue(s) \/ DispatchAndNextWakeup(s) \/ Redispatch(s) \/ Cancelled(s)
    BY <1>1, <2>6 DEF Next, Acquire, ReadClock, TimerFires, Granted, Cancel, AcquireCancelled,
                      Tick, vars, queueVars
  <2>8. QED
    BY <2>2, <2>3, <2>4, <2>6, <2>7 DEF DispatchAndNextWakeup, Redispatch, Cancelled
<1>2. QED
  BY <1>1, LineTheorem, PTL DEF Spec, GrantsInOrder, InOrder

-----------------------------------------------------------------------------
(* The work of a window.                                                   *)

LEMMA CountedApart ==
  ASSUME NEW C, IsFiniteSet(C), NEW D, IsFiniteSet(D), C \cap D = {}
  PROVE  Cardinality(C \cup D) = Cardinality(C) + Cardinality(D)
<1>1. Cardinality(C \cup D) = Cardinality(C) + Cardinality(D) - Cardinality(C \cap D)
  BY FS_Union
<1>2. Cardinality(C) \in Nat /\ Cardinality(D) \in Nat /\ Cardinality(C \cap D) = 0
  BY FS_CardinalityType, FS_EmptySet
<1>3. QED
  BY <1>1, <1>2

\* The commands of two disjoint sets of slots are counted apart.
LEMMA WorkAdds ==
  ASSUME NEW A, IsFiniteSet(A), NEW B, IsFiniteSet(B), A \cap B = {}
  PROVE  /\ WorkOf(A) \in Nat /\ WorkOf(B) \in Nat
         /\ WorkOf(A \cup B) = WorkOf(A) + WorkOf(B)
<1>1. \A S : IsFiniteSet(S) => IsFiniteSet(CommandsOf(S))
  <2> SUFFICES ASSUME NEW S, IsFiniteSet(S) PROVE IsFiniteSet(CommandsOf(S))
    OBVIOUS
  <2>1. IsFiniteSet(1..Capacity)
    BY SchedulerAssumption, FS_Interval
  <2>2. IsFiniteSet(S \X (1..Capacity))
    BY <2>1, FS_Product
  <2>3. CommandsOf(S) \subseteq S \X (1..Capacity)
    BY DEF CommandsOf
  <2>4. QED
    BY <2>2, <2>3, FS_Subset
<1>2. IsFiniteSet(CommandsOf(A)) /\ IsFiniteSet(CommandsOf(B))
  BY <1>1
<1>3. CommandsOf(A \cup B) = CommandsOf(A) \cup CommandsOf(B)
  BY DEF CommandsOf
<1>4. CommandsOf(A) \cap CommandsOf(B) = {}
  BY DEF CommandsOf
<1>5. Cardinality(CommandsOf(A)) \in Nat /\ Cardinality(CommandsOf(B)) \in Nat
  BY <1>2, FS_CardinalityType
<1>6. Cardinality(CommandsOf(A) \cup CommandsOf(B)) =
        Cardinality(CommandsOf(A)) + Cardinality(CommandsOf(B))
  BY <1>2, <1>4, CountedApart
<1>7. QED
  BY <1>3, <1>5, <1>6 DEF WorkOf

LEMMA WorkOfNone == WorkOf({}) = 0
<1>1. CommandsOf({}) = {}
  BY DEF CommandsOf
<1>2. QED
  BY <1>1, FS_EmptySet DEF WorkOf

LEMMA WorkOfOne ==
  ASSUME NEW a \in [start : Int, weight : 1..Capacity]
  PROVE  WorkOf({a}) = a.weight
<1> DEFINE S == 1..a.weight
           f == [n \in S |-> <<a, n>>]
<1>1. a.weight \in Nat /\ a.weight <= Capacity /\ Capacity \in Nat /\ a.weight > 0
  BY SchedulerAssumption
<1>2. IsFiniteSet(S) /\ Cardinality(S) = a.weight
  BY <1>1, FS_Interval
<1>3. CommandsOf({a}) = {<<a, n>> : n \in S}
  BY <1>1 DEF CommandsOf
<1>4. f \in Bijection(S, CommandsOf({a}))
  BY <1>3 DEF Bijection, Injection, Surjection, IsInjective
<1>5. QED
  BY <1>2, <1>4, FS_Bijection DEF WorkOf, ExistsBijection

\* Slots that do not overlap, and lie between two instants, are charged with no
\* more work than there is time between these: the proof splits the smallest
\* set that is at any of its slots, into those before and those after it.
Apart(A) == \A a, b \in A : a = b \/ EndOf(a) <= b.start \/ EndOf(b) <= a.start
Between(A, lo, hi) == \A a \in A : lo <= a.start /\ EndOf(a) <= hi
Fits(A) ==
  \A lo, hi \in Int : lo <= hi /\ Between(A, lo, hi) => WorkDuration(WorkOf(A)) <= hi - lo

LEMMA DurationAdds ==
  ASSUME NEW w, NEW x \in Nat, NEW y \in Nat, NEW z \in Nat, w = (x + y) + z
  PROVE  /\ WorkDuration(x) \in Nat
         /\ WorkDuration(w) = WorkDuration(x) + WorkDuration(y) + WorkDuration(z)
<1> DEFINE u == WorkUnitInterval
<1>1. u \in Nat
  BY UnitIsNatural
<1> HIDE DEF u
<1>2. x * u \in Nat /\ w * u = x * u + y * u + z * u
  BY <1>1
<1>3. QED
  BY <1>2 DEF WorkDuration, u

LEMMA ApartFits ==
  ASSUME NEW A, IsFiniteSet(A), A \subseteq [start : Int, weight : 1..Capacity], Apart(A)
  PROVE  Fits(A)
<1> DEFINE T == {S \in SUBSET A : ~Fits(S)}
<1>1. SUFFICES ASSUME T # {} PROVE FALSE
  OBVIOUS
<1>2. PICK S \in T : \A y \in T : y \subseteq S => y = S
  <2>1. IsWellFoundedOn(StrictSubsetOrdering(A), FiniteSubsetsOf(A))
    BY FS_StrictSubsetOrderingWellFounded
  <2>2. FiniteSubsetsOf(A) = SUBSET A
    BY FS_FiniteSubsetsOfFinite
  <2>3. T \in SUBSET (SUBSET A)
    OBVIOUS
  <2> HIDE DEF T
  <2>4. PICK x \in T : \A y \in T : ~ (<<y, x>> \in StrictSubsetOrdering(A))
    BY <1>1, <2>1, <2>2, <2>3, WFMin
  <2>5. QED
    BY <2>3, <2>4 DEF StrictSubsetOrdering
<1>3. S \subseteq A /\ ~Fits(S)
  BY DEF T
<1>4. \A y \in SUBSET S : y # S => Fits(y)
  BY <1>2, <1>3 DEF T
<1> HIDE DEF T
<1>5. PICK lo \in Int, hi \in Int :
        lo <= hi /\ Between(S, lo, hi) /\ ~(WorkDuration(WorkOf(S)) <= hi - lo)
  BY <1>3 DEF Fits
<1>6. S # {}
  <2>1. WorkDuration(WorkOf({})) = 0
    BY WorkOfNone, UnitIsNatural DEF WorkDuration
  <2>2. QED
    BY <1>5, <2>1
<1>7. PICK a \in S : TRUE
  BY <1>6
<1> DEFINE L == {b \in S : EndOf(b) <= a.start}
           R == {b \in S : EndOf(a) <= b.start}
<1>8. /\ a \in [start : Int, weight : 1..Capacity] /\ a.start \in Int /\ a.weight \in Nat
      /\ EndOf(a) = a.start + WorkDuration(a.weight) /\ WorkDuration(a.weight) > 0
      /\ WorkDuration(a.weight) \in Nat
  <2>1. a \in [start : Int, weight : 1..Capacity] /\ Capacity \in Nat
    BY <1>3, SchedulerAssumption
  <2>2. a.start \in Int /\ a.weight \in 1..Capacity /\ a.weight \in Nat
    BY <2>1
  <2>3. QED
    BY <2>1, <2>2, DurationIsPositive DEF EndOf
<1>9. \A b \in S : /\ b.start \in Int /\ EndOf(b) \in Int /\ b.start < EndOf(b)
  <2> SUFFICES ASSUME NEW b \in S
               PROVE  b.start \in Int /\ EndOf(b) \in Int /\ b.start < EndOf(b)
    OBVIOUS
  <2>1. b \in [start : Int, weight : 1..Capacity] /\ Capacity \in Nat
    BY <1>3, SchedulerAssumption
  <2>2. b.start \in Int /\ b.weight \in 1..Capacity
    BY <2>1
  <2>3. QED
    BY <2>2, DurationIsPositive DEF EndOf
<1>10. /\ S = (L \cup {a}) \cup R /\ a \notin L /\ a \notin R /\ L \cap R = {}
  <2>1. \A b \in S : a = b \/ EndOf(a) <= b.start \/ EndOf(b) <= a.start
    BY <1>3 DEF Apart
  <2>2. QED
    BY <1>8, <1>9, <2>1
<1>11. Fits(L) /\ Fits(R)
  BY <1>4, <1>10
<1>12. Between(L, lo, a.start) /\ Between(R, EndOf(a), hi) /\ lo <= a.start /\ EndOf(a) <= hi
  BY <1>5 DEF Between
<1>13. IsFiniteSet(L) /\ IsFiniteSet({a}) /\ IsFiniteSet(R) /\ IsFiniteSet(L \cup {a})
  <2>1. IsFiniteSet(S)
    BY <1>3, FS_Subset
  <2>2. IsFiniteSet(L) /\ IsFiniteSet(R)
    BY <2>1, FS_Subset
  <2>3. QED
    BY <2>2, FS_Singleton, FS_AddElement
<1> HIDE DEF L, R
<1>14. /\ WorkOf(L) \in Nat /\ WorkOf(R) \in Nat /\ WorkOf({a}) = a.weight
       /\ WorkOf(S) = (WorkOf(L) + a.weight) + WorkOf(R)
  <2>1. WorkOf({a}) = a.weight
    BY <1>8, WorkOfOne
  <2>2. WorkOf(L) \in Nat /\ WorkOf(L \cup {a}) = WorkOf(L) + a.weight
    BY <1>10, <1>13, <2>1, WorkAdds
  <2>3. (L \cup {a}) \cap R = {}
    BY <1>10
  <2>4. WorkOf(R) \in Nat /\ WorkOf((L \cup {a}) \cup R) = WorkOf(L \cup {a}) + WorkOf(R)
    BY <1>13, <2>3, WorkAdds
  <2>5. QED
    BY <1>10, <2>1, <2>2, <2>4
<1>15. WorkDuration(WorkOf(L)) \in Nat /\ WorkDuration(WorkOf(R)) \in Nat
       /\ WorkDuration(WorkOf(S)) =
            WorkDuration(WorkOf(L)) + WorkDuration(a.weight) + WorkDuration(WorkOf(R))
  <2> DEFINE x == WorkOf(L)
             y == a.weight
             z == WorkOf(R)
             w == WorkOf(S)
  <2>1. x \in Nat /\ y \in Nat /\ z \in Nat /\ w = (x + y) + z
    BY <1>8, <1>14
  <2> HIDE DEF x, y, z, w
  <2>2. WorkDuration(x) \in Nat /\ WorkDuration(z) \in Nat
    BY <2>1, DurationAdds
  <2>3. WorkDuration(w) = WorkDuration(x) + WorkDuration(y) + WorkDuration(z)
    BY ONLY <2>1, DurationAdds
  <2>4. QED
    BY <2>2, <2>3 DEF w, x, y, z
<1>16. WorkDuration(WorkOf(L)) <= a.start - lo
  BY <1>8, <1>11, <1>12 DEF Fits
<1>17. WorkDuration(WorkOf(R)) <= hi - EndOf(a)
  BY <1>8, <1>11, <1>12 DEF Fits
<1>18. QED
  BY <1>5, <1>8, <1>15, <1>16, <1>17

SlotsFinite == IsFiniteSet(slots)

LEMMA SlotsStayFinite == SlotsFinite /\ [Next]_vars => SlotsFinite'
<1> SUFFICES ASSUME IsFiniteSet(slots), [Next]_vars
             PROVE  IsFiniteSet(slots')
  BY DEF SlotsFinite
<1>1. ASSUME NEW q, NEW age, NEW weights, DispatchLocked(q, age, weights)
      PROVE  IsFiniteSet(slots')
  <2>1. PICK slot : slots' = slots \/ slots' = {old \in slots : old.start >= -age - Window} \cup {slot}
    BY <1>1 DEF DispatchLocked
  <2>2. IsFiniteSet({old \in slots : old.start >= -age - Window})
    BY FS_Subset
  <2>3. QED
    BY <2>1, <2>2, FS_AddElement
<1>2. CASE Tick
  <2>1. IsFiniteSet({Older(old) : old \in slots})
    <3> DEFINE T == {Older(old) : old \in slots}
               f == [old \in slots |-> Older(old)]
    <3>1. f \in Surjection(slots, T)
      BY DEF Surjection
    <3> HIDE DEF f, T
    <3>2. IsFiniteSet(T)
      BY <3>1, FS_Surjection
    <3>3. QED
      BY <3>2 DEF T
  <2>2. slots' \subseteq {Older(old) : old \in slots}
    BY <1>2 DEF Tick
  <2>3. QED
    BY <2>1, <2>2, FS_Subset
<1>3. CASE UNCHANGED slots
  BY <1>3
<1>4. CASE \E s \in Streams : Enqueue(s) \/ DispatchAndNextWakeup(s) \/ Redispatch(s)
                              \/ Cancelled(s)
  BY <1>1, <1>3, <1>4 DEF Enqueue, DispatchAndNextWakeup, Redispatch, Cancelled
<1>5. QED
  BY <1>2, <1>3, <1>4 DEF Next, Acquire, ReadClock, TimerFires, Granted, Cancel,
     AcquireCancelled, vars, queueVars

\* Of the slots that begin within a window of any slot all but the last fit
\* into it, whatever was granted, cancelled or read late: the excess over the
\* budget is the weight of one poll.
THEOREM WindowTheorem == Spec => []WindowBounded
<1>1. Init => SlotsFinite
  BY FS_EmptySet DEF Init, SlotsFinite
<1>2. SlotsFinite /\ LineConsistent => WindowBounded
  <2> SUFFICES ASSUME IsFiniteSet(slots), LineConsistent, NEW slot \in slots
               PROVE  WorkDuration(WorkOf(InWindow(slot) \ {slot})) < Window
    BY DEF WindowBounded, SlotsFinite
  <2> DEFINE A == InWindow(slot) \ {slot}
             lo == slot.start - Window + 1
  <2>1. slots \subseteq [start : Int, weight : 1..Capacity]
    BY DEF LineConsistent, TypeOK
  <2>2. A \subseteq slots /\ (\A a \in A : a # slot /\ lo <= a.start /\ a.start <= slot.start)
    BY <2>1 DEF InWindow
  <2>3. IsFiniteSet(A)
    BY <2>2, FS_Subset
  <2>4. Apart(A)
    BY <2>2 DEF Apart, LineConsistent, SlotsDisjoint
  <2>5. slot.start \in Int /\ lo \in Int /\ lo <= slot.start /\ slot.start - lo = Window - 1
        /\ Window \in Nat
    BY <2>1, SchedulerAssumption
  <2>6. WorkDuration(slot.weight) \in Nat /\ WorkDuration(slot.weight) > 0
    BY <2>1, DurationIsPositive
  <2>7. Between(A, lo, slot.start)
    <3> SUFFICES ASSUME NEW a \in A PROVE lo <= a.start /\ EndOf(a) <= slot.start
      BY DEF Between
    <3>1. EndOf(a) <= slot.start \/ EndOf(slot) <= a.start
      BY <2>2 DEF LineConsistent, SlotsDisjoint
    <3>2. a.start \in Int /\ EndOf(slot) = slot.start + WorkDuration(slot.weight)
      BY <2>1, <2>2 DEF EndOf
    <3>3. QED
      BY <2>2, <2>5, <2>6, <3>1, <3>2
  <2> HIDE DEF A, lo
  <2>8. Fits(A)
    BY <2>1, <2>2, <2>3, <2>4, ApartFits
  <2>9. WorkDuration(WorkOf(A)) <= slot.start - lo
    BY <2>5, <2>7, <2>8 DEF Fits
  <2>10. WorkOf(A) \in Nat
    BY <2>3, FS_EmptySet, WorkAdds
  <2>11. WorkDuration(WorkOf(A)) \in Nat
    BY <2>10, DurationAdds
  <2>12. QED
    BY <2>5, <2>9, <2>11 DEF A
<1>3. QED
  BY <1>1, <1>2, SlotsStayFinite, LineTheorem, PTL DEF Spec

=============================================================================
