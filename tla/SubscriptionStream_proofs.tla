----------------------- MODULE SubscriptionStream_proofs -----------------------
(***************************************************************************)
(* Proofs about SubscriptionStream, for any number of streams, any         *)
(* channels, any event sizes and any limits: what the queues reserve of    *)
(* the shared budget, their limits and their wake-ups; then the story that *)
(* a stream tells its client: the captures that are accounted for, the     *)
(* order of the events and the error that explains the end.                *)
(***************************************************************************)
EXTENDS SubscriptionStream, SequenceTheorems, FiniteSetTheorems, TLAPS

-----------------------------------------------------------------------------
(* Sums. The library's induction theorems take an operator, so an induction is *)
(* the choice of a smallest counterexample, and a sum is characterized by the  *)
(* measure of all subsets that it comes from.                                  *)

\* m is the sum of the weights w over each subset of I.
Measure(m, I, w) ==
  /\ m \in [SUBSET I -> Nat]
  /\ m[{}] = 0
  /\ \A S \in SUBSET I : \A i \in I : i \notin S => m[S \cup {i}] = m[S] + w[i]

\* A set of subsets of a finite set has a smallest element.
LEMMA SmallestSubset ==
  ASSUME NEW I, IsFiniteSet(I), NEW T \in SUBSET (SUBSET I), T # {}
  PROVE  \E x \in T : \A y \in T : y \subseteq x => y = x
<1>1. IsWellFoundedOn(StrictSubsetOrdering(I), FiniteSubsetsOf(I))
  BY FS_StrictSubsetOrderingWellFounded
<1>2. FiniteSubsetsOf(I) = SUBSET I
  BY FS_FiniteSubsetsOfFinite
<1>3. PICK x \in T : \A y \in T : ~ (<<y, x>> \in StrictSubsetOrdering(I))
  BY <1>1, <1>2, WFMin
<1>4. QED
  BY <1>3 DEF StrictSubsetOrdering

\* Every finite set of weights has a measure.
LEMMA MeasureExists ==
  ASSUME NEW I, IsFiniteSet(I), NEW w \in [I -> Nat]
  PROVE  \E m : Measure(m, I, w)
<1> DEFINE T == {J \in SUBSET I : ~ \E m : Measure(m, J, w)}
<1>1. SUFFICES ASSUME T # {} PROVE FALSE
  OBVIOUS
<1>2. T \in SUBSET (SUBSET I)
  OBVIOUS
<1> HIDE DEF T
<1>3. PICK J \in T : \A y \in T : y \subseteq J => y = J
  BY <1>1, <1>2, SmallestSubset
<1>4. J \in SUBSET I /\ ~ \E m : Measure(m, J, w)
  BY <1>3 DEF T
<1>5. CASE J = {}
  <2>1. Measure([S \in SUBSET {} |-> 0], {}, w)
    BY DEF Measure
  <2>2. QED
    BY <2>1, <1>4, <1>5
<1>6. CASE J # {}
  <2>1. PICK i \in J : TRUE
    BY <1>6
  <2>2. J \ {i} \notin T /\ J \ {i} \in SUBSET I
    BY <1>3, <1>4, <2>1
  <2>3. PICK m : Measure(m, J \ {i}, w)
    BY <2>2 DEF T
  <2> DEFINE n == [S \in SUBSET J |-> m[S \ {i}] + (IF i \in S THEN w[i] ELSE 0)]
  <2>4. w[i] \in Nat
    BY <1>4, <2>1
  <2>5. \A S \in SUBSET J : S \ {i} \in SUBSET (J \ {i}) /\ m[S \ {i}] \in Nat
    BY <2>3 DEF Measure
  <2>6. n \in [SUBSET J -> Nat]
    BY <2>4, <2>5
  <2>7. n[{}] = 0
    <3>1. {} \in SUBSET J /\ {} \ {i} = {}
      OBVIOUS
    <3>2. m[{}] = 0
      BY <2>3 DEF Measure
    <3>3. QED
      BY <3>1, <3>2
  <2>8. ASSUME NEW S \in SUBSET J, NEW j \in J, j \notin S
        PROVE  n[S \cup {j}] = n[S] + w[j]
    <3>0. n[S \cup {j}] = m[(S \cup {j}) \ {i}] + (IF i \in S \cup {j} THEN w[i] ELSE 0)
          /\ n[S] = m[S \ {i}] + (IF i \in S THEN w[i] ELSE 0)
      BY <2>8
    <3>1. CASE j = i
      <4>1. (S \cup {j}) \ {i} = S \ {i}
        BY <3>1
      <4>2. m[S \ {i}] \in Nat
        BY <2>5
      <4>3. QED
        BY <3>0, <3>1, <4>1, <4>2, <2>4, <2>8
    <3>2. CASE j # i
      <4>1. (S \cup {j}) \ {i} = (S \ {i}) \cup {j} /\ j \notin S \ {i} /\ j \in J \ {i}
        BY <3>2, <2>8
      <4>2. m[(S \ {i}) \cup {j}] = m[S \ {i}] + w[j]
        BY <4>1, <2>3, <2>5 DEF Measure
      <4>3. m[S \ {i}] \in Nat /\ w[j] \in Nat
        BY <2>5, <1>4
      <4>4. (i \in S \cup {j}) <=> i \in S
        BY <3>2
      <4>5. n[S \cup {j}] = (m[S \ {i}] + w[j]) + (IF i \in S THEN w[i] ELSE 0)
        BY <3>0, <4>1, <4>2, <4>4
      <4>6. QED
        <5> HIDE DEF n
        <5>1. QED
          BY <3>0, <4>3, <4>5, <2>4
    <3>3. QED
      BY <3>1, <3>2
  <2> HIDE DEF n
  <2>9. Measure(n, J, w)
    BY <2>6, <2>7, <2>8 DEF Measure
  <2>10. QED
    BY <2>9, <1>4
<1>7. QED
  BY <1>5, <1>6

\* The function that FoldFunction iterates.
Iterated(w) ==
  CHOOSE f : f = [S \in SUBSET (DOMAIN w) |->
    IF S = {} THEN 0 ELSE w[CHOOSE x \in S : TRUE] + f[S \ {CHOOSE x \in S : TRUE}]]

LEMMA TotalIterates ==
  ASSUME NEW w
  PROVE  Total(w) = Iterated(w)[DOMAIN w]
  BY DEF Total, FoldFunction, FoldFunctionOnSet, MapThenFoldSet, Iterated

\* A sum is what any measure says of the whole set.
LEMMA TotalIsMeasure ==
  ASSUME NEW I, IsFiniteSet(I), NEW w \in [I -> Nat], NEW m, Measure(m, I, w)
  PROVE  Total(w) = m[I]
<1> DEFINE Some(s) == CHOOSE x \in s : TRUE
           F(f) == [s \in SUBSET I |-> IF s = {} THEN 0 ELSE w[Some(s)] + f[s \ {Some(s)}]]
           it == Iterated(w)
<1>0. DOMAIN w = I /\ m \in [SUBSET I -> Nat]
  BY DEF Measure
<1>1. m = F(m)
  <2>1. \A s \in SUBSET I : s # {} => m[s] = w[Some(s)] + m[s \ {Some(s)}]
    <3>1. TAKE s \in SUBSET I
    <3>2. HAVE s # {}
    <3> DEFINE x == Some(s)
               r == s \ {x}
    <3>3. x \in s
      BY <3>2
    <3> HIDE DEF x
    <3>4. s = r \cup {x} /\ r \in SUBSET I /\ x \in I /\ x \notin r
      BY <3>3
    <3> HIDE DEF r
    <3>5. m[r \cup {x}] = m[r] + w[x]
      BY <3>4 DEF Measure
    <3>6. m[r] \in Nat /\ w[x] \in Nat
      BY <3>4, <1>0
    <3>7. m[s] = w[x] + m[r]
      BY <3>4, <3>5, <3>6
    <3>8. QED
      BY <3>7 DEF x, r
  <2>2. m[{}] = 0
    BY DEF Measure
  <2>3. QED
    BY <1>0, <2>1, <2>2
<1>2. it = F(it)
  <2>1. it = CHOOSE f : f = F(f)
    BY <1>0 DEF Iterated
  <2> HIDE DEF it, F
  <2>2. QED
    BY <1>1, <2>1
<1>3. it = m
  <2> DEFINE T == {s \in SUBSET I : it[s] # m[s]}
  <2>1. SUFFICES ASSUME T # {} PROVE FALSE
    <3> HIDE DEF it
    <3>1. QED
      BY <1>1, <1>2
  <2>2. T \in SUBSET (SUBSET I)
    OBVIOUS
  <2> HIDE DEF T
  <2>3. PICK x \in T : \A y \in T : y \subseteq x => y = x
    BY <2>1, <2>2, SmallestSubset
  <2> HIDE DEF it
  <2>4. x \in SUBSET I /\ it[x] # m[x]
    BY <2>3 DEF T
  <2>5. x # {}
    BY <1>1, <1>2, <2>4
  <2>6. Some(x) \in x
    BY <2>5
  <2>7. x \ {Some(x)} \notin T /\ x \ {Some(x)} \in SUBSET I
    BY <2>3, <2>4, <2>6
  <2>8. it[x \ {Some(x)}] = m[x \ {Some(x)}]
    BY <2>7 DEF T
  <2>9. it[x] = w[Some(x)] + it[x \ {Some(x)}] /\ m[x] = w[Some(x)] + m[x \ {Some(x)}]
    BY <1>1, <1>2, <2>4, <2>5
  <2>10. QED
    BY <2>4, <2>8, <2>9
<1>4. QED
  BY <1>0, <1>3, TotalIterates

LEMMA TotalOfNone ==
  ASSUME NEW w \in [{} -> Nat]
  PROVE  Total(w) = 0
<1>1. IsFiniteSet({})
  BY FS_EmptySet
<1>2. PICK m : Measure(m, {}, w)
  BY <1>1, MeasureExists
<1>3. Total(w) = m[{}]
  BY <1>1, <1>2, TotalIsMeasure
<1>4. QED
  BY <1>2, <1>3 DEF Measure

\* w are the weights v of I, and one of i more.
OneMore(v, w, I, i) ==
  /\ i \notin I
  /\ v \in [I -> Nat] /\ w \in [I \cup {i} -> Nat]
  /\ \A j \in I : v[j] = w[j]

LEMMA TotalAdds ==
  ASSUME NEW I, IsFiniteSet(I), NEW i, NEW v, NEW w, OneMore(v, w, I, i)
  PROVE  Total(v) \in Nat /\ Total(w) = Total(v) + w[i]
<1> USE DEF OneMore
<1> DEFINE J == I \cup {i}
<1>1. IsFiniteSet(J)
  BY FS_AddElement
<1>2. w \in [J -> Nat]
  OBVIOUS
<1> HIDE DEF J
<1>3. PICK m : Measure(m, J, w)
  BY <1>1, <1>2, MeasureExists
<1>4. Total(w) = m[J]
  BY <1>1, <1>2, <1>3, TotalIsMeasure
<1> DEFINE n == [S \in SUBSET I |-> m[S]]
<1>5. SUBSET I \subseteq SUBSET J /\ I \in SUBSET I /\ I \in SUBSET J /\ i \in J
      /\ J = I \cup {i} /\ I \subseteq J
  BY DEF J
<1>6. Measure(n, I, v)
  <2>1. n \in [SUBSET I -> Nat] /\ n[{}] = 0
    BY <1>3, <1>5 DEF Measure
  <2>2. ASSUME NEW S \in SUBSET I, NEW j \in I, j \notin S
        PROVE  n[S \cup {j}] = n[S] + v[j]
    <3>1. S \cup {j} \in SUBSET I /\ S \in SUBSET J /\ j \in J
      BY <1>5
    <3>2. m[S \cup {j}] = m[S] + w[j]
      BY <1>3, <2>2, <3>1 DEF Measure
    <3>3. QED
      BY <3>1, <3>2
  <2>3. QED
    BY <2>1, <2>2 DEF Measure
<1>7. Total(v) = m[I]
  BY <1>5, <1>6, TotalIsMeasure
<1>8. m[J] = m[I] + w[i] /\ m[I] \in Nat
  BY <1>3, <1>5 DEF Measure
<1>9. QED
  BY <1>4, <1>7, <1>8

LEMMA TotalType ==
  ASSUME NEW I, IsFiniteSet(I), NEW w \in [I -> Nat]
  PROVE  Total(w) \in Nat
<1>1. PICK m : Measure(m, I, w)
  BY MeasureExists
<1>2. m[I] \in Nat
  BY <1>1 DEF Measure
<1>3. Total(w) = m[I]
  BY <1>1, TotalIsMeasure
<1>4. QED
  BY <1>2, <1>3

\* One weight changes.
OneChanges(v, w, I, i) ==
  /\ i \in I
  /\ v \in [I -> Nat] /\ w \in [I -> Nat]
  /\ \A j \in I : j # i => v[j] = w[j]

LEMMA TotalChanges ==
  ASSUME NEW I, IsFiniteSet(I), NEW i, NEW v, NEW w, OneChanges(v, w, I, i)
  PROVE  /\ Total(v) \in Nat /\ v[i] \in Nat /\ w[i] \in Nat /\ v[i] <= Total(v)
         /\ Total(w) = (Total(v) - v[i]) + w[i]
<1> DEFINE R == I \ {i}
           u == [j \in R |-> v[j]]
<1>1. IsFiniteSet(R)
  BY FS_RemoveElement
<1>2. I = R \cup {i} /\ i \notin R /\ u \in [R -> Nat]
      /\ v \in [R \cup {i} -> Nat] /\ w \in [R \cup {i} -> Nat]
      /\ (\A j \in R : u[j] = v[j]) /\ (\A j \in R : u[j] = w[j])
  BY DEF OneChanges
<1>3. OneMore(u, v, R, i) /\ OneMore(u, w, R, i)
  BY <1>2 DEF OneMore
<1> HIDE DEF R, u
<1>4. Total(u) \in Nat /\ Total(v) = Total(u) + v[i]
  BY <1>1, <1>3, TotalAdds
<1>5. Total(w) = Total(u) + w[i]
  BY <1>1, <1>3, TotalAdds
<1>6. v[i] \in Nat /\ w[i] \in Nat
  BY DEF OneChanges
<1>7. QED
  BY <1>4, <1>5, <1>6

LEMMA TotalOfZeros ==
  ASSUME NEW I, IsFiniteSet(I)
  PROVE  Total([i \in I |-> 0]) = 0
<1> DEFINE w == [i \in I |-> 0]
           m == [S \in SUBSET I |-> 0]
<1>1. Measure(m, I, w)
  BY DEF Measure
<1>2. w \in [I -> Nat] /\ m[I] = 0
  OBVIOUS
<1> HIDE DEF w, m
<1>3. Total(w) = m[I]
  BY <1>1, <1>2, TotalIsMeasure
<1>4. QED
  BY <1>2, <1>3 DEF w

\* f is a one-to-one correspondence of J with I.
Renames(f, J, I) ==
  /\ f \in [J -> I]
  /\ \A a, b \in J : f[a] = f[b] => a = b
  /\ \A i \in I : \E j \in J : f[j] = i

\* The weights under other names.
LEMMA TotalRenames ==
  ASSUME NEW I, IsFiniteSet(I), NEW J, IsFiniteSet(J), NEW f, Renames(f, J, I),
         NEW w \in [I -> Nat], NEW v \in [J -> Nat], \A j \in J : v[j] = w[f[j]]
  PROVE  Total(v) = Total(w)
<1> DEFINE Image(S) == {f[j] : j \in S}
           n(m) == [S \in SUBSET J |-> m[Image(S)]]
<1>1. PICK m : Measure(m, I, w)
  BY MeasureExists
<1>2. \A S \in SUBSET J : Image(S) \in SUBSET I
  BY DEF Renames
<1>3. Image(J) = I /\ Image({}) = {}
  BY DEF Renames
<1>4. Measure(n(m), J, v)
  <2>1. n(m) \in [SUBSET J -> Nat] /\ n(m)[{}] = 0
    BY <1>1, <1>2, <1>3 DEF Measure
  <2>2. ASSUME NEW S \in SUBSET J, NEW j \in J, j \notin S
        PROVE  n(m)[S \cup {j}] = n(m)[S] + v[j]
    <3>1. Image(S \cup {j}) = Image(S) \cup {f[j]}
      OBVIOUS
    <3>2. f[j] \notin Image(S) /\ f[j] \in I
      BY <2>2 DEF Renames
    <3>3. S \cup {j} \in SUBSET J /\ S \in SUBSET J
      OBVIOUS
    <3>4. Image(S) \in SUBSET I
      BY <1>2
    <3>5. n(m)[S \cup {j}] = m[Image(S) \cup {f[j]}] /\ n(m)[S] = m[Image(S)]
      BY <3>1, <3>3
    <3> HIDE DEF Image
    <3>6. m[Image(S) \cup {f[j]}] = m[Image(S)] + w[f[j]]
      BY <1>1, <3>2, <3>4 DEF Measure
    <3>7. QED
      BY <3>5, <3>6
  <2>3. QED
    BY <2>1, <2>2 DEF Measure
<1>5. n(m)[J] = m[I]
  BY <1>3
<1>6. Total(w) = m[I]
  BY <1>1, TotalIsMeasure
<1> HIDE DEF n
<1>7. Total(v) = n(m)[J]
  BY <1>4, TotalIsMeasure
<1>8. QED
  BY <1>5, <1>6, <1>7

\* The sum over a sequence to which one weight is appended.
LEMMA TotalAppended ==
  ASSUME NEW n \in Nat, NEW v \in [1..n -> Nat], NEW w \in [1..(n + 1) -> Nat],
         \A j \in 1..n : w[j] = v[j]
  PROVE  Total(v) \in Nat /\ Total(w) = Total(v) + w[n + 1]
<1>1. IsFiniteSet(1..n)
  BY FS_Interval
<1>2. 1..(n + 1) = (1..n) \cup {n + 1} /\ n + 1 \notin 1..n
  OBVIOUS
<1>3. w \in [(1..n) \cup {n + 1} -> Nat]
  BY <1>2
<1>4. OneMore(v, w, 1..n, n + 1)
  BY <1>2, <1>3 DEF OneMore
<1>5. QED
  BY <1>1, <1>4, TotalAdds

\* w are all the weights v but that of k, under other names.
Without(f, J, K, k, v, w) ==
  /\ k \in K /\ Renames(f, J, K \ {k})
  /\ v \in [K -> Nat] /\ w \in [J -> Nat]
  /\ \A j \in J : w[j] = v[f[j]]

LEMMA TotalWithout ==
  ASSUME NEW K, IsFiniteSet(K), NEW k, NEW J, IsFiniteSet(J), NEW f, NEW v, NEW w,
         Without(f, J, K, k, v, w)
  PROVE  Total(w) \in Nat /\ Total(v) = Total(w) + v[k]
<1> DEFINE I == K \ {k}
           u == [i \in I |-> v[i]]
<1>1. IsFiniteSet(I)
  BY FS_RemoveElement
<1>2. /\ Renames(f, J, I) /\ u \in [I -> Nat] /\ w \in [J -> Nat]
      /\ (\A i \in I : u[i] = v[i]) /\ (\A j \in J : w[j] = u[f[j]])
  BY DEF Without, Renames
<1>3. k \notin I /\ v \in [I \cup {k} -> Nat] /\ (\A i \in I : u[i] = v[i]) /\ u \in [I -> Nat]
  BY <1>2 DEF Without
<1>4. OneMore(u, v, I, k)
  BY <1>3 DEF OneMore
<1> HIDE DEF I, u
<1>5. Total(w) = Total(u)
  BY <1>1, <1>2, TotalRenames
<1>6. Total(u) \in Nat /\ Total(v) = Total(u) + v[k]
  BY <1>1, <1>4, TotalAdds
<1>7. QED
  BY <1>5, <1>6

\* The sum over a sequence from which one weight is removed: those that follow
\* it move up.
LEMMA TotalRemoved ==
  ASSUME NEW n \in Nat, NEW k \in 1..n, NEW v \in [1..n -> Nat],
         NEW w \in [1..(n - 1) -> Nat],
         \A j \in 1..(n - 1) : w[j] = IF j < k THEN v[j] ELSE v[j + 1]
  PROVE  Total(w) \in Nat /\ Total(v) = Total(w) + v[k]
<1> DEFINE K == 1..n
           J == 1..(n - 1)
           f == [j \in J |-> IF j < k THEN j ELSE j + 1]
<1>1. IsFiniteSet(K) /\ IsFiniteSet(J)
  BY FS_Interval
<1>2. f \in [J -> K \ {k}] /\ (\A a, b \in J : f[a] = f[b] => a = b)
  OBVIOUS
<1>3. ASSUME NEW i \in K \ {k} PROVE \E j \in J : f[j] = i
  <2>1. CASE i < k
    <3>1. i \in J /\ f[i] = i
      BY <2>1
    <3>2. QED
      BY <3>1
  <2>2. CASE i > k
    <3>1. i - 1 \in J /\ f[i - 1] = i
      BY <2>2
    <3>2. QED
      BY <3>1
  <2>3. QED
    BY <2>1, <2>2
<1>4. k \in K /\ v \in [K -> Nat] /\ w \in [J -> Nat] /\ (\A j \in J : w[j] = v[f[j]])
  BY <1>2
<1> HIDE DEF K, J, f
<1>5. Without(f, J, K, k, v, w)
  BY <1>2, <1>3, <1>4 DEF Renames, Without
<1>6. QED
  BY <1>1, <1>5, TotalWithout

-----------------------------------------------------------------------------
(* Queues                                                                  *)

LEMMA EventSizes ==
  ASSUME NEW q \in Seq(Events)
  PROVE  /\ Len(q) \in Nat /\ DOMAIN q = 1..Len(q)
         /\ \A i \in 1..Len(q) : q[i] \in Events /\ q[i].size \in Nat
<1>1. Len(q) \in Nat /\ DOMAIN q = 1..Len(q) /\ \A i \in 1..Len(q) : q[i] \in Events
  BY LenProperties, ElementOfSeq
<1>2. \A event \in Events : event.size \in Nat
  BY DEF Events
<1>3. QED
  BY <1>1, <1>2

LEMMA QueueEmpty ==
  /\ Charge(<<>>) = 0 /\ Ordinary(<<>>) = 0 /\ Len(<<>>) = 0
  /\ AtMostOneState(<<>>) /\ \A i \in DOMAIN <<>> : ~IsState(<<>>[i])
<1>1. DOMAIN <<>> = {} /\ Len(<<>>) = 0
  OBVIOUS
<1>2. [i \in DOMAIN <<>> |-> <<>>[i].size] \in [{} -> Nat]
  BY <1>1
<1>3. [i \in DOMAIN <<>> |-> IF Critical(<<>>[i]) THEN 0 ELSE 1] \in [{} -> Nat]
  BY <1>1
<1>4. Charge(<<>>) = 0 /\ Ordinary(<<>>) = 0
  BY <1>2, <1>3, TotalOfNone DEF Charge, Ordinary
<1>5. QED
  BY <1>1, <1>4 DEF AtMostOneState

LEMMA QueueSums ==
  ASSUME NEW q \in Seq(Events)
  PROVE  Charge(q) \in Nat /\ Ordinary(q) \in Nat
<1> DEFINE I == 1..Len(q)
<1>1. IsFiniteSet(I) /\ DOMAIN q = I
  BY EventSizes, FS_Interval
<1>2. [i \in DOMAIN q |-> q[i].size] \in [I -> Nat]
  BY <1>1, EventSizes
<1>3. [i \in DOMAIN q |-> IF Critical(q[i]) THEN 0 ELSE 1] \in [I -> Nat]
  BY <1>1
<1> HIDE DEF I
<1>4. QED
  BY <1>1, <1>2, <1>3, TotalType DEF Charge, Ordinary

\* What an append adds to a queue.
LEMMA QueueAppended ==
  ASSUME NEW q \in Seq(Events), NEW event \in Events
  PROVE  /\ Append(q, event) \in Seq(Events)
         /\ Len(Append(q, event)) = Len(q) + 1
         /\ Charge(Append(q, event)) = Charge(q) + event.size
         /\ Ordinary(Append(q, event)) = Ordinary(q) + (IF Critical(event) THEN 0 ELSE 1)
<1> DEFINE r == Append(q, event)
           n == Len(q)
<1>1. /\ r \in Seq(Events) /\ Len(r) = n + 1 /\ r[n + 1] = event
      /\ \A i \in 1..n : r[i] = q[i]
  BY AppendProperties
<1>2. n \in Nat /\ DOMAIN q = 1..n /\ DOMAIN r = 1..(n + 1)
  BY <1>1, EventSizes
<1> HIDE DEF r, n
<1>3. Charge(r) = Charge(q) + event.size
  <2> DEFINE v == [i \in 1..n |-> q[i].size]
             w == [i \in 1..(n + 1) |-> r[i].size]
  <2>1. v \in [1..n -> Nat]
    BY EventSizes DEF n
  <2>2. w \in [1..(n + 1) -> Nat]
    BY <1>1, EventSizes
  <2>3. (\A i \in 1..n : w[i] = v[i]) /\ w[n + 1] = event.size
    BY <1>1, <1>2
  <2>4. Charge(q) = Total(v) /\ Charge(r) = Total(w)
    BY <1>2 DEF Charge
  <2> HIDE DEF v, w
  <2>5. QED
    BY <1>2, <2>1, <2>2, <2>3, <2>4, TotalAppended
<1>4. Ordinary(r) = Ordinary(q) + (IF Critical(event) THEN 0 ELSE 1)
  <2> DEFINE v == [i \in 1..n |-> IF Critical(q[i]) THEN 0 ELSE 1]
             w == [i \in 1..(n + 1) |-> IF Critical(r[i]) THEN 0 ELSE 1]
  <2>1. v \in [1..n -> Nat]
    OBVIOUS
  <2>2. w \in [1..(n + 1) -> Nat]
    OBVIOUS
  <2>3. (\A i \in 1..n : w[i] = v[i]) /\ w[n + 1] = IF Critical(event) THEN 0 ELSE 1
    BY <1>1, <1>2
  <2>4. Ordinary(q) = Total(v) /\ Ordinary(r) = Total(w)
    BY <1>2 DEF Ordinary
  <2> HIDE DEF v, w
  <2>5. QED
    BY <1>2, <2>1, <2>2, <2>3, <2>4, TotalAppended
<1>5. QED
  BY <1>1, <1>3, <1>4 DEF r, n

\* An append keeps the states of a queue, and adds one if it is of a state.
LEMMA StatesAppended ==
  ASSUME NEW q \in Seq(Events), NEW event \in Events
  PROVE  /\ AtMostOneState(q) /\ ~IsState(event) => AtMostOneState(Append(q, event))
         /\ (\A i \in DOMAIN q : ~IsState(q[i])) => AtMostOneState(Append(q, event))
<1> DEFINE r == Append(q, event)
           n == Len(q)
<1>1. /\ r \in Seq(Events) /\ Len(r) = n + 1 /\ r[n + 1] = event
      /\ \A i \in 1..n : r[i] = q[i]
  BY AppendProperties
<1>2. n \in Nat /\ DOMAIN q = 1..n /\ DOMAIN r = 1..(n + 1)
  BY <1>1, EventSizes
<1> HIDE DEF r, n
<1>3. \A i \in 1..(n + 1) : i \in 1..n \/ i = n + 1
  BY <1>2
<1>4. AtMostOneState(q) /\ ~IsState(event) => AtMostOneState(r)
  BY <1>1, <1>2, <1>3 DEF AtMostOneState
<1>5. (\A i \in DOMAIN q : ~IsState(q[i])) => AtMostOneState(r)
  BY <1>1, <1>2, <1>3 DEF AtMostOneState
<1>6. QED
  BY <1>4, <1>5 DEF r

\* r is q without its element k.
IsWithout(r, q, k) ==
  /\ r \in Seq(Events) /\ Len(r) = Len(q) - 1
  /\ \A j \in 1..(Len(q) - 1) : r[j] = IF j < k THEN q[j] ELSE q[j + 1]

\* What remains of a sequence without one of its elements.
LEMMA RemovedAt ==
  ASSUME NEW S, NEW q \in Seq(S), NEW i \in 1..Len(q)
  PROVE  /\ RemoveAt(q, i) \in Seq(S)
         /\ Len(RemoveAt(q, i)) = Len(q) - 1
         /\ \A j \in 1..(Len(q) - 1) :
              RemoveAt(q, i)[j] = IF j < i THEN q[j] ELSE q[j + 1]
<1> DEFINE before == SubSeq(q, 1, i - 1)
           after == SubSeq(q, i + 1, Len(q))
<1>1. Len(q) \in Nat
  BY LenProperties
<1>2. before \in Seq(S) /\ Len(before) = i - 1 /\ \A j \in 1..(i - 1) : before[j] = q[j]
  BY <1>1, SubSeqProperties
<1>3. /\ after \in Seq(S) /\ Len(after) = Len(q) - i
      /\ \A j \in 1..(Len(q) - i) : after[j] = q[i + j]
  BY <1>1, SubSeqProperties
<1> HIDE DEF before, after
<1> DEFINE rest == before \o after
<1>4. /\ rest \in Seq(S) /\ Len(rest) = Len(q) - 1
      /\ \A j \in 1..(Len(q) - 1) : rest[j] = IF j <= i - 1 THEN before[j] ELSE after[j - (i - 1)]
  <2>1. Len(before) + Len(after) = Len(q) - 1
    BY <1>1, <1>2, <1>3
  <2>2. /\ rest \in Seq(S) /\ Len(rest) = Len(before) + Len(after)
        /\ \A j \in 1..(Len(before) + Len(after)) :
             rest[j] = IF j <= Len(before) THEN before[j] ELSE after[j - Len(before)]
    BY <1>2, <1>3, ConcatProperties
  <2> HIDE DEF rest
  <2>3. QED
    BY <1>2, <2>1, <2>2
<1> HIDE DEF rest
<1>5. ASSUME NEW j \in 1..(Len(q) - 1)
      PROVE  rest[j] = IF j < i THEN q[j] ELSE q[j + 1]
  <2>1. CASE j < i
    BY <1>1, <1>2, <1>4, <2>1
  <2>2. CASE j >= i
    <3>1. j - (i - 1) \in 1..(Len(q) - i) /\ i + (j - (i - 1)) = j + 1
      BY <1>1, <2>2
    <3>2. after[j - (i - 1)] = q[j + 1]
      BY <1>3, <3>1
    <3>3. QED
      BY <1>1, <1>4, <2>2, <3>2
  <2>3. QED
    BY <1>1, <2>1, <2>2
<1>6. QED
  BY <1>4, <1>5 DEF RemoveAt, rest, before, after

LEMMA TailIsWithout ==
  ASSUME NEW q \in Seq(Events), q # <<>>
  PROVE  1 \in 1..Len(q) /\ Head(q) = q[1] /\ IsWithout(Tail(q), q, 1)
<1>1. Len(q) \in Nat /\ Len(q) # 0 /\ Head(q) = q[1]
  BY EmptySeq, LenProperties
<1>2. QED
  BY <1>1, HeadTailProperties DEF IsWithout

LEMMA RemovalIsWithout ==
  ASSUME NEW q \in Seq(Events), NEW k \in 1..Len(q)
  PROVE  IsWithout(RemoveAt(q, k), q, k)
  BY RemovedAt DEF IsWithout

\* What a removal takes from a queue.
LEMMA QueueRemoved ==
  ASSUME NEW q \in Seq(Events), NEW k \in 1..Len(q), NEW r, IsWithout(r, q, k)
  PROVE  /\ r \in Seq(Events) /\ Len(r) = Len(q) - 1
         /\ q[k] \in Events /\ q[k].size \in Nat
         /\ Charge(r) \in Nat /\ Charge(r) = Charge(q) - q[k].size
         /\ Ordinary(r) \in Nat /\ Ordinary(r) <= Ordinary(q)
<1> DEFINE n == Len(q)
<1>1. /\ r \in Seq(Events) /\ Len(r) = n - 1
      /\ \A j \in 1..(n - 1) : r[j] = IF j < k THEN q[j] ELSE q[j + 1]
  BY DEF IsWithout
<1>2. n \in Nat /\ k \in 1..n /\ DOMAIN q = 1..n /\ DOMAIN r = 1..(n - 1)
      /\ q[k] \in Events /\ q[k].size \in Nat
  BY <1>1, EventSizes
<1> HIDE DEF n
<1>3. Charge(r) \in Nat /\ Charge(q) = Charge(r) + q[k].size
  <2> DEFINE v == [i \in 1..n |-> q[i].size]
             w == [i \in 1..(n - 1) |-> r[i].size]
  <2>1. v \in [1..n -> Nat]
    BY EventSizes DEF n
  <2>2. w \in [1..(n - 1) -> Nat]
    BY <1>1, EventSizes
  <2>3. \A j \in 1..(n - 1) : w[j] = IF j < k THEN v[j] ELSE v[j + 1]
    <3> TAKE j \in 1..(n - 1)
    <3>1. j \in 1..n /\ j + 1 \in 1..n
      BY <1>2
    <3>2. QED
      BY <1>1, <3>1
  <2>4. Charge(q) = Total(v) /\ Charge(r) = Total(w) /\ v[k] = q[k].size
    BY <1>2 DEF Charge
  <2> HIDE DEF v, w
  <2>5. n \in Nat /\ k \in 1..n
    BY <1>2
  <2>6. Total(w) \in Nat /\ Total(v) = Total(w) + v[k]
    BY ONLY <2>1, <2>2, <2>3, <2>5, TotalRemoved
  <2>7. QED
    BY <2>4, <2>6
<1>4. \E d \in {0, 1} : Ordinary(r) \in Nat /\ Ordinary(q) = Ordinary(r) + d
  <2> DEFINE v == [i \in 1..n |-> IF Critical(q[i]) THEN 0 ELSE 1]
             w == [i \in 1..(n - 1) |-> IF Critical(r[i]) THEN 0 ELSE 1]
  <2>1. v \in [1..n -> Nat]
    OBVIOUS
  <2>2. w \in [1..(n - 1) -> Nat]
    OBVIOUS
  <2>3. \A j \in 1..(n - 1) : w[j] = IF j < k THEN v[j] ELSE v[j + 1]
    <3> TAKE j \in 1..(n - 1)
    <3>1. j \in 1..n /\ j + 1 \in 1..n
      BY <1>2
    <3>2. QED
      BY <1>1, <3>1
  <2>4. Ordinary(q) = Total(v) /\ Ordinary(r) = Total(w) /\ v[k] \in {0, 1}
    BY <1>2 DEF Ordinary
  <2> HIDE DEF v, w
  <2>5. Total(w) \in Nat /\ Total(v) = Total(w) + v[k]
    BY <1>2, <2>1, <2>2, <2>3, TotalRemoved
  <2>6. QED
    BY <2>4, <2>5
<1>5. QED
  BY <1>1, <1>2, <1>3, <1>4 DEF n

LEMMA StatesRemoved ==
  ASSUME NEW q \in Seq(Events), NEW k \in 1..Len(q), NEW r, IsWithout(r, q, k),
         AtMostOneState(q)
  PROVE  /\ AtMostOneState(r)
         /\ IsState(q[k]) => \A i \in DOMAIN r : ~IsState(r[i])
<1> DEFINE n == Len(q)
           old(j) == IF j < k THEN j ELSE j + 1
<1>1. /\ r \in Seq(Events) /\ Len(r) = n - 1
      /\ \A j \in 1..(n - 1) : r[j] = IF j < k THEN q[j] ELSE q[j + 1]
  BY DEF IsWithout
<1>2. n \in Nat /\ k \in 1..n /\ DOMAIN q = 1..n /\ DOMAIN r = 1..(n - 1)
  BY <1>1, EventSizes
<1> HIDE DEF n
<1>3. \A j \in DOMAIN r : old(j) \in DOMAIN q /\ old(j) # k /\ r[j] = q[old(j)]
  BY <1>1, <1>2
<1>4. \A i, j \in DOMAIN r : old(i) = old(j) => i = j
  BY <1>2
<1> HIDE DEF old
<1>5. AtMostOneState(r)
  BY <1>3, <1>4 DEF AtMostOneState
<1>6. IsState(q[k]) => \A i \in DOMAIN r : ~IsState(r[i])
  BY <1>2, <1>3 DEF AtMostOneState
<1>7. QED
  BY <1>5, <1>6

\* The pending state is found if there is one.
LEMMA PendingStateFound ==
  ASSUME NEW q \in Seq(Events), AtMostOneState(q)
  PROVE  \/ PendingState(q) = 0 /\ \A i \in DOMAIN q : ~IsState(q[i])
         \/ PendingState(q) \in 1..Len(q) /\ IsState(q[PendingState(q)])
<1> DEFINE I == {i \in 1..Len(q) : IsState(q[i])}
<1>1. DOMAIN q = 1..Len(q) /\ Len(q) \in Nat
  BY EventSizes
<1>2. PendingState(q) = IF I # {} THEN Min(I) ELSE 0
  BY DEF PendingState, SelectInSeq
<1>3. CASE I = {}
  BY <1>1, <1>2, <1>3
<1>4. CASE I # {}
  <2>1. PICK i \in I : TRUE
    BY <1>4
  <2>2. I = {i}
    BY <1>1, <2>1 DEF AtMostOneState
  <2>3. i \in Nat
    BY <2>1
  <2>4. Min(I) = i
    BY <2>2, <2>3 DEF Min
  <2>5. QED
    BY <1>2, <1>4, <2>1, <2>4
<1>5. QED
  BY <1>3, <1>4

-----------------------------------------------------------------------------
(* The FIFO and the budget                                                 *)

LEMMA LimitsAreNatural ==
  /\ Capacity \in Nat /\ Capacity > 0 /\ MaximumCapacity \in Nat /\ MaximumCapacity > 1
  /\ EventBytes \in Nat /\ QueueBytes \in Nat /\ ServerBytes \in Nat
  /\ \A size \in Sizes : size \in Nat
  /\ \A n \in MaxSubscriptions : n \in Nat
  /\ IsFiniteSet(Streams)
<1>1. /\ Capacity \in Nat /\ Capacity > 0 /\ MaximumCapacity \in Nat /\ MaximumCapacity > 1
      /\ {EventBytes, QueueBytes, ServerBytes} \subseteq Nat
      /\ Sizes \subseteq Nat /\ MaxSubscriptions \subseteq Nat
  <2>1. /\ Capacity \in Nat \ {0} /\ MaximumCapacity \in Nat /\ MaximumCapacity > 1
        /\ {EventBytes, QueueBytes, ServerBytes} \subseteq Nat \ {0}
        /\ Sizes \subseteq Nat \ {0} /\ MaxSubscriptions \subseteq Nat \ {0}
    BY SubscriptionAssumption, Zenon
  <2>2. QED
    BY <2>1
<1>2. IsFiniteSet(Streams)
  BY SubscriptionAssumption
<1>3. QED
  BY <1>1, <1>2

\* What the queues hold is within the limits, and is what they reserve.
FifoOK ==
  /\ used \in 0..ServerBytes
  /\ events \in [Streams -> Seq(Events)]
  /\ bytes \in [Streams -> 0..QueueBytes]
  /\ \A s \in Streams : /\ Len(events[s]) <= MaximumCapacity
                        /\ Ordinary(events[s]) <= Capacity
                        /\ AtMostOneState(events[s])
  /\ BudgetExact

\* One queue and its bytes change, and the budget as much as the bytes.
LEMMA FifoChanged ==
  ASSUME FifoOK, NEW s \in Streams, NEW q \in Seq(Events), NEW b \in 0..QueueBytes,
         NEW u \in Int, u <= ServerBytes,
         Len(q) <= MaximumCapacity, Ordinary(q) <= Capacity, AtMostOneState(q),
         b = Charge(q), u = (used - bytes[s]) + b,
         events' = [events EXCEPT ![s] = q], bytes' = [bytes EXCEPT ![s] = b], used' = u
  PROVE  FifoOK'
<1>1. /\ events \in [Streams -> Seq(Events)] /\ bytes \in [Streams -> 0..QueueBytes]
      /\ used = Total(bytes) /\ (\A t \in Streams : bytes[t] = Charge(events[t]))
  BY DEF FifoOK, BudgetExact
<1>2. /\ events' \in [Streams -> Seq(Events)] /\ bytes' \in [Streams -> 0..QueueBytes]
      /\ events'[s] = q /\ bytes'[s] = b
      /\ \A t \in Streams \ {s} : events'[t] = events[t] /\ bytes'[t] = bytes[t]
  BY <1>1
<1>3. \A t \in Streams : /\ Len(events'[t]) <= MaximumCapacity
                        /\ Ordinary(events'[t]) <= Capacity
                        /\ AtMostOneState(events'[t])
  BY <1>2 DEF FifoOK
<1>4. \A t \in Streams : bytes'[t] = Charge(events'[t])
  BY <1>1, <1>2
<1>5. bytes \in [Streams -> Nat] /\ bytes' \in [Streams -> Nat]
  BY <1>1, <1>2, LimitsAreNatural
<1>6. \A t \in Streams : t # s => bytes[t] = bytes'[t]
  BY <1>2
<1>7. /\ Total(bytes) \in Nat /\ bytes[s] \in Nat /\ bytes'[s] \in Nat /\ bytes[s] <= Total(bytes)
      /\ Total(bytes') = (Total(bytes) - bytes[s]) + bytes'[s]
  <2>1. OneChanges(bytes, bytes', Streams, s)
    BY <1>5, <1>6 DEF OneChanges
  <2>2. IsFiniteSet(Streams)
    BY LimitsAreNatural
  <2>3. QED
    BY ONLY <2>1, <2>2, TotalChanges
<1>8. used' = Total(bytes') /\ used' \in 0..ServerBytes
  BY <1>1, <1>2, <1>7, LimitsAreNatural
<1>9. BudgetExact'
  BY <1>4, <1>8 DEF BudgetExact
<1>10. QED
  BY <1>2, <1>3, <1>8, <1>9 DEF FifoOK

LEMMA FifoKept ==
  ASSUME FifoOK, UNCHANGED fifoVars
  PROVE  FifoOK'
  BY DEF FifoOK, fifoVars, BudgetExact

\* What is admitted fits.
LEMMA FifoAppended ==
  ASSUME FifoOK, NEW s \in Streams, NEW event \in Events, AppendErrors(s, event) = {},
         AppendEvent(s, event), IsState(event) => \A i \in DOMAIN events[s] : ~IsState(events[s][i])
  PROVE  /\ FifoOK' /\ events' = [events EXCEPT ![s] = Append(events[s], event)]
         /\ events[s] \in Seq(Events)
         /\ Len(Append(events[s], event)) = Len(events[s]) + 1
         /\ Ordinary(Append(events[s], event))
              = Ordinary(events[s]) + (IF Critical(event) THEN 0 ELSE 1)
<1> DEFINE q == events[s]
           r == Append(events[s], event)
<1>1. /\ q \in Seq(Events) /\ bytes[s] \in 0..QueueBytes /\ used \in 0..ServerBytes
      /\ Ordinary(q) <= Capacity /\ AtMostOneState(q) /\ bytes[s] = Charge(q)
  BY DEF FifoOK, BudgetExact
<1>2. event.size \in Nat
  BY DEF Events
<1>3. /\ bytes[s] + event.size <= QueueBytes /\ event.size <= ServerBytes - used
      /\ Len(q) < MaximumCapacity /\ (~Critical(event) => Ordinary(q) < Capacity)
  <2>1. Len(q) \in Nat /\ Ordinary(q) \in Nat
    BY <1>1, LenProperties, QueueSums
  <2>2. ~(event.size > EventBytes \/ bytes[s] + event.size > QueueBytes)
    BY DEF AppendErrors
  <2>3. ~(\/ Len(q) >= MaximumCapacity
          \/ ~Critical(event) /\ Ordinary(q) >= Capacity)
    BY <2>2 DEF AppendErrors
  <2>4. ~(event.size > ServerBytes - used)
    BY <2>2, <2>3 DEF AppendErrors
  <2> HIDE DEF q
  <2>5. QED
    BY <1>1, <1>2, <2>1, <2>2, <2>3, <2>4, LimitsAreNatural
<1>4. /\ r \in Seq(Events) /\ Len(r) = Len(q) + 1 /\ Charge(r) = Charge(q) + event.size
      /\ Ordinary(r) = Ordinary(q) + (IF Critical(event) THEN 0 ELSE 1)
  BY <1>1, QueueAppended
<1>5. AtMostOneState(r)
  BY <1>1, StatesAppended
<1>6. /\ events' = [events EXCEPT ![s] = r] /\ bytes' = [bytes EXCEPT ![s] = bytes[s] + event.size]
      /\ used' = used + event.size
  BY DEF AppendEvent
<1> HIDE DEF q, r
<1>7. Len(r) <= MaximumCapacity /\ Ordinary(r) <= Capacity
  <2>1. Len(q) \in Nat /\ Ordinary(q) \in Nat
    BY <1>1, LenProperties, QueueSums
  <2>2. QED
    BY <1>1, <1>3, <1>4, <2>1, LimitsAreNatural
<1>8. /\ bytes[s] + event.size \in 0..QueueBytes /\ used + event.size \in Int
      /\ used + event.size <= ServerBytes /\ bytes[s] + event.size = Charge(r)
      /\ used + event.size = (used - bytes[s]) + (bytes[s] + event.size)
  BY <1>1, <1>2, <1>3, <1>4, LimitsAreNatural
<1>9. FifoOK'
  BY <1>4, <1>5, <1>6, <1>7, <1>8, FifoChanged
<1>10. QED
  BY <1>1, <1>4, <1>6, <1>9 DEF q, r

LEMMA FifoRemoved ==
  ASSUME FifoOK, NEW s \in Streams, NEW k \in 1..Len(events[s]), NEW r,
         IsWithout(r, events[s], k),
         events' = [events EXCEPT ![s] = r],
         bytes' = [bytes EXCEPT ![s] = bytes[s] - events[s][k].size],
         used' = used - events[s][k].size
  PROVE  /\ FifoOK' /\ r \in Seq(Events)
         /\ IsState(events[s][k]) => \A i \in DOMAIN r : ~IsState(r[i])
<1> DEFINE q == events[s]
           size == events[s][k].size
<1>1. /\ q \in Seq(Events) /\ bytes[s] \in 0..QueueBytes /\ used \in 0..ServerBytes
      /\ Len(q) <= MaximumCapacity /\ Ordinary(q) <= Capacity /\ AtMostOneState(q)
      /\ bytes[s] = Charge(q)
  BY DEF FifoOK, BudgetExact
<1>2. /\ r \in Seq(Events) /\ Len(r) = Len(q) - 1 /\ size \in Nat
      /\ Charge(r) \in Nat /\ Charge(r) = Charge(q) - size
      /\ Ordinary(r) \in Nat /\ Ordinary(r) <= Ordinary(q)
  BY <1>1, QueueRemoved
<1>3. AtMostOneState(r) /\ (IsState(events[s][k]) => \A i \in DOMAIN r : ~IsState(r[i]))
  BY <1>1, StatesRemoved
<1>4. Len(q) \in Nat /\ Ordinary(q) \in Nat
  BY <1>1, LenProperties, QueueSums
<1>5. events' = [events EXCEPT ![s] = r] /\ bytes' = [bytes EXCEPT ![s] = bytes[s] - size]
      /\ used' = used - size
  OBVIOUS
<1> HIDE DEF q, size
<1>6. /\ bytes[s] - size \in 0..QueueBytes /\ used - size \in Int /\ used - size <= ServerBytes
      /\ bytes[s] - size = Charge(r) /\ used - size = (used - bytes[s]) + (bytes[s] - size)
      /\ Len(r) <= MaximumCapacity /\ Ordinary(r) <= Capacity
  <2>1. bytes[s] \in Nat /\ used \in Nat /\ QueueBytes \in Nat /\ ServerBytes \in Nat
        /\ bytes[s] <= QueueBytes /\ used <= ServerBytes /\ Charge(r) = bytes[s] - size
    BY <1>1, <1>2, LimitsAreNatural
  <2>2. Len(r) <= MaximumCapacity /\ Ordinary(r) <= Capacity
    BY <1>1, <1>2, <1>4, LimitsAreNatural
  <2>3. QED
    BY <1>2, <2>1, <2>2
<1>7. FifoOK'
  BY <1>2, <1>3, <1>5, <1>6, FifoChanged
<1>8. QED
  BY <1>2, <1>3, <1>7

LEMMA FifoClosed ==
  ASSUME FifoOK, NEW s \in Streams, events' = [events EXCEPT ![s] = <<>>],
         bytes' = [bytes EXCEPT ![s] = 0], used' = used - bytes[s]
  PROVE  FifoOK'
<1>1. bytes[s] \in 0..QueueBytes /\ used \in 0..ServerBytes
  BY DEF FifoOK
<1>2. /\ 0 \in 0..QueueBytes /\ used - bytes[s] \in Int /\ used - bytes[s] <= ServerBytes
      /\ used - bytes[s] = (used - bytes[s]) + 0
      /\ Len(<<>>) <= MaximumCapacity /\ Ordinary(<<>>) <= Capacity /\ AtMostOneState(<<>>)
      /\ 0 = Charge(<<>>) /\ <<>> \in Seq(Events)
  BY <1>1, QueueEmpty, LimitsAreNatural
<1>3. QED
  BY <1>2, FifoChanged

-----------------------------------------------------------------------------
(* The invariant                                                           *)

\* The types of what is not in a FIFO.
StreamsOK ==
  /\ limit \in MaxSubscriptions
  /\ slots \in SUBSET Streams
  /\ {cancelled, finished, terminalReady, notify} \subseteq SUBSET Streams
  /\ rpc \in [Streams -> HandlerStates]
  /\ outcome \in [Streams -> SUBSET Errors]
  /\ producer \in [Streams -> ProducerStates]
  /\ poll \in [Streams -> Nat]
  /\ remaining \in [Streams -> Seq(Channels)]
  /\ capture \in [Streams -> [Channels -> Nat]]
  /\ captured \in [Streams -> Seq(Events)]
  /\ failure \in [Streams -> SUBSET Errors]
  /\ drops \in [Streams -> [Channels -> [first : Nat, last : Nat, count : Nat]]]
  /\ terminal \in [Streams -> SUBSET Errors]
  /\ terminalEvent \in [Streams -> Seq(Events)]
  /\ published \in [Streams -> Seq(Events)]

\* The producer runs and the FIFO holds events only while the handler has a slot;
\* the handler gives it back after the producer is done.
Lifecycle ==
  \A s \in Streams :
    /\ s \in slots <=> rpc[s] \notin {"idle", "ended"}
    /\ rpc[s] = "idle" => producer[s] = "new"
    /\ rpc[s] \in {"closed", "ended"} => producer[s] \in {"new", "done"}
    /\ rpc[s] \in {"idle", "closed", "ended"} => events[s] = <<>>
    /\ s \in finished => producer[s] = "done"

\* What the producer carries between the steps of an enqueue. A handler that waits
\* without a token while a gap stands for the losses knows of nothing else: so the
\* waveform that follows is admitted or ends the stream, and never dropped silently.
InFlight ==
  \A s \in Streams :
    /\ producer[s] \in {"captured", "gapped"} =>
         /\ captured[s] # <<>>
         /\ Head(captured[s]).channel \in Channels
         /\ Head(captured[s]).kind = "waveform"
    /\ producer[s] = "coalesced" => \A i \in DOMAIN events[s] : ~IsState(events[s][i])
    /\ producer[s] = "gapped" /\ rpc[s] = "waiting" /\ s \notin notify =>
         Len(events[s]) = 1 /\ Ordinary(events[s]) = 0
    /\ terminalEvent[s] # <<>> => Head(terminalEvent[s]).kind = "error"

SlotsLimited == Cardinality(slots) <= limit

IInv ==
  /\ FifoOK /\ StreamsOK /\ SlotsLimited
  /\ Lifecycle /\ InFlight /\ NoLostWakeup

LEMMA KindsOfEvents ==
  /\ \A n \in Nat, size \in Nat :
       /\ StateEvent(n, size) \in Events /\ IsState(StateEvent(n, size))
       /\ ErrorEvent(size) \in Events /\ ~IsState(ErrorEvent(size))
       /\ ErrorEvent(size).kind = "error"
  /\ \A n \in Nat, size \in Nat, c \in Channels :
       /\ WaveformEvent(c, n, size) \in Events
       /\ WaveformEvent(c, n, size).kind = "waveform" /\ WaveformEvent(c, n, size).channel = c
  /\ \A c \in Channels, drop \in [first : Nat, last : Nat, count : Nat] :
       /\ GapEvent(c, drop) \in Events /\ ~IsState(GapEvent(c, drop))
       /\ Critical(GapEvent(c, drop))
  /\ \A event \in Events : [event EXCEPT !.size = 0] \in Events
  BY DEF Events, Kinds, StateEvent, ErrorEvent, WaveformEvent, GapEvent, GapSize, IsState,
     Critical

LEMMA ChannelsRequested ==
  ASSUME NEW s \in Streams
  PROVE  WaveformChannels[s] \in Seq(Channels)
<1>1. WaveformChannels[s] \in Seq(Nat \ {NoChannel})
  BY SubscriptionAssumption
<1>2. /\ Len(WaveformChannels[s]) \in Nat
      /\ WaveformChannels[s] \in [1..Len(WaveformChannels[s]) -> Nat \ {NoChannel}]
      /\ DOMAIN WaveformChannels[s] = 1..Len(WaveformChannels[s])
  BY <1>1, LenProperties
<1>3. \A i \in 1..Len(WaveformChannels[s]) : WaveformChannels[s][i] \in Channels
  BY <1>2 DEF Channels, ToSet
<1>4. WaveformChannels[s] \in [1..Len(WaveformChannels[s]) -> Channels]
  BY <1>2, <1>3
<1>5. QED
  BY <1>2, <1>4, SeqDef

LEMMA NoChannelRequested ==
  ASSUME NEW c \in Channels
  PROVE  c \in Nat /\ c # NoChannel
<1>1. PICK s \in Streams : c \in ToSet(WaveformChannels[s])
  BY DEF Channels
<1>2. WaveformChannels[s] \in Seq(Nat \ {NoChannel})
  BY SubscriptionAssumption
<1>3. PICK i \in DOMAIN WaveformChannels[s] : c = WaveformChannels[s][i]
  BY <1>1 DEF ToSet
<1>4. QED
  BY <1>2, <1>3, ElementOfSeq, LenProperties

LEMMA NestedUpdate ==
  ASSUME NEW A, NEW B, NEW C, NEW f \in [A -> [B -> C]], NEW a \in A, NEW b \in B, NEW x \in C
  PROVE  [f EXCEPT ![a][b] = x] \in [A -> [B -> C]]
  OBVIOUS

LEMMA FailsTyped ==
  ASSUME StreamsOK, NEW s \in Streams, NEW errors \in SUBSET Errors, Fails(s, errors)
  PROVE  producer' \in [Streams -> ProducerStates] /\ failure' \in [Streams -> SUBSET Errors]
  BY DEF StreamsOK, Fails, ProducerStates

LEMMA InitInvariant == Init => IInv
<1> SUFFICES ASSUME Init PROVE IInv
  OBVIOUS
<1>1. FifoOK
  <2>1. used = 0 /\ bytes = [s \in Streams |-> 0] /\ events = [s \in Streams |-> <<>>]
    BY DEF Init
  <2>2. used = Total(bytes)
    BY <2>1, TotalOfZeros, LimitsAreNatural
  <2>3. QED
    BY <2>1, <2>2, QueueEmpty, LimitsAreNatural DEF FifoOK, BudgetExact
<1>2. StreamsOK
  BY DEF Init, StreamsOK, HandlerStates, ProducerStates, NoDrop
<1>3. SlotsLimited
  BY FS_EmptySet, LimitsAreNatural DEF Init, SlotsLimited
<1>4. Lifecycle /\ InFlight /\ NoLostWakeup
  BY DEF Init, Lifecycle, InFlight, NoLostWakeup
<1>5. QED
  BY <1>1, <1>2, <1>3, <1>4 DEF IInv

-----------------------------------------------------------------------------
(* The steps: one lemma per action, one step per part of the invariant.      *)

LEMMA AdmitInvariant ==
  ASSUME IInv, NEW s \in Streams, Admit(s)
  PROVE  IInv'
<1>1. FifoOK /\ StreamsOK /\ SlotsLimited /\ Lifecycle /\ InFlight /\ NoLostWakeup
  BY DEF IInv
<1>2. UNCHANGED <<used, events, bytes>>
  BY DEF Admit, fifoVars
<1>3. FifoOK'
  BY <1>1, <1>2, FifoKept DEF fifoVars
<1>4. StreamsOK'
  BY <1>1 DEF StreamsOK, HandlerStates, ProducerStates, Errors, Admit, rpcVars, pollVars,
     fifoVars, terminalVars
<1>5. SlotsLimited'
  BY <1>1 DEF SlotsLimited, Admit, rpcVars, pollVars, fifoVars, terminalVars
<1>6. Lifecycle'
  BY <1>1, <1>2 DEF Lifecycle, StreamsOK, Admit, rpcVars, pollVars, fifoVars, terminalVars
<1>7. InFlight'
  BY <1>1, <1>2 DEF InFlight, StreamsOK, Admit, rpcVars, pollVars, fifoVars, terminalVars
<1>8. NoLostWakeup'
  BY <1>1, <1>2 DEF NoLostWakeup, StreamsOK, Admit, rpcVars, pollVars, fifoVars,
     terminalVars
<1>9. QED
  BY <1>3, <1>4, <1>5, <1>6, <1>7, <1>8 DEF IInv

LEMMA AdmitRefusedInvariant ==
  ASSUME IInv, NEW s \in Streams, AdmitRefused(s)
  PROVE  IInv'
<1>1. FifoOK /\ StreamsOK /\ SlotsLimited /\ Lifecycle /\ InFlight /\ NoLostWakeup
  BY DEF IInv
<1>2. UNCHANGED <<used, events, bytes>>
  BY DEF AdmitRefused, fifoVars
<1>3. FifoOK'
  BY <1>1, <1>2, FifoKept DEF fifoVars
<1>4. StreamsOK'
  <2>1. {"canceled"} \in SUBSET Errors /\ {"exhausted"} \in SUBSET Errors
        /\ {"device"} \in SUBSET Errors
    BY DEF Errors
  <2>2. producer' \in [Streams -> ProducerStates] /\ failure' \in [Streams -> SUBSET Errors]
    BY <1>1, <2>1, FailsTyped DEF AdmitRefused
  <2>3. QED
    BY <1>1, <2>2 DEF StreamsOK, AdmitRefused, rpcVars, pollVars, fifoVars, terminalVars
<1>5. SlotsLimited'
  BY <1>1 DEF SlotsLimited, AdmitRefused, Fails, rpcVars, pollVars, fifoVars, terminalVars
<1>6. Lifecycle'
  BY <1>1, <1>2 DEF Lifecycle, StreamsOK, AdmitRefused, Fails, rpcVars, pollVars, fifoVars,
     terminalVars
<1>7. InFlight'
  BY <1>1, <1>2 DEF InFlight, StreamsOK, AdmitRefused, Fails, rpcVars, pollVars, fifoVars,
     terminalVars
<1>8. NoLostWakeup'
  BY <1>1, <1>2 DEF NoLostWakeup, StreamsOK, AdmitRefused, Fails, rpcVars, pollVars,
     fifoVars, terminalVars
<1>9. QED
  BY <1>3, <1>4, <1>5, <1>6, <1>7, <1>8 DEF IInv

LEMMA InstrumentFailsInvariant ==
  ASSUME IInv, NEW s \in Streams, InstrumentFails(s)
  PROVE  IInv'
<1>1. FifoOK /\ StreamsOK /\ SlotsLimited /\ Lifecycle /\ InFlight /\ NoLostWakeup
  BY DEF IInv
<1>2. UNCHANGED <<used, events, bytes>>
  BY DEF InstrumentFails, fifoVars
<1>3. FifoOK'
  BY <1>1, <1>2, FifoKept DEF fifoVars
<1>4. StreamsOK'
  <2>1. {"canceled"} \in SUBSET Errors /\ {"exhausted"} \in SUBSET Errors
        /\ {"device"} \in SUBSET Errors
    BY DEF Errors
  <2>2. producer' \in [Streams -> ProducerStates] /\ failure' \in [Streams -> SUBSET Errors]
    BY <1>1, <2>1, FailsTyped DEF InstrumentFails
  <2>3. QED
    BY <1>1, <2>2 DEF StreamsOK, InstrumentFails, rpcVars, pollVars, fifoVars, terminalVars
<1>5. SlotsLimited'
  BY <1>1 DEF SlotsLimited, InstrumentFails, Fails, rpcVars, pollVars, fifoVars,
     terminalVars
<1>6. Lifecycle'
  BY <1>1, <1>2 DEF Lifecycle, StreamsOK, InstrumentFails, Fails, rpcVars, pollVars,
     fifoVars, terminalVars
<1>7. InFlight'
  BY <1>1, <1>2 DEF InFlight, StreamsOK, InstrumentFails, Fails, rpcVars, pollVars,
     fifoVars, terminalVars
<1>8. NoLostWakeup'
  BY <1>1, <1>2 DEF NoLostWakeup, StreamsOK, InstrumentFails, Fails, rpcVars, pollVars,
     fifoVars, terminalVars
<1>9. QED
  BY <1>3, <1>4, <1>5, <1>6, <1>7, <1>8 DEF IInv

LEMMA NextPollInvariant ==
  ASSUME IInv, NEW s \in Streams, NextPoll(s)
  PROVE  IInv'
<1>1. FifoOK /\ StreamsOK /\ SlotsLimited /\ Lifecycle /\ InFlight /\ NoLostWakeup
  BY DEF IInv
<1>2. UNCHANGED <<used, events, bytes>>
  BY DEF NextPoll, fifoVars
<1>3. FifoOK'
  BY <1>1, <1>2, FifoKept DEF fifoVars
<1>4. StreamsOK'
  <2>1. producer \in [Streams -> ProducerStates] /\ poll \in [Streams -> Nat] /\ poll[s] + 1 \in Nat
    BY <1>1 DEF StreamsOK
  <2>2. {"sleeping", "admission"} \subseteq ProducerStates
    BY DEF ProducerStates
  <2>3. producer' \in [Streams -> ProducerStates]
    BY <2>1, <2>2 DEF NextPoll
  <2>4. poll' \in [Streams -> Nat]
    BY <2>1 DEF NextPoll
  <2>5. QED
    BY <1>1, <2>3, <2>4 DEF StreamsOK, NextPoll, rpcVars, pollVars, fifoVars, terminalVars
<1>5. SlotsLimited'
  BY <1>1 DEF SlotsLimited, NextPoll, rpcVars, pollVars, fifoVars, terminalVars
<1>6. Lifecycle'
  BY <1>1, <1>2 DEF Lifecycle, StreamsOK, NextPoll, rpcVars, pollVars, fifoVars,
     terminalVars
<1>7. InFlight'
  BY <1>1, <1>2 DEF InFlight, StreamsOK, NextPoll, rpcVars, pollVars, fifoVars, terminalVars
<1>8. NoLostWakeup'
  BY <1>1, <1>2 DEF NoLostWakeup, StreamsOK, NextPoll, rpcVars, pollVars, fifoVars,
     terminalVars
<1>9. QED
  BY <1>3, <1>4, <1>5, <1>6, <1>7, <1>8 DEF IInv

LEMMA CaptureWaveformInvariant ==
  ASSUME IInv, NEW s \in Streams, CaptureWaveform(s)
  PROVE  IInv'
<1>1. FifoOK /\ StreamsOK /\ SlotsLimited /\ Lifecycle /\ InFlight /\ NoLostWakeup
  BY DEF IInv
<1>2. UNCHANGED <<used, events, bytes>>
  BY DEF CaptureWaveform, fifoVars
<1>3. FifoOK'
  BY <1>1, <1>2, FifoKept DEF fifoVars
<1>4. StreamsOK'
  <2>1. PICK size \in Sizes :
          LET c == Head(remaining[s])
              n == capture[s][c] + 1
          IN /\ capture' = [capture EXCEPT ![s][c] = n]
             /\ \/ /\ size <= EventBytes
                   /\ captured' = [captured EXCEPT ![s] = <<WaveformEvent(c, n, size)>>]
                   /\ producer' = [producer EXCEPT ![s] = "captured"]
                   /\ UNCHANGED failure
                \/ /\ size > EventBytes
                   /\ Fails(s, {"tooLarge"})
                   /\ UNCHANGED captured
    BY DEF CaptureWaveform
  <2> DEFINE c == Head(remaining[s])
             n == capture[s][c] + 1
  <2>2. c \in Channels /\ Tail(remaining[s]) \in Seq(Channels)
    BY <1>1, HeadTailProperties DEF StreamsOK, CaptureWaveform
  <2>3. capture \in [Streams -> [Channels -> Nat]]
    BY <1>1 DEF StreamsOK
  <2>4. n \in Nat
    BY <2>2, <2>3
  <2>5. <<WaveformEvent(c, n, size)>> \in Seq(Events)
    BY <2>2, <2>4, LimitsAreNatural, KindsOfEvents
  <2>6. capture' \in [Streams -> [Channels -> Nat]]
    BY <2>1, <2>2, <2>3, <2>4, NestedUpdate
  <2>7. captured' \in [Streams -> Seq(Events)]
    BY <1>1, <2>1, <2>5 DEF StreamsOK
  <2>8. producer' \in [Streams -> ProducerStates] /\ failure' \in [Streams -> SUBSET Errors]
    <3>1. {"tooLarge"} \in SUBSET Errors /\ "captured" \in ProducerStates
      BY DEF Errors, ProducerStates
    <3>2. QED
      BY <1>1, <2>1, <3>1, FailsTyped DEF StreamsOK
  <2>9. remaining' \in [Streams -> Seq(Channels)]
    BY <1>1, <2>2 DEF StreamsOK, CaptureWaveform
  <2>10. QED
    BY <1>1, <2>6, <2>7, <2>8, <2>9 DEF StreamsOK, CaptureWaveform, rpcVars, pollVars,
       fifoVars, terminalVars
<1>5. SlotsLimited'
  BY <1>1 DEF SlotsLimited, CaptureWaveform, Fails, rpcVars, pollVars, fifoVars,
     terminalVars
<1>6. Lifecycle'
  BY <1>1, <1>2 DEF Lifecycle, StreamsOK, CaptureWaveform, Fails, rpcVars, pollVars,
     fifoVars, terminalVars
<1>7. InFlight'
  <2>1. PICK size \in Sizes, n \in Nat :
          \/ /\ captured' = [captured EXCEPT ![s] = <<WaveformEvent(Head(remaining[s]), n, size)>>]
             /\ producer' = [producer EXCEPT ![s] = "captured"]
          \/ Fails(s, {"tooLarge"}) /\ UNCHANGED captured
    <3>1. Head(remaining[s]) \in Channels
      BY <1>1, HeadTailProperties DEF StreamsOK, CaptureWaveform
    <3>2. capture \in [Streams -> [Channels -> Nat]]
      BY <1>1 DEF StreamsOK
    <3>3. capture[s][Head(remaining[s])] + 1 \in Nat
      BY <3>1, <3>2
    <3>4. QED
      BY <3>3 DEF CaptureWaveform
  <2> DEFINE w == WaveformEvent(Head(remaining[s]), n, size)
  <2>2. w.kind = "waveform" /\ w.channel \in Channels
    BY <1>1, HeadTailProperties DEF StreamsOK, CaptureWaveform, WaveformEvent
  <2>3. <<w>> # <<>> /\ Head(<<w>>) = w
    OBVIOUS
  <2>4. UNCHANGED <<rpc, notify, terminalEvent>>
    BY DEF CaptureWaveform, rpcVars, pollVars, fifoVars, terminalVars
  <2> HIDE DEF w
  <2>5. CASE captured' = [captured EXCEPT ![s] = <<w>>] /\ producer' = [producer EXCEPT ![s] = "captured"]
    BY <1>1, <1>2, <2>2, <2>3, <2>4, <2>5 DEF InFlight, StreamsOK
  <2>6. CASE Fails(s, {"tooLarge"}) /\ UNCHANGED captured
    BY <1>1, <1>2, <2>4, <2>6 DEF InFlight, StreamsOK, Fails
  <2>7. QED
    BY <2>1, <2>5, <2>6 DEF w
<1>8. NoLostWakeup'
  BY <1>1, <1>2 DEF NoLostWakeup, StreamsOK, CaptureWaveform, Fails, rpcVars, pollVars,
     fifoVars, terminalVars
<1>9. QED
  BY <1>3, <1>4, <1>5, <1>6, <1>7, <1>8 DEF IInv

LEMMA FinishWithErrorInvariant ==
  ASSUME IInv, NEW s \in Streams, FinishWithError(s)
  PROVE  IInv'
<1>1. FifoOK /\ StreamsOK /\ SlotsLimited /\ Lifecycle /\ InFlight /\ NoLostWakeup
  BY DEF IInv
<1>2. UNCHANGED <<used, events, bytes>>
  BY DEF FinishWithError, Finish, fifoVars
<1>3. FifoOK'
  BY <1>1, <1>2, FifoKept DEF fifoVars
<1>4. StreamsOK'
  <2>1. PICK size \in Sizes : Finish(s, <<ErrorEvent(size)>>, failure[s])
    BY DEF FinishWithError
  <2>2. <<ErrorEvent(size)>> \in Seq(Events)
    BY LimitsAreNatural, KindsOfEvents
  <2>3. terminalEvent' \in [Streams -> Seq(Events)]
    BY <1>1, <2>1, <2>2 DEF StreamsOK, Finish
  <2>4. terminal' \in [Streams -> SUBSET Errors] /\ producer' \in [Streams -> ProducerStates]
        /\ {finished', notify'} \subseteq SUBSET Streams
    BY <1>1, <2>1 DEF StreamsOK, Finish, Signal, ProducerStates
  <2>5. QED
    BY <1>1, <2>1, <2>3, <2>4 DEF StreamsOK, Finish, rpcVars, pollVars, fifoVars,
       terminalVars
<1>5. SlotsLimited'
  BY <1>1 DEF SlotsLimited, FinishWithError, Finish, Signal, rpcVars, pollVars, fifoVars,
     terminalVars
<1>6. Lifecycle'
  BY <1>1, <1>2 DEF Lifecycle, StreamsOK, FinishWithError, Finish, Signal, rpcVars,
     pollVars, fifoVars, terminalVars
<1>7. InFlight'
  <2>1. PICK size \in Sizes : Finish(s, <<ErrorEvent(size)>>, failure[s])
    BY DEF FinishWithError
  <2>2. Head(<<ErrorEvent(size)>>).kind = "error"
    BY DEF ErrorEvent
  <2>3. terminalEvent' = [terminalEvent EXCEPT ![s] = <<ErrorEvent(size)>>]
        /\ producer' = [producer EXCEPT ![s] = "done"]
    BY <2>1 DEF Finish
  <2>4. UNCHANGED <<captured, events, rpc>> /\ \A r \in Streams : r \notin notify' => r \notin notify
    BY <2>1 DEF Finish, Signal, rpcVars, pollVars, fifoVars, terminalVars
  <2>5. QED
    BY <1>1, <2>2, <2>3, <2>4 DEF InFlight, StreamsOK
<1>8. NoLostWakeup'
  BY <1>1, <1>2 DEF NoLostWakeup, StreamsOK, FinishWithError, Finish, Signal, rpcVars,
     pollVars, fifoVars, terminalVars
<1>9. QED
  BY <1>3, <1>4, <1>5, <1>6, <1>7, <1>8 DEF IInv

LEMMA FinishCancelledInvariant ==
  ASSUME IInv, NEW s \in Streams, FinishCancelled(s)
  PROVE  IInv'
<1>1. FifoOK /\ StreamsOK /\ SlotsLimited /\ Lifecycle /\ InFlight /\ NoLostWakeup
  BY DEF IInv
<1>2. UNCHANGED <<used, events, bytes>>
  BY DEF FinishCancelled, Finish, fifoVars
<1>3. FifoOK'
  BY <1>1, <1>2, FifoKept DEF fifoVars
<1>4. StreamsOK'
  BY <1>1 DEF StreamsOK, HandlerStates, ProducerStates, Errors, FinishCancelled, Finish,
     Signal, rpcVars, pollVars, fifoVars, terminalVars
<1>5. SlotsLimited'
  BY <1>1 DEF SlotsLimited, FinishCancelled, Finish, Signal, rpcVars, pollVars, fifoVars,
     terminalVars
<1>6. Lifecycle'
  BY <1>1, <1>2 DEF Lifecycle, StreamsOK, FinishCancelled, Finish, Signal, rpcVars,
     pollVars, fifoVars, terminalVars
<1>7. InFlight'
  BY <1>1, <1>2 DEF InFlight, StreamsOK, FinishCancelled, Finish, Signal, rpcVars, pollVars,
     fifoVars, terminalVars
<1>8. NoLostWakeup'
  BY <1>1, <1>2 DEF NoLostWakeup, StreamsOK, FinishCancelled, Finish, Signal, rpcVars,
     pollVars, fifoVars, terminalVars
<1>9. QED
  BY <1>3, <1>4, <1>5, <1>6, <1>7, <1>8 DEF IInv

LEMMA SubscribeInvariant ==
  ASSUME IInv, NEW s \in Streams, Subscribe(s)
  PROVE  IInv'
<1>1. FifoOK /\ StreamsOK /\ SlotsLimited /\ Lifecycle /\ InFlight /\ NoLostWakeup
  BY DEF IInv
<1>2. UNCHANGED <<used, events, bytes>>
  BY DEF Subscribe, fifoVars
<1>3. FifoOK'
  BY <1>1, <1>2, FifoKept DEF fifoVars
<1>4. StreamsOK'
  BY <1>1 DEF StreamsOK, HandlerStates, ProducerStates, Errors, Subscribe, Handler, rpcVars,
     pollVars, fifoVars, terminalVars
<1>5. SlotsLimited'
  <2>1. Cardinality(slots) < limit /\ slots' = slots \cup {s} /\ limit' = limit
    BY DEF Subscribe
  <2>2. IsFiniteSet(slots) /\ limit \in Nat
    BY <1>1, LimitsAreNatural, FS_Subset DEF StreamsOK
  <2>3. Cardinality(slots) \in Nat /\ Cardinality(slots') \in {Cardinality(slots), Cardinality(slots) + 1}
    <3>1. Cardinality(slots) \in Nat
      BY <2>2, FS_CardinalityType
    <3>2. Cardinality(slots \cup {s}) = IF s \in slots THEN Cardinality(slots) ELSE Cardinality(slots) + 1
      BY <2>2, FS_AddElement
    <3>3. QED
      BY <2>1, <3>1, <3>2
  <2>4. QED
    BY <2>1, <2>2, <2>3 DEF SlotsLimited
<1>6. Lifecycle'
  BY <1>1, <1>2 DEF Lifecycle, StreamsOK, Subscribe, Handler, rpcVars, pollVars, fifoVars,
     terminalVars
<1>7. InFlight'
  BY <1>1, <1>2 DEF InFlight, StreamsOK, Subscribe, Handler, rpcVars, pollVars, fifoVars,
     terminalVars
<1>8. NoLostWakeup'
  BY <1>1, <1>2 DEF NoLostWakeup, StreamsOK, Subscribe, Handler, rpcVars, pollVars,
     fifoVars, terminalVars
<1>9. QED
  BY <1>3, <1>4, <1>5, <1>6, <1>7, <1>8 DEF IInv

LEMMA SubscribeRefusedInvariant ==
  ASSUME IInv, NEW s \in Streams, SubscribeRefused(s)
  PROVE  IInv'
<1>1. FifoOK /\ StreamsOK /\ SlotsLimited /\ Lifecycle /\ InFlight /\ NoLostWakeup
  BY DEF IInv
<1>2. UNCHANGED <<used, events, bytes>>
  BY DEF SubscribeRefused, fifoVars
<1>3. FifoOK'
  BY <1>1, <1>2, FifoKept DEF fifoVars
<1>4. StreamsOK'
  BY <1>1 DEF StreamsOK, HandlerStates, ProducerStates, Errors, SubscribeRefused, Handler,
     Returns, rpcVars, pollVars, fifoVars, terminalVars
<1>5. SlotsLimited'
  BY <1>1 DEF SlotsLimited, SubscribeRefused, Handler, Returns, rpcVars, pollVars, fifoVars,
     terminalVars
<1>6. Lifecycle'
  BY <1>1, <1>2 DEF Lifecycle, StreamsOK, SubscribeRefused, Handler, Returns, rpcVars,
     pollVars, fifoVars, terminalVars
<1>7. InFlight'
  BY <1>1, <1>2 DEF InFlight, StreamsOK, SubscribeRefused, Handler, Returns, rpcVars,
     pollVars, fifoVars, terminalVars
<1>8. NoLostWakeup'
  BY <1>1, <1>2 DEF NoLostWakeup, StreamsOK, SubscribeRefused, Handler, Returns, rpcVars,
     pollVars, fifoVars, terminalVars
<1>9. QED
  BY <1>3, <1>4, <1>5, <1>6, <1>7, <1>8 DEF IInv

LEMMA ReturnTerminalInvariant ==
  ASSUME IInv, NEW s \in Streams, ReturnTerminal(s)
  PROVE  IInv'
<1>1. FifoOK /\ StreamsOK /\ SlotsLimited /\ Lifecycle /\ InFlight /\ NoLostWakeup
  BY DEF IInv
<1>2. UNCHANGED <<used, events, bytes>>
  BY DEF ReturnTerminal, fifoVars
<1>3. FifoOK'
  BY <1>1, <1>2, FifoKept DEF fifoVars
<1>4. StreamsOK'
  BY <1>1 DEF StreamsOK, HandlerStates, ProducerStates, Errors, ReturnTerminal, Handler,
     Returns, rpcVars, pollVars, fifoVars, terminalVars
<1>5. SlotsLimited'
  BY <1>1 DEF SlotsLimited, ReturnTerminal, Handler, Returns, rpcVars, pollVars, fifoVars,
     terminalVars
<1>6. Lifecycle'
  BY <1>1, <1>2 DEF Lifecycle, StreamsOK, ReturnTerminal, Handler, Returns, rpcVars,
     pollVars, fifoVars, terminalVars
<1>7. InFlight'
  BY <1>1, <1>2 DEF InFlight, StreamsOK, ReturnTerminal, Handler, Returns, rpcVars,
     pollVars, fifoVars, terminalVars
<1>8. NoLostWakeup'
  BY <1>1, <1>2 DEF NoLostWakeup, StreamsOK, ReturnTerminal, Handler, Returns, rpcVars,
     pollVars, fifoVars, terminalVars
<1>9. QED
  BY <1>3, <1>4, <1>5, <1>6, <1>7, <1>8 DEF IInv

LEMMA WaitForEventInvariant ==
  ASSUME IInv, NEW s \in Streams, WaitForEvent(s)
  PROVE  IInv'
<1>1. FifoOK /\ StreamsOK /\ SlotsLimited /\ Lifecycle /\ InFlight /\ NoLostWakeup
  BY DEF IInv
<1>2. UNCHANGED <<used, events, bytes>>
  BY DEF WaitForEvent, fifoVars
<1>3. FifoOK'
  BY <1>1, <1>2, FifoKept DEF fifoVars
<1>4. StreamsOK'
  BY <1>1 DEF StreamsOK, HandlerStates, ProducerStates, Errors, WaitForEvent, Handler,
     Locked, rpcVars, pollVars, fifoVars, terminalVars
<1>5. SlotsLimited'
  BY <1>1 DEF SlotsLimited, WaitForEvent, Handler, Locked, rpcVars, pollVars, fifoVars,
     terminalVars
<1>6. Lifecycle'
  BY <1>1, <1>2 DEF Lifecycle, StreamsOK, WaitForEvent, Handler, Locked, rpcVars, pollVars,
     fifoVars, terminalVars
<1>7. InFlight'
  BY <1>1, <1>2 DEF InFlight, StreamsOK, WaitForEvent, Handler, Locked, rpcVars, pollVars,
     fifoVars, terminalVars
<1>8. NoLostWakeup'
  BY <1>1, <1>2 DEF NoLostWakeup, StreamsOK, WaitForEvent, Handler, Locked, rpcVars,
     pollVars, fifoVars, terminalVars
<1>9. QED
  BY <1>3, <1>4, <1>5, <1>6, <1>7, <1>8 DEF IInv

LEMMA NotifiedInvariant ==
  ASSUME IInv, NEW s \in Streams, Notified(s)
  PROVE  IInv'
<1>1. FifoOK /\ StreamsOK /\ SlotsLimited /\ Lifecycle /\ InFlight /\ NoLostWakeup
  BY DEF IInv
<1>2. UNCHANGED <<used, events, bytes>>
  BY DEF Notified, fifoVars
<1>3. FifoOK'
  BY <1>1, <1>2, FifoKept DEF fifoVars
<1>4. StreamsOK'
  BY <1>1 DEF StreamsOK, HandlerStates, ProducerStates, Errors, Notified, Handler, rpcVars,
     pollVars, fifoVars, terminalVars
<1>5. SlotsLimited'
  BY <1>1 DEF SlotsLimited, Notified, Handler, rpcVars, pollVars, fifoVars, terminalVars
<1>6. Lifecycle'
  BY <1>1, <1>2 DEF Lifecycle, StreamsOK, Notified, Handler, rpcVars, pollVars, fifoVars,
     terminalVars
<1>7. InFlight'
  BY <1>1, <1>2 DEF InFlight, StreamsOK, Notified, Handler, rpcVars, pollVars, fifoVars,
     terminalVars
<1>8. NoLostWakeup'
  BY <1>1, <1>2 DEF NoLostWakeup, StreamsOK, Notified, Handler, rpcVars, pollVars, fifoVars,
     terminalVars
<1>9. QED
  BY <1>3, <1>4, <1>5, <1>6, <1>7, <1>8 DEF IInv

LEMMA WaitCancelledInvariant ==
  ASSUME IInv, NEW s \in Streams, WaitCancelled(s)
  PROVE  IInv'
<1>1. FifoOK /\ StreamsOK /\ SlotsLimited /\ Lifecycle /\ InFlight /\ NoLostWakeup
  BY DEF IInv
<1>2. UNCHANGED <<used, events, bytes>>
  BY DEF WaitCancelled, fifoVars
<1>3. FifoOK'
  BY <1>1, <1>2, FifoKept DEF fifoVars
<1>4. StreamsOK'
  BY <1>1 DEF StreamsOK, HandlerStates, ProducerStates, Errors, WaitCancelled, Handler,
     Returns, rpcVars, pollVars, fifoVars, terminalVars
<1>5. SlotsLimited'
  BY <1>1 DEF SlotsLimited, WaitCancelled, Handler, Returns, rpcVars, pollVars, fifoVars,
     terminalVars
<1>6. Lifecycle'
  BY <1>1, <1>2 DEF Lifecycle, StreamsOK, WaitCancelled, Handler, Returns, rpcVars,
     pollVars, fifoVars, terminalVars
<1>7. InFlight'
  BY <1>1, <1>2 DEF InFlight, StreamsOK, WaitCancelled, Handler, Returns, rpcVars, pollVars,
     fifoVars, terminalVars
<1>8. NoLostWakeup'
  BY <1>1, <1>2 DEF NoLostWakeup, StreamsOK, WaitCancelled, Handler, Returns, rpcVars,
     pollVars, fifoVars, terminalVars
<1>9. QED
  BY <1>3, <1>4, <1>5, <1>6, <1>7, <1>8 DEF IInv

LEMMA SendReturnsInvariant ==
  ASSUME IInv, NEW s \in Streams, SendReturns(s)
  PROVE  IInv'
<1>1. FifoOK /\ StreamsOK /\ SlotsLimited /\ Lifecycle /\ InFlight /\ NoLostWakeup
  BY DEF IInv
<1>2. UNCHANGED <<used, events, bytes>>
  BY DEF SendReturns, fifoVars
<1>3. FifoOK'
  BY <1>1, <1>2, FifoKept DEF fifoVars
<1>4. StreamsOK'
  BY <1>1 DEF StreamsOK, HandlerStates, ProducerStates, Errors, SendReturns, Handler,
     rpcVars, pollVars, fifoVars, terminalVars
<1>5. SlotsLimited'
  BY <1>1 DEF SlotsLimited, SendReturns, Handler, rpcVars, pollVars, fifoVars, terminalVars
<1>6. Lifecycle'
  BY <1>1, <1>2 DEF Lifecycle, StreamsOK, SendReturns, Handler, rpcVars, pollVars, fifoVars,
     terminalVars
<1>7. InFlight'
  BY <1>1, <1>2 DEF InFlight, StreamsOK, SendReturns, Handler, rpcVars, pollVars, fifoVars,
     terminalVars
<1>8. NoLostWakeup'
  BY <1>1, <1>2 DEF NoLostWakeup, StreamsOK, SendReturns, Handler, rpcVars, pollVars,
     fifoVars, terminalVars
<1>9. QED
  BY <1>3, <1>4, <1>5, <1>6, <1>7, <1>8 DEF IInv

LEMMA SendFailsInvariant ==
  ASSUME IInv, NEW s \in Streams, SendFails(s)
  PROVE  IInv'
<1>1. FifoOK /\ StreamsOK /\ SlotsLimited /\ Lifecycle /\ InFlight /\ NoLostWakeup
  BY DEF IInv
<1>2. UNCHANGED <<used, events, bytes>>
  BY DEF SendFails, fifoVars
<1>3. FifoOK'
  BY <1>1, <1>2, FifoKept DEF fifoVars
<1>4. StreamsOK'
  BY <1>1 DEF StreamsOK, HandlerStates, ProducerStates, Errors, SendFails, Handler, Returns,
     rpcVars, pollVars, fifoVars, terminalVars
<1>5. SlotsLimited'
  BY <1>1 DEF SlotsLimited, SendFails, Handler, Returns, rpcVars, pollVars, fifoVars,
     terminalVars
<1>6. Lifecycle'
  BY <1>1, <1>2 DEF Lifecycle, StreamsOK, SendFails, Handler, Returns, rpcVars, pollVars,
     fifoVars, terminalVars
<1>7. InFlight'
  BY <1>1, <1>2 DEF InFlight, StreamsOK, SendFails, Handler, Returns, rpcVars, pollVars,
     fifoVars, terminalVars
<1>8. NoLostWakeup'
  BY <1>1, <1>2 DEF NoLostWakeup, StreamsOK, SendFails, Handler, Returns, rpcVars, pollVars,
     fifoVars, terminalVars
<1>9. QED
  BY <1>3, <1>4, <1>5, <1>6, <1>7, <1>8 DEF IInv

LEMMA CancelProducerInvariant ==
  ASSUME IInv, NEW s \in Streams, CancelProducer(s)
  PROVE  IInv'
<1>1. FifoOK /\ StreamsOK /\ SlotsLimited /\ Lifecycle /\ InFlight /\ NoLostWakeup
  BY DEF IInv
<1>2. UNCHANGED <<used, events, bytes>>
  BY DEF CancelProducer, fifoVars
<1>3. FifoOK'
  BY <1>1, <1>2, FifoKept DEF fifoVars
<1>4. StreamsOK'
  BY <1>1 DEF StreamsOK, HandlerStates, ProducerStates, Errors, CancelProducer, Handler,
     rpcVars, pollVars, fifoVars, terminalVars
<1>5. SlotsLimited'
  BY <1>1 DEF SlotsLimited, CancelProducer, Handler, rpcVars, pollVars, fifoVars,
     terminalVars
<1>6. Lifecycle'
  BY <1>1, <1>2 DEF Lifecycle, StreamsOK, CancelProducer, Handler, rpcVars, pollVars,
     fifoVars, terminalVars
<1>7. InFlight'
  BY <1>1, <1>2 DEF InFlight, StreamsOK, CancelProducer, Handler, rpcVars, pollVars,
     fifoVars, terminalVars
<1>8. NoLostWakeup'
  BY <1>1, <1>2 DEF NoLostWakeup, StreamsOK, CancelProducer, Handler, rpcVars, pollVars,
     fifoVars, terminalVars
<1>9. QED
  BY <1>3, <1>4, <1>5, <1>6, <1>7, <1>8 DEF IInv

LEMMA ReleaseSlotInvariant ==
  ASSUME IInv, NEW s \in Streams, ReleaseSlot(s)
  PROVE  IInv'
<1>1. FifoOK /\ StreamsOK /\ SlotsLimited /\ Lifecycle /\ InFlight /\ NoLostWakeup
  BY DEF IInv
<1>2. UNCHANGED <<used, events, bytes>>
  BY DEF ReleaseSlot, fifoVars
<1>3. FifoOK'
  BY <1>1, <1>2, FifoKept DEF fifoVars
<1>4. StreamsOK'
  BY <1>1 DEF StreamsOK, HandlerStates, ProducerStates, Errors, ReleaseSlot, Handler,
     rpcVars, pollVars, fifoVars, terminalVars
<1>5. SlotsLimited'
  <2>1. slots' = slots \ {s} /\ limit' = limit
    BY DEF ReleaseSlot
  <2>2. IsFiniteSet(slots) /\ limit \in Nat
    BY <1>1, LimitsAreNatural, FS_Subset DEF StreamsOK
  <2>3. Cardinality(slots) \in Nat /\ Cardinality(slots') \in {Cardinality(slots), Cardinality(slots) - 1}
    <3>1. Cardinality(slots) \in Nat
      BY <2>2, FS_CardinalityType
    <3>2. Cardinality(slots \ {s}) = IF s \in slots THEN Cardinality(slots) - 1 ELSE Cardinality(slots)
      BY <2>2, FS_RemoveElement
    <3>3. QED
      BY <2>1, <3>1, <3>2
  <2>4. QED
    BY <1>1, <2>1, <2>2, <2>3 DEF SlotsLimited
<1>6. Lifecycle'
  BY <1>1, <1>2 DEF Lifecycle, StreamsOK, ReleaseSlot, Handler, rpcVars, pollVars, fifoVars,
     terminalVars
<1>7. InFlight'
  BY <1>1, <1>2 DEF InFlight, StreamsOK, ReleaseSlot, Handler, rpcVars, pollVars, fifoVars,
     terminalVars
<1>8. NoLostWakeup'
  BY <1>1, <1>2 DEF NoLostWakeup, StreamsOK, ReleaseSlot, Handler, rpcVars, pollVars,
     fifoVars, terminalVars
<1>9. QED
  BY <1>3, <1>4, <1>5, <1>6, <1>7, <1>8 DEF IInv

LEMMA ClientCancelsInvariant ==
  ASSUME IInv, NEW s \in Streams, ClientCancels(s)
  PROVE  IInv'
<1>1. FifoOK /\ StreamsOK /\ SlotsLimited /\ Lifecycle /\ InFlight /\ NoLostWakeup
  BY DEF IInv
<1>2. UNCHANGED <<used, events, bytes>>
  BY DEF ClientCancels, fifoVars
<1>3. FifoOK'
  BY <1>1, <1>2, FifoKept DEF fifoVars
<1>4. StreamsOK'
  BY <1>1 DEF StreamsOK, HandlerStates, ProducerStates, Errors, ClientCancels, rpcVars,
     pollVars, fifoVars, terminalVars
<1>5. SlotsLimited'
  BY <1>1 DEF SlotsLimited, ClientCancels, rpcVars, pollVars, fifoVars, terminalVars
<1>6. Lifecycle'
  BY <1>1, <1>2 DEF Lifecycle, StreamsOK, ClientCancels, rpcVars, pollVars, fifoVars,
     terminalVars
<1>7. InFlight'
  BY <1>1, <1>2 DEF InFlight, StreamsOK, ClientCancels, rpcVars, pollVars, fifoVars,
     terminalVars
<1>8. NoLostWakeup'
  BY <1>1, <1>2 DEF NoLostWakeup, StreamsOK, ClientCancels, rpcVars, pollVars, fifoVars,
     terminalVars
<1>9. QED
  BY <1>3, <1>4, <1>5, <1>6, <1>7, <1>8 DEF IInv

\* What appendLocked refuses with.
LEMMA ErrorsOfAppend ==
  ASSUME NEW s \in Streams, NEW event
  PROVE  AppendErrors(s, event) \in {{}, {"exhausted"}, {"backpressure"}}
  BY DEF AppendErrors

\* A queue of one critical event admits another event, as to the number of them.
LEMMA RoomAfterGap ==
  ASSUME NEW s \in Streams, NEW event, Len(events[s]) = 1, Ordinary(events[s]) = 0
  PROVE  AppendErrors(s, event) # {"backpressure"}
<1>1. ~(\/ Len(events[s]) >= MaximumCapacity
        \/ ~Critical(event) /\ Ordinary(events[s]) >= Capacity)
  BY LimitsAreNatural
<1>2. {"exhausted"} # {"backpressure"} /\ {} # {"backpressure"}
  OBVIOUS
<1>3. QED
  BY <1>1, <1>2 DEF AppendErrors

\* A drop is recorded in the type of drops.
LEMMA DropRecorded ==
  ASSUME StreamsOK, NEW s \in Streams, NEW event \in Events, event.channel \in Channels,
         RecordDrop(s, event)
  PROVE  drops' \in [Streams -> [Channels -> [first : Nat, last : Nat, count : Nat]]]
<1> DEFINE c == event.channel
           drop == [first |-> IF drops[s][c] = NoDrop THEN event.last ELSE drops[s][c].first,
                    last |-> event.last,
                    count |-> drops[s][c].count + 1]
<1>1. drops \in [Streams -> [Channels -> [first : Nat, last : Nat, count : Nat]]]
  BY DEF StreamsOK
<1>2. drops[s][c] \in [first : Nat, last : Nat, count : Nat] /\ event.last \in Nat
  BY <1>1 DEF Events
<1>3. drop \in [first : Nat, last : Nat, count : Nat]
  BY <1>2
<1>4. drops' = [drops EXCEPT ![s][c] = drop]
  BY DEF RecordDrop
<1> HIDE DEF c, drop
<1>5. QED
  BY <1>1, <1>3, <1>4, NestedUpdate DEF c

LEMMA DropForgotten ==
  ASSUME StreamsOK, NEW s \in Streams, NEW c \in Channels,
         drops' = [drops EXCEPT ![s][c] = NoDrop]
  PROVE  drops' \in [Streams -> [Channels -> [first : Nat, last : Nat, count : Nat]]]
<1>1. NoDrop \in [first : Nat, last : Nat, count : Nat]
  BY DEF NoDrop
<1>2. QED
  BY <1>1, NestedUpdate DEF StreamsOK

LEMMA CoalesceStateInvariant ==
  ASSUME IInv, NEW s \in Streams, CoalesceState(s)
  PROVE  IInv'
<1>1. FifoOK /\ StreamsOK /\ SlotsLimited /\ Lifecycle /\ InFlight /\ NoLostWakeup
  BY DEF IInv
<1>2. /\ producer[s] = "state" /\ producer' = [producer EXCEPT ![s] = "coalesced"]
      /\ UNCHANGED <<limit, slots, cancelled, rpc, outcome, poll, remaining, capture, captured,
                     failure, drops, finished, terminal, terminalEvent, terminalReady, notify,
                     published>>
  BY DEF CoalesceState, rpcVars, pollVars, fifoVars, terminalVars
<1>3. events[s] \in Seq(Events) /\ events \in [Streams -> Seq(Events)] /\ AtMostOneState(events[s])
  BY <1>1 DEF FifoOK
<1>4. /\ FifoOK'
      /\ \A i \in DOMAIN events'[s] : ~IsState(events'[s][i])
      /\ \A r \in Streams \ {s} : events'[r] = events[r]
      /\ events[s] = <<>> => events'[s] = <<>>
  <2>1. CASE PendingState(events[s]) = 0
    <3>1. \A i \in DOMAIN events[s] : ~IsState(events[s][i])
      BY <1>3, <2>1, PendingStateFound
    <3>2. UNCHANGED fifoVars
      BY <2>1 DEF CoalesceState
    <3>3. QED
      BY <1>1, <3>1, <3>2, FifoKept DEF fifoVars
  <2>2. CASE PendingState(events[s]) # 0
    <3> DEFINE k == PendingState(events[s])
               rest == RemoveAt(events[s], k)
    <3>1. k \in 1..Len(events[s]) /\ IsState(events[s][k])
      BY <1>3, <2>2, PendingStateFound
    <3>2. /\ events' = [events EXCEPT ![s] = rest]
          /\ bytes' = [bytes EXCEPT ![s] = bytes[s] - events[s][k].size]
          /\ used' = used - events[s][k].size
      BY <2>2 DEF CoalesceState
    <3>3. IsWithout(rest, events[s], k)
      BY <1>3, <3>1, RemovalIsWithout
    <3>4. events[s] # <<>>
      BY <1>3, <3>1, EmptySeq
    <3> HIDE DEF k, rest
    <3>5. FifoOK' /\ \A i \in DOMAIN rest : ~IsState(rest[i])
      BY <1>1, <3>1, <3>2, <3>3, FifoRemoved
    <3>6. QED
      BY <1>3, <3>2, <3>4, <3>5
  <2>3. QED
    BY <2>1, <2>2
<1>5. StreamsOK'
  BY <1>1, <1>2 DEF StreamsOK, ProducerStates
<1>6. SlotsLimited'
  BY <1>1, <1>2 DEF SlotsLimited
<1>7. Lifecycle'
  BY <1>1, <1>2, <1>4 DEF Lifecycle, StreamsOK
<1>8. InFlight'
  BY <1>1, <1>2, <1>4 DEF InFlight, StreamsOK
<1>9. NoLostWakeup'
  BY <1>1, <1>2, <1>4 DEF NoLostWakeup, StreamsOK
<1>10. QED
  BY <1>4, <1>5, <1>6, <1>7, <1>8, <1>9 DEF IInv

LEMMA AppendStateInvariant ==
  ASSUME IInv, NEW s \in Streams, AppendState(s)
  PROVE  IInv'
<1>1. FifoOK /\ StreamsOK /\ SlotsLimited /\ Lifecycle /\ InFlight /\ NoLostWakeup
  BY DEF IInv
<1>2. /\ producer[s] = "coalesced"
      /\ UNCHANGED <<limit, slots, cancelled, rpc, outcome, poll, capture, captured, drops,
                     finished, terminal, terminalEvent, terminalReady, published>>
  BY DEF AppendState, rpcVars, pollVars, fifoVars, terminalVars
<1>3. events[s] \in Seq(Events) /\ events \in [Streams -> Seq(Events)]
  BY <1>1 DEF FifoOK
<1>4. PICK size \in Sizes :
        LET event == StateEvent(poll[s], size)
            errors == AppendErrors(s, event)
        IN \/ /\ errors = {}
              /\ AppendEvent(s, event)
              /\ Signal(s)
              /\ producer' = [producer EXCEPT ![s] = "capture"]
              /\ remaining' = [remaining EXCEPT ![s] = WaveformChannels[s]]
              /\ UNCHANGED failure
           \/ /\ errors # {}
              /\ Fails(s, errors)
              /\ UNCHANGED <<fifoVars, notify, remaining>>
  BY DEF AppendState
<1> DEFINE event == StateEvent(poll[s], size)
           errors == AppendErrors(s, event)
<1>5. event \in Events
  BY <1>1, LimitsAreNatural, KindsOfEvents DEF StreamsOK
<1>6. errors \in SUBSET Errors
  BY ErrorsOfAppend DEF Errors
<1>7. SlotsLimited'
  BY <1>1, <1>2 DEF SlotsLimited
<1> HIDE DEF event, errors
<1>8. CASE errors = {}
  <2>1. /\ AppendErrors(s, event) = {} /\ AppendEvent(s, event) /\ Signal(s)
        /\ producer' = [producer EXCEPT ![s] = "capture"]
        /\ remaining' = [remaining EXCEPT ![s] = WaveformChannels[s]]
        /\ UNCHANGED failure
    BY <1>4, <1>8 DEF event, errors
  <2>2. \A i \in DOMAIN events[s] : ~IsState(events[s][i])
    BY <1>1, <1>2 DEF InFlight
  <2>3. FifoOK' /\ events' = [events EXCEPT ![s] = Append(events[s], event)]
    BY <1>1, <1>5, <2>1, <2>2, FifoAppended
  <2>4. \A r \in Streams \ {s} : events'[r] = events[r]
    BY <1>3, <2>3
  <2>5. notify' = notify \cup {s}
    BY <2>1 DEF Signal
  <2>6. StreamsOK'
    BY <1>1, <1>2, <2>1, <2>5, ChannelsRequested DEF StreamsOK, ProducerStates
  <2>7. Lifecycle'
    BY <1>1, <1>2, <2>1, <2>4 DEF Lifecycle, StreamsOK
  <2>8. InFlight'
    BY <1>1, <1>2, <2>1, <2>4, <2>5 DEF InFlight, StreamsOK
  <2>9. NoLostWakeup'
    BY <1>1, <1>2, <2>1, <2>4, <2>5 DEF NoLostWakeup, StreamsOK
  <2>10. QED
    BY <1>7, <2>3, <2>6, <2>7, <2>8, <2>9 DEF IInv
<1>9. CASE errors # {}
  <2>1. Fails(s, errors) /\ UNCHANGED <<used, events, bytes, notify, remaining>>
    BY <1>4, <1>9 DEF event, errors, fifoVars
  <2>2. FifoOK'
    BY <1>1, <2>1, FifoKept DEF fifoVars
  <2>3. producer' \in [Streams -> ProducerStates] /\ failure' \in [Streams -> SUBSET Errors]
    BY <1>1, <1>6, <2>1, FailsTyped
  <2>4. StreamsOK'
    BY <1>1, <1>2, <2>1, <2>3 DEF StreamsOK
  <2>5. Lifecycle'
    BY <1>1, <1>2, <2>1 DEF Lifecycle, StreamsOK, Fails
  <2>6. InFlight'
    BY <1>1, <1>2, <2>1 DEF InFlight, StreamsOK, Fails
  <2>7. NoLostWakeup'
    BY <1>1, <1>2, <2>1 DEF NoLostWakeup, StreamsOK, Fails
  <2>8. QED
    BY <1>7, <2>2, <2>4, <2>5, <2>6, <2>7 DEF IInv
<1>10. QED
  BY <1>8, <1>9

LEMMA AppendGapInvariant ==
  ASSUME IInv, NEW s \in Streams, AppendGap(s)
  PROVE  IInv'
<1>1. FifoOK /\ StreamsOK /\ SlotsLimited /\ Lifecycle /\ InFlight /\ NoLostWakeup
  BY DEF IInv
<1> DEFINE waveform == Head(captured[s])
           c == waveform.channel
           gap == GapEvent(c, drops[s][c])
           errors == AppendErrors(s, gap)
<1>2. /\ producer[s] = "captured"
      /\ \/ /\ errors = {}
            /\ AppendEvent(s, gap)
            /\ drops' = [drops EXCEPT ![s][c] = NoDrop]
            /\ producer' = [producer EXCEPT ![s] = "gapped"]
            /\ UNCHANGED <<captured, failure>>
         \/ /\ errors # {}
            /\ RecordDrop(s, waveform)
            /\ captured' = [captured EXCEPT ![s] = <<>>]
            /\ Fails(s, errors)
            /\ UNCHANGED fifoVars
      /\ UNCHANGED <<limit, slots, cancelled, rpc, outcome, poll, remaining, capture, finished,
                     terminal, terminalEvent, terminalReady, notify, published>>
  BY DEF AppendGap, rpcVars, terminalVars
<1>3. events[s] \in Seq(Events) /\ events \in [Streams -> Seq(Events)]
  BY <1>1 DEF FifoOK
<1>4. waveform \in Events /\ c \in Channels
  <2>1. captured[s] # <<>> /\ captured[s] \in Seq(Events) /\ c \in Channels
    BY <1>1, <1>2 DEF InFlight, StreamsOK
  <2>2. QED
    BY <2>1, HeadTailProperties
<1>5. gap \in Events /\ ~IsState(gap) /\ Critical(gap)
  BY <1>1, <1>4, KindsOfEvents DEF StreamsOK
<1>6. errors \in SUBSET Errors
  BY ErrorsOfAppend DEF Errors
<1>7. SlotsLimited'
  BY <1>1, <1>2 DEF SlotsLimited
<1> HIDE DEF waveform, gap, errors
<1>8. CASE errors = {}
  <2>1. /\ AppendErrors(s, gap) = {} /\ AppendEvent(s, gap)
        /\ drops' = [drops EXCEPT ![s][c] = NoDrop]
        /\ producer' = [producer EXCEPT ![s] = "gapped"]
        /\ UNCHANGED <<captured, failure>>
    BY <1>2, <1>8 DEF errors
  <2>2. /\ FifoOK' /\ events' = [events EXCEPT ![s] = Append(events[s], gap)]
        /\ Len(Append(events[s], gap)) = Len(events[s]) + 1
        /\ Ordinary(Append(events[s], gap)) = Ordinary(events[s]) + (IF Critical(gap) THEN 0 ELSE 1)
    BY <1>1, <1>5, <2>1, FifoAppended
  <2>3. \A r \in Streams \ {s} : events'[r] = events[r]
    BY <1>3, <2>2
  <2>4. drops' \in [Streams -> [Channels -> [first : Nat, last : Nat, count : Nat]]]
    BY <1>1, <1>4, <2>1, DropForgotten
  <2>5. StreamsOK'
    BY <1>1, <1>2, <2>1, <2>4 DEF StreamsOK, ProducerStates
  <2>6. Lifecycle'
    BY <1>1, <1>2, <2>1, <2>3 DEF Lifecycle, StreamsOK
  <2>7. rpc[s] = "waiting" /\ s \notin notify => Len(events'[s]) = 1 /\ Ordinary(events'[s]) = 0
    <3>1. HAVE rpc[s] = "waiting" /\ s \notin notify
    <3>2. events[s] = <<>>
      BY <1>1, <1>2, <3>1 DEF NoLostWakeup
    <3>3. Len(events[s]) = 0 /\ Ordinary(events[s]) = 0
      BY <3>2, QueueEmpty
    <3>4. events'[s] = Append(events[s], gap)
      BY <1>3, <2>2
    <3>5. QED
      BY <1>5, <2>2, <3>3, <3>4
  <2>8. InFlight'
    BY <1>1, <1>2, <2>1, <2>3, <2>7 DEF InFlight, StreamsOK
  <2>9. NoLostWakeup'
    BY <1>1, <1>2, <2>1, <2>3 DEF NoLostWakeup, StreamsOK
  <2>10. QED
    BY <1>7, <2>2, <2>5, <2>6, <2>8, <2>9 DEF IInv
<1>9. CASE errors # {}
  <2>1. /\ RecordDrop(s, waveform) /\ Fails(s, errors)
        /\ captured' = [captured EXCEPT ![s] = <<>>]
        /\ UNCHANGED <<used, events, bytes>>
    BY <1>2, <1>9 DEF fifoVars
  <2>2. FifoOK'
    BY <1>1, <2>1, FifoKept DEF fifoVars
  <2>3. producer' \in [Streams -> ProducerStates] /\ failure' \in [Streams -> SUBSET Errors]
    BY <1>1, <1>6, <2>1, FailsTyped
  <2>4. drops' \in [Streams -> [Channels -> [first : Nat, last : Nat, count : Nat]]]
    BY <1>1, <1>4, <2>1, DropRecorded
  <2>5. StreamsOK'
    <3>1. UNCHANGED <<limit, slots, cancelled, rpc, outcome, poll, remaining, capture, finished,
                      terminal, terminalEvent, terminalReady, notify, published>>
      BY <1>2
    <3>2. captured' \in [Streams -> Seq(Events)]
      BY <1>1, <2>1 DEF StreamsOK
    <3>3. QED
      BY <1>1, <2>3, <2>4, <3>1, <3>2 DEF StreamsOK
  <2>6. Lifecycle'
    BY <1>1, <1>2, <2>1 DEF Lifecycle, StreamsOK, Fails
  <2>7. InFlight'
    BY <1>1, <1>2, <2>1 DEF InFlight, StreamsOK, Fails
  <2>8. NoLostWakeup'
    BY <1>1, <1>2, <2>1 DEF NoLostWakeup, StreamsOK, Fails
  <2>9. QED
    BY <1>7, <2>2, <2>5, <2>6, <2>7, <2>8 DEF IInv
<1>10. QED
  BY <1>8, <1>9

LEMMA AppendWaveformInvariant ==
  ASSUME IInv, NEW s \in Streams, AppendWaveform(s)
  PROVE  IInv'
<1>1. FifoOK /\ StreamsOK /\ SlotsLimited /\ Lifecycle /\ InFlight /\ NoLostWakeup
  BY DEF IInv
<1> DEFINE waveform == Head(captured[s])
           errors == AppendErrors(s, waveform)
<1>2. /\ producer[s] \in {"captured", "gapped"}
      /\ producer[s] = "captured" => s \notin finished
      /\ captured' = [captured EXCEPT ![s] = <<>>]
      /\ UNCHANGED <<limit, slots, cancelled, rpc, outcome, poll, remaining, capture, finished,
                     terminal, terminalEvent, terminalReady, published>>
  BY DEF AppendWaveform, rpcVars, terminalVars
<1>3. \/ /\ errors = {}
         /\ AppendEvent(s, waveform)
         /\ producer' = [producer EXCEPT ![s] = "capture"]
         /\ notify' = notify \cup {s}
         /\ UNCHANGED <<drops, failure>>
      \/ /\ errors = {"backpressure"}
         /\ RecordDrop(s, waveform)
         /\ producer' = [producer EXCEPT ![s] = "capture"]
         /\ UNCHANGED <<used, events, bytes, notify, failure>>
      \/ /\ errors = {"exhausted"}
         /\ Fails(s, errors)
         /\ UNCHANGED <<used, events, bytes, notify, drops>>
  BY DEF AppendWaveform, WaveformAdmitted, Signal, fifoVars
<1>4. events[s] \in Seq(Events) /\ events \in [Streams -> Seq(Events)]
  BY <1>1 DEF FifoOK
<1>5. waveform \in Events /\ waveform.channel \in Channels /\ ~IsState(waveform)
  <2>1. /\ captured[s] # <<>> /\ captured[s] \in Seq(Events)
        /\ waveform.channel \in Channels /\ waveform.kind = "waveform"
    BY <1>1, <1>2 DEF InFlight, StreamsOK
  <2>2. QED
    BY <2>1, HeadTailProperties DEF IsState
<1>6. errors \in SUBSET Errors
  BY ErrorsOfAppend DEF Errors
<1>7. captured' \in [Streams -> Seq(Events)]
  BY <1>1, <1>2 DEF StreamsOK
<1>8. SlotsLimited'
  BY <1>1, <1>2 DEF SlotsLimited
<1>9. producer[s] = "gapped" /\ rpc[s] = "waiting" /\ s \notin notify => errors # {"backpressure"}
  BY <1>1, RoomAfterGap DEF InFlight
<1> HIDE DEF waveform, errors
<1>10. CASE errors = {}
  <2>1. /\ AppendErrors(s, waveform) = {} /\ AppendEvent(s, waveform)
        /\ producer' = [producer EXCEPT ![s] = "capture"]
        /\ notify' = notify \cup {s} /\ UNCHANGED <<drops, failure>>
    BY <1>3, <1>10 DEF errors
  <2>2. FifoOK' /\ events' = [events EXCEPT ![s] = Append(events[s], waveform)]
    BY <1>1, <1>5, <2>1, FifoAppended
  <2>3. \A r \in Streams \ {s} : events'[r] = events[r]
    BY <1>4, <2>2
  <2>4. StreamsOK'
    BY <1>1, <1>2, <1>7, <2>1 DEF StreamsOK, ProducerStates
  <2>5. Lifecycle'
    BY <1>1, <1>2, <2>1, <2>3 DEF Lifecycle, StreamsOK
  <2>6. InFlight'
    BY <1>1, <1>2, <2>1, <2>3 DEF InFlight, StreamsOK
  <2>7. NoLostWakeup'
    BY <1>1, <1>2, <2>1, <2>3 DEF NoLostWakeup, StreamsOK
  <2>8. QED
    BY <1>8, <2>2, <2>4, <2>5, <2>6, <2>7 DEF IInv
<1>11. CASE errors = {"backpressure"}
  <2>1. /\ RecordDrop(s, waveform) /\ producer' = [producer EXCEPT ![s] = "capture"]
        /\ UNCHANGED <<used, events, bytes, notify, failure>>
    BY <1>3, <1>11
  <2>2. FifoOK'
    BY <1>1, <2>1, FifoKept DEF fifoVars
  <2>3. drops' \in [Streams -> [Channels -> [first : Nat, last : Nat, count : Nat]]]
    BY <1>1, <1>5, <2>1, DropRecorded
  <2>4. StreamsOK'
    BY <1>1, <1>2, <1>7, <2>1, <2>3 DEF StreamsOK, ProducerStates
  <2>5. Lifecycle'
    BY <1>1, <1>2, <2>1 DEF Lifecycle, StreamsOK
  <2>6. InFlight'
    BY <1>1, <1>2, <2>1 DEF InFlight, StreamsOK
  <2>7. NoLostWakeup'
    BY <1>1, <1>2, <1>9, <1>11, <2>1 DEF NoLostWakeup, StreamsOK
  <2>8. QED
    BY <1>8, <2>2, <2>4, <2>5, <2>6, <2>7 DEF IInv
<1>12. CASE errors = {"exhausted"}
  <2>1. Fails(s, errors) /\ UNCHANGED <<used, events, bytes, notify, drops>>
    BY <1>3, <1>12
  <2>2. FifoOK'
    BY <1>1, <2>1, FifoKept DEF fifoVars
  <2>3. producer' \in [Streams -> ProducerStates] /\ failure' \in [Streams -> SUBSET Errors]
    BY <1>1, <1>6, <2>1, FailsTyped
  <2>4. StreamsOK'
    BY <1>1, <1>2, <1>7, <2>1, <2>3 DEF StreamsOK
  <2>5. Lifecycle'
    BY <1>1, <1>2, <2>1 DEF Lifecycle, StreamsOK, Fails
  <2>6. InFlight'
    BY <1>1, <1>2, <2>1 DEF InFlight, StreamsOK, Fails
  <2>7. NoLostWakeup'
    BY <1>1, <1>2, <2>1 DEF NoLostWakeup, StreamsOK, Fails
  <2>8. QED
    BY <1>8, <2>2, <2>4, <2>5, <2>6, <2>7 DEF IInv
<1>13. QED
  BY <1>3, <1>10, <1>11, <1>12

LEMMA DequeueInvariant ==
  ASSUME IInv, NEW s \in Streams, Dequeue(s)
  PROVE  IInv'
<1>1. FifoOK /\ StreamsOK /\ SlotsLimited /\ Lifecycle /\ InFlight /\ NoLostWakeup
  BY DEF IInv
<1>2. /\ ~Locked(s) /\ events[s] # <<>> /\ rpc[s] = "ready"
      /\ rpc' = [rpc EXCEPT ![s] = "sending"]
      /\ events' = [events EXCEPT ![s] = Tail(events[s])]
      /\ bytes' = [bytes EXCEPT ![s] = bytes[s] - Head(events[s]).size]
      /\ used' = used - Head(events[s]).size
      /\ published' = [published EXCEPT ![s] =
                         Append(published[s], [Head(events[s]) EXCEPT !.size = 0])]
      /\ UNCHANGED <<limit, slots, cancelled, outcome, producer, poll, remaining, capture,
                     captured, failure, drops, finished, terminal, terminalEvent,
                     terminalReady, notify>>
  BY DEF Dequeue, Handler, rpcVars, pollVars, fifoVars, terminalVars
<1>3. events[s] \in Seq(Events) /\ events \in [Streams -> Seq(Events)]
  BY <1>1 DEF FifoOK
<1>4. /\ 1 \in 1..Len(events[s]) /\ Head(events[s]) = events[s][1]
      /\ IsWithout(Tail(events[s]), events[s], 1)
  BY <1>2, <1>3, TailIsWithout
<1>5. FifoOK'
  BY <1>1, <1>2, <1>4, FifoRemoved
<1>6. \A r \in Streams \ {s} : events'[r] = events[r]
  BY <1>2, <1>3
<1>7. published' \in [Streams -> Seq(Events)]
  <2>1. Head(events[s]) \in Events
    BY <1>2, <1>3, HeadTailProperties
  <2>2. [Head(events[s]) EXCEPT !.size = 0] \in Events
    BY <2>1, KindsOfEvents
  <2>3. published[s] \in Seq(Events) /\ published \in [Streams -> Seq(Events)]
    BY <1>1 DEF StreamsOK
  <2>4. Append(published[s], [Head(events[s]) EXCEPT !.size = 0]) \in Seq(Events)
    BY <2>2, <2>3, AppendProperties
  <2>5. QED
    BY <1>2, <2>3, <2>4
<1>8. rpc' \in [Streams -> HandlerStates]
  BY <1>1, <1>2 DEF StreamsOK, HandlerStates
<1>9. StreamsOK'
  BY <1>1, <1>2, <1>7, <1>8 DEF StreamsOK
<1>10. SlotsLimited'
  BY <1>1, <1>2 DEF SlotsLimited
<1>11. Lifecycle'
  BY <1>1, <1>2, <1>6 DEF Lifecycle, StreamsOK
<1>12. InFlight'
  BY <1>1, <1>2, <1>6 DEF InFlight, StreamsOK, Locked
<1>13. NoLostWakeup'
  BY <1>1, <1>2, <1>6 DEF NoLostWakeup, StreamsOK
<1>14. QED
  BY <1>5, <1>9, <1>10, <1>11, <1>12, <1>13 DEF IInv

LEMMA CloseQueueInvariant ==
  ASSUME IInv, NEW s \in Streams, CloseQueue(s)
  PROVE  IInv'
<1>1. FifoOK /\ StreamsOK /\ SlotsLimited /\ Lifecycle /\ InFlight /\ NoLostWakeup
  BY DEF IInv
<1>2. /\ producer[s] = "done" /\ rpc[s] = "joining"
      /\ rpc' = [rpc EXCEPT ![s] = "closed"]
      /\ used' = used - bytes[s] /\ bytes' = [bytes EXCEPT ![s] = 0]
      /\ events' = [events EXCEPT ![s] = <<>>]
      /\ drops' = [drops EXCEPT ![s] = [c \in Channels |-> NoDrop]]
      /\ finished' = finished \cup {s} /\ terminalReady' = terminalReady \cup {s}
      /\ terminal' = [terminal EXCEPT ![s] = {}]
      /\ terminalEvent' = [terminalEvent EXCEPT ![s] = <<>>]
      /\ published' = [published EXCEPT ![s] = <<>>]
      /\ UNCHANGED <<limit, slots, cancelled, outcome, producer, poll, remaining, capture,
                     captured, failure, notify>>
  BY DEF CloseQueue, ProducerStopped, ReleaseCharges, Handler, pollVars
<1>3. events[s] \in Seq(Events) /\ events \in [Streams -> Seq(Events)]
  BY <1>1 DEF FifoOK
<1>4. FifoOK'
  BY <1>1, <1>2, FifoClosed
<1>5. events'[s] = <<>> /\ \A r \in Streams \ {s} : events'[r] = events[r]
  BY <1>2, <1>3
<1>6. rpc' \in [Streams -> HandlerStates]
  BY <1>1, <1>2 DEF StreamsOK, HandlerStates
<1>7. drops' \in [Streams -> [Channels -> [first : Nat, last : Nat, count : Nat]]]
  <2>1. [c \in Channels |-> NoDrop] \in [Channels -> [first : Nat, last : Nat, count : Nat]]
    BY DEF NoDrop
  <2>2. QED
    BY <1>1, <1>2, <2>1 DEF StreamsOK
<1>8. /\ terminal' \in [Streams -> SUBSET Errors] /\ terminalEvent' \in [Streams -> Seq(Events)]
      /\ published' \in [Streams -> Seq(Events)]
  BY <1>1, <1>2 DEF StreamsOK
<1>9. StreamsOK'
  BY <1>1, <1>2, <1>6, <1>7, <1>8 DEF StreamsOK
<1>10. SlotsLimited'
  BY <1>1, <1>2 DEF SlotsLimited
<1>11. Lifecycle'
  BY <1>1, <1>2, <1>5 DEF Lifecycle, StreamsOK
<1>12. InFlight'
  BY <1>1, <1>2, <1>5 DEF InFlight, StreamsOK
<1>13. NoLostWakeup'
  BY <1>1, <1>2, <1>5 DEF NoLostWakeup, StreamsOK
<1>14. QED
  BY <1>4, <1>9, <1>10, <1>11, <1>12, <1>13 DEF IInv

LEMMA PrepareGapInvariant ==
  ASSUME IInv, NEW s \in Streams, PrepareGap(s)
  PROVE  IInv'
<1>1. FifoOK /\ StreamsOK /\ SlotsLimited /\ Lifecycle /\ InFlight /\ NoLostWakeup
  BY DEF IInv
<1>2. /\ rpc[s] = "ready" /\ ~Locked(s)
      /\ UNCHANGED <<limit, slots, cancelled, rpc, outcome, producer, poll, remaining, capture,
                     captured, failure, finished, terminalEvent, notify, published>>
  BY DEF PrepareGap, PreparesTerminal, rpcVars, pollVars
<1>3. events[s] \in Seq(Events) /\ events \in [Streams -> Seq(Events)]
  BY <1>1 DEF FifoOK
<1>4. PICK c \in Channels :
        LET gap == GapEvent(c, drops[s][c])
            errors == AppendErrors(s, gap)
        IN \/ /\ errors = {}
              /\ AppendEvent(s, gap)
              /\ drops' = [drops EXCEPT ![s][c] = NoDrop]
              /\ UNCHANGED <<terminal, terminalReady>>
           \/ /\ errors # {}
              /\ TerminalFails(s, errors)
              /\ UNCHANGED drops
  BY DEF PrepareGap
<1> DEFINE gap == GapEvent(c, drops[s][c])
           errors == AppendErrors(s, gap)
<1>5. gap \in Events /\ ~IsState(gap)
  BY <1>1, KindsOfEvents DEF StreamsOK
<1>6. errors \in SUBSET Errors
  BY ErrorsOfAppend DEF Errors
<1>7. SlotsLimited'
  BY <1>1, <1>2 DEF SlotsLimited
<1> HIDE DEF gap, errors
<1>8. CASE errors = {}
  <2>1. /\ AppendErrors(s, gap) = {} /\ AppendEvent(s, gap)
        /\ drops' = [drops EXCEPT ![s][c] = NoDrop] /\ UNCHANGED <<terminal, terminalReady>>
    BY <1>4, <1>8 DEF gap, errors
  <2>2. FifoOK' /\ events' = [events EXCEPT ![s] = Append(events[s], gap)]
    BY <1>1, <1>5, <2>1, FifoAppended
  <2>3. \A r \in Streams \ {s} : events'[r] = events[r]
    BY <1>3, <2>2
  <2>4. drops' \in [Streams -> [Channels -> [first : Nat, last : Nat, count : Nat]]]
    BY <1>1, <2>1, DropForgotten
  <2>5. StreamsOK'
    BY <1>1, <1>2, <2>1, <2>4 DEF StreamsOK
  <2>6. Lifecycle'
    BY <1>1, <1>2, <2>3 DEF Lifecycle, StreamsOK
  <2>7. InFlight'
    BY <1>1, <1>2, <2>3 DEF InFlight, StreamsOK, Locked
  <2>8. NoLostWakeup'
    BY <1>1, <1>2, <2>3 DEF NoLostWakeup, StreamsOK
  <2>9. QED
    BY <1>7, <2>2, <2>5, <2>6, <2>7, <2>8 DEF IInv
<1>9. CASE errors # {}
  <2>1. /\ terminal' = [terminal EXCEPT ![s] = @ \cup errors]
        /\ terminalReady' = terminalReady \cup {s}
        /\ UNCHANGED <<used, events, bytes, drops>>
    BY <1>4, <1>9 DEF gap, errors, TerminalFails, fifoVars
  <2>2. FifoOK'
    BY <1>1, <2>1, FifoKept DEF fifoVars
  <2>3. StreamsOK'
    BY <1>1, <1>2, <1>6, <2>1 DEF StreamsOK
  <2>4. Lifecycle' /\ InFlight' /\ NoLostWakeup'
    BY <1>1, <1>2, <2>1 DEF Lifecycle, InFlight, NoLostWakeup, StreamsOK
  <2>5. QED
    BY <1>7, <2>2, <2>3, <2>4 DEF IInv
<1>10. QED
  BY <1>8, <1>9

LEMMA PrepareTerminalEventInvariant ==
  ASSUME IInv, NEW s \in Streams, PrepareTerminalEvent(s)
  PROVE  IInv'
<1>1. FifoOK /\ StreamsOK /\ SlotsLimited /\ Lifecycle /\ InFlight /\ NoLostWakeup
  BY DEF IInv
<1>2. /\ rpc[s] = "ready" /\ ~Locked(s)
      /\ UNCHANGED <<limit, slots, cancelled, rpc, outcome, producer, poll, remaining, capture,
                     captured, failure, drops, finished, notify, published>>
  BY DEF PrepareTerminalEvent, PreparesTerminal, rpcVars, pollVars
<1>3. events[s] \in Seq(Events) /\ events \in [Streams -> Seq(Events)]
  BY <1>1 DEF FifoOK
<1> DEFINE event == Head(terminalEvent[s])
           errors == AppendErrors(s, event)
<1>4. \/ /\ terminalReady' = terminalReady \cup {s}
         /\ UNCHANGED <<used, events, bytes, terminal, terminalEvent>>
      \/ /\ terminalEvent[s] # <<>> /\ errors = {}
         /\ AppendEvent(s, event)
         /\ terminalEvent' = [terminalEvent EXCEPT ![s] = <<>>]
         /\ terminalReady' = terminalReady \cup {s}
         /\ UNCHANGED terminal
      \/ /\ terminal' = [terminal EXCEPT ![s] = @ \cup errors]
         /\ terminalReady' = terminalReady \cup {s}
         /\ UNCHANGED <<used, events, bytes, terminalEvent>>
  BY DEF PrepareTerminalEvent, TerminalFails, fifoVars
<1>5. terminalEvent[s] # <<>> => event \in Events /\ ~IsState(event)
  <2>1. HAVE terminalEvent[s] # <<>>
  <2>2. event \in Events
    BY <1>1, <2>1, HeadTailProperties DEF StreamsOK
  <2>3. event.kind = "error"
    BY <1>1, <2>1 DEF InFlight
  <2>4. QED
    BY <2>2, <2>3 DEF IsState
<1>6. errors \in SUBSET Errors
  BY ErrorsOfAppend DEF Errors
<1>7. SlotsLimited'
  BY <1>1, <1>2 DEF SlotsLimited
<1> HIDE DEF event, errors
<1>8. CASE /\ terminalReady' = terminalReady \cup {s}
           /\ UNCHANGED <<used, events, bytes, terminal, terminalEvent>>
  <2>1. FifoOK'
    BY <1>1, <1>8, FifoKept DEF fifoVars
  <2>2. StreamsOK'
    BY <1>1, <1>2, <1>8 DEF StreamsOK
  <2>3. Lifecycle' /\ InFlight' /\ NoLostWakeup'
    BY <1>1, <1>2, <1>8 DEF Lifecycle, InFlight, NoLostWakeup, StreamsOK
  <2>4. QED
    BY <1>7, <2>1, <2>2, <2>3 DEF IInv
<1>9. CASE /\ terminalEvent[s] # <<>> /\ errors = {}
           /\ AppendEvent(s, event)
           /\ terminalEvent' = [terminalEvent EXCEPT ![s] = <<>>]
           /\ terminalReady' = terminalReady \cup {s}
           /\ UNCHANGED terminal
  <2>1. FifoOK' /\ events' = [events EXCEPT ![s] = Append(events[s], event)]
    BY <1>1, <1>5, <1>9, FifoAppended DEF errors
  <2>2. \A r \in Streams \ {s} : events'[r] = events[r]
    BY <1>3, <2>1
  <2>3. terminalEvent' \in [Streams -> Seq(Events)]
    BY <1>1, <1>9 DEF StreamsOK
  <2>4. StreamsOK'
    BY <1>1, <1>2, <1>9, <2>3 DEF StreamsOK
  <2>5. Lifecycle'
    BY <1>1, <1>2, <2>2 DEF Lifecycle, StreamsOK
  <2>6. InFlight'
    BY <1>1, <1>2, <1>9, <2>2 DEF InFlight, StreamsOK, Locked
  <2>7. NoLostWakeup'
    BY <1>1, <1>2, <2>2 DEF NoLostWakeup, StreamsOK
  <2>8. QED
    BY <1>7, <2>1, <2>4, <2>5, <2>6, <2>7 DEF IInv
<1>10. CASE /\ terminal' = [terminal EXCEPT ![s] = @ \cup errors]
            /\ terminalReady' = terminalReady \cup {s}
            /\ UNCHANGED <<used, events, bytes, terminalEvent>>
  <2>1. FifoOK'
    BY <1>1, <1>10, FifoKept DEF fifoVars
  <2>2. StreamsOK'
    BY <1>1, <1>2, <1>6, <1>10 DEF StreamsOK
  <2>3. Lifecycle' /\ InFlight' /\ NoLostWakeup'
    BY <1>1, <1>2, <1>10 DEF Lifecycle, InFlight, NoLostWakeup, StreamsOK
  <2>4. QED
    BY <1>7, <2>1, <2>2, <2>3 DEF IInv
<1>11. QED
  BY <1>4, <1>8, <1>9, <1>10

LEMMA StutterInvariant ==
  ASSUME IInv, UNCHANGED vars
  PROVE  IInv'
<1>1. FifoOK /\ StreamsOK /\ SlotsLimited /\ Lifecycle /\ InFlight /\ NoLostWakeup
  BY DEF IInv
<1>2. FifoOK'
  BY <1>1, FifoKept DEF vars
<1>3. StreamsOK' /\ SlotsLimited'
  BY <1>1 DEF StreamsOK, SlotsLimited, vars, rpcVars, pollVars, terminalVars
<1>4. Lifecycle' /\ InFlight' /\ NoLostWakeup'
  BY <1>1 DEF Lifecycle, InFlight, NoLostWakeup, vars, rpcVars, pollVars, fifoVars,
     terminalVars
<1>5. QED
  BY <1>2, <1>3, <1>4 DEF IInv

LEMMA StepInvariant == IInv /\ [Next]_vars => IInv'
<1> SUFFICES ASSUME IInv, [Next]_vars PROVE IInv'
  OBVIOUS
<1>1. CASE UNCHANGED vars
  BY <1>1, StutterInvariant
<1>2. ASSUME NEW s \in Streams, Producer(s) PROVE IInv'
  BY <1>2, AdmitInvariant, AdmitRefusedInvariant, InstrumentFailsInvariant,
     CoalesceStateInvariant, AppendStateInvariant, CaptureWaveformInvariant,
     AppendGapInvariant, AppendWaveformInvariant, NextPollInvariant,
     FinishWithErrorInvariant, FinishCancelledInvariant DEF Producer
<1>3. ASSUME NEW s \in Streams, Serve(s) PROVE IInv'
  BY <1>3, PrepareGapInvariant, PrepareTerminalEventInvariant, DequeueInvariant,
     ReturnTerminalInvariant, WaitForEventInvariant, NotifiedInvariant,
     WaitCancelledInvariant, CancelProducerInvariant, CloseQueueInvariant,
     ReleaseSlotInvariant DEF Serve
<1>4. ASSUME NEW s \in Streams,
             \/ Subscribe(s) \/ SubscribeRefused(s) \/ SendReturns(s) \/ SendFails(s)
             \/ ClientCancels(s)
      PROVE  IInv'
  BY <1>4, SubscribeInvariant, SubscribeRefusedInvariant, SendReturnsInvariant,
     SendFailsInvariant, ClientCancelsInvariant
<1>5. CASE Finished
  BY <1>5, StutterInvariant DEF Finished
<1>6. QED
  BY <1>1, <1>2, <1>3, <1>4, <1>5 DEF Next

\* The invariant holds of every behaviour.
THEOREM Invariance == Spec => []IInv
<1>1. Init => IInv
  BY InitInvariant
<1>2. IInv /\ [Next]_vars => IInv'
  BY StepInvariant
<1>3. QED
  BY <1>1, <1>2, PTL DEF Spec

-----------------------------------------------------------------------------
(* What it means                                                           *)

LEMMA InvariantImpliesQueueConsistent == IInv => QueueConsistent
<1> SUFFICES ASSUME IInv PROVE QueueConsistent
  OBVIOUS
<1>1. FifoOK /\ StreamsOK /\ NoLostWakeup
  BY DEF IInv
<1>2. TypeOK
  BY <1>1 DEF TypeOK, FifoOK, StreamsOK
<1>3. QED
  BY <1>1, <1>2 DEF QueueConsistent

LEMMA InvariantImpliesBudgetCovered == IInv => BudgetCovered
<1> SUFFICES ASSUME IInv PROVE BudgetCovered
  OBVIOUS
<1>1. BudgetExact /\ SlotsLimited /\ Lifecycle /\ StreamsOK
  BY DEF IInv, FifoOK
<1>2. \A s \in Streams \ slots : producer[s] \in {"new", "done"} /\ events[s] = <<>>
  BY <1>1 DEF Lifecycle, StreamsOK
<1>3. \A s \in Streams \ slots : bytes[s] = 0
  BY <1>1, <1>2, QueueEmpty DEF BudgetExact
<1>4. \A s \in finished : producer[s] \notin {"state", "coalesced", "captured", "gapped"}
  BY <1>1 DEF Lifecycle, StreamsOK
<1>5. QED
  BY <1>1, <1>2, <1>3, <1>4 DEF BudgetCovered, SlotCoversStream, SlotsLimited

\* Every queue keeps its limits of events and bytes, one pending state at most, and
\* a handler that waits without a token has nothing to read
\* (subscription_queue.go, appendLocked, next and finish).
THEOREM QueuesAreConsistent == Spec => []QueueConsistent
<1>1. Spec => []IInv
  BY Invariance
<1>2. IInv => QueueConsistent
  BY InvariantImpliesQueueConsistent
<1>3. QED
  BY <1>1, <1>2, PTL

\* The server-wide budget is the sum of what the queues hold, so no release exceeds
\* it, and only streams with a slot poll or hold anything
\* (subscription_queue.go, reserve and release; subscription.go, Subscribe).
THEOREM BudgetIsCovered == Spec => []BudgetCovered
<1>1. Spec => []IInv
  BY Invariance
<1>2. IInv => BudgetCovered
  BY InvariantImpliesBudgetCovered
<1>3. QED
  BY <1>1, <1>2, PTL

-----------------------------------------------------------------------------
(* What a history tells. ToldBy is read off the last event of a channel, so   *)
(* nothing here needs an induction: a history changes by an append, or by the *)
(* removal of an event that is told to nobody.                                *)

\* m is the last of the first n events to tell of channel c.
LastOf(q, c, m, n) ==
  /\ m \in 1..n /\ q[m].channel = c
  /\ \A i \in 1..n : i > m => q[i].channel # c

\* A set of places in a sequence has a last one.
LEMMA LastPlace ==
  ASSUME NEW n \in Nat, NEW R \in SUBSET (1..n), R # {}
  PROVE  \E m \in R : \A i \in R : i <= m
<1> DEFINE D == {k \in Nat : \E i \in R : k = n - i}
<1>1. PICK i \in R : TRUE
  OBVIOUS
<1>2. n - i \in D /\ D \in SUBSET Nat
  BY <1>1
<1>3. IsWellFoundedOn(OpToRel(<, Nat), Nat)
  BY NatLessThanWellFounded
<1> HIDE DEF D
<1>4. PICK k \in D : \A j \in D : ~ (<<j, k>> \in OpToRel(<, Nat))
  BY <1>2, <1>3, WFMin
<1>5. k \in Nat /\ \A j \in D : j \in Nat /\ ~ (j < k)
  BY <1>2, <1>4 DEF OpToRel
<1>6. PICK m \in R : k = n - m
  BY <1>4 DEF D
<1>7. \A j \in R : n - j \in D
  BY DEF D
<1>8. \A j \in R : j <= m
  BY <1>5, <1>6, <1>7
<1>9. QED
  BY <1>8

\* What is told is what the last event says, or nothing.
LEMMA ToldByLast ==
  ASSUME NEW q, NEW c, NEW n \in Nat, NEW m, LastOf(q, c, m, n)
  PROVE  ToldBy(q, c, n) = q[m].last
<1> DEFINE R == Reports(q, c, n)
<1>1. m \in R /\ \A i \in R : i \in 1..n /\ m >= i
  BY DEF LastOf, Reports
<1> HIDE DEF R
<1>2. \A x \in R : (\A y \in R : x >= y) => x = m
  BY <1>1
<1>3. Max(R) = m
  BY <1>1, <1>2 DEF Max
<1>4. R # {}
  BY <1>1
<1>5. QED
  BY <1>3, <1>4 DEF ToldBy, R

LEMMA ToldByNone ==
  ASSUME NEW q, NEW c, NEW n, \A i \in 1..n : q[i].channel # c
  PROVE  ToldBy(q, c, n) = 0
<1>1. Reports(q, c, n) = {}
  BY DEF Reports
<1>2. QED
  BY <1>1 DEF ToldBy

LEMMA ToldByCases ==
  ASSUME NEW q, NEW c, NEW n \in Nat
  PROVE  \/ \A i \in 1..n : q[i].channel # c
         \/ \E m \in 1..n : LastOf(q, c, m, n)
<1> DEFINE R == Reports(q, c, n)
<1>1. R \in SUBSET (1..n) /\ \A i \in 1..n : i \in R <=> q[i].channel = c
  BY DEF Reports
<1> HIDE DEF R
<1>2. CASE R = {}
  BY <1>1, <1>2
<1>3. CASE R # {}
  <2>1. PICK m \in R : \A i \in R : i <= m
    BY <1>1, <1>3, LastPlace
  <2>2. LastOf(q, c, m, n)
    BY <1>1, <2>1 DEF LastOf
  <2>3. QED
    BY <1>1, <2>1, <2>2
<1>4. QED
  BY <1>2, <1>3

LEMMA ToldByType ==
  ASSUME NEW q \in Seq(Events), NEW c, NEW n \in 0..Len(q)
  PROVE  ToldBy(q, c, n) \in Nat
<1>0. Len(q) \in Nat /\ n \in Nat /\ \A i \in 1..Len(q) : q[i] \in Events
  BY EventSizes
<1>1. Len(q) \in Nat /\ n \in Nat /\ n <= Len(q) /\ \A i \in 1..Len(q) : q[i].last \in Nat
  BY <1>0 DEF Events
<1>2. CASE \A i \in 1..n : q[i].channel # c
  BY <1>2, ToldByNone
<1>3. CASE \E m \in 1..n : LastOf(q, c, m, n)
  <2>1. PICK m \in 1..n : LastOf(q, c, m, n)
    BY <1>3
  <2>2. m \in 1..Len(q)
    BY <1>1
  <2>3. QED
    BY <1>1, <2>1, <2>2, ToldByLast
<1>4. QED
  BY <1>1, <1>2, <1>3, ToldByCases

\* Two events that tell the same, whatever they are charged.
SameEvent(a, b) ==
  a.kind = b.kind /\ a.channel = b.channel /\ a.first = b.first /\ a.last = b.last

\* r is what f selects of q, in the order of q; what it leaves out are states.
Embeds(f, r, q) ==
  /\ r \in Seq(Events) /\ q \in Seq(Events)
  /\ f \in [1..Len(r) -> 1..Len(q)]
  /\ \A i, j \in 1..Len(r) : i < j => f[i] < f[j]
  /\ \A i \in 1..Len(r) : SameEvent(r[i], q[f[i]])
  /\ \A i \in 1..Len(q) : (\A j \in 1..Len(r) : f[j] # i) => q[i].channel = NoChannel

\* The first n of r are what f selects of the first m of q.
LEMMA ToldByEmbedded ==
  ASSUME NEW f, NEW r, NEW q, Embeds(f, r, q), NEW c \in Channels,
         NEW n \in 0..Len(r), NEW m \in 0..Len(q),
         \A j \in 1..Len(r) : j <= n <=> f[j] <= m
  PROVE  ToldBy(r, c, n) = ToldBy(q, c, m)
<1>1. /\ Len(r) \in Nat /\ Len(q) \in Nat /\ n \in Nat /\ m \in Nat
      /\ n <= Len(r) /\ m <= Len(q)
  BY EventSizes DEF Embeds
<1>2. c # NoChannel
  BY NoChannelRequested
<1>3. /\ \A j \in 1..Len(r) : f[j] \in 1..Len(q) /\ SameEvent(r[j], q[f[j]])
      /\ \A i, j \in 1..Len(r) : i < j => f[i] < f[j]
      /\ \A i \in 1..Len(q) : q[i].channel = c => \E j \in 1..Len(r) : f[j] = i
  BY <1>2 DEF Embeds
<1>4. CASE \A j \in 1..n : r[j].channel # c
  <2>1. ASSUME NEW i \in 1..m, q[i].channel = c PROVE FALSE
    <3>1. PICK j \in 1..Len(r) : f[j] = i
      BY <1>1, <1>3, <2>1
    <3>2. j \in 1..n /\ r[j].channel = c
      BY <1>1, <1>3, <2>1, <3>1 DEF SameEvent
    <3>3. QED
      BY <1>4, <3>2
  <2>2. QED
    BY <1>4, <2>1, ToldByNone
<1>5. CASE \E j \in 1..n : LastOf(r, c, j, n)
  <2>1. PICK j \in 1..n : LastOf(r, c, j, n)
    BY <1>5
  <2>2. j \in 1..Len(r) /\ r[j].channel = c /\ f[j] \in 1..m
    BY <1>1, <1>3, <2>1 DEF LastOf
  <2>3. ASSUME NEW i \in 1..m, i > f[j], q[i].channel = c PROVE FALSE
    <3>1. PICK k \in 1..Len(r) : f[k] = i
      BY <1>1, <1>3, <2>3
    <3>2. k \in 1..n /\ r[k].channel = c
      BY <1>1, <1>3, <2>3, <3>1 DEF SameEvent
    <3>3. k > j
      <4>1. f[j] \in Int /\ f[k] \in Int /\ f[j] < f[k]
        BY <2>2, <2>3, <3>1
      <4>2. j # k /\ ~ (k < j)
        BY <1>3, <2>2, <4>1
      <4>3. QED
        BY <2>2, <4>2
    <3>4. QED
      BY <2>1, <3>2, <3>3 DEF LastOf
  <2>4. q[f[j]].channel = c /\ q[f[j]].last = r[j].last
    BY <1>3, <2>2 DEF SameEvent
  <2>5. LastOf(q, c, f[j], m)
    BY <2>2, <2>3, <2>4 DEF LastOf
  <2>6. QED
    BY <1>1, <2>1, <2>4, <2>5, ToldByLast
<1>6. QED
  BY <1>1, <1>4, <1>5, ToldByCases

\* The reports of a channel follow one another.
Chains(q, c) ==
  \A i \in Reports(q, c, Len(q)) : q[i].first = ToldBy(q, c, i - 1) + 1

TellsOf(q, c) == ToldBy(q, c, Len(q))

LEMMA EmbeddedChains ==
  ASSUME NEW f, NEW r, NEW q, Embeds(f, r, q), NEW c \in Channels
  PROVE  /\ TellsOf(r, c) = TellsOf(q, c)
         /\ Chains(q, c) => Chains(r, c)
<1>1. Len(r) \in Nat /\ Len(q) \in Nat
  BY EventSizes DEF Embeds
<1>2. /\ \A j \in 1..Len(r) : f[j] \in 1..Len(q) /\ SameEvent(r[j], q[f[j]])
      /\ \A i, j \in 1..Len(r) : i < j => f[i] < f[j]
  BY DEF Embeds
<1>3. TellsOf(r, c) = TellsOf(q, c)
  <2>1. \A j \in 1..Len(r) : j <= Len(r) <=> f[j] <= Len(q)
    BY <1>1, <1>2
  <2>2. Len(r) \in 0..Len(r) /\ Len(q) \in 0..Len(q)
    BY <1>1
  <2>3. QED
    BY <2>1, <2>2, ToldByEmbedded DEF TellsOf
<1>4. ASSUME Chains(q, c), NEW i \in Reports(r, c, Len(r))
      PROVE  r[i].first = ToldBy(r, c, i - 1) + 1
  <2>1. i \in 1..Len(r) /\ r[i].channel = c
    BY DEF Reports
  <2>2. f[i] \in 1..Len(q) /\ q[f[i]].channel = c /\ q[f[i]].first = r[i].first
    BY <1>2, <2>1 DEF SameEvent
  <2>3. r[i].first = ToldBy(q, c, f[i] - 1) + 1
    BY <1>4, <2>2 DEF Chains, Reports
  <2>4. \A j \in 1..Len(r) : j <= i - 1 <=> f[j] <= f[i] - 1
    <3>1. TAKE j \in 1..Len(r)
    <3>2. f[j] \in Int /\ f[i] \in Int /\ j \in Int /\ i \in Int
      BY <1>2, <2>1
    <3>3. (j < i => f[j] < f[i]) /\ (i < j => f[i] < f[j])
      BY <1>2, <2>1
    <3>4. QED
      BY <3>2, <3>3
  <2>5. i - 1 \in 0..Len(r) /\ f[i] - 1 \in 0..Len(q)
    BY <1>1, <2>1, <2>2
  <2>6. ToldBy(r, c, i - 1) = ToldBy(q, c, f[i] - 1)
    BY <2>4, <2>5, ToldByEmbedded
  <2>7. QED
    BY <2>3, <2>6
<1>5. QED
  BY <1>3, <1>4 DEF Chains

\* An event is told after everything before it.
LEMMA AppendedChains ==
  ASSUME NEW q \in Seq(Events), NEW event \in Events, NEW c
  PROVE  /\ TellsOf(Append(q, event), c)
              = IF event.channel = c THEN event.last ELSE TellsOf(q, c)
         /\ Chains(q, c) /\ (event.channel = c => event.first = TellsOf(q, c) + 1)
              => Chains(Append(q, event), c)
<1> DEFINE r == Append(q, event)
           n == Len(q)
<1>1. n \in Nat /\ Len(r) = n + 1 /\ r[n + 1] = event /\ \A i \in 1..n : r[i] = q[i]
  BY AppendProperties, LenProperties
<1> HIDE DEF r
<1>2. ASSUME NEW k \in 0..n PROVE ToldBy(r, c, k) = ToldBy(q, c, k)
  <2>1. \A i \in 1..k : r[i] = q[i]
    BY <1>1
  <2>2. k \in Nat
    BY <1>1
  <2>3. CASE \A i \in 1..k : q[i].channel # c
    BY <2>1, <2>3, ToldByNone
  <2>4. CASE \E m \in 1..k : LastOf(q, c, m, k)
    <3>1. PICK m \in 1..k : LastOf(q, c, m, k)
      BY <2>4
    <3>2. LastOf(r, c, m, k)
      BY <2>1, <3>1 DEF LastOf
    <3>3. QED
      BY <2>1, <2>2, <3>1, <3>2, ToldByLast
  <2>5. QED
    BY <2>2, <2>3, <2>4, ToldByCases
<1>3. TellsOf(r, c) = IF event.channel = c THEN event.last ELSE TellsOf(q, c)
  <2>1. CASE event.channel = c
    <3>1. LastOf(r, c, n + 1, n + 1)
      BY <1>1, <2>1 DEF LastOf
    <3>2. QED
      BY <1>1, <2>1, <3>1, ToldByLast DEF TellsOf
  <2>2. CASE event.channel # c
    <3>1. Reports(r, c, n + 1) = Reports(r, c, n)
      BY <1>1, <2>2 DEF Reports
    <3>2. ToldBy(r, c, n + 1) = ToldBy(r, c, n)
      BY <3>1 DEF ToldBy
    <3>3. n \in 0..n
      BY <1>1
    <3>4. QED
      BY <1>1, <1>2, <2>2, <3>2, <3>3 DEF TellsOf
  <2>3. QED
    BY <2>1, <2>2
<1>4. ASSUME Chains(q, c), event.channel = c => event.first = TellsOf(q, c) + 1,
             NEW i \in Reports(r, c, Len(r))
      PROVE  r[i].first = ToldBy(r, c, i - 1) + 1
  <2>1. i \in 1..(n + 1) /\ r[i].channel = c /\ i - 1 \in 0..n
    BY <1>1 DEF Reports
  <2>2. ToldBy(r, c, i - 1) = ToldBy(q, c, i - 1)
    BY <1>2, <2>1
  <2>3. CASE i = n + 1
    <3>1. i - 1 = n
      BY <1>1, <2>3
    <3>2. QED
      BY <1>1, <1>4, <2>1, <2>2, <2>3, <3>1 DEF TellsOf
  <2>4. CASE i # n + 1
    <3>1. i \in 1..n
      BY <1>1, <2>1, <2>4
    <3>2. i \in Reports(q, c, Len(q))
      BY <1>1, <2>1, <3>1 DEF Reports
    <3>3. QED
      BY <1>1, <1>4, <2>2, <3>1, <3>2 DEF Chains
  <2>5. QED
    BY <2>3, <2>4
<1>5. QED
  BY <1>3, <1>4 DEF Chains, r

-----------------------------------------------------------------------------
(* The order of a history.                                                   *)

\* The requested channels, once each.
LEMMA RequestedOnce ==
  ASSUME NEW s \in Streams
  PROVE  /\ Len(WaveformChannels[s]) \in Nat
         /\ DOMAIN WaveformChannels[s] = 1..Len(WaveformChannels[s])
         /\ \A k \in 1..Len(WaveformChannels[s]) :
              WaveformChannels[s][k] \in Channels /\ WaveformChannels[s][k] # NoChannel
         /\ \A j, k \in 1..Len(WaveformChannels[s]) :
              WaveformChannels[s][j] = WaveformChannels[s][k] => j = k
<1>1. WaveformChannels[s] \in Seq(Channels)
  BY ChannelsRequested
<1>2. /\ Len(WaveformChannels[s]) \in Nat
      /\ DOMAIN WaveformChannels[s] = 1..Len(WaveformChannels[s])
      /\ \A k \in 1..Len(WaveformChannels[s]) : WaveformChannels[s][k] \in Channels
  BY <1>1, LenProperties, ElementOfSeq
<1>3. IsInjective(WaveformChannels[s])
  BY SubscriptionAssumption
<1>4. QED
  BY <1>2, <1>3, NoChannelRequested DEF IsInjective

LEMMA PlaceOfEvent ==
  ASSUME NEW s \in Streams, NEW event
  PROVE  /\ Place(s, event) \in Nat
         /\ event.channel = NoChannel => Place(s, event) = 0
         /\ \A k \in 1..Len(WaveformChannels[s]) :
              event.channel = WaveformChannels[s][k] => Place(s, event) = k
<1> DEFINE W == WaveformChannels[s]
           I == {i \in 1..Len(W) : W[i] = event.channel}
<1>1. Place(s, event) = IF I # {} THEN Min(I) ELSE 0
  BY DEF Place, SelectInSeq
<1>2. /\ Len(W) \in Nat /\ \A k \in 1..Len(W) : W[k] # NoChannel
      /\ \A j, k \in 1..Len(W) : W[j] = W[k] => j = k
  BY RequestedOnce
<1>3. ASSUME NEW k \in 1..Len(W), event.channel = W[k]
      PROVE  Place(s, event) = k
  <2>1. I = {k}
    BY <1>2, <1>3
  <2>2. k \in Nat
    BY <1>2
  <2> HIDE DEF I
  <2>3. Min(I) = k
    BY <2>1, <2>2 DEF Min
  <2>4. QED
    BY <1>1, <2>1, <2>3
<1>4. event.channel = NoChannel => I = {}
  BY <1>2
<1>5. CASE I = {}
  BY <1>1, <1>3, <1>4, <1>5
<1>6. CASE I # {}
  <2>1. PICK k \in 1..Len(W) : event.channel = W[k]
    BY <1>6
  <2>2. Place(s, event) = k /\ k \in Nat
    BY <1>2, <1>3, <2>1
  <2>3. QED
    BY <1>2, <1>3, <1>4, <1>6, <2>2
<1>7. QED
  BY <1>5, <1>6

LEMMA PlaceIsOfChannel ==
  ASSUME NEW s, NEW a, NEW b, a.channel = b.channel
  PROVE  Place(s, a) = Place(s, b)
  BY DEF Place, SelectInSeq

\* The states and the waveforms of a history are in production order.
InOrder(s, q) ==
  \A i, j \in 1..Len(q) :
    i < j /\ ~Critical(q[i]) /\ ~Critical(q[j]) => ProducedBefore(s, q[i], q[j])

\* They were produced before poll n, or in it, and then from one of the first k
\* channels.
Within(s, event, n, k) ==
  event.last < n \/ (event.last = n /\ Place(s, event) <= k)
ProducedUpTo(s, q, n, k) ==
  \A i \in 1..Len(q) : ~Critical(q[i]) => Within(s, q[i], n, k)

LEMMA EmbeddedOrder ==
  ASSUME NEW f, NEW r, NEW q, Embeds(f, r, q), NEW s \in Streams
  PROVE  /\ InOrder(s, q) => InOrder(s, r)
         /\ \A n, k \in Int : ProducedUpTo(s, q, n, k) => ProducedUpTo(s, r, n, k)
<1>1. /\ \A j \in 1..Len(r) : f[j] \in 1..Len(q) /\ SameEvent(r[j], q[f[j]])
      /\ \A i, j \in 1..Len(r) : i < j => f[i] < f[j]
  BY DEF Embeds
<1>2. \A j \in 1..Len(r) : /\ Critical(r[j]) <=> Critical(q[f[j]])
                           /\ r[j].last = q[f[j]].last
                           /\ Place(s, r[j]) = Place(s, q[f[j]])
  BY <1>1, PlaceIsOfChannel DEF SameEvent, Critical
<1>3. ASSUME InOrder(s, q), NEW i \in 1..Len(r), NEW j \in 1..Len(r),
             i < j, ~Critical(r[i]), ~Critical(r[j])
      PROVE  ProducedBefore(s, r[i], r[j])
  <2>1. ProducedBefore(s, q[f[i]], q[f[j]])
    BY <1>1, <1>2, <1>3 DEF InOrder
  <2>2. QED
    BY <1>2, <2>1 DEF ProducedBefore
<1>4. ASSUME NEW n \in Int, NEW k \in Int, ProducedUpTo(s, q, n, k), NEW i \in 1..Len(r),
             ~Critical(r[i])
      PROVE  Within(s, r[i], n, k)
  <2>1. Within(s, q[f[i]], n, k)
    BY <1>1, <1>2, <1>4 DEF ProducedUpTo
  <2>2. QED
    BY <1>2, <2>1 DEF Within
<1>5. QED
  BY <1>3, <1>4 DEF InOrder, ProducedUpTo

\* What is produced next is told last.
LEMMA AppendedOrder ==
  ASSUME NEW s \in Streams, NEW q \in Seq(Events), NEW event \in Events, InOrder(s, q),
         NEW n \in Nat, NEW k \in Int, ProducedUpTo(s, q, n, k),
         ~Critical(event) => event.last = n /\ Place(s, event) > k
  PROVE  /\ InOrder(s, Append(q, event))
         /\ ~Critical(event) => ProducedUpTo(s, Append(q, event), n, Place(s, event))
         /\ Critical(event) => ProducedUpTo(s, Append(q, event), n, k)
<1> DEFINE r == Append(q, event)
           m == Len(q)
<1>1. /\ m \in Nat /\ Len(r) = m + 1 /\ r[m + 1] = event /\ \A i \in 1..m : r[i] = q[i]
      /\ \A i \in 1..m : q[i] \in Events
  BY AppendProperties, LenProperties, ElementOfSeq
<1> HIDE DEF r, m
<1>2. \A i \in 1..m : q[i].last \in Nat /\ Place(s, q[i]) \in Nat
  BY <1>1, PlaceOfEvent DEF Events
<1>3. \A i \in 1..m : ~Critical(q[i]) => Within(s, q[i], n, k)
  BY DEF ProducedUpTo, m
<1>4. Place(s, event) \in Nat
  BY PlaceOfEvent
<1>5. ASSUME NEW i \in 1..(m + 1), NEW j \in 1..(m + 1), i < j, ~Critical(r[i]), ~Critical(r[j])
      PROVE  ProducedBefore(s, r[i], r[j])
  <2>1. i \in 1..m
    BY <1>1, <1>5
  <2>2. CASE j \in 1..m
    BY <1>1, <1>5, <2>1, <2>2 DEF InOrder, m
  <2>3. CASE j \notin 1..m
    <3>1. j = m + 1
      BY <1>1, <2>3
    <3>2. Within(s, q[i], n, k) /\ event.last = n /\ Place(s, event) > k
      BY <1>1, <1>3, <1>5, <2>1, <3>1
    <3>3. ProducedBefore(s, q[i], event)
      BY <1>2, <1>4, <2>1, <3>2 DEF Within, ProducedBefore
    <3>4. QED
      BY <1>1, <2>1, <3>1, <3>3
  <2>4. QED
    BY <2>2, <2>3
<1>6. InOrder(s, r)
  BY <1>1, <1>5 DEF InOrder
<1>7. ASSUME ~Critical(event), NEW i \in 1..(m + 1), ~Critical(r[i])
      PROVE  Within(s, r[i], n, Place(s, event))
  <2>1. CASE i = m + 1
    BY <1>1, <1>4, <1>7, <2>1 DEF Within
  <2>2. CASE i # m + 1
    <3>1. i \in 1..m /\ r[i] = q[i]
      BY <1>1, <2>2
    <3>2. Within(s, q[i], n, k) /\ Place(s, event) > k
      BY <1>3, <1>7, <3>1
    <3>3. QED
      BY <1>2, <1>4, <3>1, <3>2 DEF Within
  <2>3. QED
    BY <2>1, <2>2
<1>8. ASSUME Critical(event), NEW i \in 1..(m + 1), ~Critical(r[i])
      PROVE  Within(s, r[i], n, k)
  <2>1. i \in 1..m
    BY <1>1, <1>8
  <2>2. QED
    BY <1>1, <1>3, <1>8, <2>1
<1>9. QED
  BY <1>1, <1>6, <1>7, <1>8 DEF ProducedUpTo, r

LEMMA ProducedLater ==
  ASSUME NEW s \in Streams, NEW q \in Seq(Events), NEW n \in Int, NEW k \in Int, ProducedUpTo(s, q, n, k)
  PROVE  /\ \A j \in Int : ProducedUpTo(s, q, n + 1, j)
         /\ \A j \in Int : k <= j => ProducedUpTo(s, q, n, j)
<1>1. \A i \in 1..Len(q) : q[i] \in Events
  BY EventSizes
<1>2. \A i \in 1..Len(q) : q[i].last \in Nat /\ Place(s, q[i]) \in Nat
  BY <1>1, PlaceOfEvent DEF Events
<1>3. QED
  BY <1>2 DEF ProducedUpTo, Within

\* An error is told of, if at all, at the end.
NoErrors(q) == \A i \in 1..Len(q) : q[i].kind # "error"
LastIsError(q) == \A i \in 1..Len(q) : q[i].kind = "error" => i = Len(q)

LEMMA EmbeddedErrors ==
  ASSUME NEW f, NEW r, NEW q, Embeds(f, r, q)
  PROVE  NoErrors(q) => NoErrors(r)
  BY DEF Embeds, SameEvent, NoErrors

LEMMA AppendedErrors ==
  ASSUME NEW q \in Seq(Events), NEW event \in Events, NoErrors(q)
  PROVE  /\ event.kind # "error" => NoErrors(Append(q, event))
         /\ LastIsError(Append(q, event))
         /\ Append(q, event) # <<>> /\ Last(Append(q, event)) = event
<1> DEFINE r == Append(q, event)
           m == Len(q)
<1>1. m \in Nat /\ Len(r) = m + 1 /\ r[m + 1] = event /\ \A i \in 1..m : r[i] = q[i]
  BY AppendProperties, LenProperties
<1>2. \A i \in 1..m : q[i].kind # "error"
  BY DEF NoErrors
<1> HIDE DEF r, m
<1>3. event.kind # "error" => NoErrors(r)
  BY <1>1, <1>2 DEF NoErrors
<1>4. LastIsError(r)
  BY <1>1, <1>2 DEF LastIsError
<1>5. r # <<>>
  BY <1>1, EmptySeq
<1>6. Last(r) = event
  BY <1>1 DEF Last
<1>7. QED
  BY <1>3, <1>4, <1>5, <1>6 DEF r

-----------------------------------------------------------------------------
(* The history of a stream.                                                  *)

LEMMA ReportedTyped ==
  ASSUME NEW p \in Seq(Events), NEW q \in Seq(Events)
  PROVE  /\ p \o q \in Seq(Events) /\ Len(p \o q) = Len(p) + Len(q)
         /\ Len(p) \in Nat /\ Len(q) \in Nat
         /\ \A i \in 1..(Len(p) + Len(q)) :
              (p \o q)[i] = IF i <= Len(p) THEN p[i] ELSE q[i - Len(p)]
  BY ConcatProperties, LenProperties

LEMMA ReportedAppended ==
  ASSUME NEW p \in Seq(Events), NEW q \in Seq(Events), NEW event \in Events
  PROVE  p \o Append(q, event) = Append(p \o q, event)
<1> DEFINE a == p \o Append(q, event)
           h == p \o q
           b == Append(h, event)
           m == Len(p)
           n == Len(q)
<1>1. /\ Append(q, event) \in Seq(Events) /\ Len(Append(q, event)) = n + 1
      /\ Append(q, event)[n + 1] = event /\ \A i \in 1..n : Append(q, event)[i] = q[i]
  BY AppendProperties
<1>2. /\ a \in Seq(Events) /\ Len(a) = m + (n + 1) /\ m \in Nat /\ n \in Nat
      /\ \A i \in 1..(m + (n + 1)) : a[i] = IF i <= m THEN p[i] ELSE Append(q, event)[i - m]
  BY <1>1, ReportedTyped
<1>3. /\ h \in Seq(Events) /\ Len(h) = m + n
      /\ \A i \in 1..(m + n) : h[i] = IF i <= m THEN p[i] ELSE q[i - m]
  BY ReportedTyped
<1> HIDE DEF a, h, m, n
<1>4. /\ b \in Seq(Events) /\ Len(b) = (m + n) + 1 /\ b[(m + n) + 1] = event
      /\ \A i \in 1..(m + n) : b[i] = h[i]
  BY <1>3, AppendProperties
<1> HIDE DEF b
<1>5. ASSUME NEW i \in 1..Len(a) PROVE a[i] = b[i]
  <2>0. i \in Nat /\ i >= 1 /\ i <= m + (n + 1) /\ i \in 1..(m + (n + 1)) /\ m \in Nat /\ n \in Nat
    BY <1>2
  <2>1. CASE i <= m
    <3>1. i \in 1..(m + n)
      BY <2>0, <2>1
    <3>2. a[i] = p[i] /\ b[i] = h[i] /\ h[i] = p[i]
      BY <1>2, <1>3, <1>4, <2>0, <2>1, <3>1
    <3>3. QED
      BY <3>2
  <2>2. CASE i > m /\ i <= m + n
    <3>1. i - m \in 1..n /\ i \in 1..(m + n) /\ ~ (i <= m)
      BY <2>0, <2>2
    <3>2. a[i] = Append(q, event)[i - m]
      BY <1>2, <2>0, <3>1
    <3>3. Append(q, event)[i - m] = q[i - m]
      BY <1>1, <3>1
    <3>4. b[i] = h[i] /\ h[i] = q[i - m]
      BY <1>3, <1>4, <3>1
    <3>5. QED
      BY <3>2, <3>3, <3>4
  <2>3. CASE i > m + n
    <3>1. i = (m + n) + 1 /\ i - m = n + 1 /\ ~ (i <= m)
      BY <2>0, <2>3
    <3>2. a[i] = Append(q, event)[i - m]
      BY <1>2, <2>0, <3>1
    <3>3. QED
      BY <1>1, <1>4, <3>1, <3>2
  <2>4. QED
    BY <2>0, <2>1, <2>2, <2>3
<1>6. Len(a) = Len(b)
  BY <1>2, <1>4
<1>7. a = b
  BY <1>2, <1>4, <1>5, <1>6, SeqEqual
<1>8. QED
  BY <1>7 DEF a, b, h

\* The same history under other charges.
Recharged(r, q) ==
  /\ r \in Seq(Events) /\ q \in Seq(Events) /\ Len(r) = Len(q)
  /\ \A i \in 1..Len(r) : SameEvent(r[i], q[i])

LEMMA RechargedErrors ==
  ASSUME NEW r, NEW q, Recharged(r, q)
  PROVE  /\ NoErrors(r) <=> NoErrors(q)
         /\ LastIsError(r) <=> LastIsError(q)
         /\ q # <<>> => r # <<>> /\ Last(r).kind = Last(q).kind
<1>1. Len(q) \in Nat /\ (q # <<>> => Len(q) # 0) /\ (r = <<>> => Len(r) = 0)
  BY EmptySeq, LenProperties DEF Recharged
<1>2. /\ NoErrors(r) <=> NoErrors(q)
      /\ LastIsError(r) <=> LastIsError(q)
  BY DEF Recharged, SameEvent, NoErrors, LastIsError
<1>3. ASSUME q # <<>> PROVE r # <<>> /\ Last(r).kind = Last(q).kind
  <2>1. Len(q) \in 1..Len(q) /\ Len(r) = Len(q)
    BY <1>1, <1>3 DEF Recharged
  <2>2. r[Len(r)].kind = q[Len(q)].kind
    BY <2>1 DEF Recharged, SameEvent
  <2>3. QED
    BY <1>1, <1>3, <2>1, <2>2 DEF Last
<1>4. QED
  BY <1>2, <1>3

\* The head of the queue is published without its charge.
LEMMA ReportedDequeued ==
  ASSUME NEW p \in Seq(Events), NEW q \in Seq(Events), q # <<>>
  PROVE  /\ \E f : Embeds(f, Append(p, [Head(q) EXCEPT !.size = 0]) \o Tail(q), p \o q)
         /\ Recharged(Append(p, [Head(q) EXCEPT !.size = 0]) \o Tail(q), p \o q)
<1> DEFINE e == [Head(q) EXCEPT !.size = 0]
           a == Append(p, e)
           t == Tail(q)
           r == a \o t
           h == p \o q
           m == Len(p)
           n == Len(q)
           f == [i \in 1..Len(r) |-> i]
<1>1. m \in Nat /\ n \in Nat /\ n >= 1 /\ Head(q) = q[1] /\ q[1] \in Events
      /\ t \in Seq(Events) /\ Len(t) = n - 1 /\ \A i \in 1..(n - 1) : t[i] = q[i + 1]
  <2>1. m \in Nat /\ n \in Nat /\ n # 0
    BY EmptySeq, LenProperties
  <2>2. QED
    BY <2>1, HeadTailProperties, ElementOfSeq
<1>2. e \in Events /\ SameEvent(e, q[1])
  <2>1. Head(q) \in Events
    BY <1>1
  <2>2. QED
    BY <1>1, <2>1 DEF Events, SameEvent
<1> HIDE DEF e, t
<1>3. a \in Seq(Events) /\ Len(a) = m + 1 /\ a[m + 1] = e /\ \A i \in 1..m : a[i] = p[i]
  BY <1>2, AppendProperties
<1> HIDE DEF a
<1>4. /\ r \in Seq(Events) /\ Len(r) = (m + 1) + (n - 1)
      /\ \A i \in 1..((m + 1) + (n - 1)) : r[i] = IF i <= m + 1 THEN a[i] ELSE t[i - (m + 1)]
  <2>1. /\ r \in Seq(Events) /\ Len(r) = Len(a) + Len(t)
        /\ \A i \in 1..(Len(a) + Len(t)) : r[i] = IF i <= Len(a) THEN a[i] ELSE t[i - Len(a)]
    BY <1>1, <1>3, ReportedTyped
  <2> HIDE DEF r, m, n
  <2>2. QED
    BY <1>1, <1>3, <2>1
<1>5. /\ h \in Seq(Events) /\ Len(h) = m + n
      /\ \A i \in 1..(m + n) : h[i] = IF i <= m THEN p[i] ELSE q[i - m]
  BY ReportedTyped
<1> HIDE DEF m, n
<1> HIDE DEF r, h
<1>6. Len(r) = Len(h)
  BY <1>1, <1>4, <1>5
<1>7. ASSUME NEW i \in 1..Len(r) PROVE SameEvent(r[i], h[i])
  <2>0. i \in 1..(m + n) /\ i \in 1..((m + 1) + (n - 1))
    BY <1>4, <1>5, <1>6
  <2>1. CASE i <= m
    <3>1. r[i] = p[i] /\ h[i] = p[i]
      BY <1>1, <1>3, <1>4, <1>5, <2>0, <2>1
    <3>2. QED
      BY <3>1 DEF SameEvent
  <2>2. CASE i = m + 1
    <3>1. r[i] = e /\ h[i] = q[1]
      BY <1>1, <1>3, <1>4, <1>5, <2>0, <2>2
    <3>2. QED
      BY <1>2, <3>1
  <2>3. CASE i > m + 1
    <3>1. i - (m + 1) \in 1..(n - 1) /\ (i - (m + 1)) + 1 = i - m
      BY <1>1, <2>0, <2>3
    <3>2. r[i] = q[i - m] /\ h[i] = q[i - m]
      BY <1>1, <1>4, <1>5, <2>0, <2>3, <3>1
    <3>3. QED
      BY <3>2 DEF SameEvent
  <2>4. QED
    BY <1>1, <2>0, <2>1, <2>2, <2>3
<1>8. f \in [1..Len(r) -> 1..Len(h)] /\ \A i \in 1..Len(r) : f[i] = i
  BY <1>6
<1> HIDE DEF f
<1>9. Embeds(f, r, h)
  BY <1>4, <1>5, <1>6, <1>7, <1>8 DEF Embeds
<1>10. Recharged(r, h)
  BY <1>4, <1>5, <1>6, <1>7 DEF Recharged
<1>11. QED
  BY <1>9, <1>10 DEF r, h, a, e, t

\* A pending state leaves the queue: the history forgets it.
LEMMA ReportedCoalesced ==
  ASSUME NEW p \in Seq(Events), NEW q \in Seq(Events), NEW k \in 1..Len(q), NEW w, IsWithout(w, q, k),
         q[k].channel = NoChannel
  PROVE  \E f : Embeds(f, p \o w, p \o q)
<1> DEFINE r == p \o w
           h == p \o q
           m == Len(p)
           n == Len(q)
           f == [i \in 1..Len(r) |-> IF i < m + k THEN i ELSE i + 1]
<1>1. /\ m \in Nat /\ n \in Nat /\ k \in Nat /\ 1 <= k /\ k <= n
      /\ w \in Seq(Events) /\ Len(w) = n - 1
      /\ \A j \in 1..(n - 1) : w[j] = IF j < k THEN q[j] ELSE q[j + 1]
  BY LenProperties DEF IsWithout
<1>2. /\ r \in Seq(Events) /\ Len(r) = m + (n - 1)
      /\ \A i \in 1..(m + (n - 1)) : r[i] = IF i <= m THEN p[i] ELSE w[i - m]
  BY <1>1, ReportedTyped
<1>3. /\ h \in Seq(Events) /\ Len(h) = m + n
      /\ \A i \in 1..(m + n) : h[i] = IF i <= m THEN p[i] ELSE q[i - m]
  BY ReportedTyped
<1> HIDE DEF m, n
<1> HIDE DEF r, h
<1>4. /\ \A i \in 1..Len(r) : f[i] = IF i < m + k THEN i ELSE i + 1
      /\ f \in [1..Len(r) -> 1..Len(h)]
  BY <1>1, <1>2, <1>3
<1> HIDE DEF f
<1>5. ASSUME NEW i \in 1..Len(r) PROVE r[i] = h[f[i]]
  <2>0. /\ i \in 1..(m + (n - 1)) /\ i \in 1..(m + n) /\ i + 1 \in 1..(m + n) /\ i \in Nat
        /\ i <= m + (n - 1)
    BY <1>1, <1>2
  <2>1. CASE i <= m
    <3>1. i < m + k
      BY <1>1, <2>0, <2>1
    <3>2. r[i] = p[i] /\ f[i] = i /\ h[i] = p[i]
      BY <1>2, <1>3, <1>4, <2>0, <2>1, <3>1
    <3>3. QED
      BY <3>2
  <2>2. CASE i > m /\ i < m + k
    <3>1. i - m \in 1..(n - 1) /\ i - m < k
      BY <1>1, <2>0, <2>2
    <3>2. ~ (i <= m) /\ w[i - m] = q[i - m]
      BY <1>1, <2>0, <2>2, <3>1
    <3>3. r[i] = w[i - m] /\ h[i] = q[i - m] /\ f[i] = i
      BY <1>2, <1>3, <1>4, <2>0, <2>2, <3>2
    <3>4. QED
      BY <3>2, <3>3
  <2>3. CASE i >= m + k
    <3>1. i - m \in 1..(n - 1) /\ ~ (i - m < k) /\ (i - m) + 1 = (i + 1) - m
      <4>1. m \in Nat /\ n \in Nat /\ k \in Nat /\ 1 <= k /\ i \in Nat /\ i <= m + (n - 1)
            /\ i >= m + k
        BY <1>1, <2>0, <2>3
      <4>2. QED
        BY ONLY <4>1
    <3>2. w[i - m] = q[(i + 1) - m]
      BY <1>1, <3>1
    <3>3. ~ (i <= m) /\ ~ (i + 1 <= m) /\ ~ (i < m + k)
      BY <1>1, <2>0, <2>3
    <3>4. r[i] = w[i - m] /\ h[i + 1] = q[(i + 1) - m] /\ f[i] = i + 1
      BY <1>2, <1>3, <1>4, <2>0, <3>3
    <3>5. QED
      BY <3>2, <3>4
  <2>4. QED
    BY <1>1, <2>0, <2>1, <2>2, <2>3
<1>6. ASSUME NEW i \in 1..Len(h), \A j \in 1..Len(r) : f[j] # i
      PROVE  h[i].channel = NoChannel
  <2>1. i = m + k
    <3>1. CASE i < m + k
      <4>1. i \in 1..Len(r)
        BY <1>1, <1>2, <1>3, <3>1
      <4>2. f[i] = i
        BY <1>4, <3>1, <4>1
      <4>3. QED
        BY <1>6, <4>1, <4>2
    <3>2. CASE i > m + k
      <4>1. i - 1 \in 1..Len(r) /\ ~ (i - 1 < m + k) /\ (i - 1) + 1 = i
        BY <1>1, <1>2, <1>3, <3>2
      <4>2. f[i - 1] = i
        BY <1>4, <4>1
      <4>3. QED
        BY <1>6, <4>1, <4>2
    <3>3. QED
      BY <1>1, <3>1, <3>2
  <2>2. h[i] = q[k]
    <3>1. i \in 1..(m + n) /\ ~ (i <= m) /\ i - m = k
      BY <1>1, <1>3, <2>1
    <3>2. QED
      BY <1>3, <3>1
  <2>3. QED
    BY <2>2
<1>7. ASSUME NEW i \in 1..Len(r), NEW j \in 1..Len(r), i < j PROVE f[i] < f[j]
  <2>1. i \in Int /\ j \in Int /\ m \in Int /\ k \in Int
    BY <1>1
  <2>2. f[i] = (IF i < m + k THEN i ELSE i + 1) /\ f[j] = (IF j < m + k THEN j ELSE j + 1)
    BY <1>4
  <2>3. QED
    BY ONLY <1>7, <2>1, <2>2
<1>8. Embeds(f, r, h)
  BY <1>2, <1>3, <1>4, <1>5, <1>6, <1>7 DEF Embeds, SameEvent
<1>9. QED
  BY <1>8 DEF r, h

-----------------------------------------------------------------------------
(* The story of a stream: the strengthening of LossAccounted, EventsInOrder    *)
(* and EndExplained that the steps preserve.                                   *)

\* How many channels the poll has taken.
Capturing == {"capture", "captured", "gapped"}
Taken(s) ==
  CASE producer[s] \in Capturing -> Len(WaveformChannels[s]) - Len(remaining[s])
    [] producer[s] \in {"new", "sleeping"} -> Len(WaveformChannels[s])
    [] OTHER -> 0
Stopped(s) == producer[s] \in {"failing", "done"}

\* While the producer runs, each channel was captured once in every poll before
\* this one, and once more if this one has taken it.
Captures(s) ==
  ~Stopped(s) =>
    /\ failure[s] = {}
    /\ \A k \in 1..Len(WaveformChannels[s]) :
         capture[s][WaveformChannels[s][k]] = IF k <= Taken(s) THEN poll[s] ELSE poll[s] - 1
    /\ producer[s] \in Capturing =>
         /\ Len(remaining[s]) <= Len(WaveformChannels[s])
         /\ \A i \in 1..Len(remaining[s]) : remaining[s][i] = WaveformChannels[s][Taken(s) + i]
    /\ producer[s] = "new" => poll[s] = 0 /\ Reported(s) = <<>>

\* What an enqueue carries is the capture of the channel taken last.
Carries(s) ==
  IF producer[s] \in {"captured", "gapped"}
  THEN /\ captured[s] # <<>> /\ Taken(s) > 0
       /\ Head(captured[s]).kind = "waveform"
       /\ Head(captured[s]).channel = WaveformChannels[s][Taken(s)]
       /\ Head(captured[s]).first = poll[s] /\ Head(captured[s]).last = poll[s]
       /\ producer[s] = "gapped" => ~HasDrop(s, Head(captured[s]).channel)
  ELSE captured[s] = <<>>

\* The captures of a channel are told, dropped, carried, or the one that ended the
\* stream.
Balance(told, drop, taken, carried, errors) ==
  LET lost == taken - (IF drop # NoDrop THEN drop.last ELSE told)
  IN /\ drop # NoDrop => /\ drop.first = told + 1
                         /\ drop.count = drop.last - drop.first + 1
     /\ lost = carried \/ (lost = 1 /\ errors \in {{"exhausted"}, {"tooLarge"}})
Carried(s, c) == IF InHand(s, c) THEN 1 ELSE 0
Balanced(s, c) ==
  /\ Chains(Reported(s), c)
  /\ Balance(TellsOf(Reported(s), c), drops[s][c], capture[s][c], Carried(s, c), failure[s])
Tells(s) == Open(s) => \A c \in Channels : Balanced(s, c)

\* The last channel of this poll that may have been told of.
Reached(s) ==
  IF producer[s] \in {"capture", "new", "sleeping"} THEN Taken(s) ELSE Taken(s) - 1
Orders(s) ==
  /\ InOrder(s, Reported(s))
  /\ ~Stopped(s) => ProducedUpTo(s, Reported(s), poll[s], Reached(s))
  /\ \A i \in 1..Len(events[s]) : IsState(events[s][i]) => events[s][i].channel = NoChannel

\* A finished stream has told the error of its producer, or has yet to, unless it
\* was cancelled or could not.
Explained(s) ==
  \/ terminal[s] \cap {"canceled", "exhausted"} # {}
  \/ /\ terminal[s] = failure[s]
     /\ IF s \in terminalReady
        THEN Reported(s) # <<>> /\ Last(Reported(s)).kind = "error"
        ELSE terminalEvent[s] # <<>>
Ends(s) ==
  /\ s \in terminalReady => s \in finished
  /\ terminalEvent[s] # <<>> => Head(terminalEvent[s]).channel = NoChannel
  /\ Open(s) =>
       /\ LastIsError(Reported(s))
       /\ s \notin terminalReady => NoErrors(Reported(s))
       /\ ~NoErrors(Reported(s)) => \A c \in Channels : ~HasDrop(s, c)
       /\ s \in finished => Explained(s)

\* The handler returns such an error only after it has sent everything.
Answers(s) ==
  rpc[s] \in {"stopping", "joining"}
    /\ outcome[s] \in {{"device"}, {"backpressure"}, {"tooLarge"}} =>
      s \in terminalReady /\ events[s] = <<>> /\ outcome[s] = terminal[s]

Story(s) == Captures(s) /\ Carries(s) /\ Tells(s) /\ Orders(s) /\ Ends(s) /\ Answers(s)
Stories == \A s \in Streams : Story(s)

\* What a step leaves alone of one stream.
SameProducer(s) ==
  /\ producer'[s] = producer[s] /\ poll'[s] = poll[s] /\ remaining'[s] = remaining[s]
  /\ capture'[s] = capture[s] /\ captured'[s] = captured[s] /\ failure'[s] = failure[s]
SameQueue(s) ==
  published'[s] = published[s] /\ events'[s] = events[s] /\ drops'[s] = drops[s]
SameEnd(s) ==
  /\ s \in finished' <=> s \in finished
  /\ s \in terminalReady' <=> s \in terminalReady
  /\ terminal'[s] = terminal[s] /\ terminalEvent'[s] = terminalEvent[s]
SameHandler(s) == rpc'[s] = rpc[s] /\ outcome'[s] = outcome[s]
Untouched(s) == SameProducer(s) /\ SameQueue(s) /\ SameEnd(s) /\ SameHandler(s)

LEMMA SameReported ==
  ASSUME NEW s, SameQueue(s)
  PROVE  Reported(s)' = Reported(s)
  BY DEF SameQueue, Reported

LEMMA CapturesKept ==
  ASSUME NEW s, SameProducer(s), SameQueue(s), Captures(s)
  PROVE  Captures(s)'
<1>1. Reported(s)' = Reported(s)
  BY SameReported
<1>2. QED
  BY <1>1 DEF SameProducer, Captures, Taken, Stopped

LEMMA CarriesKept ==
  ASSUME NEW s, SameProducer(s), SameQueue(s), Carries(s)
  PROVE  Carries(s)'
  BY DEF SameProducer, SameQueue, Carries, Taken, HasDrop

LEMMA TellsKept ==
  ASSUME NEW s, SameProducer(s), SameQueue(s), Open(s)' => Open(s), Tells(s)
  PROVE  Tells(s)'
<1>1. Reported(s)' = Reported(s)
  BY SameReported
<1>2. \A c \in Channels : Carried(s, c)' = Carried(s, c)
  BY DEF SameProducer, Carried, InHand
<1>3. \A c \in Channels : Balanced(s, c) => Balanced(s, c)'
  BY <1>1, <1>2 DEF SameProducer, SameQueue, Balanced
<1>4. QED
  BY <1>3 DEF Tells

LEMMA OrdersKept ==
  ASSUME NEW s, SameProducer(s), SameQueue(s), Orders(s)
  PROVE  Orders(s)'
<1>1. Reported(s)' = Reported(s)
  BY SameReported
<1>2. Reached(s)' = Reached(s) /\ (Stopped(s)' <=> Stopped(s)) /\ poll'[s] = poll[s]
  BY DEF SameProducer, Reached, Taken, Stopped
<1>3. events'[s] = events[s]
  BY DEF SameQueue
<1>4. QED
  BY <1>1, <1>2, <1>3 DEF Orders

LEMMA EndsKept ==
  ASSUME NEW s, failure'[s] = failure[s], SameQueue(s), SameEnd(s), Open(s)' => Open(s), Ends(s)
  PROVE  Ends(s)'
<1>1. Reported(s)' = Reported(s)
  BY SameReported
<1>2. Explained(s)' <=> Explained(s)
  BY <1>1 DEF SameEnd, Explained
<1>3. \A c \in Channels : HasDrop(s, c)' <=> HasDrop(s, c)
  BY DEF SameQueue, HasDrop
<1>4. QED
  BY <1>1, <1>2, <1>3 DEF SameEnd, Ends

LEMMA StoryUntouched ==
  ASSUME NEW s, Untouched(s), Story(s)
  PROVE  Story(s)'
<1>1. SameProducer(s) /\ SameQueue(s) /\ SameEnd(s) /\ SameHandler(s)
  BY DEF Untouched
<1>2. Open(s)' => Open(s)
  BY <1>1 DEF SameHandler, Open
<1>3. Captures(s)' /\ Carries(s)' /\ Tells(s)' /\ Orders(s)'
  BY <1>1, <1>2, CapturesKept, CarriesKept, TellsKept, OrdersKept DEF Story
<1>4. Ends(s)'
  BY <1>1, <1>2, EndsKept DEF Story, SameProducer
<1>5. Answers(s)'
  BY <1>1 DEF Story, Answers, SameHandler, SameEnd, SameQueue
<1>6. QED
  BY <1>3, <1>4, <1>5 DEF Story

\* The handler moves.
LEMMA StoryOfHandler ==
  ASSUME NEW s, SameProducer(s), SameQueue(s), SameEnd(s), Open(s)' => Open(s), Story(s),
         Answers(s)'
  PROVE  Story(s)'
<1>1. Captures(s)' /\ Carries(s)' /\ Tells(s)' /\ Orders(s)'
  BY CapturesKept, CarriesKept, TellsKept, OrdersKept DEF Story
<1>2. Ends(s)'
  BY EndsKept DEF Story, SameProducer
<1>3. QED
  BY <1>1, <1>2 DEF Story

\* The values of one stream.
LEMMA StreamTyped ==
  ASSUME IInv, NEW s \in Streams
  PROVE  /\ producer[s] \in ProducerStates /\ poll[s] \in Nat
         /\ remaining[s] \in Seq(Channels) /\ capture[s] \in [Channels -> Nat]
         /\ captured[s] \in Seq(Events) /\ events[s] \in Seq(Events)
         /\ published[s] \in Seq(Events) /\ Reported(s) \in Seq(Events)
         /\ drops[s] \in [Channels -> [first : Nat, last : Nat, count : Nat]]
         /\ \A c \in Channels : /\ capture[s][c] \in Nat
                                /\ drops[s][c] \in [first : Nat, last : Nat, count : Nat]
                                /\ TellsOf(Reported(s), c) \in Nat
<1>1. StreamsOK /\ FifoOK
  BY DEF IInv
<1>2. /\ producer[s] \in ProducerStates /\ poll[s] \in Nat
      /\ remaining[s] \in Seq(Channels) /\ capture[s] \in [Channels -> Nat]
      /\ captured[s] \in Seq(Events) /\ published[s] \in Seq(Events)
      /\ drops[s] \in [Channels -> [first : Nat, last : Nat, count : Nat]]
  BY <1>1 DEF StreamsOK
<1>3. events[s] \in Seq(Events)
  BY <1>1 DEF FifoOK
<1>4. Reported(s) \in Seq(Events)
  BY <1>2, <1>3, ReportedTyped DEF Reported
<1>5. ASSUME NEW c \in Channels PROVE TellsOf(Reported(s), c) \in Nat
  <2>1. Len(Reported(s)) \in 0..Len(Reported(s))
    BY <1>4, LenProperties
  <2>2. QED
    BY <1>4, <2>1, ToldByType DEF TellsOf
<1>6. QED
  BY <1>2, <1>3, <1>4, <1>5

\* The functions of streams that a step updates.
LEMMA StreamFunctions ==
  ASSUME IInv
  PROVE  /\ producer \in [Streams -> ProducerStates] /\ poll \in [Streams -> Nat]
         /\ remaining \in [Streams -> Seq(Channels)]
         /\ capture \in [Streams -> [Channels -> Nat]]
         /\ captured \in [Streams -> Seq(Events)] /\ failure \in [Streams -> SUBSET Errors]
         /\ events \in [Streams -> Seq(Events)] /\ published \in [Streams -> Seq(Events)]
         /\ drops \in [Streams -> [Channels -> [first : Nat, last : Nat, count : Nat]]]
         /\ terminal \in [Streams -> SUBSET Errors] /\ terminalEvent \in [Streams -> Seq(Events)]
         /\ rpc \in [Streams -> HandlerStates] /\ outcome \in [Streams -> SUBSET Errors]
  BY DEF IInv, StreamsOK, FifoOK

\* A producer that runs has not finished its queue, so nothing explains its end yet.
LEMMA RunningEnds ==
  ASSUME IInv, NEW s \in Streams, Ends(s), producer[s] \notin {"new", "done"}
  PROVE  s \notin finished /\ s \notin terminalReady /\ Open(s) /\ NoErrors(Reported(s))
  BY DEF IInv, Lifecycle, Ends, Open

LEMMA EndsOfProducer ==
  ASSUME NEW s, s \notin finished, s \notin terminalReady, SameEnd(s), Ends(s),
         NoErrors(Reported(s)')
  PROVE  Ends(s)'
  BY DEF SameEnd, Ends, NoErrors, LastIsError

LEMMA AnswersOfProducer ==
  ASSUME NEW s, s \notin terminalReady, SameHandler(s), Answers(s)
  PROVE  Answers(s)'
  BY DEF SameHandler, Answers

-----------------------------------------------------------------------------
(* The balance of a channel: what each step does to it.                      *)

Drops == [first : Nat, last : Nat, count : Nat]

\* A capture is taken, and carried, or refused for its size.
LEMMA BalanceTaken ==
  ASSUME NEW told \in Nat, NEW drop \in Drops, NEW taken \in Nat,
         Balance(told, drop, taken, 0, {})
  PROVE  /\ \A errors : Balance(told, drop, taken + 1, 1, errors)
         /\ Balance(told, drop, taken + 1, 0, {"tooLarge"})
  BY DEF Balance, Drops

\* The producer fails with anything.
LEMMA BalanceFails ==
  ASSUME NEW told \in Nat, NEW drop \in Drops, NEW taken \in Nat, NEW carried \in {0, 1},
         Balance(told, drop, taken, carried, {})
  PROVE  \A errors : Balance(told, drop, taken, carried, errors)
  BY DEF Balance, Drops

\* A gap stands for the drop.
LEMMA BalanceOfGap ==
  ASSUME NEW told \in Nat, NEW drop \in Drops, NEW taken \in Nat, NEW carried \in {0, 1},
         NEW errors, Balance(told, drop, taken, carried, errors), drop # NoDrop
  PROVE  Balance(drop.last, NoDrop, taken, carried, errors) /\ drop.first = told + 1
  BY DEF Balance, Drops, NoDrop

\* The capture carried joins the drop.
LEMMA BalanceOfDrop ==
  ASSUME NEW told \in Nat, NEW drop \in Drops, NEW taken \in Nat,
         Balance(told, drop, taken, 1, {}),
         NEW joined \in Drops, joined.last = taken, joined.count = drop.count + 1,
         joined.first = IF drop = NoDrop THEN taken ELSE drop.first
  PROVE  \A errors : Balance(told, joined, taken, 0, errors)
<1>1. /\ drop.count \in Nat /\ joined.count \in Nat /\ drop.last \in Nat /\ drop.first \in Nat
      /\ joined.first \in Nat /\ NoDrop.count = 0
  BY DEF Drops, NoDrop
<1>2. joined # NoDrop
  BY <1>1
<1>3. CASE drop = NoDrop
  <2>1. drop.count = 0
    BY <1>1, <1>3
  <2>2. taken - told = 1
    BY <1>3 DEF Balance
  <2>3. QED
    BY <1>1, <1>2, <1>3, <2>1, <2>2 DEF Balance
<1>4. CASE drop # NoDrop
  <2>1. taken - drop.last = 1 /\ drop.first = told + 1 /\ drop.count = drop.last - drop.first + 1
    BY <1>4 DEF Balance
  <2>2. QED
    BY <1>1, <1>2, <1>4, <2>1 DEF Balance
<1>5. QED
  BY <1>3, <1>4

\* The capture carried is told, or ends the stream.
LEMMA BalanceOfWaveform ==
  ASSUME NEW told \in Nat, NEW taken \in Nat, Balance(told, NoDrop, taken, 1, {})
  PROVE  /\ taken = told + 1
         /\ \A errors : Balance(taken, NoDrop, taken, 0, errors)
         /\ Balance(told, NoDrop, taken, 0, {"exhausted"})
  BY DEF Balance

-----------------------------------------------------------------------------
(* The steps of the producer                                                 *)

LEMMA AdmitStory ==
  ASSUME IInv, NEW s \in Streams, Story(s), Admit(s)
  PROVE  Story(s)'
<1>0. Captures(s) /\ Carries(s) /\ Tells(s) /\ Orders(s) /\ Ends(s) /\ Answers(s)
  BY DEF Story
<1>1. /\ producer[s] = "admission" /\ producer'[s] = "state"
      /\ poll'[s] = poll[s] /\ remaining'[s] = remaining[s] /\ capture'[s] = capture[s]
      /\ captured'[s] = captured[s] /\ failure'[s] = failure[s]
      /\ SameQueue(s) /\ SameEnd(s) /\ SameHandler(s)
  BY StreamFunctions DEF Admit, rpcVars, pollVars, fifoVars, terminalVars, SameQueue, SameEnd,
     SameHandler
<1>2. Reported(s)' = Reported(s)
  BY <1>1, SameReported
<1>3. Captures(s)'
  BY <1>0, <1>1, <1>2 DEF Captures, Taken, Stopped, Capturing
<1>4. Carries(s)'
  BY <1>0, <1>1 DEF Carries
<1>5. Tells(s)'
  <2>1. \A c \in Channels : Carried(s, c)' = Carried(s, c)
    BY <1>1 DEF Carried, InHand
  <2>2. \A c \in Channels : Balanced(s, c) => Balanced(s, c)'
    BY <1>1, <1>2, <2>1 DEF SameQueue, Balanced
  <2>3. Open(s)' => Open(s)
    BY <1>1 DEF SameHandler, Open
  <2>4. QED
    BY <1>0, <2>2, <2>3 DEF Tells
<1>6. Orders(s)'
  <2>1. Reached(s)' = Reached(s) /\ (Stopped(s)' <=> Stopped(s))
    BY <1>1 DEF Reached, Taken, Stopped, Capturing
  <2>2. QED
    BY <1>0, <1>1, <1>2, <2>1 DEF Orders, SameQueue
<1>7. Ends(s)' /\ Answers(s)'
  <2>1. s \notin finished /\ s \notin terminalReady /\ NoErrors(Reported(s))
    BY <1>0, <1>1, RunningEnds
  <2>2. QED
    BY <1>0, <1>1, <1>2, <2>1, EndsOfProducer, AnswersOfProducer
<1>8. QED
  BY <1>3, <1>4, <1>5, <1>6, <1>7 DEF Story

\* The producer stops with what it has told so far.
LEMMA FailsStory ==
  ASSUME IInv, NEW s \in Streams, Story(s), producer[s] \in {"admission", "state", "coalesced", "capture"},
         NEW errors, Fails(s, errors), poll'[s] = poll[s], remaining'[s] = remaining[s],
         capture'[s] = capture[s], captured'[s] = captured[s],
         SameQueue(s), SameEnd(s), SameHandler(s)
  PROVE  Story(s)'
<1>0. Captures(s) /\ Carries(s) /\ Tells(s) /\ Orders(s) /\ Ends(s) /\ Answers(s)
  BY DEF Story
<1>1. producer'[s] = "failing" /\ failure[s] = {}
  BY <1>0, StreamFunctions DEF Fails, Captures, Stopped
<1>2. Reported(s)' = Reported(s)
  BY SameReported
<1>3. Captures(s)'
  BY <1>1 DEF Captures, Stopped
<1>4. Carries(s)'
  BY <1>0, <1>1 DEF Carries
<1>5. Tells(s)'
  <2>1. ASSUME NEW c \in Channels, Balanced(s, c) PROVE Balanced(s, c)'
    <3>1. Carried(s, c)' = Carried(s, c) /\ Carried(s, c) \in {0, 1}
      BY DEF Carried, InHand
    <3>2. drops'[s][c] = drops[s][c] /\ drops[s][c] \in Drops /\ capture[s][c] \in Nat
          /\ TellsOf(Reported(s), c) \in Nat
      BY StreamTyped DEF SameQueue, Drops
    <3>3. Balance(TellsOf(Reported(s), c), drops[s][c], capture[s][c], Carried(s, c), {})
      BY <1>1, <2>1 DEF Balanced
    <3>4. Balance(TellsOf(Reported(s), c), drops[s][c], capture[s][c], Carried(s, c), failure'[s])
      BY <3>1, <3>2, <3>3, BalanceFails
    <3>5. QED
      BY <1>2, <2>1, <3>1, <3>2, <3>4 DEF Balanced
  <2>2. Open(s)' => Open(s)
    BY DEF SameHandler, Open
  <2>3. QED
    BY <1>0, <2>1, <2>2 DEF Tells
<1>6. Orders(s)'
  BY <1>0, <1>1, <1>2 DEF Orders, SameQueue, Stopped
<1>7. Ends(s)' /\ Answers(s)'
  <2>1. s \notin finished /\ s \notin terminalReady /\ NoErrors(Reported(s))
    BY <1>0, RunningEnds
  <2>2. QED
    BY <1>0, <1>2, <2>1, EndsOfProducer, AnswersOfProducer
<1>8. QED
  BY <1>3, <1>4, <1>5, <1>6, <1>7 DEF Story

LEMMA ProducerFailsStory ==
  ASSUME IInv, NEW s \in Streams, Story(s), AdmitRefused(s) \/ InstrumentFails(s)
  PROVE  Story(s)'
<1>1. PICK errors : Fails(s, errors)
  BY DEF AdmitRefused, InstrumentFails
<1>2. /\ producer[s] \in {"admission", "state", "coalesced", "capture"}
      /\ poll'[s] = poll[s] /\ remaining'[s] = remaining[s] /\ capture'[s] = capture[s]
      /\ captured'[s] = captured[s] /\ SameQueue(s) /\ SameEnd(s) /\ SameHandler(s)
  BY DEF AdmitRefused, InstrumentFails, rpcVars, fifoVars, terminalVars, SameQueue, SameEnd,
     SameHandler
<1>3. QED
  BY <1>1, <1>2, FailsStory

LEMMA CoalesceStateStory ==
  ASSUME IInv, NEW s \in Streams, Story(s), CoalesceState(s)
  PROVE  Story(s)'
<1>0. Captures(s) /\ Carries(s) /\ Tells(s) /\ Orders(s) /\ Ends(s) /\ Answers(s)
  BY DEF Story
<1>1. /\ producer[s] = "state" /\ producer'[s] = "coalesced"
      /\ poll'[s] = poll[s] /\ remaining'[s] = remaining[s] /\ capture'[s] = capture[s]
      /\ captured'[s] = captured[s] /\ failure'[s] = failure[s]
      /\ published'[s] = published[s] /\ drops'[s] = drops[s]
      /\ SameEnd(s) /\ SameHandler(s)
  BY StreamFunctions DEF CoalesceState, rpcVars, pollVars, fifoVars, terminalVars, SameEnd,
     SameHandler
<1>2. /\ \E f : Embeds(f, Reported(s)', Reported(s))
      /\ \A i \in 1..Len(events'[s]) :
           IsState(events'[s][i]) => events'[s][i].channel = NoChannel
  <2>1. events[s] \in Seq(Events) /\ published[s] \in Seq(Events) /\ AtMostOneState(events[s])
        /\ Reported(s) \in Seq(Events)
    BY StreamTyped DEF IInv, FifoOK
  <2>2. \A i \in 1..Len(events[s]) : IsState(events[s][i]) => events[s][i].channel = NoChannel
    BY <1>0 DEF Orders
  <2>3. CASE PendingState(events[s]) = 0
    <3>1. UNCHANGED events
      BY <2>3 DEF CoalesceState, fifoVars
    <3>2. Reported(s)' = Reported(s)
      BY <1>1, <3>1 DEF Reported
    <3>3. Len(Reported(s)) \in Nat
      BY <2>1, LenProperties
    <3>4. Embeds([i \in 1..Len(Reported(s)) |-> i], Reported(s), Reported(s))
      BY <2>1, <3>3 DEF Embeds, SameEvent
    <3>5. QED
      BY <2>2, <3>1, <3>2, <3>4
  <2>4. CASE PendingState(events[s]) # 0
    <3> DEFINE k == PendingState(events[s])
               w == RemoveAt(events[s], k)
    <3>1. k \in 1..Len(events[s]) /\ IsState(events[s][k])
      BY <2>1, <2>4, PendingStateFound
    <3>2. events' = [events EXCEPT ![s] = RemoveAt(events[s], k)]
      BY <2>4 DEF CoalesceState
    <3> HIDE DEF k
    <3>3. events'[s] = w
      BY <3>2, StreamFunctions
    <3>4. IsWithout(w, events[s], k)
      BY <2>1, <3>1, RemovalIsWithout
    <3> HIDE DEF w
    <3>5. events[s][k].channel = NoChannel
      BY <2>2, <3>1
    <3>6. \E f : Embeds(f, published[s] \o w, published[s] \o events[s])
      BY <2>1, <3>1, <3>4, <3>5, ReportedCoalesced
    <3>7. \E f : Embeds(f, Reported(s)', Reported(s))
      BY <1>1, <3>3, <3>6 DEF Reported
    <3>8. ASSUME NEW i \in 1..Len(w), IsState(w[i]) PROVE w[i].channel = NoChannel
      <4>1. Len(events[s]) \in Nat /\ Len(w) = Len(events[s]) - 1
            /\ w[i] = IF i < k THEN events[s][i] ELSE events[s][i + 1]
        BY <2>1, <3>4, LenProperties DEF IsWithout
      <4>2. i \in 1..Len(events[s]) /\ i + 1 \in 1..Len(events[s])
        BY <4>1
      <4>3. QED
        BY <2>2, <3>8, <4>1, <4>2
    <3>9. QED
      BY <3>3, <3>7, <3>8
  <2>5. QED
    BY <2>3, <2>4
<1>3. PICK f : Embeds(f, Reported(s)', Reported(s))
  BY <1>2
<1>4. Captures(s)'
  BY <1>0, <1>1 DEF Captures, Taken, Stopped, Capturing
<1>5. Carries(s)'
  BY <1>0, <1>1 DEF Carries
<1>6. Tells(s)'
  <2>1. ASSUME NEW c \in Channels, Balanced(s, c) PROVE Balanced(s, c)'
    <3>1. Carried(s, c)' = Carried(s, c)
      BY <1>1 DEF Carried, InHand
    <3>2. TellsOf(Reported(s)', c) = TellsOf(Reported(s), c) /\ Chains(Reported(s)', c)
      BY <1>3, <2>1, EmbeddedChains DEF Balanced
    <3>3. QED
      BY <1>1, <2>1, <3>1, <3>2 DEF Balanced
  <2>2. Open(s)' => Open(s)
    BY <1>1 DEF SameHandler, Open
  <2>3. QED
    BY <1>0, <2>1, <2>2 DEF Tells
<1>7. Orders(s)'
  <2>1. Reached(s)' = Reached(s) /\ Reached(s) \in Int /\ ~Stopped(s)
    BY <1>1 DEF Reached, Taken, Stopped, Capturing
  <2>2. InOrder(s, Reported(s)) /\ ProducedUpTo(s, Reported(s), poll[s], Reached(s))
    BY <1>0, <2>1 DEF Orders
  <2>3. poll[s] \in Int
    BY StreamTyped
  <2>4. InOrder(s, Reported(s)') /\ ProducedUpTo(s, Reported(s)', poll[s], Reached(s))
    BY <1>3, <2>1, <2>2, <2>3, EmbeddedOrder
  <2>5. QED
    BY <1>1, <1>2, <2>1, <2>4 DEF Orders
<1>8. Ends(s)' /\ Answers(s)'
  <2>1. s \notin finished /\ s \notin terminalReady /\ NoErrors(Reported(s))
    BY <1>0, <1>1, RunningEnds
  <2>2. NoErrors(Reported(s)')
    BY <1>3, <2>1, EmbeddedErrors
  <2>3. QED
    BY <1>0, <1>1, <2>1, <2>2, EndsOfProducer, AnswersOfProducer
<1>9. QED
  BY <1>4, <1>5, <1>6, <1>7, <1>8 DEF Story

LEMMA AppendStateStory ==
  ASSUME IInv, NEW s \in Streams, Story(s), AppendState(s)
  PROVE  Story(s)'
<1>0. Captures(s) /\ Carries(s) /\ Tells(s) /\ Orders(s) /\ Ends(s) /\ Answers(s)
  BY DEF Story
<1>1. PICK size \in Sizes :
        LET event == StateEvent(poll[s], size)
            errors == AppendErrors(s, event)
        IN \/ /\ errors = {}
              /\ AppendEvent(s, event)
              /\ Signal(s)
              /\ producer' = [producer EXCEPT ![s] = "capture"]
              /\ remaining' = [remaining EXCEPT ![s] = WaveformChannels[s]]
              /\ UNCHANGED failure
           \/ /\ errors # {}
              /\ Fails(s, errors)
              /\ UNCHANGED <<fifoVars, notify, remaining>>
  BY DEF AppendState
<1> DEFINE event == StateEvent(poll[s], size)
<1>2. /\ producer[s] = "coalesced" /\ poll'[s] = poll[s] /\ capture'[s] = capture[s]
      /\ captured'[s] = captured[s] /\ published'[s] = published[s] /\ drops'[s] = drops[s]
      /\ SameEnd(s) /\ SameHandler(s)
  BY DEF AppendState, rpcVars, terminalVars, SameEnd, SameHandler
<1>3. CASE AppendErrors(s, event) # {}
  <2>1. Fails(s, AppendErrors(s, event)) /\ UNCHANGED <<fifoVars, remaining>>
    BY <1>1, <1>3
  <2>2. SameQueue(s) /\ remaining'[s] = remaining[s]
    BY <1>2, <2>1 DEF SameQueue, fifoVars
  <2>3. QED
    BY <1>2, <2>1, <2>2, FailsStory
<1>4. CASE AppendErrors(s, event) = {}
  <2>1. /\ events' = [events EXCEPT ![s] = Append(events[s], event)]
        /\ producer' = [producer EXCEPT ![s] = "capture"]
        /\ remaining' = [remaining EXCEPT ![s] = WaveformChannels[s]]
        /\ failure' = failure
    BY <1>1, <1>4 DEF AppendEvent
  <2>2. /\ events'[s] = Append(events[s], event) /\ producer'[s] = "capture"
        /\ remaining'[s] = WaveformChannels[s] /\ failure'[s] = failure[s]
    BY <2>1, StreamFunctions
  <2>3. /\ event \in Events /\ IsState(event) /\ event.kind = "state" /\ event.channel = NoChannel
        /\ event.last = poll[s] /\ ~Critical(event)
    BY StreamTyped, KindsOfEvents, LimitsAreNatural DEF StateEvent, Critical
  <2> HIDE DEF event
  <2>4. events[s] \in Seq(Events) /\ published[s] \in Seq(Events) /\ Reported(s) \in Seq(Events)
        /\ poll[s] \in Nat
    BY StreamTyped
  <2>5. Reported(s)' = Append(Reported(s), event)
    BY <1>2, <2>2, <2>3, <2>4, ReportedAppended DEF Reported
  <2>6. /\ failure[s] = {}
        /\ \A k \in 1..Len(WaveformChannels[s]) :
             capture[s][WaveformChannels[s][k]] = IF k <= 0 THEN poll[s] ELSE poll[s] - 1
        /\ Reached(s) = 0 - 1 /\ ~Stopped(s)
    BY <1>0, <1>2 DEF Captures, Reached, Taken, Stopped, Capturing
  <2>7. Len(WaveformChannels[s]) \in Nat
    BY RequestedOnce
  <2>8. Taken(s)' = 0 /\ Reached(s)' = 0 /\ ~Stopped(s)'
    BY <2>2, <2>7 DEF Taken, Reached, Stopped, Capturing
  <2>9. Captures(s)'
    BY <1>2, <2>2, <2>6, <2>7, <2>8 DEF Captures
  <2>10. Carries(s)'
    BY <1>0, <1>2, <2>2 DEF Carries
  <2>11. Tells(s)'
    <3>1. ASSUME NEW c \in Channels, Balanced(s, c) PROVE Balanced(s, c)'
      <4>1. Carried(s, c)' = Carried(s, c)
        BY <1>2 DEF Carried, InHand
      <4>2. event.channel # c
        BY <2>3, NoChannelRequested
      <4>3. TellsOf(Reported(s)', c) = TellsOf(Reported(s), c) /\ Chains(Reported(s)', c)
        BY <2>3, <2>4, <2>5, <3>1, <4>2, AppendedChains DEF Balanced
      <4>4. QED
        BY <1>2, <2>2, <3>1, <4>1, <4>3 DEF Balanced
    <3>2. Open(s)' => Open(s)
      BY <1>2 DEF SameHandler, Open
    <3>3. QED
      BY <1>0, <3>1, <3>2 DEF Tells
  <2>12. Orders(s)'
    <3>1. InOrder(s, Reported(s)) /\ ProducedUpTo(s, Reported(s), poll[s], Reached(s))
      BY <1>0, <2>6 DEF Orders
    <3>2. Place(s, event) = 0 /\ Place(s, event) > Reached(s) /\ Reached(s) \in Int
      BY <2>3, <2>6, PlaceOfEvent
    <3>3. InOrder(s, Reported(s)') /\ ProducedUpTo(s, Reported(s)', poll[s], 0)
      BY <2>3, <2>4, <2>5, <3>1, <3>2, AppendedOrder
    <3>4. ASSUME NEW i \in 1..Len(events'[s]), IsState(events'[s][i])
          PROVE  events'[s][i].channel = NoChannel
      <4>1. Len(events'[s]) = Len(events[s]) + 1 /\ events'[s][Len(events[s]) + 1] = event
            /\ Len(events[s]) \in Nat /\ \A j \in 1..Len(events[s]) : events'[s][j] = events[s][j]
        BY <2>2, <2>3, <2>4, AppendProperties, LenProperties
      <4>2. i \in 1..Len(events[s]) \/ i = Len(events[s]) + 1
        BY <4>1
      <4>3. QED
        BY <1>0, <2>3, <3>4, <4>1, <4>2 DEF Orders
    <3>5. QED
      BY <1>2, <2>8, <3>3, <3>4 DEF Orders
  <2>13. Ends(s)' /\ Answers(s)'
    <3>1. s \notin finished /\ s \notin terminalReady /\ NoErrors(Reported(s))
      BY <1>0, <1>2, RunningEnds
    <3>2. NoErrors(Reported(s)')
      BY <2>3, <2>4, <2>5, <3>1, AppendedErrors
    <3>3. QED
      BY <1>0, <1>2, <3>1, <3>2, EndsOfProducer, AnswersOfProducer
  <2>14. QED
    BY <2>9, <2>10, <2>11, <2>12, <2>13 DEF Story
<1>5. QED
  BY <1>3, <1>4

\* The channel that is captured next, and its number.
LEMMA NextCapture ==
  ASSUME IInv, NEW s \in Streams, Captures(s), producer[s] = "capture", remaining[s] # <<>>
  PROVE  /\ Taken(s) \in Nat /\ Taken(s) + 1 \in 1..Len(WaveformChannels[s])
         /\ Head(remaining[s]) = WaveformChannels[s][Taken(s) + 1]
         /\ Head(remaining[s]) \in Channels
         /\ capture[s][Head(remaining[s])] = poll[s] - 1
         /\ Len(Tail(remaining[s])) = Len(WaveformChannels[s]) - (Taken(s) + 1)
         /\ \A i \in 1..Len(Tail(remaining[s])) :
              Tail(remaining[s])[i] = WaveformChannels[s][(Taken(s) + 1) + i]
<1> DEFINE W == WaveformChannels[s]
           r == remaining[s]
<1>1. r \in Seq(Channels) /\ poll[s] \in Nat
  BY StreamTyped
<1>2. Len(r) \in Nat /\ Len(r) # 0 /\ Head(r) = r[1]
      /\ Len(Tail(r)) = Len(r) - 1 /\ \A i \in 1..(Len(r) - 1) : Tail(r)[i] = r[i + 1]
  BY <1>1, EmptySeq, LenProperties, HeadTailProperties
<1>3. /\ \A k \in 1..Len(W) : capture[s][W[k]] = IF k <= Taken(s) THEN poll[s] ELSE poll[s] - 1
      /\ Len(r) <= Len(W) /\ Taken(s) = Len(W) - Len(r)
      /\ \A i \in 1..Len(r) : r[i] = W[Taken(s) + i]
  BY DEF Captures, Stopped, Capturing, Taken
<1>4. Len(W) \in Nat /\ \A k \in 1..Len(W) : W[k] \in Channels
  BY RequestedOnce
<1> HIDE DEF W, r
<1>5. Taken(s) \in Nat /\ Taken(s) + 1 \in 1..Len(W) /\ ~ (Taken(s) + 1 <= Taken(s))
      /\ Len(Tail(r)) = Len(W) - (Taken(s) + 1)
  BY <1>2, <1>3, <1>4
<1>6. Head(r) = W[Taken(s) + 1]
  BY <1>2, <1>3
<1>7. Head(r) \in Channels /\ capture[s][Head(r)] = poll[s] - 1
  BY <1>3, <1>4, <1>5, <1>6
<1>8. ASSUME NEW i \in 1..Len(Tail(r)) PROVE Tail(r)[i] = W[(Taken(s) + 1) + i]
  <2>1. i \in 1..(Len(r) - 1) /\ i + 1 \in 1..Len(r) /\ Taken(s) + (i + 1) = (Taken(s) + 1) + i
    BY <1>2, <1>5
  <2>2. QED
    BY <1>2, <1>3, <2>1
<1>9. QED
  BY <1>5, <1>6, <1>7, <1>8 DEF W, r

LEMMA CaptureWaveformStory ==
  ASSUME IInv, NEW s \in Streams, Story(s), CaptureWaveform(s)
  PROVE  Story(s)'
<1>0. Captures(s) /\ Carries(s) /\ Tells(s) /\ Orders(s) /\ Ends(s) /\ Answers(s)
  BY DEF Story
<1> DEFINE c == Head(remaining[s])
           n == capture[s][c] + 1
           T == Taken(s)
           W == WaveformChannels[s]
<1>1. PICK size \in Sizes :
        /\ capture' = [capture EXCEPT ![s][c] = n]
        /\ \/ /\ size <= EventBytes
              /\ captured' = [captured EXCEPT ![s] = <<WaveformEvent(c, n, size)>>]
              /\ producer' = [producer EXCEPT ![s] = "captured"]
              /\ UNCHANGED failure
           \/ /\ size > EventBytes
              /\ Fails(s, {"tooLarge"})
              /\ UNCHANGED captured
  BY DEF CaptureWaveform
<1>2. /\ producer[s] = "capture" /\ remaining[s] # <<>>
      /\ poll'[s] = poll[s] /\ SameQueue(s) /\ SameEnd(s) /\ SameHandler(s)
      /\ remaining' = [remaining EXCEPT ![s] = Tail(remaining[s])]
  BY DEF CaptureWaveform, rpcVars, fifoVars, terminalVars, SameQueue, SameEnd, SameHandler
<1>3. /\ T \in Nat /\ T + 1 \in 1..Len(W) /\ c = W[T + 1] /\ c \in Channels
      /\ capture[s][c] = poll[s] - 1
      /\ Len(Tail(remaining[s])) = Len(W) - (T + 1)
      /\ \A i \in 1..Len(Tail(remaining[s])) : Tail(remaining[s])[i] = W[(T + 1) + i]
  BY <1>0, <1>2, NextCapture
<1>4. /\ Len(W) \in Nat /\ (\A k \in 1..Len(W) : W[k] \in Channels)
      /\ \A j, k \in 1..Len(W) : W[j] = W[k] => j = k
  BY RequestedOnce
<1>5. failure[s] = {} /\ captured[s] = <<>> /\ poll[s] \in Nat
      /\ \A k \in 1..Len(W) : capture[s][W[k]] = IF k <= T THEN poll[s] ELSE poll[s] - 1
  BY <1>0, <1>2, StreamTyped DEF Captures, Stopped, Carries
<1> HIDE DEF c, T, W
<1>6. n = poll[s]
  BY <1>3, <1>5
<1>7. remaining'[s] = Tail(remaining[s])
  BY <1>2, StreamFunctions
<1>8. capture'[s][c] = n /\ \A d \in Channels : d # c => capture'[s][d] = capture[s][d]
  <2>1. capture \in [Streams -> [Channels -> Nat]] /\ capture' = [capture EXCEPT ![s][c] = n]
    BY <1>1, StreamFunctions
  <2> HIDE DEF n
  <2>2. QED
    BY <1>3, <2>1
<1>9. Reported(s)' = Reported(s)
  BY <1>2, SameReported
<1>10. \/ producer'[s] = "captured" /\ captured'[s] = <<WaveformEvent(c, n, size)>>
          /\ failure'[s] = {}
       \/ producer'[s] = "failing" /\ captured'[s] = <<>> /\ failure'[s] = {"tooLarge"}
  <2>1. CASE size <= EventBytes
    <3>1. ~ (size > EventBytes)
      BY <2>1, LimitsAreNatural
    <3>2. QED
      BY <1>1, <1>5, <3>1, StreamFunctions
  <2>2. CASE ~ (size <= EventBytes)
    BY <1>1, <1>5, <2>2, StreamFunctions DEF Fails
  <2>3. QED
    BY <2>1, <2>2
<1>11. producer'[s] = "captured" => Taken(s)' = T + 1
  <2>1. ASSUME producer'[s] = "captured" PROVE Taken(s)' = T + 1
    <3>1. Taken(s)' = Len(W) - Len(Tail(remaining[s]))
      BY <1>7, <2>1 DEF Taken, Capturing, W
    <3>2. \A m, t \in Nat : m - (m - (t + 1)) = t + 1
      OBVIOUS
    <3>3. Len(W) - (Len(W) - (T + 1)) = T + 1
      BY <1>3, <1>4, <3>2
    <3>4. QED
      BY <1>3, <3>1, <3>3
  <2>2. QED
    BY <2>1
<1>12. Captures(s)'
  <2>1. CASE producer'[s] = "captured"
    <3>1. \A k \in 1..Len(W) : capture'[s][W[k]] = IF k <= T + 1 THEN poll[s] ELSE poll[s] - 1
      <4>1. TAKE k \in 1..Len(W)
      <4>2. CASE k = T + 1
        BY <1>3, <1>6, <1>8, <4>2
      <4>3. CASE k # T + 1
        <5>1. W[k] # c /\ W[k] \in Channels
          BY <1>3, <1>4, <4>3
        <5>2. capture'[s][W[k]] = capture[s][W[k]]
          BY <1>8, <5>1
        <5>3. k <= T + 1 <=> k <= T
          BY <1>3, <4>3
        <5>4. QED
          BY <1>5, <5>2, <5>3
      <4>4. QED
        BY <4>2, <4>3
    <3>2. Len(Tail(remaining[s])) <= Len(W)
      BY <1>3, <1>4
    <3>3. QED
      BY <1>2, <1>3, <1>7, <1>10, <1>11, <2>1, <3>1, <3>2 DEF Captures, W
  <2>2. CASE producer'[s] = "failing"
    BY <2>2 DEF Captures, Stopped
  <2>3. QED
    BY <1>10, <2>1, <2>2
<1>13. Carries(s)'
  <2>1. CASE producer'[s] = "captured"
    <3>1. captured'[s] = <<WaveformEvent(c, n, size)>>
      BY <1>10, <2>1
    <3>2. Head(captured'[s]) = WaveformEvent(c, n, size) /\ captured'[s] # <<>>
      BY <3>1
    <3>3. /\ Head(captured'[s]).kind = "waveform" /\ Head(captured'[s]).channel = c
          /\ Head(captured'[s]).first = poll[s] /\ Head(captured'[s]).last = poll[s]
      BY <1>6, <3>2 DEF WaveformEvent
    <3>4. Taken(s)' = T + 1 /\ T + 1 > 0
      BY <1>3, <1>11, <2>1
    <3>5. QED
      BY <1>2, <1>3, <2>1, <3>2, <3>3, <3>4 DEF Carries, W
  <2>2. CASE producer'[s] = "failing"
    BY <1>10, <2>2 DEF Carries
  <2>3. QED
    BY <1>10, <2>1, <2>2
<1>14. Tells(s)'
  <2>1. ASSUME NEW d \in Channels, Balanced(s, d) PROVE Balanced(s, d)'
    <3>1. Carried(s, d) = 0
      BY <1>5 DEF Carried, InHand
    <3>2. /\ drops'[s][d] = drops[s][d] /\ drops[s][d] \in Drops /\ capture[s][d] \in Nat
          /\ TellsOf(Reported(s), d) \in Nat
      BY <1>2, StreamTyped DEF SameQueue, Drops
    <3>3. Balance(TellsOf(Reported(s), d), drops[s][d], capture[s][d], 0, {})
      BY <1>5, <2>1, <3>1 DEF Balanced
    <3>4. Balance(TellsOf(Reported(s), d), drops[s][d], capture'[s][d], Carried(s, d)', failure'[s])
      <4>1. CASE d = c
        <5>1. capture'[s][d] = capture[s][d] + 1
          BY <1>8, <4>1
        <5>2. producer'[s] = "captured" => Carried(s, d)' = 1
          BY <1>10, <4>1 DEF Carried, InHand, WaveformEvent
        <5>3. producer'[s] = "failing" => Carried(s, d)' = 0
          BY <1>10 DEF Carried, InHand
        <5>4. /\ \A errors : Balance(TellsOf(Reported(s), d), drops[s][d], capture[s][d] + 1, 1, errors)
              /\ Balance(TellsOf(Reported(s), d), drops[s][d], capture[s][d] + 1, 0, {"tooLarge"})
          BY <3>2, <3>3, BalanceTaken
        <5>5. QED
          BY <1>10, <5>1, <5>2, <5>3, <5>4
      <4>2. CASE d # c
        <5>1. capture'[s][d] = capture[s][d]
          BY <1>8, <4>2
        <5>2. Carried(s, d)' = 0
          BY <1>10, <4>2 DEF Carried, InHand, WaveformEvent
        <5>3. \A errors : Balance(TellsOf(Reported(s), d), drops[s][d], capture[s][d], 0, errors)
          BY <3>2, <3>3, BalanceFails
        <5>4. QED
          BY <5>1, <5>2, <5>3
      <4>3. QED
        BY <4>1, <4>2
    <3>5. QED
      BY <1>9, <2>1, <3>2, <3>4 DEF Balanced
  <2>2. Open(s)' => Open(s)
    BY <1>2 DEF SameHandler, Open
  <2>3. QED
    BY <1>0, <2>1, <2>2 DEF Tells
<1>15. Orders(s)'
  <2>1. events'[s] = events[s]
    BY <1>2 DEF SameQueue
  <2>2. CASE producer'[s] = "captured"
    <3>1. Reached(s) = T /\ ~Stopped(s)
      BY <1>2 DEF Reached, Stopped, T
    <3>2. Reached(s)' = (T + 1) - 1
      BY <1>11, <2>2 DEF Reached
    <3>3. Reached(s)' = Reached(s)
      BY <1>3, <3>1, <3>2
    <3>4. QED
      BY <1>0, <1>2, <1>9, <2>1, <3>1, <3>3 DEF Orders
  <2>3. CASE producer'[s] = "failing"
    BY <1>0, <1>9, <2>1, <2>3 DEF Orders, Stopped
  <2>4. QED
    BY <1>10, <2>2, <2>3
<1>16. Ends(s)' /\ Answers(s)'
  <2>1. s \notin finished /\ s \notin terminalReady /\ NoErrors(Reported(s))
    BY <1>0, <1>2, RunningEnds
  <2>2. QED
    BY <1>0, <1>2, <1>9, <2>1, EndsOfProducer, AnswersOfProducer
<1>17. QED
  BY <1>12, <1>13, <1>14, <1>15, <1>16 DEF Story

LEMMA NextPollStory ==
  ASSUME IInv, NEW s \in Streams, Story(s), NextPoll(s)
  PROVE  Story(s)'
<1>0. Captures(s) /\ Carries(s) /\ Tells(s) /\ Orders(s) /\ Ends(s) /\ Answers(s)
  BY DEF Story
<1>1. /\ remaining'[s] = remaining[s] /\ capture'[s] = capture[s] /\ captured'[s] = captured[s]
      /\ failure'[s] = failure[s] /\ SameQueue(s) /\ SameEnd(s) /\ SameHandler(s)
  BY DEF NextPoll, rpcVars, fifoVars, terminalVars, SameQueue, SameEnd, SameHandler
<1>2. \/ producer[s] = "capture" /\ remaining[s] = <<>> /\ producer'[s] = "sleeping"
         /\ poll'[s] = poll[s]
      \/ producer[s] = "sleeping" /\ producer'[s] = "admission" /\ poll'[s] = poll[s] + 1
  BY StreamFunctions DEF NextPoll
<1>3. Reported(s)' = Reported(s) /\ poll[s] \in Nat /\ Reported(s) \in Seq(Events)
  BY <1>1, SameReported, StreamTyped
<1>4. Len(WaveformChannels[s]) \in Nat
  BY RequestedOnce
<1>5. Taken(s) = Len(WaveformChannels[s])
  <2>1. CASE producer[s] = "capture"
    <3>1. Len(remaining[s]) = 0
      BY <1>2, <2>1
    <3>2. QED
      BY <1>4, <2>1, <3>1 DEF Taken, Capturing
  <2>2. CASE producer[s] = "sleeping"
    BY <2>2 DEF Taken, Capturing
  <2>3. QED
    BY <1>2, <2>1, <2>2
<1>6. Taken(s)' = IF producer'[s] = "sleeping" THEN Len(WaveformChannels[s]) ELSE 0
  BY <1>2 DEF Taken, Capturing
<1>7. Captures(s)'
  <2>1. failure[s] = {} /\ \A k \in 1..Len(WaveformChannels[s]) :
           capture[s][WaveformChannels[s][k]] = poll[s]
    BY <1>0, <1>2, <1>4, <1>5 DEF Captures, Stopped
  <2>2. \A k \in 1..Len(WaveformChannels[s]) :
          poll[s] = IF k <= Taken(s)' THEN poll'[s] ELSE poll'[s] - 1
    BY <1>2, <1>3, <1>4, <1>6
  <2>3. QED
    BY <1>1, <1>2, <2>1, <2>2 DEF Captures, Capturing
<1>8. Carries(s)'
  BY <1>0, <1>1, <1>2 DEF Carries
<1>9. Tells(s)'
  <2>1. \A d \in Channels : Carried(s, d)' = Carried(s, d)
    BY <1>1 DEF Carried, InHand
  <2>2. \A d \in Channels : Balanced(s, d) => Balanced(s, d)'
    BY <1>1, <1>3, <2>1 DEF SameQueue, Balanced
  <2>3. Open(s)' => Open(s)
    BY <1>1 DEF SameHandler, Open
  <2>4. QED
    BY <1>0, <2>2, <2>3 DEF Tells
<1>10. Orders(s)'
  <2>1. InOrder(s, Reported(s)) /\ ProducedUpTo(s, Reported(s), poll[s], Reached(s))
        /\ Reached(s) = Len(WaveformChannels[s])
    BY <1>0, <1>2, <1>5 DEF Orders, Reached, Stopped
  <2>2. ProducedUpTo(s, Reported(s), poll'[s], Reached(s)')
    <3>1. CASE producer[s] = "capture"
      BY <1>2, <1>6, <2>1, <3>1 DEF Reached
    <3>2. CASE producer[s] = "sleeping"
      <4>1. Reached(s)' = 0 - 1 /\ poll'[s] = poll[s] + 1
        BY <1>2, <1>6, <3>2 DEF Reached
      <4>2. Reached(s)' \in Int /\ poll[s] \in Int /\ Reached(s) \in Int
        BY <1>3, <1>4, <2>1, <4>1
      <4>3. \A j \in Int : ProducedUpTo(s, Reported(s), poll[s] + 1, j)
        BY <1>3, <2>1, <4>2, ProducedLater
      <4>4. QED
        BY <4>1, <4>2, <4>3
    <3>3. QED
      BY <1>2, <3>1, <3>2
  <2>3. QED
    BY <1>0, <1>1, <1>3, <2>1, <2>2 DEF Orders, SameQueue
<1>11. Ends(s)' /\ Answers(s)'
  <2>1. s \notin finished /\ s \notin terminalReady /\ NoErrors(Reported(s))
    BY <1>0, <1>2, RunningEnds
  <2>2. QED
    BY <1>0, <1>1, <1>3, <2>1, EndsOfProducer, AnswersOfProducer
<1>12. QED
  BY <1>7, <1>8, <1>9, <1>10, <1>11 DEF Story

\* The waveform that an enqueue carries.
LEMMA CarriedWaveform ==
  ASSUME IInv, NEW s \in Streams, Captures(s), Carries(s), producer[s] \in {"captured", "gapped"},
         NEW w, w = Head(captured[s])
  PROVE  /\ w \in Events /\ w.channel \in Channels /\ ~Critical(w) /\ ~IsState(w)
         /\ w.kind = "waveform" /\ w.channel # NoChannel
         /\ Taken(s) \in Nat /\ Taken(s) > 0 /\ Place(s, w) = Taken(s)
         /\ w.first = poll[s] /\ w.last = poll[s] /\ capture[s][w.channel] = poll[s]
         /\ failure[s] = {} /\ InHand(s, w.channel)
         /\ \A c \in Channels : c # w.channel => Carried(s, c) = 0
<1> DEFINE W == WaveformChannels[s]
<1>1. captured[s] \in Seq(Events) /\ remaining[s] \in Seq(Channels) /\ poll[s] \in Nat
  BY StreamTyped
<1>2. /\ captured[s] # <<>> /\ Taken(s) > 0 /\ w.kind = "waveform" /\ w.channel = W[Taken(s)]
      /\ w.first = poll[s] /\ w.last = poll[s]
  BY DEF Carries
<1>3. w \in Events
  BY <1>1, <1>2, HeadTailProperties
<1>4. /\ failure[s] = {} /\ Taken(s) = Len(W) - Len(remaining[s]) /\ Len(remaining[s]) <= Len(W)
      /\ \A k \in 1..Len(W) : capture[s][W[k]] = IF k <= Taken(s) THEN poll[s] ELSE poll[s] - 1
  BY DEF Captures, Stopped, Taken, Capturing
<1>5. Len(W) \in Nat /\ Len(remaining[s]) \in Nat
  BY <1>1, RequestedOnce, LenProperties
<1>6. \A k \in 1..Len(W) : W[k] \in Channels /\ W[k] # NoChannel
  BY RequestedOnce
<1> HIDE DEF W
<1>7. Taken(s) \in Nat /\ Taken(s) \in 1..Len(W) /\ Taken(s) <= Taken(s)
  BY <1>2, <1>4, <1>5
<1>8. w.channel \in Channels /\ w.channel # NoChannel /\ capture[s][w.channel] = poll[s]
  BY <1>2, <1>4, <1>6, <1>7
<1>9. Place(s, w) = Taken(s)
  BY <1>2, <1>7, PlaceOfEvent DEF W
<1>10. ~Critical(w) /\ ~IsState(w)
  BY <1>2 DEF Critical, IsState
<1>11. InHand(s, w.channel) /\ \A c \in Channels : c # w.channel => Carried(s, c) = 0
  BY <1>2 DEF InHand, Carried
<1>12. QED
  BY <1>2, <1>3, <1>4, <1>7, <1>8, <1>9, <1>10, <1>11

LEMMA DropJoined ==
  ASSUME IInv, NEW s \in Streams, NEW w \in Events, w.channel \in Channels, RecordDrop(s, w)
  PROVE  /\ drops'[s][w.channel] \in Drops
         /\ drops'[s][w.channel].last = w.last
         /\ drops'[s][w.channel].count = drops[s][w.channel].count + 1
         /\ drops'[s][w.channel].first
              = IF drops[s][w.channel] = NoDrop THEN w.last ELSE drops[s][w.channel].first
         /\ \A c \in Channels : c # w.channel => drops'[s][c] = drops[s][c]
<1> DEFINE c == w.channel
           drop == [first |-> IF drops[s][c] = NoDrop THEN w.last ELSE drops[s][c].first,
                    last |-> w.last,
                    count |-> drops[s][c].count + 1]
<1>1. drops \in [Streams -> [Channels -> Drops]]
  BY StreamFunctions DEF Drops
<1>2. drops[s][c] \in Drops /\ w.last \in Nat
  BY <1>1 DEF Events
<1>3. drop \in Drops
  BY <1>2 DEF Drops
<1>4. drops' = [drops EXCEPT ![s][c] = drop]
  BY DEF RecordDrop
<1>5. /\ drop.last = w.last /\ drop.count = drops[s][c].count + 1
      /\ drop.first = IF drops[s][c] = NoDrop THEN w.last ELSE drops[s][c].first
  OBVIOUS
<1> HIDE DEF drop
<1>6. drops'[s][c] = drop /\ \A d \in Channels : d # c => drops'[s][d] = drops[s][d]
  <2> HIDE DEF c
  <2>1. c \in Channels
    BY DEF c
  <2>2. QED
    BY <1>1, <1>4, <2>1
<1>7. QED
  BY <1>3, <1>5, <1>6

\* The gap of a channel is told, and its drop forgotten: by the producer, before the
\* waveform that follows, or by the handler, before the terminal event.
LEMMA GapTold ==
  ASSUME IInv, NEW s \in Streams, Tells(s), Open(s), NEW c \in Channels, HasDrop(s, c),
         NEW gap, gap = GapEvent(c, drops[s][c]),
         events'[s] = Append(events[s], gap), drops'[s][c] = NoDrop,
         \A d \in Channels : d # c => drops'[s][d] = drops[s][d],
         published'[s] = published[s], capture'[s] = capture[s],
         captured'[s] = captured[s], failure'[s] = failure[s]
  PROVE  /\ Tells(s)'
         /\ \A d \in Channels : HasDrop(s, d)' => HasDrop(s, d)
         /\ Reported(s)' = Append(Reported(s), gap)
         /\ gap \in Events /\ Critical(gap) /\ gap.kind = "gap" /\ ~IsState(gap)
<1> DEFINE drop == drops[s][c]
<1>1. drop # NoDrop /\ drop \in Drops /\ \A d \in Channels : drops[s][d] \in Drops
  BY StreamTyped DEF HasDrop, Drops
<1>2. /\ gap \in Events /\ Critical(gap) /\ gap.kind = "gap" /\ ~IsState(gap)
      /\ gap.channel = c /\ gap.first = drop.first /\ gap.last = drop.last
  <2>1. gap \in Events /\ Critical(gap) /\ ~IsState(gap)
    BY <1>1, KindsOfEvents DEF Drops
  <2>2. QED
    BY <2>1 DEF GapEvent
<1>5. events[s] \in Seq(Events) /\ published[s] \in Seq(Events) /\ Reported(s) \in Seq(Events)
  BY StreamTyped
<1> HIDE DEF drop
<1>6. Reported(s)' = Append(Reported(s), gap)
  <2>1. published[s] \o Append(events[s], gap) = Append(published[s] \o events[s], gap)
    BY <1>2, <1>5, ReportedAppended
  <2>2. QED
    BY <2>1 DEF Reported
<1>7. ASSUME NEW d \in Channels PROVE Balanced(s, d)'
  <2>1. Balanced(s, d)
    BY DEF Tells
  <2>2. Carried(s, d)' = Carried(s, d) /\ Carried(s, d) \in {0, 1}
    BY DEF Carried, InHand
  <2>3. capture[s][d] \in Nat /\ TellsOf(Reported(s), d) \in Nat
    BY StreamTyped
  <2>4. CASE d = c
    <3>1. Balance(TellsOf(Reported(s), c), drop, capture[s][c], Carried(s, c), failure[s])
      BY <2>1, <2>4 DEF Balanced, drop
    <3>2. /\ Balance(drop.last, NoDrop, capture[s][c], Carried(s, c), failure[s])
          /\ drop.first = TellsOf(Reported(s), c) + 1
      BY <1>1, <2>2, <2>3, <2>4, <3>1, BalanceOfGap
    <3>3. TellsOf(Reported(s)', c) = drop.last /\ Chains(Reported(s)', c)
      BY <1>2, <1>5, <1>6, <2>1, <2>4, <3>2, AppendedChains DEF Balanced
    <3>4. QED
      BY <2>2, <2>4, <3>2, <3>3 DEF Balanced
  <2>5. CASE d # c
    <3>1. TellsOf(Reported(s)', d) = TellsOf(Reported(s), d) /\ Chains(Reported(s)', d)
      BY <1>2, <1>5, <1>6, <2>1, <2>5, AppendedChains DEF Balanced
    <3>2. QED
      BY <2>1, <2>2, <2>5, <3>1 DEF Balanced
  <2>6. QED
    BY <2>4, <2>5
<1>8. Tells(s)'
  BY <1>7 DEF Tells
<1>9. \A d \in Channels : HasDrop(s, d)' => HasDrop(s, d)
  BY DEF HasDrop
<1>10. QED
  BY <1>2, <1>6, <1>8, <1>9

\* The orders of a history to which a critical event is appended.
LEMMA CriticalTold ==
  ASSUME IInv, NEW s \in Streams, Orders(s), NEW event \in Events, Critical(event), ~IsState(event),
         events'[s] = Append(events[s], event), Reported(s)' = Append(Reported(s), event),
         Stopped(s)' <=> Stopped(s), Reached(s)' = Reached(s), poll'[s] = poll[s],
         ~Stopped(s) => Reached(s) \in Int
  PROVE  Orders(s)'
<1>1. events[s] \in Seq(Events) /\ Reported(s) \in Seq(Events) /\ poll[s] \in Nat
  BY StreamTyped
<1>2. InOrder(s, Reported(s))
      /\ (~Stopped(s) => ProducedUpTo(s, Reported(s), poll[s], Reached(s)))
  BY DEF Orders
<1>3. InOrder(s, Reported(s)')
  <2>1. \A i, j \in 1..Len(Reported(s)') :
          ~Critical(Reported(s)'[i]) /\ i < j /\ ~Critical(Reported(s)'[j])
            => ProducedBefore(s, Reported(s)'[i], Reported(s)'[j])
    <3>1. TAKE i, j \in 1..Len(Reported(s)')
    <3>2. /\ Len(Reported(s)) \in Nat /\ Len(Reported(s)') = Len(Reported(s)) + 1
          /\ Reported(s)'[Len(Reported(s)) + 1] = event
          /\ \A x \in 1..Len(Reported(s)) : Reported(s)'[x] = Reported(s)[x]
      BY <1>1, AppendProperties, LenProperties
    <3>3. \A x \in 1..Len(Reported(s)') :
            ~Critical(Reported(s)'[x]) => x \in 1..Len(Reported(s)) /\ Reported(s)'[x] = Reported(s)[x]
      BY <3>2
    <3>4. QED
      BY <1>2, <3>3 DEF InOrder
  <2>2. QED
    BY <2>1 DEF InOrder
<1>4. ~Stopped(s) => ProducedUpTo(s, Reported(s)', poll[s], Reached(s))
  BY <1>1, <1>2, AppendedOrder
<1>5. ASSUME NEW i \in 1..Len(events'[s]), IsState(events'[s][i])
      PROVE  events'[s][i].channel = NoChannel
  <2>1. Len(events'[s]) = Len(events[s]) + 1 /\ events'[s][Len(events[s]) + 1] = event
        /\ Len(events[s]) \in Nat /\ \A j \in 1..Len(events[s]) : events'[s][j] = events[s][j]
    BY <1>1, AppendProperties, LenProperties
  <2>2. i \in 1..Len(events[s])
    BY <1>5, <2>1
  <2>3. QED
    BY <1>5, <2>1, <2>2 DEF Orders
<1>6. QED
  BY <1>3, <1>4, <1>5 DEF Orders

LEMMA AppendGapStory ==
  ASSUME IInv, NEW s \in Streams, Story(s), AppendGap(s)
  PROVE  Story(s)'
<1>0. Captures(s) /\ Carries(s) /\ Tells(s) /\ Orders(s) /\ Ends(s) /\ Answers(s)
  BY DEF Story
<1> DEFINE w == Head(captured[s])
           c == w.channel
           gap == GapEvent(c, drops[s][c])
<1>1. /\ HasDrop(s, c)
      /\ \/ /\ AppendErrors(s, gap) = {}
            /\ AppendEvent(s, gap)
            /\ drops' = [drops EXCEPT ![s][c] = NoDrop]
            /\ producer' = [producer EXCEPT ![s] = "gapped"]
            /\ UNCHANGED <<captured, failure>>
         \/ /\ AppendErrors(s, gap) # {}
            /\ RecordDrop(s, w)
            /\ captured' = [captured EXCEPT ![s] = <<>>]
            /\ Fails(s, AppendErrors(s, gap))
            /\ UNCHANGED fifoVars
  BY DEF AppendGap
<1>2. /\ producer[s] = "captured" /\ poll'[s] = poll[s] /\ remaining'[s] = remaining[s]
      /\ capture'[s] = capture[s] /\ published'[s] = published[s]
      /\ SameEnd(s) /\ SameHandler(s)
  BY DEF AppendGap, rpcVars, terminalVars, SameEnd, SameHandler
<1>3. /\ w \in Events /\ c \in Channels /\ ~Critical(w)
      /\ Taken(s) \in Nat /\ Taken(s) > 0
      /\ w.last = poll[s] /\ capture[s][c] = poll[s]
      /\ failure[s] = {} /\ InHand(s, c)
      /\ \A d \in Channels : d # c => Carried(s, d) = 0
  BY <1>0, <1>2, CarriedWaveform
<1>4. s \notin finished /\ s \notin terminalReady /\ Open(s) /\ NoErrors(Reported(s))
  BY <1>0, <1>2, RunningEnds
<1> HIDE DEF w, c
<1>5. CASE AppendErrors(s, gap) = {}
  <2>1. /\ events' = [events EXCEPT ![s] = Append(events[s], gap)]
        /\ drops' = [drops EXCEPT ![s][c] = NoDrop]
        /\ producer' = [producer EXCEPT ![s] = "gapped"]
        /\ captured' = captured /\ failure' = failure
    BY <1>1, <1>5 DEF AppendEvent
  <2>2. producer'[s] = "gapped" /\ captured'[s] = captured[s] /\ failure'[s] = failure[s]
    BY <2>1, StreamFunctions
  <2>3. gap = GapEvent(c, drops[s][c])
    OBVIOUS
  <2> HIDE DEF gap
  <2>12. capture'[s] = capture[s] /\ published'[s] = published[s] /\ HasDrop(s, c) /\ Tells(s)
         /\ c \in Channels /\ Open(s)
    BY <1>0, <1>1, <1>2, <1>3, <1>4
  <2>13. /\ events'[s] = Append(events[s], gap) /\ drops'[s][c] = NoDrop
         /\ \A d \in Channels : d # c => drops'[s][d] = drops[s][d]
    BY <2>1, <2>12, StreamFunctions
  <2>4. /\ Tells(s)'
        /\ Reported(s)' = Append(Reported(s), gap)
        /\ gap \in Events /\ Critical(gap) /\ gap.kind = "gap" /\ ~IsState(gap)
    BY <2>2, <2>3, <2>12, <2>13, GapTold
  <2>5. Taken(s)' = Taken(s)
    BY <1>2, <2>2 DEF Taken, Capturing
  <2>6. Captures(s)'
    BY <1>0, <1>2, <2>2, <2>5 DEF Captures, Capturing, Stopped
  <2>7. Carries(s)'
    BY <1>0, <1>2, <2>2, <2>5, <2>13 DEF Carries, HasDrop, w, c
  <2>8. Orders(s)'
    <3>1. (Stopped(s)' <=> Stopped(s)) /\ Reached(s)' = Reached(s) /\ Reached(s) \in Int
      BY <1>2, <1>3, <2>2, <2>5 DEF Stopped, Reached
    <3>2. QED
      BY <1>0, <1>2, <2>4, <2>13, <3>1, CriticalTold
  <2>9. NoErrors(Reported(s)')
    BY <1>4, <2>4, StreamTyped, AppendedErrors
  <2>10. Ends(s)' /\ Answers(s)'
    BY <1>0, <1>2, <1>4, <2>9, EndsOfProducer, AnswersOfProducer
  <2>11. QED
    BY <2>4, <2>6, <2>7, <2>8, <2>10 DEF Story
<1>6. CASE AppendErrors(s, gap) # {}
  <2>1. /\ RecordDrop(s, w) /\ captured' = [captured EXCEPT ![s] = <<>>]
        /\ Fails(s, AppendErrors(s, gap)) /\ events' = events
    BY <1>1, <1>6 DEF fifoVars
  <2>2. producer'[s] = "failing" /\ captured'[s] = <<>>
    BY <2>1, StreamFunctions DEF Fails
  <2>3. Reported(s)' = Reported(s)
    BY <1>2, <2>1 DEF Reported
  <2>4. Captures(s)' /\ Carries(s)'
    BY <2>2 DEF Captures, Stopped, Carries
  <2>5. Tells(s)'
    <3>1. w.channel \in Channels /\ w.channel = c
      BY <1>3 DEF c
    <3>2. /\ drops'[s][c] \in Drops /\ drops'[s][c].last = capture[s][c]
          /\ drops'[s][c].count = drops[s][c].count + 1
          /\ drops'[s][c].first = IF drops[s][c] = NoDrop THEN capture[s][c] ELSE drops[s][c].first
          /\ \A d \in Channels : d # c => drops'[s][d] = drops[s][d]
      BY <1>3, <2>1, <3>1, DropJoined
    <3>3. ASSUME NEW d \in Channels, Balanced(s, d) PROVE Balanced(s, d)'
      <4>1. capture[s][d] \in Nat /\ TellsOf(Reported(s), d) \in Nat /\ drops[s][d] \in Drops
        BY StreamTyped DEF Drops
      <4>2. Carried(s, d)' = 0 /\ Carried(s, d) = IF d = c THEN 1 ELSE 0
        BY <1>3, <2>2 DEF Carried, InHand
      <4>3. Balance(TellsOf(Reported(s), d), drops[s][d], capture[s][d], Carried(s, d), {})
        BY <1>3, <3>3 DEF Balanced
      <4>4. Balance(TellsOf(Reported(s), d), drops'[s][d], capture[s][d], 0, failure'[s])
        <5>1. CASE d = c
          BY <3>2, <4>1, <4>2, <4>3, <5>1, BalanceOfDrop
        <5>2. CASE d # c
          BY <3>2, <4>1, <4>2, <4>3, <5>2, BalanceFails
        <5>3. QED
          BY <5>1, <5>2
      <4>5. QED
        BY <1>2, <2>3, <3>3, <4>2, <4>4 DEF Balanced
    <3>4. QED
      BY <1>0, <1>4, <3>3 DEF Tells
  <2>6. Orders(s)'
    BY <1>0, <2>1, <2>2, <2>3 DEF Orders, Stopped
  <2>7. Ends(s)' /\ Answers(s)'
    BY <1>0, <1>2, <1>4, <2>3, EndsOfProducer, AnswersOfProducer
  <2>8. QED
    BY <2>4, <2>5, <2>6, <2>7 DEF Story
<1>7. QED
  BY <1>5, <1>6

LEMMA AppendWaveformStory ==
  ASSUME IInv, NEW s \in Streams, Story(s), AppendWaveform(s)
  PROVE  Story(s)'
<1>0. Captures(s) /\ Carries(s) /\ Tells(s) /\ Orders(s) /\ Ends(s) /\ Answers(s)
  BY DEF Story
<1> DEFINE w == Head(captured[s])
           c == w.channel
<1>1. \/ /\ AppendErrors(s, w) = {}
         /\ WaveformAdmitted(s, w)
         /\ UNCHANGED <<drops, failure>>
      \/ /\ AppendErrors(s, w) = {"backpressure"}
         /\ RecordDrop(s, w)
         /\ producer' = [producer EXCEPT ![s] = "capture"]
         /\ UNCHANGED <<fifoVars, notify, failure>>
      \/ /\ AppendErrors(s, w) = {"exhausted"}
         /\ Fails(s, {"exhausted"})
         /\ UNCHANGED <<fifoVars, notify, drops>>
  BY DEF AppendWaveform
<1>2. /\ producer[s] \in {"captured", "gapped"} /\ poll'[s] = poll[s]
      /\ remaining'[s] = remaining[s] /\ capture'[s] = capture[s] /\ published'[s] = published[s]
      /\ SameEnd(s) /\ SameHandler(s)
      /\ captured' = [captured EXCEPT ![s] = <<>>]
  BY DEF AppendWaveform, rpcVars, terminalVars, SameEnd, SameHandler
<1>3. /\ w \in Events /\ c \in Channels /\ ~Critical(w) /\ ~IsState(w) /\ w.kind = "waveform"
      /\ Taken(s) \in Nat /\ Taken(s) > 0 /\ Place(s, w) = Taken(s)
      /\ w.first = poll[s] /\ w.last = poll[s] /\ capture[s][c] = poll[s]
      /\ failure[s] = {} /\ InHand(s, c)
      /\ \A d \in Channels : d # c => Carried(s, d) = 0
  BY <1>0, <1>2, CarriedWaveform
<1>4. s \notin finished /\ s \notin terminalReady /\ Open(s) /\ NoErrors(Reported(s))
  BY <1>0, <1>2, RunningEnds
<1>5. drops[s][c] = NoDrop
  BY <1>0, <1>2 DEF AppendWaveform, Carries, HasDrop
<1>6. w.channel = c
  OBVIOUS
<1> HIDE DEF w, c
<1>7. captured'[s] = <<>> /\ \A d \in Channels : Carried(s, d)' = 0
  <2>1. captured'[s] = <<>>
    BY <1>2, StreamFunctions
  <2>2. QED
    BY <2>1 DEF Carried, InHand
<1>8. ASSUME NEW d \in Channels
      PROVE  /\ Chains(Reported(s), d)
             /\ Balance(TellsOf(Reported(s), d), drops[s][d], capture[s][d],
                        IF d = c THEN 1 ELSE 0, {})
             /\ capture[s][d] \in Nat /\ TellsOf(Reported(s), d) \in Nat /\ drops[s][d] \in Drops
             /\ d # c => \A errors :
                  Balance(TellsOf(Reported(s), d), drops[s][d], capture[s][d], 0, errors)
  <2>1. Balanced(s, d)
    BY <1>0, <1>4 DEF Tells
  <2>2. Carried(s, d) = IF d = c THEN 1 ELSE 0
    BY <1>3 DEF Carried
  <2>3. capture[s][d] \in Nat /\ TellsOf(Reported(s), d) \in Nat /\ drops[s][d] \in Drops
    BY StreamTyped DEF Drops
  <2>4. /\ Chains(Reported(s), d)
        /\ Balance(TellsOf(Reported(s), d), drops[s][d], capture[s][d], Carried(s, d), {})
    BY <1>3, <2>1 DEF Balanced
  <2>5. QED
    BY <2>2, <2>3, <2>4, BalanceFails
<1>9. Captures(s) /\ Orders(s) /\ poll[s] \in Nat /\ Reported(s) \in Seq(Events)
      /\ events[s] \in Seq(Events) /\ published[s] \in Seq(Events)
      /\ InOrder(s, Reported(s)) /\ ProducedUpTo(s, Reported(s), poll[s], Taken(s) - 1)
      /\ ~Stopped(s)
  BY <1>0, <1>2, StreamTyped DEF Orders, Reached, Stopped
<1>10. CASE AppendErrors(s, w) = {}
  <2>1. /\ events' = [events EXCEPT ![s] = Append(events[s], w)]
        /\ producer' = [producer EXCEPT ![s] = "capture"] /\ drops' = drops /\ failure' = failure
    BY <1>1, <1>10 DEF WaveformAdmitted, AppendEvent
  <2>2. events'[s] = Append(events[s], w) /\ producer'[s] = "capture"
    BY <2>1, StreamFunctions
  <2>3. Reported(s)' = Append(Reported(s), w)
    <3>1. published[s] \o Append(events[s], w) = Append(published[s] \o events[s], w)
      BY <1>3, <1>9, ReportedAppended
    <3>2. QED
      BY <1>2, <2>2, <3>1 DEF Reported
  <2>4. Taken(s)' = Taken(s)
    BY <1>2, <2>2 DEF Taken, Capturing
  <2>5. Captures(s)'
    BY <1>2, <1>9, <2>1, <2>2, <2>4 DEF Captures, Capturing, Stopped
  <2>6. Carries(s)'
    BY <1>7, <2>2 DEF Carries
  <2>7. ASSUME NEW d \in Channels PROVE Balanced(s, d)'
    <3>1. CASE d = c
      <4>1. Balance(TellsOf(Reported(s), c), NoDrop, capture[s][c], 1, {})
        BY <1>5, <1>8, <3>1
      <4>2. /\ capture[s][c] = TellsOf(Reported(s), c) + 1
            /\ Balance(capture[s][c], NoDrop, capture[s][c], 0, failure[s])
        BY <1>8, <3>1, <4>1, BalanceOfWaveform
      <4>3. TellsOf(Reported(s)', c) = capture[s][c] /\ Chains(Reported(s)', c)
        BY <1>3, <1>6, <1>8, <1>9, <2>3, <3>1, <4>2, AppendedChains
      <4>4. QED
        BY <1>2, <1>5, <1>7, <2>1, <3>1, <4>2, <4>3 DEF Balanced
    <3>2. CASE d # c
      <4>1. TellsOf(Reported(s)', d) = TellsOf(Reported(s), d) /\ Chains(Reported(s)', d)
        BY <1>3, <1>6, <1>8, <1>9, <2>3, <3>2, AppendedChains
      <4>2. QED
        BY <1>2, <1>7, <1>8, <2>1, <3>2, <4>1 DEF Balanced
    <3>3. QED
      BY <3>1, <3>2
  <2>8. Tells(s)'
    BY <2>7 DEF Tells
  <2>9. Orders(s)'
    <3>1. Reached(s)' = Taken(s) /\ Taken(s) - 1 \in Int /\ Place(s, w) > Taken(s) - 1
      BY <1>3, <2>2, <2>4 DEF Reached
    <3>2. InOrder(s, Reported(s)') /\ ProducedUpTo(s, Reported(s)', poll[s], Taken(s))
      BY <1>3, <1>9, <2>3, <3>1, AppendedOrder
    <3>3. ASSUME NEW i \in 1..Len(events'[s]), IsState(events'[s][i])
          PROVE  events'[s][i].channel = NoChannel
      <4>1. Len(events'[s]) = Len(events[s]) + 1 /\ events'[s][Len(events[s]) + 1] = w
            /\ Len(events[s]) \in Nat /\ \A j \in 1..Len(events[s]) : events'[s][j] = events[s][j]
        BY <1>3, <1>9, <2>2, AppendProperties, LenProperties
      <4>2. i \in 1..Len(events[s])
        BY <1>3, <3>3, <4>1
      <4>3. QED
        BY <1>9, <3>3, <4>1, <4>2 DEF Orders
    <3>4. QED
      BY <1>2, <3>1, <3>2, <3>3 DEF Orders
  <2>10. Ends(s)' /\ Answers(s)'
    <3>1. NoErrors(Reported(s)')
      BY <1>3, <1>4, <1>9, <2>3, AppendedErrors
    <3>2. QED
      BY <1>0, <1>2, <1>4, <3>1, EndsOfProducer, AnswersOfProducer
  <2>11. QED
    BY <2>5, <2>6, <2>8, <2>9, <2>10 DEF Story
<1>11. CASE AppendErrors(s, w) = {"backpressure"}
  <2>1. /\ RecordDrop(s, w) /\ producer' = [producer EXCEPT ![s] = "capture"]
        /\ events' = events /\ failure' = failure
    BY <1>1, <1>11 DEF fifoVars
  <2>2. producer'[s] = "capture"
    BY <2>1, StreamFunctions
  <2>3. Reported(s)' = Reported(s)
    BY <1>2, <2>1 DEF Reported
  <2>4. Taken(s)' = Taken(s)
    BY <1>2, <2>2 DEF Taken, Capturing
  <2>5. Captures(s)'
    BY <1>2, <1>9, <2>1, <2>2, <2>4 DEF Captures, Capturing, Stopped
  <2>6. Carries(s)'
    BY <1>7, <2>2 DEF Carries
  <2>7. /\ drops'[s][c] \in Drops /\ drops'[s][c].last = capture[s][c]
        /\ drops'[s][c].count = drops[s][c].count + 1
        /\ drops'[s][c].first = IF drops[s][c] = NoDrop THEN capture[s][c] ELSE drops[s][c].first
        /\ \A d \in Channels : d # c => drops'[s][d] = drops[s][d]
    BY <1>3, <1>6, <2>1, DropJoined
  <2>8. ASSUME NEW d \in Channels PROVE Balanced(s, d)'
    <3>1. Balance(TellsOf(Reported(s), d), drops'[s][d], capture[s][d], 0, failure[s])
      <4>1. CASE d = c
        BY <1>8, <2>7, <4>1, BalanceOfDrop
      <4>2. CASE d # c
        BY <1>8, <2>7, <4>2
      <4>3. QED
        BY <4>1, <4>2
    <3>2. QED
      BY <1>2, <1>7, <1>8, <2>1, <2>3, <3>1 DEF Balanced
  <2>9. Tells(s)'
    BY <2>8 DEF Tells
  <2>10. Orders(s)'
    <3>1. Reached(s)' = Taken(s) /\ Taken(s) \in Int /\ Taken(s) - 1 \in Int /\ Taken(s) - 1 <= Taken(s)
      BY <1>3, <2>2, <2>4 DEF Reached
    <3>2. ProducedUpTo(s, Reported(s), poll[s], Taken(s))
      BY <1>9, <3>1, ProducedLater
    <3>3. QED
      BY <1>2, <1>9, <2>1, <2>3, <3>1, <3>2 DEF Orders
  <2>11. Ends(s)' /\ Answers(s)'
    BY <1>0, <1>2, <1>4, <2>3, EndsOfProducer, AnswersOfProducer
  <2>12. QED
    BY <2>5, <2>6, <2>9, <2>10, <2>11 DEF Story
<1>12. CASE AppendErrors(s, w) = {"exhausted"}
  <2>1. /\ Fails(s, {"exhausted"}) /\ events' = events /\ drops' = drops
    <3>1. {"exhausted"} # {} /\ {"exhausted"} # {"backpressure"}
      OBVIOUS
    <3>2. QED
      BY <1>1, <1>12, <3>1 DEF fifoVars
  <2>2. producer'[s] = "failing" /\ failure'[s] = {"exhausted"}
    BY <2>1, StreamFunctions DEF Fails
  <2>3. Reported(s)' = Reported(s)
    BY <1>2, <2>1 DEF Reported
  <2>4. Captures(s)' /\ Carries(s)'
    BY <1>7, <2>2 DEF Captures, Stopped, Carries
  <2>5. ASSUME NEW d \in Channels PROVE Balanced(s, d)'
    <3>1. Balance(TellsOf(Reported(s), d), drops[s][d], capture[s][d], 0, {"exhausted"})
      <4>1. CASE d = c
        BY <1>5, <1>8, <4>1, BalanceOfWaveform
      <4>2. CASE d # c
        BY <1>8, <4>2
      <4>3. QED
        BY <4>1, <4>2
    <3>2. QED
      BY <1>2, <1>7, <1>8, <2>1, <2>2, <2>3, <3>1 DEF Balanced
  <2>6. Tells(s)'
    BY <2>5 DEF Tells
  <2>7. Orders(s)'
    BY <1>9, <2>1, <2>2, <2>3 DEF Orders, Stopped
  <2>8. Ends(s)' /\ Answers(s)'
    BY <1>0, <1>2, <1>4, <2>3, EndsOfProducer, AnswersOfProducer
  <2>9. QED
    BY <2>4, <2>6, <2>7, <2>8 DEF Story
<1>13. QED
  BY <1>1, <1>10, <1>11, <1>12

\* Run ends, and says how.
LEMMA FinishStory ==
  ASSUME IInv, NEW s \in Streams, Story(s), NEW event, NEW errors, Finish(s, event, errors),
         \/ producer[s] = "failing" /\ errors = failure[s] /\ event # <<>>
         \/ producer[s] = "sleeping" /\ errors = {"canceled"},
         event # <<>> => Head(event).channel = NoChannel
  PROVE  Story(s)'
<1>0. Captures(s) /\ Carries(s) /\ Tells(s) /\ Orders(s) /\ Ends(s) /\ Answers(s)
  BY DEF Story
<1>1. /\ producer'[s] = "done" /\ poll'[s] = poll[s] /\ remaining'[s] = remaining[s]
      /\ capture'[s] = capture[s] /\ captured'[s] = captured[s] /\ failure'[s] = failure[s]
      /\ s \in finished' /\ (s \in terminalReady' <=> s \in terminalReady)
      /\ terminal'[s] = errors /\ terminalEvent'[s] = event
      /\ SameQueue(s) /\ SameHandler(s)
  BY StreamFunctions DEF Finish, rpcVars, pollVars, fifoVars, SameQueue, SameHandler
<1>2. s \notin finished /\ s \notin terminalReady /\ Open(s) /\ NoErrors(Reported(s))
  BY <1>0, RunningEnds
<1>3. Reported(s)' = Reported(s)
  BY <1>1, SameReported
<1>4. Captures(s)' /\ Carries(s)'
  BY <1>0, <1>1 DEF Captures, Stopped, Carries
<1>5. Tells(s)'
  <2>1. \A d \in Channels : Carried(s, d)' = Carried(s, d)
    BY <1>1 DEF Carried, InHand
  <2>2. \A d \in Channels : Balanced(s, d) => Balanced(s, d)'
    BY <1>1, <1>3, <2>1 DEF SameQueue, Balanced
  <2>3. QED
    BY <1>0, <1>2, <2>2 DEF Tells
<1>6. Orders(s)'
  BY <1>0, <1>1, <1>3 DEF Orders, SameQueue, Stopped
<1>7. Explained(s)'
  BY <1>1, <1>2 DEF Explained
<1>8. Ends(s)'
  BY <1>1, <1>2, <1>3, <1>7 DEF Ends, NoErrors, LastIsError
<1>9. Answers(s)'
  BY <1>0, <1>1, <1>2 DEF Answers, SameHandler
<1>10. QED
  BY <1>4, <1>5, <1>6, <1>8, <1>9 DEF Story

LEMMA FinishesStory ==
  ASSUME IInv, NEW s \in Streams, Story(s), FinishWithError(s) \/ FinishCancelled(s)
  PROVE  Story(s)'
<1>1. CASE FinishWithError(s)
  <2>1. PICK size \in Sizes : Finish(s, <<ErrorEvent(size)>>, failure[s])
    BY <1>1 DEF FinishWithError
  <2>2. producer[s] = "failing" /\ <<ErrorEvent(size)>> # <<>>
        /\ Head(<<ErrorEvent(size)>>).channel = NoChannel
    BY <1>1 DEF FinishWithError, ErrorEvent
  <2>3. QED
    BY <2>1, <2>2, FinishStory
<1>2. CASE FinishCancelled(s)
  BY <1>2, FinishStory DEF FinishCancelled
<1>3. QED
  BY <1>1, <1>2

-----------------------------------------------------------------------------
(* The steps of the handler                                                  *)

\* The handler moves, and touches neither its producer nor its queue.
LEMMA HandlerStory ==
  ASSUME IInv, NEW s \in Streams, Story(s),
         \/ WaitForEvent(s) \/ Notified(s) \/ WaitCancelled(s) \/ SendReturns(s) \/ SendFails(s)
         \/ ReturnTerminal(s) \/ CancelProducer(s) \/ ReleaseSlot(s) \/ SubscribeRefused(s)
         \/ ClientCancels(s)
  PROVE  Story(s)'
<1>0. Answers(s)
  BY DEF Story
<1>1. SameProducer(s) /\ SameQueue(s) /\ SameEnd(s)
  BY DEF WaitForEvent, Notified, WaitCancelled, SendReturns, SendFails, ReturnTerminal,
     CancelProducer, ReleaseSlot, SubscribeRefused, ClientCancels, pollVars, fifoVars,
     terminalVars, SameProducer, SameQueue, SameEnd
<1>2. rpc \in [Streams -> HandlerStates] /\ outcome \in [Streams -> SUBSET Errors]
  BY StreamFunctions
<1>3. \/ rpc'[s] = rpc[s] /\ outcome'[s] = outcome[s]
      \/ rpc[s] = "stopping" /\ rpc'[s] = "joining" /\ outcome'[s] = outcome[s]
      \/ rpc[s] \in {"idle", "ready", "waiting", "sending"}
           /\ rpc'[s] \in {"waiting", "ready", "ended"}
      \/ rpc[s] = "closed" /\ rpc'[s] = "ended"
      \/ rpc[s] \in {"waiting", "sending"} /\ rpc'[s] = "stopping"
           /\ outcome'[s] \in {{"canceled"}, {"send"}}
      \/ ReturnTerminal(s) /\ rpc[s] = "ready" /\ rpc'[s] = "stopping"
           /\ outcome'[s] = terminal[s]
  <2>1. CASE WaitForEvent(s) \/ Notified(s) \/ SendReturns(s) \/ ReleaseSlot(s)
    BY <1>2, <2>1 DEF WaitForEvent, Notified, SendReturns, ReleaseSlot, Handler
  <2>2. CASE WaitCancelled(s) \/ SendFails(s)
    BY <1>2, <2>2 DEF WaitCancelled, SendFails, Handler, Returns
  <2>3. CASE ReturnTerminal(s)
    BY <1>2, <2>3 DEF ReturnTerminal, Handler, Returns
  <2>4. CASE CancelProducer(s) \/ ClientCancels(s)
    BY <1>2, <2>4 DEF CancelProducer, ClientCancels, Handler
  <2>5. CASE SubscribeRefused(s)
    BY <1>2, <2>5 DEF SubscribeRefused, Handler
  <2>6. QED
    BY <2>1, <2>2, <2>3, <2>4, <2>5
<1>4. Open(s)' => Open(s)
  BY <1>3 DEF Open
<1>5. Answers(s)'
  <2>1. CASE rpc'[s] \notin {"stopping", "joining"}
    BY <2>1 DEF Answers
  <2>2. CASE rpc[s] \in {"stopping", "joining"} /\ outcome'[s] = outcome[s]
    BY <1>0, <1>1, <2>2 DEF Answers, SameQueue, SameEnd
  <2>3. CASE outcome'[s] \in {{"canceled"}, {"send"}}
    <3>1. {"canceled"} \notin {{"device"}, {"backpressure"}, {"tooLarge"}}
          /\ {"send"} \notin {{"device"}, {"backpressure"}, {"tooLarge"}}
      OBVIOUS
    <3>2. QED
      BY <2>3, <3>1 DEF Answers
  <2>4. CASE ReturnTerminal(s) /\ outcome'[s] = terminal[s]
    BY <1>1, <2>4 DEF ReturnTerminal, Answers, SameQueue, SameEnd
  <2>5. QED
    BY <1>3, <2>1, <2>2, <2>3, <2>4
<1>6. QED
  BY <1>1, <1>4, <1>5, StoryOfHandler

LEMMA SubscribeStory ==
  ASSUME IInv, NEW s \in Streams, Story(s), Subscribe(s)
  PROVE  Story(s)'
<1>0. Captures(s) /\ Carries(s) /\ Tells(s) /\ Orders(s) /\ Ends(s) /\ Answers(s)
  BY DEF Story
<1>1. /\ rpc[s] = "idle" /\ rpc'[s] = "ready" /\ producer'[s] = "admission" /\ poll'[s] = 1
      /\ remaining'[s] = remaining[s] /\ capture'[s] = capture[s] /\ captured'[s] = captured[s]
      /\ failure'[s] = failure[s] /\ SameQueue(s) /\ SameEnd(s)
  BY StreamFunctions DEF Subscribe, Handler, fifoVars, terminalVars, SameQueue, SameEnd
<1>2. producer[s] = "new" /\ Open(s)
  BY <1>1 DEF IInv, Lifecycle, Open
<1>3. Reported(s)' = Reported(s)
  BY <1>1, SameReported
<1>4. /\ failure[s] = {} /\ poll[s] = 0 /\ Reported(s) = <<>>
      /\ \A k \in 1..Len(WaveformChannels[s]) : capture[s][WaveformChannels[s][k]] = 0
  <2>1. Taken(s) = Len(WaveformChannels[s]) /\ Len(WaveformChannels[s]) \in Nat
    BY <1>2, RequestedOnce DEF Taken, Capturing
  <2>2. QED
    BY <1>0, <1>2, <2>1 DEF Captures, Stopped
<1>5. Captures(s)'
  <2>1. Taken(s)' = 0 /\ Len(WaveformChannels[s]) \in Nat
    BY <1>1, RequestedOnce DEF Taken, Capturing
  <2>2. \A k \in 1..Len(WaveformChannels[s]) : ~ (k <= 0) /\ 1 - 1 = 0
    BY <2>1
  <2>3. QED
    BY <1>1, <1>4, <2>1, <2>2 DEF Captures, Capturing
<1>6. Carries(s)'
  BY <1>0, <1>1, <1>2 DEF Carries
<1>7. Tells(s)'
  <2>1. \A d \in Channels : Carried(s, d)' = Carried(s, d)
    BY <1>1 DEF Carried, InHand
  <2>2. \A d \in Channels : Balanced(s, d) => Balanced(s, d)'
    BY <1>1, <1>3, <2>1 DEF SameQueue, Balanced
  <2>3. QED
    BY <1>0, <1>2, <2>2 DEF Tells
<1>8. Orders(s)'
  <2>1. Len(Reported(s)') = 0
    BY <1>3, <1>4
  <2>2. ProducedUpTo(s, Reported(s)', poll'[s], Reached(s)')
    BY <2>1 DEF ProducedUpTo
  <2>3. QED
    BY <1>0, <1>1, <1>3, <2>2 DEF Orders, SameQueue
<1>9. Ends(s)'
  BY <1>0, <1>1, <1>2, EndsKept
<1>10. Answers(s)'
  BY <1>1 DEF Answers
<1>11. QED
  BY <1>5, <1>6, <1>7, <1>8, <1>9, <1>10 DEF Story

LEMMA DequeueStory ==
  ASSUME IInv, NEW s \in Streams, Story(s), Dequeue(s)
  PROVE  Story(s)'
<1>0. Captures(s) /\ Carries(s) /\ Tells(s) /\ Orders(s) /\ Ends(s) /\ Answers(s)
  BY DEF Story
<1>1. /\ rpc[s] = "ready" /\ rpc'[s] = "sending" /\ events[s] # <<>> /\ drops'[s] = drops[s]
      /\ SameProducer(s) /\ SameEnd(s)
      /\ published'[s] = Append(published[s], [Head(events[s]) EXCEPT !.size = 0])
      /\ events'[s] = Tail(events[s])
  <2>1. /\ published' = [published EXCEPT ![s] = Append(published[s], [Head(events[s]) EXCEPT !.size = 0])]
        /\ events' = [events EXCEPT ![s] = Tail(events[s])]
    BY DEF Dequeue
  <2>2. /\ published'[s] = Append(published[s], [Head(events[s]) EXCEPT !.size = 0])
        /\ events'[s] = Tail(events[s])
    BY <2>1, StreamFunctions
  <2>3. QED
    BY <2>2, StreamFunctions DEF Dequeue, Handler, pollVars, terminalVars, SameProducer, SameEnd
<1>2. events[s] \in Seq(Events) /\ published[s] \in Seq(Events) /\ Reported(s) \in Seq(Events)
      /\ poll[s] \in Int
  BY StreamTyped
<1>3. Open(s)
  BY <1>1 DEF Open
<1>4. (\E f : Embeds(f, Reported(s)', Reported(s))) /\ Recharged(Reported(s)', Reported(s))
  BY <1>1, <1>2, ReportedDequeued DEF Reported
<1>5. PICK f : Embeds(f, Reported(s)', Reported(s))
  BY <1>4
<1>6. Reported(s) # <<>>
  <2>1. Len(events[s]) # 0 /\ Len(events[s]) \in Nat /\ Len(published[s]) \in Nat
        /\ Len(Reported(s)) = Len(published[s]) + Len(events[s])
    BY <1>1, <1>2, EmptySeq, ReportedTyped, LenProperties DEF Reported
  <2>2. Len(<<>>) = 0
    OBVIOUS
  <2>3. \A m, n, k \in Nat : m # 0 /\ k = n + m => k # 0
    OBVIOUS
  <2>4. Len(Reported(s)) # 0
    BY <1>2, <2>1, <2>3, LenProperties
  <2>5. QED
    BY <2>2, <2>4
<1>7. Captures(s)'
  <2>1. producer[s] # "new"
    BY <1>0, <1>6 DEF Captures, Stopped
  <2>2. QED
    BY <1>0, <1>1, <2>1 DEF SameProducer, Captures, Taken, Stopped
<1>8. Carries(s)'
  BY <1>0, <1>1 DEF SameProducer, Carries, Taken, HasDrop
<1>9. Tells(s)'
  <2>1. ASSUME NEW c \in Channels, Balanced(s, c) PROVE Balanced(s, c)'
    <3>1. Carried(s, c)' = Carried(s, c)
      BY <1>1 DEF SameProducer, Carried, InHand
    <3>2. TellsOf(Reported(s)', c) = TellsOf(Reported(s), c) /\ Chains(Reported(s)', c)
      BY <1>5, <2>1, EmbeddedChains DEF Balanced
    <3>3. QED
      BY <1>1, <2>1, <3>1, <3>2 DEF SameProducer, Balanced
  <2>2. QED
    BY <1>0, <1>3, <2>1 DEF Tells
<1>10. Orders(s)'
  <2>1. Reached(s)' = Reached(s) /\ (Stopped(s)' <=> Stopped(s)) /\ poll'[s] = poll[s]
    BY <1>1 DEF SameProducer, Reached, Taken, Stopped
  <2>2. InOrder(s, Reported(s)')
    BY <1>0, <1>5, EmbeddedOrder DEF Orders
  <2>3. ASSUME ~Stopped(s) PROVE ProducedUpTo(s, Reported(s)', poll[s], Reached(s))
    <3>1. Len(WaveformChannels[s]) \in Nat /\ Len(remaining[s]) \in Nat
      BY RequestedOnce, StreamTyped, LenProperties
    <3>2. Reached(s) \in Int
      BY <3>1 DEF Reached, Taken
    <3>3. ProducedUpTo(s, Reported(s), poll[s], Reached(s))
      BY <1>0, <2>3 DEF Orders
    <3>4. QED
      BY <1>2, <1>5, <3>2, <3>3, EmbeddedOrder
  <2>4. ASSUME NEW i \in 1..Len(events'[s]), IsState(events'[s][i])
        PROVE  events'[s][i].channel = NoChannel
    <3>1. Len(events[s]) \in Nat /\ Len(events'[s]) = Len(events[s]) - 1
          /\ \A j \in 1..(Len(events[s]) - 1) : events'[s][j] = events[s][j + 1]
      BY <1>1, <1>2, HeadTailProperties, LenProperties
    <3>2. i + 1 \in 1..Len(events[s]) /\ events'[s][i] = events[s][i + 1]
      BY <3>1
    <3>3. QED
      BY <1>0, <2>4, <3>2 DEF Orders
  <2>5. QED
    BY <2>1, <2>2, <2>3, <2>4 DEF Orders
<1>11. Ends(s)'
  <2>1. /\ NoErrors(Reported(s)') <=> NoErrors(Reported(s))
        /\ LastIsError(Reported(s)') <=> LastIsError(Reported(s))
        /\ Reported(s)' # <<>> /\ Last(Reported(s)').kind = Last(Reported(s)).kind
    BY <1>4, <1>6, RechargedErrors
  <2>2. Explained(s) => Explained(s)'
    BY <1>1, <2>1 DEF Explained, SameEnd, SameProducer
  <2>3. \A c \in Channels : HasDrop(s, c)' <=> HasDrop(s, c)
    BY <1>1 DEF HasDrop
  <2>4. QED
    BY <1>0, <1>1, <1>3, <2>1, <2>2, <2>3 DEF Ends, SameEnd
<1>12. Answers(s)'
  BY <1>1 DEF Answers
<1>13. QED
  BY <1>7, <1>8, <1>9, <1>10, <1>11, <1>12 DEF Story

LEMMA CloseQueueStory ==
  ASSUME IInv, NEW s \in Streams, Story(s), CloseQueue(s)
  PROVE  Story(s)'
<1>0. Captures(s) /\ Carries(s) /\ Tells(s) /\ Orders(s) /\ Ends(s) /\ Answers(s)
  BY DEF Story
<1>1. /\ rpc'[s] = "closed" /\ producer[s] = "done" /\ SameProducer(s)
      /\ events'[s] = <<>> /\ published'[s] = <<>> /\ s \in finished'
      /\ terminalEvent'[s] = <<>>
  BY StreamFunctions DEF CloseQueue, Handler, ProducerStopped, pollVars, SameProducer
<1>2. Captures(s)' /\ Carries(s)'
  BY <1>0, <1>1 DEF Captures, Stopped, Carries, SameProducer
<1>3. Tells(s)' /\ Ends(s)' /\ Answers(s)'
  BY <1>1 DEF Tells, Ends, Answers, Open
<1>4. Reported(s)' = <<>> \o <<>>
  BY <1>1 DEF Reported
<1>5. Orders(s)'
  <2>1. <<>> \in Seq(Events) /\ Len(<<>>) = 0
    OBVIOUS
  <2>2. Len(Reported(s)') = 0
    BY <1>4, <2>1, ReportedTyped
  <2>3. QED
    BY <1>1, <2>1, <2>2 DEF Orders, InOrder, Stopped, SameProducer
<1>6. QED
  BY <1>2, <1>3, <1>5 DEF Story

\* What a refused critical event of an empty queue is refused with.
LEMMA RefusedTerminal ==
  ASSUME NEW s \in Streams, NEW event, events[s] = <<>>, Critical(event),
         AppendErrors(s, event) # {}
  PROVE  AppendErrors(s, event) = {"exhausted"}
<1>1. Len(events[s]) = 0 /\ MaximumCapacity \in Nat /\ MaximumCapacity > 1
  BY LimitsAreNatural
<1>2. ~(\/ Len(events[s]) >= MaximumCapacity
        \/ ~Critical(event) /\ Ordinary(events[s]) >= Capacity)
  BY <1>1
<1>3. QED
  BY <1>2 DEF AppendErrors

\* The handler prepares the end of a finished stream.
LEMMA Preparing ==
  ASSUME IInv, NEW s \in Streams, Ends(s), PreparesTerminal(s)
  PROVE  /\ rpc[s] = "ready" /\ events[s] = <<>> /\ s \in finished /\ s \notin terminalReady
         /\ producer[s] = "done" /\ Open(s) /\ NoErrors(Reported(s)) /\ Explained(s)
  BY DEF IInv, Lifecycle, PreparesTerminal, Ends, Open

LEMMA TerminalFailsStory ==
  ASSUME IInv, NEW s \in Streams, Story(s), PreparesTerminal(s), TerminalFails(s, {"exhausted"}),
         SameProducer(s), drops'[s] = drops[s], published'[s] = published[s], SameHandler(s),
         finished' = finished, terminalEvent'[s] = terminalEvent[s]
  PROVE  Story(s)'
<1>0. Captures(s) /\ Carries(s) /\ Tells(s) /\ Orders(s) /\ Ends(s) /\ Answers(s)
  BY DEF Story
<1>1. /\ rpc[s] = "ready" /\ s \in finished /\ Open(s) /\ NoErrors(Reported(s))
  BY <1>0, Preparing
<1>2. SameQueue(s) /\ s \in terminalReady' /\ terminal'[s] = terminal[s] \cup {"exhausted"}
  BY StreamFunctions DEF TerminalFails, fifoVars, SameQueue
<1>3. Captures(s)' /\ Carries(s)' /\ Orders(s)' /\ Tells(s)'
  BY <1>0, <1>1, <1>2, CapturesKept, CarriesKept, OrdersKept, TellsKept
<1>4. Reported(s)' = Reported(s)
  BY <1>2, SameReported
<1>5. Explained(s)'
  BY <1>2 DEF Explained
<1>6. Ends(s)'
  BY <1>0, <1>1, <1>2, <1>4, <1>5 DEF Ends, NoErrors, LastIsError
<1>7. Answers(s)'
  BY <1>1 DEF Answers, SameHandler
<1>8. QED
  BY <1>3, <1>6, <1>7 DEF Story

LEMMA PrepareGapStory ==
  ASSUME IInv, NEW s \in Streams, Story(s), PrepareGap(s)
  PROVE  Story(s)'
<1>0. Captures(s) /\ Carries(s) /\ Tells(s) /\ Orders(s) /\ Ends(s) /\ Answers(s)
  BY DEF Story
<1>1. PreparesTerminal(s)
  BY DEF PrepareGap
<1>2. /\ rpc[s] = "ready" /\ events[s] = <<>> /\ s \in finished /\ s \notin terminalReady
      /\ producer[s] = "done" /\ Open(s) /\ NoErrors(Reported(s)) /\ Explained(s)
  BY <1>0, <1>1, Preparing
<1>3. PICK c \in Channels :
        /\ HasDrop(s, c)
        /\ \/ /\ AppendErrors(s, GapEvent(c, drops[s][c])) = {}
              /\ AppendEvent(s, GapEvent(c, drops[s][c]))
              /\ drops' = [drops EXCEPT ![s][c] = NoDrop]
              /\ UNCHANGED <<terminal, terminalReady>>
           \/ /\ AppendErrors(s, GapEvent(c, drops[s][c])) # {}
              /\ TerminalFails(s, AppendErrors(s, GapEvent(c, drops[s][c])))
              /\ UNCHANGED drops
  BY DEF PrepareGap
<1>4. /\ SameProducer(s) /\ SameHandler(s) /\ published'[s] = published[s]
      /\ finished' = finished /\ terminalEvent'[s] = terminalEvent[s]
  BY DEF PrepareGap, rpcVars, pollVars, SameProducer, SameHandler
<1>5. PICK gap : gap = GapEvent(c, drops[s][c])
  OBVIOUS
<1>6. Critical(gap)
  BY <1>5, StreamTyped, KindsOfEvents
<1>7. CASE AppendErrors(s, gap) # {}
  <2>1. AppendErrors(s, gap) = {"exhausted"}
    BY <1>2, <1>6, <1>7, RefusedTerminal
  <2>2. TerminalFails(s, {"exhausted"}) /\ drops'[s] = drops[s]
    BY <1>3, <1>5, <1>7, <2>1
  <2>3. QED
    BY <1>1, <1>4, <2>2, TerminalFailsStory
<1>8. CASE AppendErrors(s, gap) = {}
  <2>1. /\ events' = [events EXCEPT ![s] = Append(events[s], gap)]
        /\ drops' = [drops EXCEPT ![s][c] = NoDrop]
        /\ terminal' = terminal /\ terminalReady' = terminalReady
    BY <1>3, <1>5, <1>8 DEF AppendEvent
  <2>2. /\ events'[s] = Append(events[s], gap) /\ drops'[s][c] = NoDrop
        /\ \A d \in Channels : d # c => drops'[s][d] = drops[s][d]
    BY <2>1, StreamFunctions
  <2>3. capture'[s] = capture[s] /\ captured'[s] = captured[s] /\ failure'[s] = failure[s]
    BY <1>4 DEF SameProducer
  <2>4. /\ Tells(s)'
        /\ Reported(s)' = Append(Reported(s), gap)
        /\ gap \in Events /\ Critical(gap) /\ gap.kind = "gap" /\ ~IsState(gap)
    BY <1>0, <1>2, <1>3, <1>4, <1>5, <2>2, <2>3, GapTold
  <2>5. producer'[s] = "done" /\ Stopped(s) /\ Stopped(s)'
    BY <1>2, <1>4 DEF SameProducer, Stopped
  <2>6. Captures(s)' /\ Carries(s)'
    BY <1>0, <1>2, <2>3, <2>5 DEF Captures, Carries
  <2>7. Orders(s)'
    <3>1. Reached(s)' = Reached(s) /\ poll'[s] = poll[s]
      BY <1>4 DEF SameProducer, Reached, Taken
    <3>2. QED
      BY <1>0, <2>2, <2>4, <2>5, <3>1, CriticalTold
  <2>8. NoErrors(Reported(s)') /\ LastIsError(Reported(s)')
    <3>1. Reported(s) \in Seq(Events) /\ gap.kind # "error"
      BY <2>4, StreamTyped
    <3>2. QED
      BY <1>2, <2>4, <3>1, AppendedErrors
  <2>9. Explained(s)'
    BY <1>2, <1>4, <2>1, <2>3 DEF Explained
  <2>10. Ends(s)'
    BY <1>0, <1>2, <1>4, <2>1, <2>8, <2>9 DEF Ends
  <2>11. Answers(s)'
    BY <1>2, <1>4 DEF Answers, SameHandler
  <2>12. QED
    BY <2>4, <2>6, <2>7, <2>10, <2>11 DEF Story
<1>9. QED
  BY <1>7, <1>8

LEMMA PrepareTerminalEventStory ==
  ASSUME IInv, NEW s \in Streams, Story(s), PrepareTerminalEvent(s)
  PROVE  Story(s)'
<1>0. Captures(s) /\ Carries(s) /\ Tells(s) /\ Orders(s) /\ Ends(s) /\ Answers(s)
  BY DEF Story
<1>1. PreparesTerminal(s) /\ GapsReported(s)
  BY DEF PrepareTerminalEvent
<1>2. /\ rpc[s] = "ready" /\ events[s] = <<>> /\ s \in finished /\ s \notin terminalReady
      /\ producer[s] = "done" /\ Open(s) /\ NoErrors(Reported(s)) /\ Explained(s)
  BY <1>0, <1>1, Preparing
<1>3. /\ SameProducer(s) /\ SameHandler(s) /\ published'[s] = published[s]
      /\ finished' = finished /\ drops'[s] = drops[s]
  BY DEF PrepareTerminalEvent, rpcVars, pollVars, SameProducer, SameHandler
<1>4. Answers(s)'
  BY <1>2, <1>3 DEF Answers, SameHandler
<1>5. PICK event : event = Head(terminalEvent[s])
  OBVIOUS
<1>6. \/ /\ terminalEvent[s] = <<>>
         /\ terminalReady' = terminalReady \cup {s}
         /\ UNCHANGED <<fifoVars, terminal, terminalEvent>>
      \/ /\ terminalEvent[s] # <<>> /\ AppendErrors(s, event) = {}
         /\ AppendEvent(s, event)
         /\ terminalEvent' = [terminalEvent EXCEPT ![s] = <<>>]
         /\ terminalReady' = terminalReady \cup {s}
         /\ UNCHANGED terminal
      \/ /\ terminalEvent[s] # <<>> /\ AppendErrors(s, event) # {}
         /\ TerminalFails(s, AppendErrors(s, event))
         /\ UNCHANGED terminalEvent
  BY <1>5 DEF PrepareTerminalEvent
<1>7. ASSUME terminalEvent[s] # <<>>
      PROVE  /\ event \in Events /\ event.kind = "error" /\ event.channel = NoChannel
             /\ Critical(event) /\ ~IsState(event)
  <2>1. event.kind = "error" /\ event.channel = NoChannel
    BY <1>0, <1>5, <1>7 DEF IInv, InFlight, Ends
  <2>2. event \in Events
    BY <1>5, <1>7, StreamFunctions, HeadTailProperties
  <2>3. QED
    BY <2>1, <2>2 DEF Critical, IsState
<1>8. CASE terminalEvent[s] = <<>>
  <2>1. SameQueue(s) /\ s \in terminalReady' /\ terminal' = terminal
        /\ terminalEvent' = terminalEvent
    BY <1>3, <1>6, <1>8 DEF fifoVars, SameQueue
  <2>2. Captures(s)' /\ Carries(s)' /\ Orders(s)' /\ Tells(s)'
    BY <1>0, <1>2, <1>3, <2>1, CapturesKept, CarriesKept, OrdersKept, TellsKept
  <2>3. Reported(s)' = Reported(s)
    BY <2>1, SameReported
  <2>4. Explained(s)'
    BY <1>2, <1>8, <2>1 DEF Explained
  <2>5. Ends(s)'
    BY <1>0, <1>2, <1>3, <2>1, <2>3, <2>4 DEF Ends, NoErrors, LastIsError
  <2>6. QED
    BY <1>4, <2>2, <2>5 DEF Story
<1>9. CASE terminalEvent[s] # <<>> /\ AppendErrors(s, event) # {}
  <2>1. AppendErrors(s, event) = {"exhausted"}
    BY <1>2, <1>7, <1>9, RefusedTerminal
  <2>2. TerminalFails(s, {"exhausted"}) /\ terminalEvent'[s] = terminalEvent[s]
    BY <1>6, <1>9, <2>1
  <2>3. QED
    BY <1>1, <1>3, <2>2, TerminalFailsStory
<1>10. CASE terminalEvent[s] # <<>> /\ AppendErrors(s, event) = {}
  <2>1. /\ events' = [events EXCEPT ![s] = Append(events[s], event)]
        /\ s \in terminalReady' /\ terminal' = terminal
        /\ terminalEvent' = [terminalEvent EXCEPT ![s] = <<>>]
    BY <1>6, <1>10 DEF AppendEvent
  <2>2. events'[s] = Append(events[s], event) /\ terminalEvent'[s] = <<>>
    BY <2>1, StreamFunctions
  <2>3. events[s] \in Seq(Events) /\ published[s] \in Seq(Events) /\ Reported(s) \in Seq(Events)
        /\ event \in Events
    BY <1>7, <1>10, StreamTyped
  <2>4. Reported(s)' = Append(Reported(s), event)
    <3>1. published[s] \o Append(events[s], event) = Append(published[s] \o events[s], event)
      BY <2>3, ReportedAppended
    <3>2. QED
      BY <1>3, <2>2, <3>1 DEF Reported
  <2>5. producer'[s] = "done" /\ Stopped(s) /\ Stopped(s)' /\ captured'[s] = captured[s]
        /\ failure'[s] = failure[s] /\ capture'[s] = capture[s]
    BY <1>2, <1>3 DEF SameProducer, Stopped
  <2>6. Captures(s)' /\ Carries(s)'
    BY <1>0, <1>2, <2>5 DEF Captures, Carries
  <2>7. Tells(s)'
    <3>1. ASSUME NEW c \in Channels, Balanced(s, c) PROVE Balanced(s, c)'
      <4>1. Carried(s, c)' = Carried(s, c)
        BY <2>5 DEF Carried, InHand
      <4>2. event.channel # c
        BY <1>7, <1>10, NoChannelRequested
      <4>3. TellsOf(Reported(s)', c) = TellsOf(Reported(s), c) /\ Chains(Reported(s)', c)
        BY <2>3, <2>4, <3>1, <4>2, AppendedChains DEF Balanced
      <4>4. QED
        BY <1>3, <2>5, <3>1, <4>1, <4>3 DEF Balanced
    <3>2. QED
      BY <1>0, <1>2, <3>1 DEF Tells
  <2>8. Orders(s)'
    <3>1. Reached(s)' = Reached(s) /\ poll'[s] = poll[s]
      BY <1>3 DEF SameProducer, Reached, Taken
    <3>2. QED
      BY <1>0, <1>7, <1>10, <2>2, <2>3, <2>4, <2>5, <3>1, CriticalTold
  <2>9. LastIsError(Reported(s)') /\ Reported(s)' # <<>> /\ Last(Reported(s)') = event
    BY <1>2, <2>3, <2>4, AppendedErrors
  <2>10. Explained(s)'
    BY <1>2, <1>7, <1>10, <2>1, <2>5, <2>9 DEF Explained
  <2>11. \A c \in Channels : ~HasDrop(s, c)'
    BY <1>1, <1>3 DEF GapsReported, HasDrop
  <2>12. Ends(s)'
    BY <1>2, <1>3, <2>1, <2>2, <2>9, <2>10, <2>11 DEF Ends
  <2>13. QED
    BY <1>4, <2>6, <2>7, <2>8, <2>12 DEF Story
<1>11. QED
  BY <1>6, <1>8, <1>9, <1>10

-----------------------------------------------------------------------------
(* The steps together                                                        *)

LEMMA InitStories == Init => Stories
<1> SUFFICES ASSUME Init, NEW s \in Streams PROVE Story(s)
  BY DEF Stories
<1>1. /\ producer[s] = "new" /\ rpc[s] = "idle" /\ poll[s] = 0 /\ remaining[s] = <<>>
      /\ capture[s] = [c \in Channels |-> 0] /\ captured[s] = <<>> /\ failure[s] = {}
      /\ events[s] = <<>> /\ drops[s] = [c \in Channels |-> NoDrop]
      /\ finished = {} /\ terminalReady = {} /\ terminalEvent[s] = <<>> /\ published[s] = <<>>
  BY DEF Init
<1>2. Reported(s) = <<>>
  <2>1. <<>> \in Seq(Events) /\ <<>> \o <<>> = <<>>
    BY EmptySeq, ConcatEmptySeq
  <2>2. QED
    BY <1>1, <2>1 DEF Reported
<1>3. Len(<<>>) = 0
  OBVIOUS
<1>4. Captures(s)
  <2>1. Taken(s) = Len(WaveformChannels[s]) /\ Len(WaveformChannels[s]) \in Nat
    BY <1>1, RequestedOnce DEF Taken, Capturing
  <2>2. \A k \in 1..Len(WaveformChannels[s]) :
          k <= Taken(s) /\ capture[s][WaveformChannels[s][k]] = 0
    BY <1>1, <2>1, RequestedOnce
  <2>3. QED
    BY <1>1, <1>2, <2>2 DEF Captures, Capturing
<1>5. Carries(s)
  BY <1>1 DEF Carries
<1>6. ASSUME NEW c \in Channels PROVE Balanced(s, c)
  <2>1. Reports(<<>>, c, 0) = {}
    BY DEF Reports
  <2>2. TellsOf(Reported(s), c) = 0 /\ Chains(Reported(s), c)
    BY <1>2, <1>3, <2>1 DEF TellsOf, ToldBy, Chains
  <2>3. drops[s][c] = NoDrop /\ capture[s][c] = 0 /\ Carried(s, c) = 0
    BY <1>1 DEF Carried, InHand
  <2>4. Balance(0, NoDrop, 0, 0, failure[s])
    BY DEF Balance
  <2>5. QED
    BY <2>2, <2>3, <2>4 DEF Balanced
<1>7. Tells(s)
  BY <1>6 DEF Tells
<1>8. Orders(s)
  <2>1. InOrder(s, <<>>) /\ ProducedUpTo(s, <<>>, poll[s], Reached(s))
    BY <1>3 DEF InOrder, ProducedUpTo
  <2>2. QED
    BY <1>1, <1>2, <1>3, <2>1 DEF Orders
<1>9. Ends(s)
  <2>1. LastIsError(<<>>) /\ NoErrors(<<>>)
    BY <1>3 DEF LastIsError, NoErrors
  <2>2. QED
    BY <1>1, <1>2, <2>1 DEF Ends
<1>10. Answers(s)
  BY <1>1 DEF Answers
<1>11. QED
  BY <1>4, <1>5, <1>7, <1>8, <1>9, <1>10 DEF Story

\* The queues, the drops and the errors of a stream are its own: what it shares with
\* others is the budget and the slots.
LEMMA OthersOfProducer ==
  ASSUME IInv, NEW s \in Streams, NEW t \in Streams \ {s}, Producer(s)
  PROVE  Untouched(t)
<1>1. CASE Admit(s) \/ AdmitRefused(s) \/ InstrumentFails(s) \/ NextPoll(s)
  <2>1. producer'[t] = producer[t] /\ poll'[t] = poll[t] /\ failure'[t] = failure[t]
    BY <1>1, StreamFunctions
       DEF Admit, AdmitRefused, InstrumentFails, NextPoll, Fails, pollVars
  <2>2. QED
    BY <1>1, <2>1 DEF Admit, AdmitRefused, InstrumentFails, NextPoll, rpcVars, pollVars,
       fifoVars, terminalVars, Untouched, SameProducer, SameQueue, SameEnd, SameHandler
<1>2. CASE CoalesceState(s)
  <2>1. producer'[t] = producer[t] /\ events'[t] = events[t]
    BY <1>2, StreamFunctions DEF CoalesceState, fifoVars
  <2>2. QED
    BY <1>2, <2>1 DEF CoalesceState, rpcVars, pollVars, terminalVars, Untouched,
       SameProducer, SameQueue, SameEnd, SameHandler
<1>3. CASE AppendState(s)
  <2>1. /\ producer'[t] = producer[t] /\ failure'[t] = failure[t]
        /\ remaining'[t] = remaining[t] /\ events'[t] = events[t]
    BY <1>3, StreamFunctions DEF AppendState, AppendEvent, Fails, fifoVars
  <2>2. QED
    BY <1>3, <2>1 DEF AppendState, rpcVars, terminalVars, Untouched,
       SameProducer, SameQueue, SameEnd, SameHandler
<1>4. CASE CaptureWaveform(s)
  <2>1. /\ producer'[t] = producer[t] /\ failure'[t] = failure[t]
        /\ captured'[t] = captured[t]
    BY <1>4, StreamFunctions DEF CaptureWaveform, Fails
  <2>2. capture'[t] = capture[t] /\ remaining'[t] = remaining[t]
    BY <1>4, StreamFunctions DEF CaptureWaveform
  <2>3. QED
    BY <1>4, <2>1, <2>2 DEF CaptureWaveform, rpcVars, fifoVars, terminalVars, Untouched,
       SameProducer, SameQueue, SameEnd, SameHandler
<1>5. CASE AppendGap(s)
  <2>1. /\ producer'[t] = producer[t] /\ failure'[t] = failure[t]
        /\ captured'[t] = captured[t]
    BY <1>5, StreamFunctions DEF AppendGap, Fails
  <2>2. events'[t] = events[t] /\ drops'[t] = drops[t]
    BY <1>5, StreamFunctions DEF AppendGap, AppendEvent, RecordDrop, fifoVars
  <2>3. QED
    BY <1>5, <2>1, <2>2 DEF AppendGap, rpcVars, terminalVars, Untouched,
       SameProducer, SameQueue, SameEnd, SameHandler
<1>6. CASE AppendWaveform(s)
  <2>1. producer'[t] = producer[t] /\ failure'[t] = failure[t]
    BY <1>6, StreamFunctions DEF AppendWaveform, WaveformAdmitted, Fails
  <2>2. captured'[t] = captured[t]
    BY <1>6, StreamFunctions DEF AppendWaveform
  <2>3. events'[t] = events[t] /\ drops'[t] = drops[t]
    BY <1>6, StreamFunctions DEF AppendWaveform, WaveformAdmitted, AppendEvent, RecordDrop, fifoVars
  <2>4. QED
    BY <1>6, <2>1, <2>2, <2>3 DEF AppendWaveform, rpcVars, terminalVars, Untouched,
       SameProducer, SameQueue, SameEnd, SameHandler
<1>7. CASE FinishWithError(s) \/ FinishCancelled(s)
  <2>1. PICK event, errors : Finish(s, event, errors)
    BY <1>7 DEF FinishWithError, FinishCancelled
  <2>2. producer'[t] = producer[t] /\ terminal'[t] = terminal[t]
        /\ terminalEvent'[t] = terminalEvent[t]
    BY <2>1, StreamFunctions DEF Finish
  <2>3. QED
    BY <2>1, <2>2 DEF Finish, rpcVars, pollVars, fifoVars, Untouched,
       SameProducer, SameQueue, SameEnd, SameHandler
<1>8. QED
  BY <1>1, <1>2, <1>3, <1>4, <1>5, <1>6, <1>7 DEF Producer

LEMMA OthersOfHandler ==
  ASSUME IInv, NEW s \in Streams, NEW t \in Streams \ {s},
         \/ Serve(s) \/ Subscribe(s) \/ SubscribeRefused(s)
         \/ SendReturns(s) \/ SendFails(s) \/ ClientCancels(s)
  PROVE  Untouched(t)
<1>1. CASE \/ WaitForEvent(s) \/ Notified(s) \/ WaitCancelled(s) \/ SendReturns(s)
           \/ SendFails(s) \/ ReturnTerminal(s) \/ CancelProducer(s) \/ ReleaseSlot(s)
           \/ SubscribeRefused(s) \/ ClientCancels(s)
  <2>1. rpc'[t] = rpc[t] /\ outcome'[t] = outcome[t]
    BY <1>1, StreamFunctions DEF WaitForEvent, Notified, WaitCancelled, SendReturns,
       SendFails, ReturnTerminal, CancelProducer, ReleaseSlot, SubscribeRefused,
       ClientCancels, Handler, Returns
  <2>2. QED
    BY <1>1, <2>1 DEF WaitForEvent, Notified, WaitCancelled, SendReturns,
       SendFails, ReturnTerminal, CancelProducer, ReleaseSlot, SubscribeRefused,
       ClientCancels, pollVars, fifoVars, terminalVars, Untouched, SameProducer, SameQueue,
       SameEnd, SameHandler
<1>2. CASE Subscribe(s)
  <2>1. rpc'[t] = rpc[t] /\ producer'[t] = producer[t] /\ poll'[t] = poll[t]
    BY <1>2, StreamFunctions DEF Subscribe, Handler
  <2>2. QED
    BY <1>2, <2>1 DEF Subscribe, fifoVars, terminalVars, Untouched, SameProducer, SameQueue,
       SameEnd, SameHandler
<1>3. CASE PrepareGap(s)
  <2>1. /\ terminal'[t] = terminal[t]
        /\ t \in terminalReady' <=> t \in terminalReady
        /\ events'[t] = events[t] /\ drops'[t] = drops[t]
    BY <1>3, StreamFunctions DEF PrepareGap, AppendEvent, TerminalFails, fifoVars
  <2>2. QED
    BY <1>3, <2>1 DEF PrepareGap, rpcVars, pollVars, Untouched, SameProducer, SameQueue,
       SameEnd, SameHandler
<1>4. CASE PrepareTerminalEvent(s)
  <2>1. /\ terminal'[t] = terminal[t]
        /\ t \in terminalReady' <=> t \in terminalReady
        /\ events'[t] = events[t] /\ terminalEvent'[t] = terminalEvent[t]
    BY <1>4, StreamFunctions DEF PrepareTerminalEvent, AppendEvent, TerminalFails, fifoVars
  <2>2. QED
    BY <1>4, <2>1 DEF PrepareTerminalEvent, rpcVars, pollVars, Untouched, SameProducer,
       SameQueue, SameEnd, SameHandler
<1>5. CASE Dequeue(s)
  <2>1. rpc'[t] = rpc[t] /\ published'[t] = published[t] /\ events'[t] = events[t]
    BY <1>5, StreamFunctions DEF Dequeue, Handler
  <2>2. QED
    BY <1>5, <2>1 DEF Dequeue, pollVars, terminalVars, Untouched, SameProducer,
       SameQueue, SameEnd, SameHandler
<1>6. CASE CloseQueue(s)
  <2>1. rpc'[t] = rpc[t] /\ published'[t] = published[t] /\ events'[t] = events[t]
    BY <1>6, StreamFunctions DEF CloseQueue, Handler
  <2>2. /\ drops'[t] = drops[t] /\ terminal'[t] = terminal[t]
        /\ terminalEvent'[t] = terminalEvent[t]
    BY <1>6, StreamFunctions DEF CloseQueue
  <2>3. QED
    BY <1>6, <2>1, <2>2 DEF CloseQueue, pollVars, Untouched, SameProducer,
       SameQueue, SameEnd, SameHandler
<1>7. QED
  BY <1>1, <1>2, <1>3, <1>4, <1>5, <1>6 DEF Serve

LEMMA StoryOfProducer ==
  ASSUME IInv, NEW s \in Streams, Story(s), Producer(s)
  PROVE  Story(s)'
  BY AdmitStory, ProducerFailsStory, CoalesceStateStory, AppendStateStory,
     CaptureWaveformStory, AppendGapStory, AppendWaveformStory, NextPollStory, FinishesStory
     DEF Producer

LEMMA StoryOfServing ==
  ASSUME IInv, NEW s \in Streams, Story(s),
         \/ Serve(s) \/ Subscribe(s) \/ SubscribeRefused(s)
         \/ SendReturns(s) \/ SendFails(s) \/ ClientCancels(s)
  PROVE  Story(s)'
  BY HandlerStory, SubscribeStory, DequeueStory, CloseQueueStory, PrepareGapStory,
     PrepareTerminalEventStory DEF Serve

LEMMA StoriesStep == IInv /\ Stories /\ [Next]_vars => Stories'
<1> SUFFICES ASSUME IInv, Stories, [Next]_vars, NEW t \in Streams PROVE Story(t)'
  BY DEF Stories
<1>0. Story(t)
  BY DEF Stories
<1>1. CASE UNCHANGED vars
  <2>1. Untouched(t)
    BY <1>1 DEF vars, rpcVars, pollVars, fifoVars, terminalVars, Untouched, SameProducer,
       SameQueue, SameEnd, SameHandler
  <2>2. QED
    BY <1>0, <2>1, StoryUntouched
<1>2. ASSUME NEW s \in Streams, Producer(s) PROVE Story(t)'
  <2>1. CASE s = t
    BY <1>0, <1>2, <2>1, StoryOfProducer
  <2>2. CASE s # t
    BY <1>0, <1>2, <2>2, OthersOfProducer, StoryUntouched
  <2>3. QED
    BY <2>1, <2>2
<1>3. ASSUME NEW s \in Streams,
             \/ Serve(s) \/ Subscribe(s) \/ SubscribeRefused(s)
             \/ SendReturns(s) \/ SendFails(s) \/ ClientCancels(s)
      PROVE  Story(t)'
  <2>1. CASE s = t
    BY <1>0, <1>3, <2>1, StoryOfServing
  <2>2. CASE s # t
    BY <1>0, <1>3, <2>2, OthersOfHandler, StoryUntouched
  <2>3. QED
    BY <2>1, <2>2
<1>4. CASE Finished
  BY <1>1, <1>4 DEF Finished
<1>5. QED
  BY <1>1, <1>2, <1>3, <1>4 DEF Next

\* Every stream's story holds of every behaviour.
THEOREM StoriesHold == Spec => [](IInv /\ Stories)
<1>1. Init => IInv /\ Stories
  BY InitInvariant, InitStories
<1>2. IInv /\ Stories /\ [Next]_vars => IInv' /\ Stories'
  BY StepInvariant, StoriesStep
<1>3. QED
  BY <1>1, <1>2, PTL DEF Spec

LEMMA StoriesAccountLosses == IInv /\ Stories => LossAccounted
<1> SUFFICES ASSUME IInv, Stories, NEW s \in Streams, Open(s), NEW c \in Channels
    PROVE  LET history == Reported(s)
               drop == drops[s][c]
               lost == capture[s][c] - Accounted(s, c)
           IN /\ \A i \in Reports(history, c, Len(history)) :
                   history[i].first = ToldBy(history, c, i - 1) + 1
              /\ HasDrop(s, c) => /\ drop.first = Told(s, c) + 1
                                  /\ drop.count = drop.last - drop.first + 1
              /\ \/ lost = 0
                 \/ lost = 1 /\ (InHand(s, c) \/ failure[s] \in {{"exhausted"}, {"tooLarge"}})
  BY DEF LossAccounted
<1>1. Balanced(s, c)
  BY DEF Stories, Story, Tells
<1>2. Told(s, c) = TellsOf(Reported(s), c)
  BY DEF Told, TellsOf
<1>3. Chains(Reported(s), c)
  BY <1>1 DEF Balanced
<1>4. Balance(Told(s, c), drops[s][c], capture[s][c], Carried(s, c), failure[s])
  BY <1>1, <1>2 DEF Balanced
<1>5. HasDrop(s, c) => /\ drops[s][c].first = Told(s, c) + 1
                       /\ drops[s][c].count = drops[s][c].last - drops[s][c].first + 1
  BY <1>4 DEF Balance, HasDrop
<1>6. LET lost == capture[s][c] - Accounted(s, c)
      IN  lost = Carried(s, c) \/ (lost = 1 /\ failure[s] \in {{"exhausted"}, {"tooLarge"}})
  BY <1>4 DEF Balance, HasDrop, Accounted
<1>7. Carried(s, c) = 0 \/ (Carried(s, c) = 1 /\ InHand(s, c))
  BY DEF Carried
<1>8. QED
  BY <1>3, <1>5, <1>6, <1>7 DEF Chains

LEMMA StoriesOrderEvents == IInv /\ Stories => EventsInOrder
<1> SUFFICES ASSUME IInv, Stories, NEW s \in Streams
    PROVE  InProductionOrder(s) /\ (Open(s) => ErrorIsLast(s))
  BY DEF EventsInOrder
<1>1. Orders(s) /\ Ends(s)
  BY DEF Stories, Story
<1>2. DOMAIN Reported(s) = 1..Len(Reported(s))
  BY StreamTyped, LenProperties
<1>3. InProductionOrder(s)
  BY <1>1, <1>2 DEF Orders, InOrder, InProductionOrder
<1>4. ASSUME Open(s) PROVE ErrorIsLast(s)
  <2>1. LastIsError(Reported(s)) /\ (~NoErrors(Reported(s)) => \A c \in Channels : ~HasDrop(s, c))
    BY <1>1, <1>4 DEF Ends
  <2>2. QED
    BY <1>2, <2>1 DEF LastIsError, NoErrors, ErrorIsLast
<1>5. QED
  BY <1>3, <1>4

LEMMA StoriesExplainEnds == IInv /\ Stories => EndExplained
<1> SUFFICES ASSUME IInv, Stories, NEW s \in Streams, rpc[s] \in {"stopping", "joining"},
                    outcome[s] \in {{"device"}, {"backpressure"}, {"tooLarge"}}
    PROVE  /\ published[s] # <<>> /\ Last(published[s]).kind = "error"
           /\ \A c \in Channels : ~HasDrop(s, c)
           /\ outcome[s] # {"tooLarge"} => \A c \in Channels : Told(s, c) = capture[s][c]
  BY DEF EndExplained
<1>1. Carries(s) /\ Tells(s) /\ Ends(s) /\ Answers(s)
  BY DEF Stories, Story
<1>2. s \in terminalReady /\ events[s] = <<>> /\ outcome[s] = terminal[s] /\ Open(s)
  BY <1>1 DEF Answers, Open
<1>3. Reported(s) = published[s]
  BY <1>2, StreamTyped, ConcatEmptySeq DEF Reported
<1>4. terminal[s] \cap {"canceled", "exhausted"} = {}
  BY <1>2
<1>5. /\ terminal[s] = failure[s] /\ published[s] # <<>> /\ Last(published[s]).kind = "error"
  BY <1>1, <1>2, <1>3, <1>4 DEF Ends, Explained
<1>6. \A c \in Channels : ~HasDrop(s, c)
  <2>1. Len(published[s]) \in 1..Len(published[s])
    <3>1. published[s] \in Seq(Events)
      BY StreamTyped
    <3>2. QED
      BY <1>5, <3>1, EmptySeq
  <2>2. published[s][Len(published[s])].kind = "error"
    BY <1>5 DEF Last
  <2>3. ~NoErrors(Reported(s))
    BY <1>3, <2>1, <2>2 DEF NoErrors
  <2>4. QED
    BY <1>1, <1>2, <2>3 DEF Ends
<1>7. ASSUME outcome[s] # {"tooLarge"}, NEW c \in Channels PROVE Told(s, c) = capture[s][c]
  <2>1. captured[s] = <<>>
    BY <1>1, <1>2 DEF Ends, IInv, Lifecycle, Carries
  <2>2. Carried(s, c) = 0
    BY <2>1 DEF Carried, InHand
  <2>3. failure[s] \notin {{"exhausted"}, {"tooLarge"}}
    BY <1>2, <1>5, <1>7
  <2>4. Balance(Told(s, c), NoDrop, capture[s][c], 0, failure[s])
    BY <1>1, <1>2, <1>6, <2>2 DEF Tells, Balanced, Told, TellsOf, HasDrop
  <2>5. capture[s][c] - Told(s, c) = 0
    BY <2>3, <2>4 DEF Balance
  <2>6. capture[s][c] \in Nat /\ Told(s, c) \in Nat
    BY StreamTyped DEF Told, TellsOf
  <2>7. QED
    BY <2>5, <2>6
<1>8. QED
  BY <1>5, <1>6, <1>7

\* No capture disappears: what a client is told of follows without a hole or an
\* overlap, the pending drop continues it, and one capture at most is on its way or
\* ended the stream (subscription_queue.go, enqueueWaveform, recordDropLocked and
\* prepareTerminalLocked).
THEOREM LossesAreAccounted == Spec => []LossAccounted
<1>1. Spec => [](IInv /\ Stories)
  BY StoriesHold
<1>2. IInv /\ Stories => LossAccounted
  BY StoriesAccountLosses
<1>3. QED
  BY <1>1, <1>2, PTL

\* States and waveforms are published in the order in which they were produced, and
\* the terminal error comes last, after every loss
\* (subscription_queue.go, enqueueState and prepareTerminalLocked).
THEOREM EventsAreInOrder == Spec => []EventsInOrder
<1>1. Spec => [](IInv /\ Stories)
  BY StoriesHold
<1>2. IInv /\ Stories => EventsInOrder
  BY StoriesOrderEvents
<1>3. QED
  BY <1>1, <1>2, PTL

\* A stream that ends with the error of its producer told the client every capture
\* and the error first (subscription_queue.go, nextReady; subscription.go, Subscribe).
THEOREM EndsAreExplained == Spec => []EndExplained
<1>1. Spec => [](IInv /\ Stories)
  BY StoriesHold
<1>2. IInv /\ Stories => EndExplained
  BY StoriesExplainEnds
<1>3. QED
  BY <1>1, <1>2, PTL

=============================================================================
