---------------------------- MODULE Daemon_proofs ----------------------------
(***************************************************************************)
(* Proofs about Daemon, for every set of processes and instruments and any *)
(* number of starts and foreign changes. IInv, the conjunction of what the *)
(* runs check, is inductive: one lemma for each phase of a process and one *)
(* for the foreign changes.                                                *)
(***************************************************************************)
EXTENDS Daemon, TLAPS

IInv ==
  /\ TypeOK /\ LockHeld /\ OneOwner /\ SocketsAccounted /\ PathAccounted
  /\ CleanExitMeansReleased

LEMMA InitIInv == Init => IInv
<1> SUFFICES ASSUME Init PROVE IInv
  OBVIOUS
<1> USE DaemonAssumption DEF Init, Nothing, Inodes, Steps, Starting, Locking, Bound, Cleaning
<1>1. TypeOK
  BY DEF TypeOK
<1>2. LockHeld
  BY DEF LockHeld, Up
<1>3. OneOwner
  BY DEF OneOwner
<1>4. SocketsAccounted
  BY DEF SocketsAccounted
<1>5. PathAccounted
  BY DEF PathAccounted
<1>6. CleanExitMeansReleased
  BY DEF CleanExitMeansReleased
<1>7. QED
  BY <1>1, <1>2, <1>3, <1>4, <1>5, <1>6 DEF IInv

\* A step that leaves the sockets and the path alone, and neither comes to bind
\* while something lies at the path nor skips the binding.
LEMMA PathUntouched ==
  ASSUME IInv, NEW d \in Daemons,
         UNCHANGED <<path, files, listening, own, foreign>>,
         \A e \in Daemons \ {d} : pc'[e] = pc[e],
         pc'[d] = "bind" => foreign # 0 \/ path = Nothing,
         pc'[d] \in Bound => pc[d] \in Bound
  PROVE  PathAccounted'
  BY DEF IInv, PathAccounted

\* While one process is up, the others neither bind nor have bound.
LEMMA OthersAreDown ==
  ASSUME IInv, NEW d \in Daemons, Up(d)
  PROVE  \A e \in Daemons \ {d} : pc[e] \notin Locking \cup Bound \cup Cleaning
  BY DEF IInv, LockHeld, Up

\* Whoever holds the lock may change the path and the sockets.
LEMMA PathChanged ==
  ASSUME IInv, NEW d \in Daemons, Up(d),
         \A e \in Daemons \ {d} : pc'[e] = pc[e],
         UNCHANGED <<files, foreign>>,
         pc'[d] = "bind" => path' = Nothing,
         pc'[d] \in Bound => foreign # 0 \/ path' = own'[d],
         \A i \in listening' : foreign # 0 \/ \E e \in Daemons : own'[e] = i
  PROVE  PathAccounted'
<1>1. \A e \in Daemons \ {d} : pc'[e] \notin Locking \cup Bound
  BY OthersAreDown
<1>2. QED
  BY <1>1 DEF IInv, PathAccounted, Locking

\* Starting a process: the instrument, the session and the service, and their cleanup.
LEMMA StartupPreserves ==
  ASSUME IInv, NEW d \in Daemons,
         Start(d) \/ Open(d) \/ NewSession(d) \/ Compose(d) \/
         RejectStartup(d) \/ RetryCleanup(d)
  PROVE  IInv'
<1> USE DaemonAssumption, IInv DEF IInv, Nothing, Inodes, Up, Steps, Starting, Locking, Bound,
        Cleaning, processVars, fileVars
<1>1. ASSUME Start(d)
      PROVE  IInv'
  <2> USE <1>1 DEF Start, Go
  <2>1. TypeOK'
    BY DEF TypeOK
  <2>2. LockHeld'
    BY DEF TypeOK, LockHeld
  <2>3. OneOwner'
    BY DEF TypeOK, OneOwner
  <2>4. SocketsAccounted'
    BY DEF TypeOK, SocketsAccounted
  <2>5. PathAccounted'
    BY DEF TypeOK, LockHeld, SocketsAccounted, PathAccounted
  <2>6. CleanExitMeansReleased'
    BY DEF TypeOK, LockHeld, OneOwner, SocketsAccounted, CleanExitMeansReleased
  <2>7. QED
    BY <2>1, <2>2, <2>3, <2>4, <2>5, <2>6 DEF IInv
<1>2. ASSUME Open(d)
      PROVE  IInv'
  <2> USE <1>2 DEF Open, Go, Own, Fail
  <2>1. TypeOK'
    <3>1. CASE UNCHANGED claim
      BY <3>1 DEF TypeOK
    <3>2. CASE claim' = [claim EXCEPT ![Serial[d]] = d] /\ UNCHANGED failed
      BY <3>2 DEF TypeOK
    <3>3. QED
      BY <3>1, <3>2
  <2>2. LockHeld'
    BY DEF TypeOK, LockHeld
  <2>3. OneOwner'
    BY DEF TypeOK, OneOwner
  <2>4. SocketsAccounted'
    BY DEF TypeOK, SocketsAccounted
  <2>5. PathAccounted'
    BY DEF TypeOK, LockHeld, SocketsAccounted, PathAccounted
  <2>6. CleanExitMeansReleased'
    BY DEF TypeOK, LockHeld, OneOwner, SocketsAccounted, CleanExitMeansReleased
  <2>7. QED
    BY <2>1, <2>2, <2>3, <2>4, <2>5, <2>6 DEF IInv
<1>3. ASSUME NewSession(d)
      PROVE  IInv'
  <2> USE <1>3 DEF NewSession, Go, Own, Fail
  <2>1. TypeOK'
    BY DEF TypeOK
  <2>2. LockHeld'
    BY DEF TypeOK, LockHeld
  <2>3. OneOwner'
    BY DEF TypeOK, OneOwner
  <2>4. SocketsAccounted'
    BY DEF TypeOK, SocketsAccounted
  <2>5. PathAccounted'
    BY DEF TypeOK, LockHeld, SocketsAccounted, PathAccounted
  <2>6. CleanExitMeansReleased'
    BY DEF TypeOK, LockHeld, OneOwner, SocketsAccounted, CleanExitMeansReleased
  <2>7. QED
    BY <2>1, <2>2, <2>3, <2>4, <2>5, <2>6 DEF IInv
<1>4. ASSUME Compose(d)
      PROVE  IInv'
  <2> USE <1>4 DEF Compose, Go, Fail
  <2>1. TypeOK'
    BY DEF TypeOK
  <2>2. LockHeld'
    BY DEF TypeOK, LockHeld
  <2>3. OneOwner'
    BY DEF TypeOK, OneOwner
  <2>4. SocketsAccounted'
    BY DEF TypeOK, SocketsAccounted
  <2>5. PathAccounted'
    BY DEF TypeOK, LockHeld, SocketsAccounted, PathAccounted
  <2>6. CleanExitMeansReleased'
    BY DEF TypeOK, LockHeld, OneOwner, SocketsAccounted, CleanExitMeansReleased
  <2>7. QED
    BY <2>1, <2>2, <2>3, <2>4, <2>5, <2>6 DEF IInv
<1>5. ASSUME RejectStartup(d)
      PROVE  IInv'
  <2> USE <1>5 DEF RejectStartup, Cleaned, Unclaimed, Own, Go
  <2>1. TypeOK'
    BY DEF TypeOK
  <2>2. LockHeld'
    BY DEF TypeOK, LockHeld
  <2>3. OneOwner'
    BY DEF TypeOK, OneOwner
  <2>4. SocketsAccounted'
    BY DEF TypeOK, SocketsAccounted
  <2>5. PathAccounted'
    BY DEF TypeOK, LockHeld, SocketsAccounted, PathAccounted
  <2>6. CleanExitMeansReleased'
    BY DEF TypeOK, LockHeld, OneOwner, SocketsAccounted, CleanExitMeansReleased
  <2>7. QED
    BY <2>1, <2>2, <2>3, <2>4, <2>5, <2>6 DEF IInv
<1>6. ASSUME RetryCleanup(d)
      PROVE  IInv'
  <2> USE <1>6 DEF RetryCleanup, Cleaned, Unclaimed, Own
  <2>1. TypeOK'
    BY DEF TypeOK
  <2>2. LockHeld'
    BY DEF TypeOK, LockHeld
  <2>3. OneOwner'
    BY DEF TypeOK, OneOwner
  <2>4. SocketsAccounted'
    BY DEF TypeOK, SocketsAccounted
  <2>5. PathAccounted'
    BY DEF TypeOK, LockHeld, SocketsAccounted, PathAccounted
  <2>6. CleanExitMeansReleased'
    BY DEF TypeOK, LockHeld, OneOwner, SocketsAccounted, CleanExitMeansReleased
  <2>7. QED
    BY <2>1, <2>2, <2>3, <2>4, <2>5, <2>6 DEF IInv
<1>7. QED
  BY <1>1, <1>2, <1>3, <1>4, <1>5, <1>6

\* openListener: the lock, the path, and the socket.
LEMMA ListenPreserves ==
  ASSUME IInv, NEW d \in Daemons,
         TakeLock(d) \/ SystemCallFails(d) \/ Inspect(d) \/ Probe(d) \/
         RemoveStale(d) \/ Bind(d) \/ Listen(d) \/ Chmod(d) \/
         Identify(d) \/ Discard(d)
  PROVE  IInv'
<1> USE DaemonAssumption, IInv DEF IInv, Nothing, Inodes, Up, Steps, Starting, Locking, Bound,
        Cleaning, processVars, fileVars
<1>1. ASSUME TakeLock(d)
      PROVE  IInv'
  <2> USE <1>1 DEF TakeLock, LockIsFree, Refuse, Go, Fail
  <2>1. TypeOK'
    BY DEF TypeOK
  <2>2. LockHeld'
    BY DEF TypeOK, LockHeld
  <2>3. OneOwner'
    BY DEF TypeOK, OneOwner
  <2>4. SocketsAccounted'
    BY DEF TypeOK, SocketsAccounted
  <2>5. PathAccounted'
    BY PathUntouched DEF TypeOK
  <2>6. CleanExitMeansReleased'
    BY DEF TypeOK, LockHeld, OneOwner, SocketsAccounted, CleanExitMeansReleased
  <2>7. QED
    BY <2>1, <2>2, <2>3, <2>4, <2>5, <2>6 DEF IInv
<1>2. ASSUME SystemCallFails(d)
      PROVE  IInv'
  <2> USE <1>2 DEF SystemCallFails, Refuse, Go, Fail
  <2>1. TypeOK'
    BY DEF TypeOK
  <2>2. LockHeld'
    BY DEF TypeOK, LockHeld
  <2>3. OneOwner'
    BY DEF TypeOK, OneOwner
  <2>4. SocketsAccounted'
    BY DEF TypeOK, SocketsAccounted
  <2>5. PathAccounted'
    BY DEF TypeOK, LockHeld, SocketsAccounted, PathAccounted
  <2>6. CleanExitMeansReleased'
    BY DEF TypeOK, LockHeld, OneOwner, SocketsAccounted, CleanExitMeansReleased
  <2>7. QED
    BY <2>1, <2>2, <2>3, <2>4, <2>5, <2>6 DEF IInv
<1>3. ASSUME Inspect(d)
      PROVE  IInv'
  <2> USE <1>3 DEF Inspect, Move, Refuse, Go, Fail
  <2>1. TypeOK'
    BY DEF TypeOK
  <2>2. LockHeld'
    BY DEF TypeOK, LockHeld
  <2>3. OneOwner'
    BY DEF TypeOK, OneOwner
  <2>4. SocketsAccounted'
    BY DEF TypeOK, SocketsAccounted
  <2>5. PathAccounted'
    BY PathUntouched DEF TypeOK, PathAccounted
  <2>6. CleanExitMeansReleased'
    BY DEF TypeOK, LockHeld, OneOwner, SocketsAccounted, CleanExitMeansReleased
  <2>7. QED
    BY <2>1, <2>2, <2>3, <2>4, <2>5, <2>6 DEF IInv
<1>4. ASSUME Probe(d)
      PROVE  IInv'
  <2> USE <1>4 DEF Probe, Move, Refuse, Go, Fail
  <2>1. TypeOK'
    BY DEF TypeOK
  <2>2. LockHeld'
    BY DEF TypeOK, LockHeld
  <2>3. OneOwner'
    BY DEF TypeOK, OneOwner
  <2>4. SocketsAccounted'
    BY DEF TypeOK, SocketsAccounted
  <2>5. PathAccounted'
    BY PathUntouched DEF TypeOK
  <2>6. CleanExitMeansReleased'
    BY DEF TypeOK, LockHeld, OneOwner, SocketsAccounted, CleanExitMeansReleased
  <2>7. QED
    BY <2>1, <2>2, <2>3, <2>4, <2>5, <2>6 DEF IInv
<1>5. ASSUME RemoveStale(d)
      PROVE  IInv'
  <2>1. CASE Refuse(d, "stale", "error")
    <3> USE <2>1 DEF Refuse, Go, Fail
    <3>1. TypeOK'
      BY DEF TypeOK, SocketsAccounted
    <3>2. LockHeld'
      BY DEF TypeOK, LockHeld
    <3>3. OneOwner'
      BY DEF TypeOK, OneOwner
    <3>4. SocketsAccounted'
      BY DEF TypeOK, SocketsAccounted
    <3>5. PathAccounted'
      BY PathUntouched DEF TypeOK
    <3>6. CleanExitMeansReleased'
      BY DEF TypeOK, LockHeld, OneOwner, SocketsAccounted, CleanExitMeansReleased
    <3>7. QED
      BY <3>1, <3>2, <3>3, <3>4, <3>5, <3>6 DEF IInv
  <2>2. ASSUME path # Nothing,
               path' = Nothing,
               Go(d, "stale", "bind"),
               UNCHANGED <<owner, inCall, failed, refused, own, identity,
                            listening, files, created, foreign, claim, lock, starts>>
        PROVE  IInv'
    <3> USE <2>2 DEF Go
    <3>1. TypeOK'
      BY DEF TypeOK, SocketsAccounted
    <3>2. LockHeld'
      BY DEF TypeOK, LockHeld
    <3>3. OneOwner'
      BY DEF TypeOK, OneOwner
    <3>4. SocketsAccounted'
      BY DEF TypeOK, SocketsAccounted
    <3>5. PathAccounted'
      BY DEF TypeOK, LockHeld, SocketsAccounted, PathAccounted
    <3>6. CleanExitMeansReleased'
      BY DEF TypeOK, LockHeld, OneOwner, SocketsAccounted, CleanExitMeansReleased
    <3>7. QED
      BY <3>1, <3>2, <3>3, <3>4, <3>5, <3>6 DEF IInv
  <2>3. QED
    BY <1>5, <2>1, <2>2 DEF RemoveStale
<1>6. ASSUME Bind(d)
      PROVE  IInv'
  <2>1. CASE Refuse(d, "bind", "occupied")
    <3> USE <2>1 DEF Refuse, Go, Fail
    <3>1. TypeOK'
      BY DEF TypeOK, SocketsAccounted
    <3>2. LockHeld'
      BY DEF TypeOK, LockHeld
    <3>3. OneOwner'
      BY DEF TypeOK, OneOwner
    <3>4. SocketsAccounted'
      BY DEF TypeOK, SocketsAccounted
    <3>5. PathAccounted'
      BY PathUntouched DEF TypeOK
    <3>6. CleanExitMeansReleased'
      BY DEF TypeOK, LockHeld, OneOwner, SocketsAccounted, CleanExitMeansReleased
    <3>7. QED
      BY <3>1, <3>2, <3>3, <3>4, <3>5, <3>6 DEF IInv
  <2>2. ASSUME path = Nothing,
               created' = created + 1,
               path' = created',
               own' = [own EXCEPT ![d] = created'],
               Go(d, "bind", "listen"),
               UNCHANGED <<owner, inCall, failed, refused, identity,
                            listening, files, foreign, claim, lock, starts>>
        PROVE  IInv'
    <3> USE <2>2 DEF Go
    <3>1. TypeOK'
      BY DEF TypeOK, SocketsAccounted
    <3>2. LockHeld'
      BY DEF TypeOK, LockHeld
    <3>3. OneOwner'
      BY DEF TypeOK, OneOwner
    <3>4. SocketsAccounted'
      BY DEF TypeOK, SocketsAccounted
    <3>5. PathAccounted'
      BY DEF TypeOK, LockHeld, SocketsAccounted, PathAccounted
    <3>6. CleanExitMeansReleased'
      BY DEF TypeOK, LockHeld, OneOwner, SocketsAccounted, CleanExitMeansReleased
    <3>7. QED
      BY <3>1, <3>2, <3>3, <3>4, <3>5, <3>6 DEF IInv
  <2>3. QED
    BY <1>6, <2>1, <2>2 DEF Bind
<1>7. ASSUME Listen(d)
      PROVE  IInv'
  <2>1. CASE Refuse(d, "listen", "error")
    <3> USE <2>1 DEF Refuse, Go, Fail
    <3>1. TypeOK'
      BY DEF TypeOK, SocketsAccounted
    <3>2. LockHeld'
      BY DEF TypeOK, LockHeld
    <3>3. OneOwner'
      BY DEF TypeOK, OneOwner
    <3>4. SocketsAccounted'
      BY DEF TypeOK, SocketsAccounted
    <3>5. PathAccounted'
      BY PathUntouched DEF TypeOK
    <3>6. CleanExitMeansReleased'
      BY DEF TypeOK, LockHeld, OneOwner, SocketsAccounted, CleanExitMeansReleased
    <3>7. QED
      BY <3>1, <3>2, <3>3, <3>4, <3>5, <3>6 DEF IInv
  <2>2. ASSUME Go(d, "listen", "chmod"),
               listening' = listening \cup {own[d]},
               UNCHANGED <<owner, inCall, failed, refused, own, identity,
                            path, files, created, foreign, claim, lock, starts>>
        PROVE  IInv'
    <3> USE <2>2 DEF Go
    <3>1. TypeOK'
      BY DEF TypeOK, SocketsAccounted
    <3>2. LockHeld'
      BY DEF TypeOK, LockHeld
    <3>3. OneOwner'
      BY DEF TypeOK, OneOwner
    <3>4. SocketsAccounted'
      BY DEF TypeOK, SocketsAccounted
    <3>5. PathAccounted'
      BY DEF TypeOK, LockHeld, SocketsAccounted, PathAccounted
    <3>6. CleanExitMeansReleased'
      BY DEF TypeOK, LockHeld, OneOwner, SocketsAccounted, CleanExitMeansReleased
    <3>7. QED
      BY <3>1, <3>2, <3>3, <3>4, <3>5, <3>6 DEF IInv
  <2>3. QED
    BY <1>7, <2>1, <2>2 DEF Listen
<1>8. ASSUME Chmod(d)
      PROVE  IInv'
  <2> USE <1>8 DEF Chmod, Move, Go
  <2>1. TypeOK'
    BY DEF TypeOK
  <2>2. LockHeld'
    BY DEF TypeOK, LockHeld
  <2>3. OneOwner'
    BY DEF TypeOK, OneOwner
  <2>4. SocketsAccounted'
    BY DEF TypeOK, SocketsAccounted
  <2>5. PathAccounted'
    BY PathUntouched DEF TypeOK
  <2>6. CleanExitMeansReleased'
    BY DEF TypeOK, LockHeld, OneOwner, SocketsAccounted, CleanExitMeansReleased
  <2>7. QED
    BY <2>1, <2>2, <2>3, <2>4, <2>5, <2>6 DEF IInv
<1>9. ASSUME Identify(d)
      PROVE  IInv'
  <2>1. CASE Move(d, "identify", "discard")
    <3> USE <2>1 DEF Move, Go, Fail
    <3>1. TypeOK'
      BY DEF TypeOK, SocketsAccounted
    <3>2. LockHeld'
      BY DEF TypeOK, LockHeld
    <3>3. OneOwner'
      BY DEF TypeOK, OneOwner
    <3>4. SocketsAccounted'
      BY DEF TypeOK, SocketsAccounted
    <3>5. PathAccounted'
      BY PathUntouched DEF TypeOK
    <3>6. CleanExitMeansReleased'
      BY DEF TypeOK, LockHeld, OneOwner, SocketsAccounted, CleanExitMeansReleased
    <3>7. QED
      BY <3>1, <3>2, <3>3, <3>4, <3>5, <3>6 DEF IInv
  <2>2. ASSUME path # Nothing,
               identity' = [identity EXCEPT ![d] = path],
               Go(d, "identify", "serving"),
               UNCHANGED <<owner, inCall, failed, refused, own,
                            fileVars, claim, lock, starts>>
        PROVE  IInv'
    <3> USE <2>2 DEF Go
    <3>1. TypeOK'
      BY DEF TypeOK, SocketsAccounted
    <3>2. LockHeld'
      BY DEF TypeOK, LockHeld
    <3>3. OneOwner'
      BY DEF TypeOK, OneOwner
    <3>4. SocketsAccounted'
      BY DEF TypeOK, SocketsAccounted
    <3>5. PathAccounted'
      BY DEF TypeOK, LockHeld, SocketsAccounted, PathAccounted
    <3>6. CleanExitMeansReleased'
      BY DEF TypeOK, LockHeld, OneOwner, SocketsAccounted, CleanExitMeansReleased
    <3>7. QED
      BY <3>1, <3>2, <3>3, <3>4, <3>5, <3>6 DEF IInv
  <2>3. QED
    BY <1>9, <2>1, <2>2 DEF Identify
<1>10. ASSUME Discard(d)
      PROVE  IInv'
  <2> USE <1>10 DEF Discard, Go, Fail
  <2>1. TypeOK'
    BY DEF TypeOK
  <2>2. LockHeld'
    BY DEF TypeOK, LockHeld
  <2>3. OneOwner'
    BY DEF TypeOK, OneOwner
  <2>4. SocketsAccounted'
    BY DEF TypeOK, SocketsAccounted
  <2>5. PathAccounted'
    BY DEF TypeOK, LockHeld, SocketsAccounted, PathAccounted
  <2>6. CleanExitMeansReleased'
    BY DEF TypeOK, LockHeld, OneOwner, SocketsAccounted, CleanExitMeansReleased
  <2>7. QED
    BY <2>1, <2>2, <2>3, <2>4, <2>5, <2>6 DEF IInv
<1>11. QED
  BY <1>1, <1>2, <1>3, <1>4, <1>5, <1>6, <1>7, <1>8, <1>9, <1>10

\* Serving and stopping.
LEMMA ServePreserves ==
  ASSUME IInv, NEW d \in Daemons,
         HandlerEnters(d) \/ HandlerReturns(d) \/ Stop(d) \/ ServeFails(d) \/
         CloseListener(d) \/ CheckPath(d) \/ RemovePath(d) \/ Unlock(d) \/
         StoreClosed(d) \/ SessionCloses(d) \/ SessionCloseFails(d) \/ Exit(d) \/ Crash(d)
  PROVE  IInv'
<1> USE DaemonAssumption, IInv DEF IInv, Nothing, Inodes, Up, Steps, Starting, Locking, Bound,
        Cleaning, processVars, fileVars
<1>1. ASSUME HandlerEnters(d)
      PROVE  IInv'
  <2> USE <1>1 DEF HandlerEnters, Admits
  <2>1. TypeOK'
    BY DEF TypeOK
  <2>2. LockHeld'
    BY DEF TypeOK, LockHeld
  <2>3. OneOwner'
    BY DEF TypeOK, OneOwner
  <2>4. SocketsAccounted'
    BY DEF TypeOK, SocketsAccounted
  <2>5. PathAccounted'
    BY DEF TypeOK, LockHeld, SocketsAccounted, PathAccounted
  <2>6. CleanExitMeansReleased'
    BY DEF TypeOK, LockHeld, OneOwner, SocketsAccounted, CleanExitMeansReleased
  <2>7. QED
    BY <2>1, <2>2, <2>3, <2>4, <2>5, <2>6 DEF IInv
<1>2. ASSUME HandlerReturns(d)
      PROVE  IInv'
  <2> USE <1>2 DEF HandlerReturns
  <2>1. TypeOK'
    BY DEF TypeOK
  <2>2. LockHeld'
    BY DEF TypeOK, LockHeld
  <2>3. OneOwner'
    BY DEF TypeOK, OneOwner
  <2>4. SocketsAccounted'
    BY DEF TypeOK, SocketsAccounted
  <2>5. PathAccounted'
    BY DEF TypeOK, LockHeld, SocketsAccounted, PathAccounted
  <2>6. CleanExitMeansReleased'
    BY DEF TypeOK, LockHeld, OneOwner, SocketsAccounted, CleanExitMeansReleased
  <2>7. QED
    BY <2>1, <2>2, <2>3, <2>4, <2>5, <2>6 DEF IInv
<1>3. ASSUME Stop(d)
      PROVE  IInv'
  <2> USE <1>3 DEF Stop, Move, Go
  <2>1. TypeOK'
    BY DEF TypeOK
  <2>2. LockHeld'
    BY DEF TypeOK, LockHeld
  <2>3. OneOwner'
    BY DEF TypeOK, OneOwner
  <2>4. SocketsAccounted'
    BY DEF TypeOK, SocketsAccounted
  <2>5. PathAccounted'
    BY DEF TypeOK, LockHeld, SocketsAccounted, PathAccounted
  <2>6. CleanExitMeansReleased'
    BY DEF TypeOK, LockHeld, OneOwner, SocketsAccounted, CleanExitMeansReleased
  <2>7. QED
    BY <2>1, <2>2, <2>3, <2>4, <2>5, <2>6 DEF IInv
<1>4. ASSUME ServeFails(d)
      PROVE  IInv'
  <2> USE <1>4 DEF ServeFails, Go, Fail
  <2>1. TypeOK'
    BY DEF TypeOK
  <2>2. LockHeld'
    BY DEF TypeOK, LockHeld
  <2>3. OneOwner'
    BY DEF TypeOK, OneOwner
  <2>4. SocketsAccounted'
    BY DEF TypeOK, SocketsAccounted
  <2>5. PathAccounted'
    BY DEF TypeOK, LockHeld, SocketsAccounted, PathAccounted
  <2>6. CleanExitMeansReleased'
    BY DEF TypeOK, LockHeld, OneOwner, SocketsAccounted, CleanExitMeansReleased
  <2>7. QED
    BY <2>1, <2>2, <2>3, <2>4, <2>5, <2>6 DEF IInv
<1>5. ASSUME CloseListener(d)
      PROVE  IInv'
  <2>1. CASE Go(d, "stopping", "unlock") /\ Fail(d)
              /\ UNCHANGED <<owner, inCall, refused, own, identity, fileVars, claim, lock, starts>>
    <3> USE <2>1 DEF Go, Fail
    <3>1. TypeOK'
      BY DEF TypeOK, SocketsAccounted
    <3>2. LockHeld'
      BY DEF TypeOK, LockHeld
    <3>3. OneOwner'
      BY DEF TypeOK, OneOwner
    <3>4. SocketsAccounted'
      BY DEF TypeOK, SocketsAccounted
    <3>5. PathAccounted'
      BY PathUntouched DEF TypeOK
    <3>6. CleanExitMeansReleased'
      BY DEF TypeOK, LockHeld, OneOwner, SocketsAccounted, CleanExitMeansReleased
    <3>7. QED
      BY <3>1, <3>2, <3>3, <3>4, <3>5, <3>6 DEF IInv
  <2>2. ASSUME Go(d, "stopping", "check"),
               listening' = listening \ {own[d]},
               UNCHANGED <<owner, inCall, failed, refused, own, identity,
                            path, files, created, foreign, claim, lock, starts>>
        PROVE  IInv'
    <3> USE <2>2 DEF Go
    <3>1. TypeOK'
      BY DEF TypeOK, SocketsAccounted
    <3>2. LockHeld'
      BY DEF TypeOK, LockHeld
    <3>3. OneOwner'
      BY DEF TypeOK, OneOwner
    <3>4. SocketsAccounted'
      BY DEF TypeOK, SocketsAccounted
    <3>5. PathAccounted'
      BY DEF TypeOK, LockHeld, SocketsAccounted, PathAccounted
    <3>6. CleanExitMeansReleased'
      BY DEF TypeOK, LockHeld, OneOwner, SocketsAccounted, CleanExitMeansReleased
    <3>7. QED
      BY <3>1, <3>2, <3>3, <3>4, <3>5, <3>6 DEF IInv
  <2>3. QED
    BY <1>5, <2>1, <2>2 DEF CloseListener
<1>6. ASSUME CheckPath(d)
      PROVE  IInv'
  <2> USE <1>6 DEF CheckPath, Move, Go, Fail
  <2>1. TypeOK'
    BY DEF TypeOK
  <2>2. LockHeld'
    BY DEF TypeOK, LockHeld
  <2>3. OneOwner'
    BY DEF TypeOK, OneOwner
  <2>4. SocketsAccounted'
    BY DEF TypeOK, SocketsAccounted
  <2>5. PathAccounted'
    BY PathUntouched DEF TypeOK
  <2>6. CleanExitMeansReleased'
    BY DEF TypeOK, LockHeld, OneOwner, SocketsAccounted, CleanExitMeansReleased
  <2>7. QED
    BY <2>1, <2>2, <2>3, <2>4, <2>5, <2>6 DEF IInv
<1>7. ASSUME RemovePath(d)
      PROVE  IInv'
  <2>1. CASE path # Nothing /\ Go(d, "remove", "unlock") /\ Fail(d)
              /\ UNCHANGED <<owner, inCall, refused, own, identity, fileVars, claim, lock, starts>>
    <3> USE <2>1 DEF Go, Fail
    <3>1. TypeOK'
      BY DEF TypeOK, SocketsAccounted
    <3>2. LockHeld'
      BY DEF TypeOK, LockHeld
    <3>3. OneOwner'
      BY DEF TypeOK, OneOwner
    <3>4. SocketsAccounted'
      BY DEF TypeOK, SocketsAccounted
    <3>5. PathAccounted'
      BY PathUntouched DEF TypeOK
    <3>6. CleanExitMeansReleased'
      BY DEF TypeOK, LockHeld, OneOwner, SocketsAccounted, CleanExitMeansReleased
    <3>7. QED
      BY <3>1, <3>2, <3>3, <3>4, <3>5, <3>6 DEF IInv
  <2>2. ASSUME Go(d, "remove", "unlock"),
               path' = Nothing,
               UNCHANGED <<owner, inCall, failed, refused, own, identity,
                            listening, files, created, foreign, claim, lock, starts>>
        PROVE  IInv'
    <3> USE <2>2 DEF Go
    <3>1. TypeOK'
      BY DEF TypeOK, SocketsAccounted
    <3>2. LockHeld'
      BY DEF TypeOK, LockHeld
    <3>3. OneOwner'
      BY DEF TypeOK, OneOwner
    <3>4. SocketsAccounted'
      BY DEF TypeOK, SocketsAccounted
    <3>5. PathAccounted'
      BY DEF TypeOK, LockHeld, SocketsAccounted, PathAccounted
    <3>6. CleanExitMeansReleased'
      BY DEF TypeOK, LockHeld, OneOwner, SocketsAccounted, CleanExitMeansReleased
    <3>7. QED
      BY <3>1, <3>2, <3>3, <3>4, <3>5, <3>6 DEF IInv
  <2>3. QED
    BY <1>7, <2>1, <2>2 DEF RemovePath
<1>8. ASSUME Unlock(d)
      PROVE  IInv'
  <2> USE <1>8 DEF Unlock, Go
  <2>1. TypeOK'
    BY DEF TypeOK
  <2>2. LockHeld'
    BY DEF TypeOK, LockHeld
  <2>3. OneOwner'
    BY DEF TypeOK, OneOwner
  <2>4. SocketsAccounted'
    BY DEF TypeOK, SocketsAccounted
  <2>5. PathAccounted'
    BY DEF TypeOK, LockHeld, SocketsAccounted, PathAccounted
  <2>6. CleanExitMeansReleased'
    BY DEF TypeOK, LockHeld, OneOwner, SocketsAccounted, CleanExitMeansReleased
  <2>7. QED
    BY <2>1, <2>2, <2>3, <2>4, <2>5, <2>6 DEF IInv
<1>9. ASSUME SessionCloses(d)
      PROVE  IInv'
  <2> USE <1>9 DEF SessionCloses, Cleaned, Unclaimed, Own, Go
  <2>1. TypeOK'
    BY DEF TypeOK
  <2>2. LockHeld'
    BY DEF TypeOK, LockHeld
  <2>3. OneOwner'
    BY DEF TypeOK, OneOwner
  <2>4. SocketsAccounted'
    BY DEF TypeOK, SocketsAccounted
  <2>5. PathAccounted'
    BY DEF TypeOK, LockHeld, SocketsAccounted, PathAccounted
  <2>6. CleanExitMeansReleased'
    BY DEF TypeOK, LockHeld, OneOwner, SocketsAccounted, CleanExitMeansReleased
  <2>7. QED
    BY <2>1, <2>2, <2>3, <2>4, <2>5, <2>6 DEF IInv
<1>10. ASSUME SessionCloseFails(d)
      PROVE  IInv'
  <2> USE <1>10 DEF SessionCloseFails, Go, Fail
  <2>1. TypeOK'
    BY DEF TypeOK
  <2>2. LockHeld'
    BY DEF TypeOK, LockHeld
  <2>3. OneOwner'
    BY DEF TypeOK, OneOwner
  <2>4. SocketsAccounted'
    BY DEF TypeOK, SocketsAccounted
  <2>5. PathAccounted'
    BY DEF TypeOK, LockHeld, SocketsAccounted, PathAccounted
  <2>6. CleanExitMeansReleased'
    BY DEF TypeOK, LockHeld, OneOwner, SocketsAccounted, CleanExitMeansReleased
  <2>7. QED
    BY <2>1, <2>2, <2>3, <2>4, <2>5, <2>6 DEF IInv
<1>11. ASSUME Exit(d)
      PROVE  IInv'
  <2> USE <1>11 DEF Exit, End, Unclaimed
  <2>1. TypeOK'
    BY DEF TypeOK
  <2>2. LockHeld'
    BY DEF TypeOK, LockHeld
  <2>3. OneOwner'
    BY DEF TypeOK, OneOwner
  <2>4. SocketsAccounted'
    BY DEF TypeOK, SocketsAccounted
  <2>5. PathAccounted'
    BY DEF TypeOK, LockHeld, SocketsAccounted, PathAccounted
  <2>6. CleanExitMeansReleased'
    BY DEF TypeOK, LockHeld, OneOwner, SocketsAccounted, CleanExitMeansReleased
  <2>7. QED
    BY <2>1, <2>2, <2>3, <2>4, <2>5, <2>6 DEF IInv
<1>12. ASSUME Crash(d)
      PROVE  IInv'
  <2> USE <1>12 DEF Crash, End, Unclaimed
  <2>1. TypeOK'
    BY DEF TypeOK
  <2>2. LockHeld'
    BY DEF TypeOK, LockHeld
  <2>3. OneOwner'
    BY DEF TypeOK, OneOwner
  <2>4. SocketsAccounted'
    BY DEF TypeOK, SocketsAccounted
  <2>5. PathAccounted'
    BY DEF TypeOK, LockHeld, SocketsAccounted, PathAccounted
  <2>6. CleanExitMeansReleased'
    BY DEF TypeOK, LockHeld, OneOwner, SocketsAccounted, CleanExitMeansReleased
  <2>7. QED
    BY <2>1, <2>2, <2>3, <2>4, <2>5, <2>6 DEF IInv
<1>13. ASSUME StoreClosed(d)
      PROVE  IInv'
  <2> USE <1>13 DEF StoreClosed, Move, Go
  <2>1. TypeOK'
    BY DEF TypeOK
  <2>2. LockHeld'
    BY DEF TypeOK, LockHeld
  <2>3. OneOwner'
    BY DEF TypeOK, OneOwner
  <2>4. SocketsAccounted'
    BY DEF TypeOK, SocketsAccounted
  <2>5. PathAccounted'
    BY DEF TypeOK, LockHeld, SocketsAccounted, PathAccounted
  <2>6. CleanExitMeansReleased'
    BY DEF TypeOK, LockHeld, OneOwner, SocketsAccounted, CleanExitMeansReleased
  <2>7. QED
    BY <2>1, <2>2, <2>3, <2>4, <2>5, <2>6 DEF IInv
<1>14. QED
  BY <1>1, <1>2, <1>3, <1>4, <1>5, <1>6, <1>7, <1>8, <1>9, <1>10, <1>11, <1>12, <1>13

LEMMA ForeignPreserves == IInv /\ ForeignChange => IInv'
<1> SUFFICES ASSUME IInv, ForeignChange PROVE IInv'
  OBVIOUS
<1> USE DaemonAssumption, IInv DEF IInv, ForeignChange, Nothing, Inodes, processVars
<1>1. TypeOK'
  <2>1. created' \in {created, created + 1} /\ path' \in {Nothing, created'}
        /\ listening' \subseteq listening \cup {created'} /\ files' \subseteq files \cup {created'}
        /\ (created' = created => UNCHANGED <<listening, files>>)
    BY DEF TypeOK
  <2>2. created' \in Nat /\ path' \in Inodes' \cup {Nothing} /\ Inodes \subseteq Inodes'
        /\ listening' \subseteq Inodes' /\ files' \subseteq Inodes'
    BY <2>1 DEF TypeOK
  <2>3. foreign' \in 0..MaxForeign
    BY DEF TypeOK
  <2>4. QED
    BY <2>2, <2>3 DEF TypeOK
<1>2. LockHeld'
  BY DEF LockHeld, Up
<1>3. OneOwner'
  BY DEF OneOwner
<1>4. SocketsAccounted'
  BY DEF SocketsAccounted
<1>5. PathAccounted'
  BY DEF TypeOK, PathAccounted
<1>6. CleanExitMeansReleased'
  BY DEF TypeOK, CleanExitMeansReleased
<1>7. QED
  BY <1>1, <1>2, <1>3, <1>4, <1>5, <1>6 DEF IInv

LEMMA StutterPreserves == IInv /\ UNCHANGED vars => IInv'
  BY DEF IInv, vars, processVars, fileVars, TypeOK, LockHeld, Up, OneOwner,
         SocketsAccounted, PathAccounted, CleanExitMeansReleased, Inodes

LEMMA StepPreserves == IInv /\ [Next]_vars => IInv'
<1>1. ASSUME IInv, NEW d \in Daemons,
             Start(d) \/ Run(d) \/ RetryCleanup(d) \/ HandlerEnters(d)
             \/ HandlerReturns(d) \/ Stop(d) \/ ServeFails(d) \/ Crash(d)
      PROVE  IInv'
  BY <1>1, StartupPreserves, ListenPreserves, ServePreserves DEF Run
<1>2. QED
  BY <1>1, ForeignPreserves, StutterPreserves DEF Next

\* IInv holds in every reachable state.
THEOREM Invariance == Spec => []IInv
<1>1. Init => IInv
  BY InitIInv
<1>2. IInv /\ [Next]_vars => IInv'
  BY StepPreserves
<1>3. QED
  BY <1>1, <1>2, PTL DEF Spec

\* The lock, the socket, the path and the device have exactly the owners that the
\* control of the processes gives them, and at most one process serves.
THEOREM OwnershipTheorem == Spec => []Ownership
<1>1. IInv => OneServes
  BY DEF IInv, OneServes, LockHeld, Up, SocketsAccounted, PathAccounted, Bound
<1>2. IInv => Ownership
  BY <1>1 DEF IInv, Ownership
<1>3. QED
  BY <1>2, Invariance, PTL

\* A daemon that leaves without an error has released everything.
THEOREM CleanExitTheorem == Spec => []CleanExitMeansReleased
<1>1. IInv => CleanExitMeansReleased
  BY DEF IInv
<1>2. QED
  BY <1>1, Invariance, PTL

\* A refusal that no failed call explains: the daemon that holds the lock or the
\* path is there, whatever was left behind by those that crashed.
THEOREM RefusalsTheorem == Spec => RefusalsAreExplained
<1> DEFINE Refusals ==
      \A d \in Daemons : refused'[d] \in {"held", "served", "occupied"} \ {refused[d]} =>
        \/ foreign > 0
        \/ refused'[d] # "occupied" /\ \E e \in Daemons \ {d} : pc[e] # "off"
<1>1. ASSUME IInv, [Next]_vars
      PROVE  [Refusals]_vars
  <2> SUFFICES ASSUME NEW d \in Daemons,
                      refused'[d] \in {"held", "served", "occupied"} \ {refused[d]},
                      foreign = 0
               PROVE  refused'[d] # "occupied" /\ \E e \in Daemons \ {d} : pc[e] # "off"
    BY <1>1 DEF IInv, TypeOK
  <2> USE <1>1 DEF IInv
  <2>1. ASSUME TakeLock(d)
        PROVE  refused'[d] # "occupied" /\ \E e \in Daemons \ {d} : pc[e] # "off"
    BY <2>1 DEF TakeLock, LockIsFree, LockHeld, Up, Locking, Bound, Cleaning, Refuse, Go, TypeOK
  <2>2. ~Inspect(d)
    BY DEF Inspect, Refuse, Move, Go, TypeOK, PathAccounted
  <2>3. ASSUME Probe(d)
        PROVE  refused'[d] # "occupied" /\ \E e \in Daemons \ {d} : pc[e] # "off"
    <3>1. pc[d] = "probe" /\ path \in listening /\ refused'[d] = "served"
      BY <2>3 DEF Probe, Refuse, Move, Go, TypeOK
    <3>2. PICK e \in Daemons : own[e] = path
      BY <3>1 DEF PathAccounted
    <3>3. own[e] # Nothing /\ own[d] = Nothing
      BY <3>1, <3>2 DEF SocketsAccounted, TypeOK, Inodes, Nothing, Locking
    <3>4. pc[e] # "off"
      BY <3>3 DEF SocketsAccounted
    <3>5. QED
      BY <3>1, <3>3, <3>4
  <2>4. ~Bind(d)
    BY DEF Bind, Refuse, Go, TypeOK, PathAccounted
  <2>5. ASSUME NEW e \in Daemons, NEW from, Refuse(e, from, "error")
        PROVE  FALSE
    BY <2>5 DEF Refuse, TypeOK
  <2>6. ASSUME NEW e \in Daemons \ {d}, NEW from, NEW why, Refuse(e, from, why)
        PROVE  FALSE
    BY <2>6 DEF Refuse, TypeOK
  <2>7. ASSUME NEW e \in Daemons,
               \/ Open(e) \/ NewSession(e) \/ Compose(e) \/ RejectStartup(e)
               \/ Chmod(e) \/ Identify(e)
               \/ CloseListener(e) \/ CheckPath(e) \/ RemovePath(e) \/ Unlock(e)
               \/ StoreClosed(e) \/ SessionCloses(e) \/ SessionCloseFails(e)
               \/ Start(e) \/ RetryCleanup(e) \/ HandlerEnters(e) \/ HandlerReturns(e)
               \/ Stop(e) \/ ServeFails(e)
        PROVE  FALSE
    BY <2>7 DEF Open, NewSession, Compose, RejectStartup, Chmod, Identify,
         CloseListener, CheckPath, RemovePath, Unlock, StoreClosed, SessionCloses, SessionCloseFails,
         Start, RetryCleanup, HandlerEnters, HandlerReturns, Stop, ServeFails, Move
  <2>8. ASSUME NEW e \in Daemons, Discard(e) \/ End(e)
        PROVE  FALSE
    BY <2>8 DEF Discard, End, TypeOK
  <2>9. ASSUME NEW e \in Daemons \ {d},
                TakeLock(e) \/ Inspect(e) \/ Probe(e) \/ RemoveStale(e) \/ Bind(e)
         PROVE  FALSE
    BY <2>6, <2>9 DEF TakeLock, Inspect, Probe, RemoveStale, Bind, Move
  <2>10. ASSUME NEW e \in Daemons, SystemCallFails(e) \/ Listen(e) \/ (RemoveStale(e) /\ e = d)
         PROVE  FALSE
    BY <2>5, <2>10 DEF SystemCallFails, Listen, RemoveStale
  <2>11. ~ForeignChange /\ ~UNCHANGED vars
    BY DEF ForeignChange, vars, processVars
  <2>12. QED
    BY <2>1, <2>2, <2>3, <2>4, <2>7, <2>8, <2>9, <2>10, <2>11
       DEF Next, Run, Exit, Crash
<1>2. QED
  BY <1>1, Invariance, PTL DEF Spec, RefusalsAreExplained, Refusals

\* Only who holds the lock takes something off the path, so that a daemon whose
\* socket is bound keeps it until its own next step.
THEOREM LiveSocketTheorem == Spec => LiveSocketStays
<1> DEFINE Stays ==
      \A d \in Daemons :
        path = own[d] /\ path # Nothing /\ pc[d] \in Bound /\ pc'[d] = pc[d] =>
          path' = path \/ foreign' # foreign
<1>1. ASSUME IInv, [Next]_vars
      PROVE  [Stays]_vars
  <2> SUFFICES ASSUME NEW d \in Daemons, pc[d] \in Bound, pc'[d] = pc[d], foreign' = foreign
               PROVE  path' = path
    OBVIOUS
  <2> USE <1>1 DEF IInv
  <2>1. ASSUME NEW e \in Daemons, RemoveStale(e) \/ Bind(e) \/ Discard(e) \/ RemovePath(e),
               path' # path
        PROVE  e = d
    <3>1. pc[e] \in Locking \cup Bound \cup Cleaning
      BY <2>1 DEF RemoveStale, Bind, Discard, RemovePath, Refuse, Go, Locking, Bound, Cleaning
    <3>2. QED
      BY <3>1 DEF LockHeld, Up
  <2>2. ~(RemoveStale(d) \/ Bind(d) \/ Discard(d) \/ RemovePath(d))
    BY DEF RemoveStale, Bind, Discard, RemovePath, Refuse, Go, TypeOK
  <2>3. ASSUME NEW e \in Daemons,
               \/ Open(e) \/ NewSession(e) \/ Compose(e) \/ RejectStartup(e)
               \/ TakeLock(e) \/ SystemCallFails(e) \/ Inspect(e) \/ Probe(e)
               \/ Listen(e) \/ Chmod(e) \/ Identify(e)
               \/ CloseListener(e) \/ CheckPath(e) \/ Unlock(e)
               \/ StoreClosed(e) \/ SessionCloses(e) \/ SessionCloseFails(e)
               \/ Start(e) \/ RetryCleanup(e) \/ HandlerEnters(e) \/ HandlerReturns(e)
               \/ Stop(e) \/ ServeFails(e) \/ End(e)
        PROVE  path' = path
    BY <2>3 DEF Open, NewSession, Compose, RejectStartup, TakeLock, SystemCallFails, Inspect,
         Probe, Listen, Chmod, Identify, CloseListener, CheckPath, Unlock, StoreClosed,
         SessionCloses, SessionCloseFails, Start, RetryCleanup, HandlerEnters, HandlerReturns, Stop,
         ServeFails, End, Move, Refuse, fileVars
  <2>4. ~ForeignChange
    BY DEF ForeignChange, TypeOK
  <2>5. UNCHANGED vars => path' = path
    BY DEF vars, fileVars
  <2>6. QED
    BY <2>1, <2>2, <2>3, <2>4, <2>5 DEF Next, Run, Exit, Crash
<1>2. QED
  BY <1>1, Invariance, PTL DEF Spec, LiveSocketStays, Stays
=============================================================================
