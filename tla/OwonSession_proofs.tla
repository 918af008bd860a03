------------------------- MODULE OwonSession_proofs -------------------------
(***************************************************************************)
(* Proofs about OwonSession for every set of operations, commands and      *)
(* closers. IInv is inductive: it is established by Init and preserved by  *)
(* each action, one lemma for each of the three kinds of actor. The safety *)
(* properties follow from it.                                              *)
(***************************************************************************)
EXTENDS OwonSession, TLAPS

LEMMA InitIInv == Init => IInv
<1> SUFFICES ASSUME Init PROVE IInv
  OBVIOUS
<1> USE SessionAssumption DEF Init
<1>1. TypeOK
  BY DEF TypeOK, OwnerStates, CommandStates, AttemptStates, CloserStates
<1>2. GatesMatch
  BY DEF GatesMatch, HoldsAdmission, HoldsExecution
<1>3. CommandsInside
  BY DEF CommandsInside
<1>4. HealthKnown
  BY DEF HealthKnown
<1>5. GenerationsMatch
  BY DEF GenerationsMatch
<1>6. QED
  BY <1>1, <1>2, <1>3, <1>4, <1>5 DEF IInv

LEMMA OwnerPreservesIInv ==
  ASSUME IInv, NEW o \in Operations, CancelContext(o) \/ OwnerStep(o)
  PROVE  IInv'
<1> USE SessionAssumption
    DEF TypeOK, OwnerStates, CommandStates, AttemptStates, CloserStates,
        HoldsAdmission, HoldsExecution, HasTransaction, TransactionClosed,
        closeVars, callers, deviceVars
<1>1. ASSUME CancelContext(o)
      PROVE  IInv'
  <2> USE <1>1 DEF CancelContext
  <2>1. TypeOK'
    BY DEF IInv
  <2>2. GatesMatch'
    BY DEF IInv, GatesMatch
  <2>3. CommandsInside'
    BY DEF IInv, CommandsInside
  <2>4. HealthKnown'
    BY DEF IInv, HealthKnown
  <2>5. GenerationsMatch'
    BY DEF IInv, GenerationsMatch
  <2>6. QED
    BY <2>1, <2>2, <2>3, <2>4, <2>5 DEF IInv
<1>2. ASSUME BeginCall(o)
      PROVE  IInv'
  <2> USE <1>2 DEF BeginCall, BeginRefused, MoveOwner
  <2>1. TypeOK'
    BY DEF IInv
  <2>2. GatesMatch'
    BY DEF IInv, GatesMatch
  <2>3. CommandsInside'
    BY DEF IInv, CommandsInside
  <2>4. HealthKnown'
    BY DEF IInv, HealthKnown
  <2>5. GenerationsMatch'
    BY DEF IInv, GenerationsMatch
  <2>6. QED
    BY <2>1, <2>2, <2>3, <2>4, <2>5 DEF IInv
<1>3. ASSUME Admit(o)
      PROVE  IInv'
  <2> USE <1>3 DEF Admit, MoveOwner
  <2>1. TypeOK'
    BY DEF IInv
  <2>2. GatesMatch'
    BY DEF IInv, GatesMatch
  <2>3. CommandsInside'
    BY DEF IInv, CommandsInside
  <2>4. HealthKnown'
    BY DEF IInv, HealthKnown, GatesMatch, CommandsInside, GenerationsMatch
  <2>5. GenerationsMatch'
    BY DEF IInv, GenerationsMatch
  <2>6. QED
    BY <2>1, <2>2, <2>3, <2>4, <2>5 DEF IInv
<1>4. ASSUME AbandonAdmission(o)
      PROVE  IInv'
  <2> USE <1>4 DEF AbandonAdmission, MoveOwner
  <2>1. TypeOK'
    BY DEF IInv
  <2>2. GatesMatch'
    BY DEF IInv, GatesMatch
  <2>3. CommandsInside'
    BY DEF IInv, CommandsInside
  <2>4. HealthKnown'
    BY DEF IInv, HealthKnown
  <2>5. GenerationsMatch'
    BY DEF IInv, GenerationsMatch
  <2>6. QED
    BY <2>1, <2>2, <2>3, <2>4, <2>5 DEF IInv
<1>5. ASSUME RefuseAdmitted(o)
      PROVE  IInv'
  <2> USE <1>5 DEF RefuseAdmitted, AdmittedRefused, GiveUpAdmission, MoveOwner
  <2>1. TypeOK'
    BY DEF IInv
  <2>2. GatesMatch'
    BY DEF IInv, GatesMatch
  <2>3. CommandsInside'
    BY DEF IInv, CommandsInside
  <2>4. HealthKnown'
    BY DEF IInv, HealthKnown
  <2>5. GenerationsMatch'
    BY DEF IInv, GenerationsMatch
  <2>6. QED
    BY <2>1, <2>2, <2>3, <2>4, <2>5 DEF IInv
<1>6. ASSUME PassAdmitted(o)
      PROVE  IInv'
  <2> USE <1>6 DEF PassAdmitted, AdmittedRefused, NeedsRecovery, MoveOwner
  <2>1. TypeOK'
    BY DEF IInv
  <2>2. GatesMatch'
    BY DEF IInv, GatesMatch
  <2>3. CommandsInside'
    BY DEF IInv, CommandsInside
  <2>4. HealthKnown'
    <3>1. CASE poisoned
      BY <3>1 DEF IInv, HealthKnown, GatesMatch, CommandsInside,
             GenerationsMatch
    <3>2. CASE ~poisoned
      BY <3>2 DEF IInv, HealthKnown, GatesMatch, CommandsInside,
             GenerationsMatch
    <3>3. QED
      BY <3>1, <3>2
  <2>5. GenerationsMatch'
    BY DEF IInv, GenerationsMatch
  <2>6. QED
    BY <2>1, <2>2, <2>3, <2>4, <2>5 DEF IInv
<1>7. ASSUME AbandonRecovery(o)
      PROVE  IInv'
  <2> USE <1>7 DEF AbandonRecovery, GiveUpAdmission, MoveOwner
  <2>1. TypeOK'
    BY DEF IInv
  <2>2. GatesMatch'
    BY DEF IInv, GatesMatch
  <2>3. CommandsInside'
    BY DEF IInv, CommandsInside
  <2>4. HealthKnown'
    BY DEF IInv, HealthKnown
  <2>5. GenerationsMatch'
    BY DEF IInv, GenerationsMatch
  <2>6. QED
    BY <2>1, <2>2, <2>3, <2>4, <2>5 DEF IInv
<1>8. ASSUME StartRecovery(o)
      PROVE  IInv'
  <2> USE <1>8 DEF StartRecovery, MoveOwner
  <2>1. TypeOK'
    BY DEF IInv
  <2>2. GatesMatch'
    BY DEF IInv, GatesMatch
  <2>3. CommandsInside'
    BY DEF IInv, CommandsInside
  <2>4. HealthKnown'
    BY DEF IInv, HealthKnown
  <2>5. GenerationsMatch'
    BY DEF IInv, GenerationsMatch
  <2>6. QED
    BY <2>1, <2>2, <2>3, <2>4, <2>5 DEF IInv
<1>9. ASSUME RecoverySucceeds(o)
      PROVE  IInv'
  <2> USE <1>9 DEF RecoverySucceeds, MoveOwner
  <2>1. TypeOK'
    BY DEF IInv
  <2>2. GatesMatch'
    BY DEF IInv, GatesMatch
  <2>3. CommandsInside'
    BY DEF IInv, CommandsInside, GatesMatch, HealthKnown, GenerationsMatch
  <2>4. HealthKnown'
    BY DEF IInv, HealthKnown, GatesMatch, CommandsInside, GenerationsMatch
  <2>5. GenerationsMatch'
    BY DEF IInv, GenerationsMatch, HealthKnown
  <2>6. QED
    BY <2>1, <2>2, <2>3, <2>4, <2>5 DEF IInv
<1>10. ASSUME RecoveryFails(o)
      PROVE  IInv'
  <2> USE <1>10 DEF RecoveryFails, GiveUpAdmission, MoveOwner
  <2>1. TypeOK'
    BY DEF IInv
  <2>2. GatesMatch'
    BY DEF IInv, GatesMatch
  <2>3. CommandsInside'
    BY DEF IInv, CommandsInside
  <2>4. HealthKnown'
    BY DEF IInv, HealthKnown, GatesMatch, CommandsInside, GenerationsMatch
  <2>5. GenerationsMatch'
    BY DEF IInv, GenerationsMatch, HealthKnown
  <2>6. QED
    BY <2>1, <2>2, <2>3, <2>4, <2>5 DEF IInv
<1>11. ASSUME RequestClose(o)
      PROVE  IInv'
  <2> USE <1>11 DEF RequestClose, MoveOwner
  <2>1. TypeOK'
    BY DEF IInv
  <2>2. GatesMatch'
    BY DEF IInv, GatesMatch
  <2>3. CommandsInside'
    BY DEF IInv, CommandsInside
  <2>4. HealthKnown'
    BY DEF IInv, HealthKnown
  <2>5. GenerationsMatch'
    BY DEF IInv, GenerationsMatch
  <2>6. QED
    BY <2>1, <2>2, <2>3, <2>4, <2>5 DEF IInv
<1>12. ASSUME AcquireClose(o)
      PROVE  IInv'
  <2> USE <1>12 DEF AcquireClose, MoveOwner
  <2>1. TypeOK'
    BY DEF IInv
  <2>2. GatesMatch'
    BY DEF IInv, GatesMatch
  <2>3. CommandsInside'
    BY DEF IInv, CommandsInside, GatesMatch, HealthKnown, GenerationsMatch
  <2>4. HealthKnown'
    BY DEF IInv, HealthKnown, GatesMatch, CommandsInside, GenerationsMatch
  <2>5. GenerationsMatch'
    BY DEF IInv, GenerationsMatch
  <2>6. QED
    BY <2>1, <2>2, <2>3, <2>4, <2>5 DEF IInv
<1>13. ASSUME ReleaseClose(o)
      PROVE  IInv'
  <2> USE <1>13 DEF ReleaseClose, MoveOwner
  <2>1. TypeOK'
    BY DEF IInv
  <2>2. GatesMatch'
    BY DEF IInv, GatesMatch
  <2>3. CommandsInside'
    BY DEF IInv, CommandsInside, GatesMatch, HealthKnown, GenerationsMatch
  <2>4. HealthKnown'
    BY DEF IInv, HealthKnown, GatesMatch, CommandsInside, GenerationsMatch
  <2>5. GenerationsMatch'
    BY DEF IInv, GenerationsMatch
  <2>6. QED
    BY <2>1, <2>2, <2>3, <2>4, <2>5 DEF IInv
<1>14. ASSUME JoinClose(o)
      PROVE  IInv'
  <2> USE <1>14 DEF JoinClose
  <2>1. TypeOK'
    BY DEF IInv
  <2>2. GatesMatch'
    BY DEF IInv, GatesMatch
  <2>3. CommandsInside'
    BY DEF IInv, CommandsInside
  <2>4. HealthKnown'
    BY DEF IInv, HealthKnown
  <2>5. GenerationsMatch'
    BY DEF IInv, GenerationsMatch
  <2>6. QED
    BY <2>1, <2>2, <2>3, <2>4, <2>5 DEF IInv
<1>15. ASSUME JoinedCloseReturns(o)
      PROVE  IInv'
  <2> USE <1>15 DEF JoinedCloseReturns, CloseDone
  <2>1. TypeOK'
    BY DEF IInv
  <2>2. GatesMatch'
    BY DEF IInv, GatesMatch
  <2>3. CommandsInside'
    BY DEF IInv, CommandsInside
  <2>4. HealthKnown'
    BY DEF IInv, HealthKnown
  <2>5. GenerationsMatch'
    BY DEF IInv, GenerationsMatch
  <2>6. QED
    BY <2>1, <2>2, <2>3, <2>4, <2>5 DEF IInv
<1>16. QED
  BY <1>1, <1>2, <1>3, <1>4, <1>5, <1>6, <1>7, <1>8, <1>9, <1>10, <1>11,
     <1>12, <1>13, <1>14, <1>15 DEF OwnerStep

LEMMA CommandPreservesIInv ==
  ASSUME IInv, NEW o \in Operations, NEW k \in Commands, CommandStep(o, k)
  PROVE  IInv'
<1> USE SessionAssumption
    DEF TypeOK, OwnerStates, CommandStates, AttemptStates, CloserStates,
        HoldsAdmission, HoldsExecution, HasTransaction, TransactionClosed,
        closeVars, callers, deviceVars
<1>1. ASSUME ExecuteCall(o, k)
      PROVE  IInv'
  <2> USE <1>1 DEF ExecuteCall, ExecuteRefused, MoveCommand
  <2>1. TypeOK'
    BY DEF IInv
  <2>2. GatesMatch'
    BY DEF IInv, GatesMatch
  <2>3. CommandsInside'
    BY DEF IInv, CommandsInside
  <2>4. HealthKnown'
    BY DEF IInv, HealthKnown
  <2>5. GenerationsMatch'
    BY DEF IInv, GenerationsMatch
  <2>6. QED
    BY <2>1, <2>2, <2>3, <2>4, <2>5 DEF IInv
<1>2. ASSUME AcquireExecution(o, k)
      PROVE  IInv'
  <2> USE <1>2 DEF AcquireExecution, MoveCommand
  <2>1. TypeOK'
    BY DEF IInv
  <2>2. GatesMatch'
    BY DEF IInv, GatesMatch
  <2>3. CommandsInside'
    BY DEF IInv, CommandsInside, GatesMatch, HealthKnown, GenerationsMatch
  <2>4. HealthKnown'
    BY DEF IInv, HealthKnown, GatesMatch, CommandsInside, GenerationsMatch
  <2>5. GenerationsMatch'
    BY DEF IInv, GenerationsMatch
  <2>6. QED
    BY <2>1, <2>2, <2>3, <2>4, <2>5 DEF IInv
<1>3. ASSUME AbandonExecution(o, k)
      PROVE  IInv'
  <2> USE <1>3 DEF AbandonExecution, ExecuteAbandoned, MoveCommand
  <2>1. TypeOK'
    BY DEF IInv
  <2>2. GatesMatch'
    BY DEF IInv, GatesMatch
  <2>3. CommandsInside'
    BY DEF IInv, CommandsInside, GatesMatch, HealthKnown, GenerationsMatch
  <2>4. HealthKnown'
    BY DEF IInv, HealthKnown, GatesMatch, CommandsInside, GenerationsMatch
  <2>5. GenerationsMatch'
    BY DEF IInv, GenerationsMatch
  <2>6. QED
    BY <2>1, <2>2, <2>3, <2>4, <2>5 DEF IInv
<1>4. ASSUME RefuseGated(o, k)
      PROVE  IInv'
  <2> USE <1>4 DEF RefuseGated, LeaveExecution, MoveCommand
  <2>1. TypeOK'
    BY DEF IInv
  <2>2. GatesMatch'
    BY DEF IInv, GatesMatch
  <2>3. CommandsInside'
    BY DEF IInv, CommandsInside, GatesMatch, HealthKnown, GenerationsMatch
  <2>4. HealthKnown'
    BY DEF IInv, HealthKnown, GatesMatch, CommandsInside, GenerationsMatch
  <2>5. GenerationsMatch'
    BY DEF IInv, GenerationsMatch
  <2>6. QED
    BY <2>1, <2>2, <2>3, <2>4, <2>5 DEF IInv
<1>5. ASSUME ClearGated(o, k)
      PROVE  IInv'
  <2> USE <1>5 DEF ClearGated, GatedRefused, MoveCommand
  <2>1. TypeOK'
    BY DEF IInv
  <2>2. GatesMatch'
    BY DEF IInv, GatesMatch
  <2>3. CommandsInside'
    BY DEF IInv, CommandsInside, GatesMatch, HealthKnown, GenerationsMatch
  <2>4. HealthKnown'
    BY DEF IInv, HealthKnown, GatesMatch, CommandsInside, GenerationsMatch
  <2>5. GenerationsMatch'
    BY DEF IInv, GenerationsMatch
  <2>6. QED
    BY <2>1, <2>2, <2>3, <2>4, <2>5 DEF IInv
<1>6. ASSUME AbandonExchange(o, k)
      PROVE  IInv'
  <2> USE <1>6 DEF AbandonExchange, LeaveExecution, MoveCommand
  <2>1. TypeOK'
    BY DEF IInv
  <2>2. GatesMatch'
    BY DEF IInv, GatesMatch
  <2>3. CommandsInside'
    BY DEF IInv, CommandsInside, GatesMatch, HealthKnown, GenerationsMatch
  <2>4. HealthKnown'
    BY DEF IInv, HealthKnown, GatesMatch, CommandsInside, GenerationsMatch
  <2>5. GenerationsMatch'
    BY DEF IInv, GenerationsMatch
  <2>6. QED
    BY <2>1, <2>2, <2>3, <2>4, <2>5 DEF IInv
<1>7. ASSUME StartExchange(o, k)
      PROVE  IInv'
  <2> USE <1>7 DEF StartExchange, MoveCommand
  <2>1. TypeOK'
    BY DEF IInv
  <2>2. GatesMatch'
    BY DEF IInv, GatesMatch
  <2>3. CommandsInside'
    BY DEF IInv, CommandsInside, GatesMatch, HealthKnown, GenerationsMatch
  <2>4. HealthKnown'
    BY DEF IInv, HealthKnown, GatesMatch, CommandsInside, GenerationsMatch
  <2>5. GenerationsMatch'
    BY DEF IInv, GenerationsMatch
  <2>6. QED
    BY <2>1, <2>2, <2>3, <2>4, <2>5 DEF IInv
<1>8. ASSUME ExchangeSucceeds(o, k)
      PROVE  IInv'
  <2> USE <1>8 DEF ExchangeSucceeds, LeaveExecution, MoveCommand
  <2>1. TypeOK'
    BY DEF IInv
  <2>2. GatesMatch'
    BY DEF IInv, GatesMatch
  <2>3. CommandsInside'
    BY DEF IInv, CommandsInside, GatesMatch, HealthKnown, GenerationsMatch
  <2>4. HealthKnown'
    BY DEF IInv, HealthKnown, GatesMatch, CommandsInside, GenerationsMatch
  <2>5. GenerationsMatch'
    BY DEF IInv, GenerationsMatch
  <2>6. QED
    BY <2>1, <2>2, <2>3, <2>4, <2>5 DEF IInv
<1>9. ASSUME ExchangeFails(o, k)
      PROVE  IInv'
  <2> USE <1>9 DEF ExchangeFails, MoveCommand
  <2>1. TypeOK'
    BY DEF IInv
  <2>2. GatesMatch'
    BY DEF IInv, GatesMatch
  <2>3. CommandsInside'
    BY DEF IInv, CommandsInside, GatesMatch, HealthKnown, GenerationsMatch
  <2>4. HealthKnown'
    BY DEF IInv, HealthKnown, GatesMatch, CommandsInside, GenerationsMatch
  <2>5. GenerationsMatch'
    BY DEF IInv, GenerationsMatch, CommandsInside, HealthKnown
  <2>6. QED
    BY <2>1, <2>2, <2>3, <2>4, <2>5 DEF IInv
<1>10. ASSUME PublishFailure(o, k)
      PROVE  IInv'
  <2> USE <1>10 DEF PublishFailure, LeaveExecution, MoveCommand
  <2>1. TypeOK'
    BY DEF IInv
  <2>2. GatesMatch'
    BY DEF IInv, GatesMatch
  <2>3. CommandsInside'
    BY DEF IInv, CommandsInside, GatesMatch, HealthKnown, GenerationsMatch
  <2>4. HealthKnown'
    BY DEF IInv, HealthKnown, GatesMatch, CommandsInside, GenerationsMatch
  <2>5. GenerationsMatch'
    BY DEF IInv, GenerationsMatch
  <2>6. QED
    BY <2>1, <2>2, <2>3, <2>4, <2>5 DEF IInv
<1>11. QED
  BY <1>1, <1>2, <1>3, <1>4, <1>5, <1>6, <1>7, <1>8, <1>9, <1>10 DEF CommandStep

LEMMA CloserPreservesIInv ==
  ASSUME IInv, NEW c \in Closers, CloserStep(c)
  PROVE  IInv'
<1> USE SessionAssumption
    DEF TypeOK, OwnerStates, CommandStates, AttemptStates, CloserStates,
        HoldsAdmission, HoldsExecution, HasTransaction, TransactionClosed,
        closeVars, callers, deviceVars
<1>1. ASSUME StoreClosed(c)
      PROVE  IInv'
  <2> USE <1>1 DEF StoreClosed
  <2>1. TypeOK'
    BY DEF IInv
  <2>2. GatesMatch'
    BY DEF IInv, GatesMatch
  <2>3. CommandsInside'
    BY DEF IInv, CommandsInside
  <2>4. HealthKnown'
    BY DEF IInv, HealthKnown
  <2>5. GenerationsMatch'
    BY DEF IInv, GenerationsMatch
  <2>6. QED
    BY <2>1, <2>2, <2>3, <2>4, <2>5 DEF IInv
<1>2. ASSUME JoinAttempt(c)
      PROVE  IInv'
  <2> USE <1>2 DEF JoinAttempt
  <2>1. TypeOK'
    BY DEF IInv
  <2>2. GatesMatch'
    BY DEF IInv, GatesMatch, GenerationsMatch
  <2>3. CommandsInside'
    BY DEF IInv, CommandsInside
  <2>4. HealthKnown'
    BY DEF IInv, HealthKnown
  <2>5. GenerationsMatch'
    <3>1. CASE closeAttempt # None
      BY <3>1 DEF IInv, GenerationsMatch
    <3>2. CASE closeAttempt = None
      BY <3>2 DEF IInv, GenerationsMatch
    <3>3. QED
      BY <3>1, <3>2
  <2>6. QED
    BY <2>1, <2>2, <2>3, <2>4, <2>5 DEF IInv
<1>3. ASSUME CloserReturns(c)
      PROVE  IInv'
  <2> USE <1>3 DEF CloserReturns
  <2>1. TypeOK'
    BY DEF IInv
  <2>2. GatesMatch'
    BY DEF IInv, GatesMatch
  <2>3. CommandsInside'
    BY DEF IInv, CommandsInside
  <2>4. HealthKnown'
    BY DEF IInv, HealthKnown
  <2>5. GenerationsMatch'
    BY DEF IInv, GenerationsMatch
  <2>6. QED
    BY <2>1, <2>2, <2>3, <2>4, <2>5 DEF IInv
<1>4. ASSUME CloserExpires(c)
      PROVE  IInv'
  <2> USE <1>4 DEF CloserExpires
  <2>1. TypeOK'
    BY DEF IInv
  <2>2. GatesMatch'
    BY DEF IInv, GatesMatch
  <2>3. CommandsInside'
    BY DEF IInv, CommandsInside
  <2>4. HealthKnown'
    BY DEF IInv, HealthKnown
  <2>5. GenerationsMatch'
    BY DEF IInv, GenerationsMatch
  <2>6. QED
    BY <2>1, <2>2, <2>3, <2>4, <2>5 DEF IInv
<1>5. ASSUME StartBackendClose(c)
      PROVE  IInv'
  <2> USE <1>5 DEF StartBackendClose
  <2>1. TypeOK'
    BY DEF IInv
  <2>2. GatesMatch'
    BY DEF IInv, GatesMatch
  <2>3. CommandsInside'
    BY DEF IInv, CommandsInside, GatesMatch, HealthKnown, GenerationsMatch
  <2>4. HealthKnown'
    BY DEF IInv, HealthKnown, GatesMatch, CommandsInside, GenerationsMatch
  <2>5. GenerationsMatch'
    BY DEF IInv, GenerationsMatch
  <2>6. QED
    BY <2>1, <2>2, <2>3, <2>4, <2>5 DEF IInv
<1>6. ASSUME BackendCloseFails(c)
      PROVE  IInv'
  <2> USE <1>6 DEF BackendCloseFails
  <2>1. TypeOK'
    BY DEF IInv
  <2>2. GatesMatch'
    BY DEF IInv, GatesMatch
  <2>3. CommandsInside'
    BY DEF IInv, CommandsInside, GatesMatch, HealthKnown, GenerationsMatch
  <2>4. HealthKnown'
    BY DEF IInv, HealthKnown, GatesMatch, CommandsInside, GenerationsMatch
  <2>5. GenerationsMatch'
    BY DEF IInv, GenerationsMatch
  <2>6. QED
    BY <2>1, <2>2, <2>3, <2>4, <2>5 DEF IInv
<1>7. ASSUME BackendCloseSucceeds(c)
      PROVE  IInv'
  <2> USE <1>7 DEF BackendCloseSucceeds
  <2>1. TypeOK'
    BY DEF IInv
  <2>2. GatesMatch'
    BY DEF IInv, GatesMatch
  <2>3. CommandsInside'
    BY DEF IInv, CommandsInside, GatesMatch, HealthKnown, GenerationsMatch
  <2>4. HealthKnown'
    BY DEF IInv, HealthKnown, GatesMatch, CommandsInside, GenerationsMatch
  <2>5. GenerationsMatch'
    BY DEF IInv, GenerationsMatch, GatesMatch
  <2>6. QED
    BY <2>1, <2>2, <2>3, <2>4, <2>5 DEF IInv
<1>8. ASSUME PublishAttempt(c)
      PROVE  IInv'
  <2> USE <1>8 DEF PublishAttempt, NextGeneration
  <2>1. TypeOK'
    BY DEF IInv
  <2>2. GatesMatch'
    BY DEF IInv, GatesMatch
  <2>3. CommandsInside'
    BY DEF IInv, CommandsInside
  <2>4. HealthKnown'
    BY DEF IInv, HealthKnown
  <2>5. GenerationsMatch'
    BY DEF IInv, GenerationsMatch
  <2>6. QED
    BY <2>1, <2>2, <2>3, <2>4, <2>5 DEF IInv
<1>9. QED
  BY <1>1, <1>2, <1>3, <1>4, <1>5, <1>6, <1>7, <1>8 DEF CloserStep

LEMMA StutterPreservesIInv ==
  ASSUME IInv, UNCHANGED vars
  PROVE  IInv'
<1> USE DEF vars, callers, closeVars, deviceVars, HoldsAdmission, HoldsExecution,
        HasTransaction, TransactionClosed
<1>1. TypeOK' /\ GatesMatch' /\ CommandsInside'
  BY DEF IInv, TypeOK, GatesMatch, CommandsInside
<1>2. HealthKnown' /\ GenerationsMatch'
  BY DEF IInv, HealthKnown, GenerationsMatch
<1>3. QED
  BY <1>1, <1>2 DEF IInv

\* IInv, and TypeOK with it, holds in every reachable state.
THEOREM Invariance == Spec => []IInv
<1>1. IInv /\ [Next]_vars => IInv'
  <2> SUFFICES ASSUME IInv, [Next]_vars
               PROVE  IInv'
    OBVIOUS
  <2>1. CASE \E o \in Operations : CancelContext(o) \/ OwnerStep(o)
    BY <2>1, OwnerPreservesIInv
  <2>2. CASE \E o \in Operations, k \in Commands : CommandStep(o, k)
    BY <2>2, CommandPreservesIInv
  <2>3. CASE \E c \in Closers : CloserStep(c)
    BY <2>3, CloserPreservesIInv
  <2>4. CASE Finished \/ UNCHANGED vars
    BY <2>4, StutterPreservesIInv DEF Finished
  <2>5. QED
    BY <2>1, <2>2, <2>3, <2>4 DEF Next
<1>2. QED
  BY InitIInv, <1>1, PTL DEF Spec

-----------------------------------------------------------------------------
(* The safety properties.                                                  *)

\* Two native calls would need admission, and two exchanges of one
\* operation its execution gate, twice.
LEMMA ExclusionFromIInv == IInv => NativeExclusion
<1> SUFFICES ASSUME IInv, NEW x \in NativeCalls, NEW y \in NativeCalls
             PROVE  x = y
  BY DEF NativeExclusion
<1> DEFINE Holder(z) == IF z \in ExchangesInProgress THEN z[1] ELSE z
<1> USE SessionAssumption
    DEF IInv, TypeOK, GatesMatch, CommandsInside, HoldsAdmission, HoldsExecution
<1>1. ASSUME NEW z \in ExchangesInProgress
      PROVE  admission = z[1] /\ execution[z[1]] = z[2]
  BY <1>1 DEF ExchangesInProgress
<1>2. ASSUME NEW z \in RecoveriesInProgress
      PROVE  admission = z /\ owner[z] = "reopening"
  BY <1>2 DEF RecoveriesInProgress
<1>3. ASSUME NEW z \in ClosesInProgress
      PROVE  admission = z
  BY <1>3 DEF ClosesInProgress
<1>4. CASE x \in ExchangesInProgress
  <2>1. x = <<admission, execution[admission]>>
    BY <1>1, <1>4 DEF ExchangesInProgress
  <2>2. owner[admission] \in {"open", "closing"} /\ admission \in Operations
    BY <1>1, <1>4 DEF ExchangesInProgress
  <2>3. y \notin RecoveriesInProgress
    BY <2>2, <1>2
  <2>4. y \notin ClosesInProgress
    BY <2>2, <1>3 DEF ClosesInProgress
  <2>5. y = <<admission, execution[admission]>>
    BY <2>3, <2>4, <1>1 DEF NativeCalls, ExchangesInProgress
  <2>6. QED
    BY <2>1, <2>5
<1>5. CASE y \in ExchangesInProgress
  <2>1. y = <<admission, execution[admission]>>
    BY <1>1, <1>5 DEF ExchangesInProgress
  <2>2. owner[admission] \in {"open", "closing"} /\ admission \in Operations
    BY <1>1, <1>5 DEF ExchangesInProgress
  <2>3. x \notin RecoveriesInProgress
    BY <2>2, <1>2
  <2>4. x \notin ClosesInProgress
    BY <2>2, <1>3 DEF ClosesInProgress
  <2>5. x = <<admission, execution[admission]>>
    BY <2>3, <2>4, <1>1 DEF NativeCalls, ExchangesInProgress
  <2>6. QED
    BY <2>1, <2>5
<1>6. CASE x \notin ExchangesInProgress /\ y \notin ExchangesInProgress
  BY <1>2, <1>3, <1>6 DEF NativeCalls
<1>7. QED
  BY <1>4, <1>5, <1>6

\* NativeExclusion, for any number of operations, commands and closers: no
\* two native calls overlap.
THEOREM ExclusionTheorem == Spec => []NativeExclusion
  BY Invariance, ExclusionFromIInv, PTL

\* ValidBeforeExchange: no command is sent to an instrument whose last
\* exchange was ambiguous before it has been reopened and validated.
THEOREM QuarantineHolds == Spec => []ValidBeforeExchange
<1>1. IInv => ValidBeforeExchange
  <2> SUFFICES ASSUME IInv, NEW z \in Operations \X Commands,
                      command[z[1]][z[2]] = "native"
               PROVE  backend = "valid"
    BY DEF ValidBeforeExchange, ExchangesInProgress
  <2>1. execution[z[1]] = z[2] /\ admission = z[1]
    BY DEF IInv, GatesMatch, HoldsExecution, HoldsAdmission, CommandsInside
  <2>2. \A k \in Commands : command[z[1]][k] # "failing"
    BY <2>1 DEF IInv, GatesMatch, HoldsExecution
  <2>3. QED
    BY <2>2 DEF IInv, CommandsInside, HealthKnown
<1>2. QED
  BY <1>1, Invariance, PTL

\* Quarantine: an ambiguous failure is on record before admission is free.
THEOREM QuarantineRecorded == Spec => []Quarantine
<1>1. IInv => Quarantine
  BY SessionAssumption
  DEF IInv, GatesMatch, HoldsAdmission, CommandsInside, HealthKnown, Quarantine
<1>2. QED
  BY <1>1, Invariance, PTL

\* OkMeansClosed: a nil CloseContext result is a closed backend for ever.
THEOREM OkCloseTheorem == Spec => []OkMeansClosed
<1>1. IInv => OkMeansClosed
  BY DEF IInv, GenerationsMatch, OkMeansClosed
<1>2. QED
  BY <1>1, Invariance, PTL

\* CloseWaitsForNative: no Transaction.Close call returns before the
\* transaction's last exchange has left native code.
THEOREM CloseWaitsTheorem == Spec => []CloseWaitsForNative
<1>1. IInv => CloseWaitsForNative
  BY DEF IInv, GatesMatch, HoldsAdmission, CommandsInside, CloseWaitsForNative
<1>2. QED
  BY <1>1, Invariance, PTL

-----------------------------------------------------------------------------
(* The action properties.                                                  *)

LEMMA NothingNativeWhenClosed ==
  IInv => (backend = "closed" => NativeCalls = {})
<1> SUFFICES ASSUME IInv, backend = "closed", NEW x \in NativeCalls
             PROVE  FALSE
  OBVIOUS
<1> USE DEF IInv
<1>1. CASE x \in ExchangesInProgress
  BY <1>1 DEF ExchangesInProgress, CommandsInside, HealthKnown
<1>2. CASE x \in RecoveriesInProgress
  BY <1>2 DEF RecoveriesInProgress, HealthKnown
<1>3. CASE x \in ClosesInProgress
  BY <1>3 DEF ClosesInProgress, GenerationsMatch
<1>4. QED
  BY <1>1, <1>2, <1>3 DEF NativeCalls

\* ClosedIsFinal: a backend that closed successfully is neither reopened nor
\* closed again.
THEOREM ClosedIsFinalTheorem == Spec => ClosedIsFinal
<1> DEFINE Final == backend = "closed" => backend' = "closed" /\ NativeCalls' = {}
<1>1. IInv /\ IInv' /\ [Next]_vars => Final
  <2> SUFFICES ASSUME IInv, IInv', [Next]_vars, backend = "closed"
               PROVE  backend' = "closed" /\ NativeCalls' = {}
    OBVIOUS
  <2>0. NativeCalls = {}
    BY NothingNativeWhenClosed
  <2>1. backend' = "closed"
    <3> USE DEF callers, closeVars, deviceVars, MoveOwner, MoveCommand,
            LeaveExecution, GiveUpAdmission
    <3>1. CASE \E o \in Operations : CancelContext(o) \/ OwnerStep(o)
      <4>1. \A o \in Operations : owner[o] # "reopening"
        BY <2>0 DEF NativeCalls, RecoveriesInProgress
      <4>2. QED
        BY <3>1, <4>1 DEF CancelContext, OwnerStep, BeginCall, Admit,
           AbandonAdmission, RefuseAdmitted, PassAdmitted, AbandonRecovery,
           StartRecovery, RecoverySucceeds, RecoveryFails, RequestClose,
           AcquireClose, ReleaseClose, JoinClose, JoinedCloseReturns
    <3>2. CASE \E o \in Operations, k \in Commands : CommandStep(o, k)
      <4>1. ASSUME NEW o \in Operations, NEW k \in Commands
            PROVE  command[o][k] # "native"
        <5>1. <<o, k>> \notin ExchangesInProgress
          BY <2>0 DEF NativeCalls
        <5>2. QED
          BY <5>1 DEF ExchangesInProgress
      <4>2. QED
        BY <3>2, <4>1 DEF CommandStep, ExecuteCall, AcquireExecution,
           AbandonExecution, RefuseGated, ClearGated, AbandonExchange,
           StartExchange, ExchangeSucceeds, ExchangeFails, PublishFailure
    <3>3. CASE \E c \in Closers : CloserStep(c)
      <4>1. \A c \in Closers : attempt[c] # "native"
        BY <2>0 DEF NativeCalls, ClosesInProgress
      <4>2. QED
        BY <3>3, <4>1 DEF CloserStep, StoreClosed, JoinAttempt, CloserReturns,
           CloserExpires, StartBackendClose, BackendCloseFails,
           BackendCloseSucceeds, PublishAttempt
    <3>4. CASE Finished \/ UNCHANGED vars
      BY <3>4 DEF Finished, vars
    <3>5. QED
      BY <3>1, <3>2, <3>3, <3>4 DEF Next
  <2>2. (IInv => (backend = "closed" => NativeCalls = {}))'
    BY NothingNativeWhenClosed, PTL
  <2>3. QED
    BY <2>1, <2>2
<1>2. QED
  BY <1>1, Invariance, PTL DEF Spec, ClosedIsFinal

\* Only one call at a time is between its last look at closed and the backend: it
\* holds admission, and if it is a command, the execution gate too.
LEMMA OneIsPast ==
  ASSUME IInv
  PROVE  /\ \A x, y \in PastLastCheck : x = y
         /\ \A o, p \in Operations, k \in Commands :
              ~(owner[o] = "recovering" /\ command[p][k] = "cleared")
<1> USE DEF IInv, TypeOK, GatesMatch, CommandsInside, HoldsAdmission, HoldsExecution
<1>1. \A o, p \in Operations, k \in Commands :
        ~(owner[o] = "recovering" /\ command[p][k] = "cleared")
  OBVIOUS
<1>2. \A o, p \in Operations : owner[o] = "recovering" /\ owner[p] = "recovering" => o = p
  OBVIOUS
<1>3. \A o, p \in Operations, k, l \in Commands :
        command[o][k] = "cleared" /\ command[p][l] = "cleared" => o = p /\ k = l
  OBVIOUS
<1>4. \A x, y \in PastLastCheck : x = y
  <2> SUFFICES ASSUME NEW x \in PastLastCheck, NEW y \in PastLastCheck PROVE x = y
    OBVIOUS
  <2>1. CASE x \in Operations /\ owner[x] = "recovering"
    BY <1>1, <1>2, <2>1 DEF PastLastCheck
  <2>2. CASE x \in Operations \X Commands /\ command[x[1]][x[2]] = "cleared"
    <3>1. ~(y \in Operations /\ owner[y] = "recovering")
      BY <1>1, <2>2
    <3>2. y \in Operations \X Commands /\ command[y[1]][y[2]] = "cleared"
      BY <3>1 DEF PastLastCheck
    <3>3. x[1] = y[1] /\ x[2] = y[2]
      BY <1>3, <2>2, <3>2
    <3>4. QED
      BY <2>2, <3>2, <3>3
  <2>3. QED
    BY <2>1, <2>2 DEF PastLastCheck
<1>5. QED
  BY <1>1, <1>4

\* What a step does to one operation and to one command once closed is set.
LEMMA ClosedSteps ==
  ASSUME TypeOK, [Next]_vars, closed
  PROVE  /\ \A o \in Operations :
              /\ owner'[o] = "recovering" => owner[o] = "recovering"
              /\ owner'[o] = "reopening" => owner[o] \in {"recovering", "reopening"}
         /\ \A o \in Operations, k \in Commands :
              /\ command'[o][k] = "cleared" => command[o][k] = "cleared"
              /\ command'[o][k] = "native" => command[o][k] \in {"cleared", "native"}
<1> USE DEF TypeOK, callers, closeVars, deviceVars, MoveOwner, MoveCommand,
            LeaveExecution, GiveUpAdmission
<1>1. ASSUME NEW p \in Operations, CancelContext(p) \/ OwnerStep(p)
      PROVE  /\ command' = command
             /\ \A o \in Operations :
                  /\ owner'[o] = "recovering" => owner[o] = "recovering"
                  /\ owner'[o] = "reopening" => owner[o] \in {"recovering", "reopening"}
  <2>1. CASE CancelContext(p) \/ JoinClose(p) \/ JoinedCloseReturns(p)
    BY <2>1 DEF CancelContext, JoinClose, JoinedCloseReturns
  <2>2. CASE PassAdmitted(p)
    BY <2>2 DEF PassAdmitted, AdmittedRefused
  <2>3. CASE StartRecovery(p)
    BY <2>3 DEF StartRecovery
  <2>4. CASE BeginCall(p) \/ Admit(p) \/ AbandonAdmission(p) \/ RefuseAdmitted(p)
    BY <2>4 DEF BeginCall, Admit, AbandonAdmission, RefuseAdmitted
  <2>5. CASE AbandonRecovery(p) \/ RecoverySucceeds(p) \/ RecoveryFails(p)
    BY <2>5 DEF AbandonRecovery, RecoverySucceeds, RecoveryFails
  <2>6. CASE RequestClose(p) \/ AcquireClose(p) \/ ReleaseClose(p)
    BY <2>6 DEF RequestClose, AcquireClose, ReleaseClose
  <2>7. QED
    BY <1>1, <2>1, <2>2, <2>3, <2>4, <2>5, <2>6 DEF OwnerStep
<1>2. ASSUME NEW p \in Operations, NEW l \in Commands, CommandStep(p, l)
      PROVE  /\ owner' = owner
             /\ \A o \in Operations, k \in Commands :
                  /\ command'[o][k] = "cleared" => command[o][k] = "cleared"
                  /\ command'[o][k] = "native" => command[o][k] \in {"cleared", "native"}
  <2>1. CASE ClearGated(p, l)
    BY <2>1 DEF ClearGated, GatedRefused
  <2>2. CASE StartExchange(p, l)
    BY <2>2 DEF StartExchange
  <2>3. CASE ~ClearGated(p, l) /\ ~StartExchange(p, l)
    <3>1. /\ owner' = owner
          /\ \E state \in CommandStates \ {"cleared", "native"} :
               command' = [command EXCEPT ![p][l] = state]
      <4> USE DEF CommandStates
      <4>1. CASE ExecuteCall(p, l) \/ AcquireExecution(p, l) \/ AbandonExecution(p, l)
        BY <4>1 DEF ExecuteCall, AcquireExecution, AbandonExecution
      <4>2. CASE RefuseGated(p, l) \/ AbandonExchange(p, l) \/ ExchangeSucceeds(p, l)
        BY <4>2 DEF RefuseGated, AbandonExchange, ExchangeSucceeds
      <4>3. CASE ExchangeFails(p, l) \/ PublishFailure(p, l)
        BY <4>3 DEF ExchangeFails, PublishFailure
      <4>4. QED
        BY <1>2, <2>3, <4>1, <4>2, <4>3 DEF CommandStep
    <3>2. QED
      BY <3>1
  <2>4. QED
    BY <2>1, <2>2, <2>3
<1>3. ASSUME NEW c \in Closers, CloserStep(c)
      PROVE  UNCHANGED <<owner, command>>
  BY <1>3 DEF CloserStep, StoreClosed, JoinAttempt, CloserReturns,
     CloserExpires, StartBackendClose, BackendCloseFails,
     BackendCloseSucceeds, PublishAttempt
<1>4. CASE Finished \/ UNCHANGED vars
  BY <1>4 DEF Finished, vars
<1>5. QED
  BY <1>1, <1>2, <1>3, <1>4 DEF Next

\* OneMoreAtMost: after Session.closed is set, of all the calls of all transactions
\* at most one exchange or recovery still enters the backend.
THEOREM OneMoreTheorem == Spec => OneMoreAtMost
<1> DEFINE OneMore ==
      closed => /\ \A x, y \in PastLastCheck : x = y
                /\ PastLastCheck' \subseteq PastLastCheck
                /\ InBackend' \ InBackend \subseteq PastLastCheck \ PastLastCheck'
<1>1. IInv /\ [Next]_vars => OneMore
  <2> SUFFICES ASSUME IInv, [Next]_vars, closed
               PROVE  /\ PastLastCheck' \subseteq PastLastCheck
                      /\ InBackend' \ InBackend \subseteq PastLastCheck \ PastLastCheck'
    BY OneIsPast
  <2>1. PastLastCheck' \subseteq PastLastCheck
    BY ClosedSteps DEF IInv, PastLastCheck
  <2>2. ASSUME NEW x \in InBackend', x \notin InBackend
        PROVE  x \in PastLastCheck /\ x \notin PastLastCheck'
    <3>1. CASE x \in Operations /\ owner'[x] = "reopening"
      <4>1. owner[x] = "recovering"
        BY ClosedSteps, <2>2, <3>1 DEF IInv, InBackend, RecoveriesInProgress
      <4>2. ~(x \in Operations \X Commands /\ command'[x[1]][x[2]] = "cleared")
        BY ClosedSteps, OneIsPast, <3>1, <4>1 DEF IInv
      <4>3. QED
        BY <3>1, <4>1, <4>2 DEF PastLastCheck
    <3>2. CASE x \in Operations \X Commands /\ command'[x[1]][x[2]] = "native"
      <4>1. command[x[1]][x[2]] = "cleared"
        BY ClosedSteps, <2>2, <3>2 DEF IInv, InBackend, ExchangesInProgress
      <4>2. ~(x \in Operations /\ owner'[x] = "recovering")
        BY ClosedSteps, OneIsPast, <3>2, <4>1 DEF IInv
      <4>3. QED
        BY <3>2, <4>1, <4>2 DEF PastLastCheck
    <3>3. QED
      BY <2>2, <3>1, <3>2 DEF InBackend, ExchangesInProgress, RecoveriesInProgress
  <2>3. QED
    BY <2>1, <2>2
<1>2. QED
  BY <1>1, Invariance, PTL DEF Spec, OneMoreAtMost

\* FailedCloseIsRetried: a CloseContext call joins the one generation that is at work
\* or has closed the backend, or starts one when all the others have failed.
THEOREM FailedCloseTheorem == Spec => FailedCloseIsRetried
<1> DEFINE Retried ==
      \A c \in Closers :
        closer[c] = "stored" /\ closer'[c] = "waiting" =>
          \A g \in Closers :
            attempt'[g] \in {"waiting", "native", "succeeded", "failed", "ok"}
              <=> g = joined'[c]
<1>1. IInv /\ [Next]_vars => Retried
  <2> SUFFICES ASSUME IInv, [Next]_vars, NEW c \in Closers,
                      closer[c] = "stored", closer'[c] = "waiting", NEW g \in Closers
               PROVE  attempt'[g] \in {"waiting", "native", "succeeded", "failed", "ok"}
                        <=> g = joined'[c]
    OBVIOUS
  <2> USE DEF IInv, TypeOK, callers, closeVars, deviceVars,
            MoveOwner, MoveCommand, LeaveExecution, GiveUpAdmission
  <2>1. CASE \E o \in Operations : CancelContext(o) \/ OwnerStep(o)
    BY <2>1 DEF CancelContext, OwnerStep, BeginCall, Admit, AbandonAdmission,
       RefuseAdmitted, PassAdmitted, AbandonRecovery, StartRecovery,
       RecoverySucceeds, RecoveryFails, RequestClose, AcquireClose,
       ReleaseClose, JoinClose, JoinedCloseReturns
  <2>2. CASE \E o \in Operations, k \in Commands : CommandStep(o, k)
    BY <2>2 DEF CommandStep, ExecuteCall, AcquireExecution, AbandonExecution,
       RefuseGated, ClearGated, AbandonExchange, StartExchange,
       ExchangeSucceeds, ExchangeFails, PublishFailure
  <2>3. ASSUME NEW d \in Closers, CloserStep(d)
        PROVE  d = c /\ JoinAttempt(c)
    BY <2>3 DEF CloserStep, StoreClosed, JoinAttempt, CloserReturns,
       CloserExpires, StartBackendClose, BackendCloseFails,
       BackendCloseSucceeds, PublishAttempt
  <2>4. ASSUME JoinAttempt(c)
        PROVE  attempt'[g] \in {"waiting", "native", "succeeded", "failed", "ok"}
                 <=> g = joined'[c]
    <3>1. CASE closeAttempt # None
      BY <2>4, <3>1 DEF JoinAttempt, GenerationsMatch
    <3>2. CASE closeAttempt = None
      BY <2>4, <3>2, SessionAssumption DEF JoinAttempt, GenerationsMatch
    <3>3. QED
      BY <3>1, <3>2
  <2>5. CASE Finished \/ UNCHANGED vars
    BY <2>5 DEF Finished, vars
  <2>6. QED
    BY <2>1, <2>2, <2>3, <2>4, <2>5 DEF Next
<1>2. QED
  BY <1>1, Invariance, PTL DEF Spec, FailedCloseIsRetried

-----------------------------------------------------------------------------
(* The session implements the serialised device.                           *)

\* What DeviceCall says of the party that holds admission.
CallMatchesHolder ==
  /\ admission = None => DeviceCall = "none"
  /\ \A o \in Operations :
       admission = o =>
         DeviceCall = IF owner[o] = "reopening" THEN "reopen"
                      ELSE IF \E k \in Commands : command[o][k] = "native"
                           THEN "exchange" ELSE "none"
  /\ \A c \in Closers : admission = c => DeviceCall = "close"

LEMMA CallFromIInv == IInv => CallMatchesHolder
<1> SUFFICES ASSUME IInv PROVE CallMatchesHolder
  OBVIOUS
<1> USE SessionAssumption
    DEF IInv, TypeOK, GatesMatch, HoldsAdmission
<1>1. ExchangesInProgress # {} =>
        /\ admission \in Operations
        /\ owner[admission] # "reopening"
        /\ \E k \in Commands : command[admission][k] = "native"
  BY DEF ExchangesInProgress, CommandsInside
<1>2. \A o \in Operations, k \in Commands :
        command[o][k] = "native" => ExchangesInProgress # {}
  <2> SUFFICES ASSUME NEW o \in Operations, NEW k \in Commands,
                      command[o][k] = "native"
               PROVE  <<o, k>> \in ExchangesInProgress
    OBVIOUS
  <2> QED
    BY DEF ExchangesInProgress
<1>3. RecoveriesInProgress # {} <=>
        admission \in Operations /\ owner[admission] = "reopening"
  BY DEF RecoveriesInProgress
<1>4. ClosesInProgress # {} <=> admission \in Closers
  BY DEF ClosesInProgress
<1>5. admission = None => DeviceCall = "none"
  BY <1>1, <1>3, <1>4 DEF DeviceCall
<1>6. ASSUME NEW o \in Operations, admission = o
      PROVE  DeviceCall = IF owner[o] = "reopening" THEN "reopen"
                          ELSE IF \E k \in Commands : command[o][k] = "native"
                               THEN "exchange" ELSE "none"
  BY <1>1, <1>2, <1>3, <1>4, <1>6 DEF DeviceCall
<1>7. ASSUME NEW c \in Closers, admission = c
      PROVE  DeviceCall = "close"
  BY <1>1, <1>3, <1>4, <1>7 DEF DeviceCall
<1>8. QED
  BY <1>5, <1>6, <1>7 DEF CallMatchesHolder

\* A step that touches none of the three leaves the device alone.
LEMMA QuietStep ==
  ASSUME CallMatchesHolder, CallMatchesHolder', TypeOK,
         UNCHANGED <<admission, backend>>,
         \A o \in Operations :
           owner[o] = "reopening" <=> owner'[o] = "reopening",
         \A o \in Operations, k \in Commands :
           command[o][k] = "native" <=> command'[o][k] = "native"
  PROVE  UNCHANGED Device!deviceVars
<1>1. DeviceCall' = DeviceCall
  BY DEF CallMatchesHolder, TypeOK
<1>2. QED
  BY <1>1 DEF Device!deviceVars

\* Begin, recover and Transaction.Close as the device sees them.
LEMMA OwnerImplementsDevice ==
  ASSUME IInv, CallMatchesHolder, CallMatchesHolder', NEW o \in Operations,
         CancelContext(o) \/ OwnerStep(o)
  PROVE  [Device!Next]_(Device!deviceVars)
<1> USE SessionAssumption DEF IInv, TypeOK, GatesMatch, HoldsAdmission, closeVars, callers,
                           deviceVars, MoveOwner, GiveUpAdmission, deviceVars
<1>1. CASE Admit(o)
  <2>1. DeviceCall' = DeviceCall
    BY <1>1 DEF Admit, MoveOwner, CallMatchesHolder, CommandsInside, HasTransaction, TransactionClosed
  <2>2. Device!Acquire
    BY <1>1, <2>1 DEF Admit, Device!Acquire
  <2>3. QED
    BY <2>2 DEF Device!Next
<1>2. CASE RefuseAdmitted(o) \/ AbandonRecovery(o) \/ ReleaseClose(o)
  <2>1. DeviceCall = "none" /\ DeviceCall' = "none"
    BY <1>2 DEF RefuseAdmitted, AbandonRecovery, ReleaseClose, GiveUpAdmission, CallMatchesHolder,
       CommandsInside, HasTransaction, TransactionClosed
  <2>2. Device!Release
    BY <1>2, <2>1 DEF RefuseAdmitted, AbandonRecovery, ReleaseClose, GiveUpAdmission, Device!Release
  <2>3. QED
    BY <2>2 DEF Device!Next
<1>3. CASE StartRecovery(o)
  <2>1. DeviceCall = "none" /\ DeviceCall' = "reopen"
    BY <1>3 DEF StartRecovery, MoveOwner, CallMatchesHolder, CommandsInside, HasTransaction,
       TransactionClosed
  <2>2. Device!StartReopen
    BY <1>3, <2>1 DEF StartRecovery, HealthKnown, Device!StartReopen
  <2>3. QED
    BY <2>2 DEF Device!Next
<1>4. CASE RecoverySucceeds(o) \/ RecoveryFails(o)
  <2>1. DeviceCall = "reopen" /\ DeviceCall' = "none"
    BY <1>4 DEF RecoverySucceeds, RecoveryFails, GiveUpAdmission, MoveOwner, CallMatchesHolder,
       CommandsInside, HasTransaction, TransactionClosed
  <2>2. Device!EndReopen
    BY <1>4, <2>1 DEF RecoverySucceeds, RecoveryFails, GiveUpAdmission, Device!EndReopen
  <2>3. QED
    BY <2>2 DEF Device!Next
<1>5. CASE \/ CancelContext(o) \/ BeginCall(o) \/ AbandonAdmission(o)
           \/ PassAdmitted(o) \/ RequestClose(o) \/ AcquireClose(o)
           \/ JoinClose(o) \/ JoinedCloseReturns(o)
  BY <1>5, QuietStep DEF CancelContext, BeginCall, AbandonAdmission, PassAdmitted,
     RequestClose, AcquireClose, JoinClose, JoinedCloseReturns, MoveOwner
<1>6. QED
  BY <1>1, <1>2, <1>3, <1>4, <1>5 DEF OwnerStep

\* Transaction.Execute as the device sees it.
LEMMA CommandImplementsDevice ==
  ASSUME IInv, CallMatchesHolder, CallMatchesHolder', NEW o \in Operations,
         NEW k \in Commands, CommandStep(o, k)
  PROVE  [Device!Next]_(Device!deviceVars)
<1> USE SessionAssumption DEF IInv, TypeOK, GatesMatch, HoldsAdmission, HoldsExecution,
                           deviceVars, closeVars, MoveCommand, LeaveExecution
<1>1. CASE StartExchange(o, k)
  <2>1. /\ admission = o /\ owner[o] \in {"open", "closing"}
        /\ \A l \in Commands : command[o][l] \notin {"native", "failing"}
        /\ backend = "valid"
    BY <1>1 DEF StartExchange, CommandsInside, HealthKnown
  <2>2. DeviceCall = "none" /\ DeviceCall' = "exchange"
    BY <1>1, <2>1 DEF StartExchange, MoveCommand, CallMatchesHolder
  <2>3. Device!StartExchange
    BY <1>1, <2>1, <2>2 DEF StartExchange, Device!StartExchange
  <2>4. QED
    BY <2>3 DEF Device!Next
<1>2. CASE ExchangeSucceeds(o, k) \/ ExchangeFails(o, k)
  <2>1. /\ admission = o /\ owner[o] \in {"open", "closing"}
        /\ \A l \in Commands : l # k => command[o][l] \notin {"native", "failing"}
        /\ backend = "valid"
    BY <1>2 DEF ExchangeSucceeds, ExchangeFails, CommandsInside, HealthKnown
  <2>2. DeviceCall = "exchange" /\ DeviceCall' = "none"
    <3>1. command[o][k] = "native" /\ owner' = owner /\ admission' = admission
      BY <1>2 DEF ExchangeSucceeds, ExchangeFails, LeaveExecution
    <3>2. \A l \in Commands : command'[o][l] # "native"
      BY <1>2, <2>1 DEF ExchangeSucceeds, ExchangeFails, LeaveExecution, MoveCommand
    <3>3. QED
      BY <2>1, <3>1, <3>2 DEF CallMatchesHolder
  <2>3. Device!EndExchange
    BY <1>2, <2>1, <2>2 DEF ExchangeSucceeds, ExchangeFails, Device!EndExchange
  <2>4. QED
    BY <2>3 DEF Device!Next
<1>3. CASE \/ ExecuteCall(o, k) \/ AcquireExecution(o, k) \/ AbandonExecution(o, k)
           \/ RefuseGated(o, k) \/ ClearGated(o, k) \/ AbandonExchange(o, k)
           \/ PublishFailure(o, k)
  BY <1>3, QuietStep DEF ExecuteCall, AcquireExecution, AbandonExecution, RefuseGated, ClearGated,
     AbandonExchange, PublishFailure, LeaveExecution, MoveCommand
<1>4. QED
  BY <1>1, <1>2, <1>3 DEF CommandStep

\* CloseContext and closeBackend as the device sees them.
LEMMA CloserImplementsDevice ==
  ASSUME IInv, CallMatchesHolder, CallMatchesHolder', NEW c \in Closers,
         CloserStep(c)
  PROVE  [Device!Next]_(Device!deviceVars)
<1> USE SessionAssumption DEF IInv, TypeOK, GatesMatch, callers, deviceVars,
                           CallMatchesHolder
<1>1. CASE StartBackendClose(c)
  <2>1. backend # "closed"
    BY <1>1 DEF StartBackendClose, GenerationsMatch
  <2>2. Device!StartClose
    BY <1>1, <2>1 DEF StartBackendClose, Device!StartClose
  <2>3. QED
    BY <2>2 DEF Device!Next
<1>2. CASE BackendCloseFails(c) \/ BackendCloseSucceeds(c)
  <2>1. Device!EndClose
    BY <1>2 DEF BackendCloseFails, BackendCloseSucceeds, Device!EndClose
  <2>2. QED
    BY <2>1 DEF Device!Next
<1>3. CASE \/ StoreClosed(c) \/ JoinAttempt(c) \/ CloserReturns(c)
           \/ CloserExpires(c) \/ PublishAttempt(c)
  BY <1>3, QuietStep DEF StoreClosed, JoinAttempt, CloserReturns, CloserExpires, PublishAttempt
<1>4. QED
  BY <1>1, <1>2, <1>3 DEF CloserStep

\* ImplementsDevice: the session, with its two gates, poison and close
\* generations, is a serialised device.
THEOREM RefinementTheorem == Spec => ImplementsDevice
<1>1. Init => Device!Init
  BY DEF Init, Device!Init, DeviceCall, ExchangesInProgress,
     RecoveriesInProgress, ClosesInProgress
<1>2. IInv /\ IInv' /\ [Next]_vars => [Device!Next]_(Device!deviceVars)
  <2> SUFFICES ASSUME IInv, IInv', [Next]_vars
               PROVE  [Device!Next]_(Device!deviceVars)
    OBVIOUS
  <2>1. CallMatchesHolder /\ CallMatchesHolder'
    <3>1. (IInv => CallMatchesHolder)'
      BY CallFromIInv, PTL
    <3>2. QED
      BY <3>1, CallFromIInv
  <2>2. CASE \E o \in Operations : CancelContext(o) \/ OwnerStep(o)
    BY <2>1, <2>2, OwnerImplementsDevice
  <2>3. CASE \E o \in Operations, k \in Commands : CommandStep(o, k)
    BY <2>1, <2>3, CommandImplementsDevice
  <2>4. CASE \E c \in Closers : CloserStep(c)
    BY <2>1, <2>4, CloserImplementsDevice
  <2>5. CASE Finished \/ UNCHANGED vars
    BY <2>1, <2>5, QuietStep DEF Finished, vars, callers, deviceVars, IInv
  <2>6. QED
    BY <2>2, <2>3, <2>4, <2>5 DEF Next
<1>3. QED
  BY <1>1, <1>2, Invariance, PTL DEF Spec, ImplementsDevice, Device!Spec

=============================================================================
