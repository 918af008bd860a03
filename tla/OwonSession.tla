---------------------------- MODULE OwonSession ----------------------------
(***************************************************************************)
(* pkg/owonsession: one Session owns the instrument's native backend and   *)
(* serialises every logical operation on it.                               *)
(*                                                                         *)
(*   - Session.admission, a channel of capacity one, is held by at most    *)
(*     one Transaction or by the goroutine that closes the backend;        *)
(*   - Transaction.execution, a channel of capacity one, serialises the    *)
(*     Execute calls of one Transaction and its Close;                     *)
(*   - an Exchange that fails is ambiguous: the instrument may have        *)
(*     accepted the command. The Session is poisoned and the next Begin    *)
(*     has to reopen and validate the instrument;                          *)
(*   - CloseContext starts at most one close generation at a time and      *)
(*     waits for it no longer than its own context allows.                 *)
(*                                                                         *)
(* Each member of Operations is one Begin..Close life of a Transaction,    *)
(* each member of Commands one Execute call made on it (by any goroutine), *)
(* each member of Closers one CloseContext call; the close generation a    *)
(* closer starts bears the closer's name. Session.Execute is an operation  *)
(* with a single command. The flags the code polls (the context, both      *)
(* closed flags) never go back to false, so a run of consecutive polls is  *)
(* one step here: it rejects if the last poll would, and otherwise the     *)
(* first one read all of them false.                                       *)
(***************************************************************************)
EXTENDS Naturals, FiniteSets

CONSTANTS
  Operations,  \* Begin..Close lives of a Transaction
  Commands,    \* Execute calls made on each Transaction
  Closers,     \* CloseContext calls
  Closing,     \* the token Transaction.Close puts into execution
  None         \* an empty channel, a nil closeAttempt

ASSUME SessionAssumption ==
  /\ Operations \cap Closers = {}
  /\ None \notin Operations \cup Closers \cup Commands
  /\ Closing \notin Commands \cup {None}

VARIABLES
  admission,     \* Session.admission: who holds its only slot
  poisoned,      \* Session.poisoned
  closed,        \* Session.closed
  closeAttempt,  \* Session.closeAttempt: the active generation, or None
  attempt,       \* per generation: the progress of closeBackend
  closer,        \* per CloseContext call: where it is
  joined,        \* per CloseContext call: the generation it waits for
  cancelled,     \* the operations whose context is done
  owner,         \* per operation: where Begin or Transaction.Close is
  execution,     \* per operation: who holds Transaction.execution
  failed,        \* the operations whose Transaction.failed is set
  command,       \* per operation and command: where Execute is
  joiner,        \* per operation: a second, concurrent Transaction.Close
  backend        \* what the Backend's native session is worth

callers == <<cancelled, owner, execution, failed, command, joiner>>
closeVars == <<closed, closeAttempt, attempt, closer, joined>>
deviceVars == <<admission, poisoned, backend>>
vars == <<deviceVars, callers, closeVars>>

OwnerStates == {"new", "waiting", "admitted", "recovering", "reopening",
                "open", "closing", "releasing", "closed", "rejected"}
CommandStates == {"new", "waiting", "gated", "cleared", "native", "failing",
                  "done", "failed", "rejected"}
AttemptStates == {"unused", "waiting", "native", "succeeded", "failed",
                  "ok", "error"}
CloserStates == {"new", "stored", "waiting", "ok", "error", "expired"}

TypeOK ==
  /\ admission \in Operations \cup Closers \cup {None}
  /\ poisoned \in BOOLEAN
  /\ closed \in BOOLEAN
  /\ closeAttempt \in Closers \cup {None}
  /\ attempt \in [Closers -> AttemptStates]
  /\ closer \in [Closers -> CloserStates]
  /\ joined \in [Closers -> Closers \cup {None}]
  /\ cancelled \in SUBSET Operations
  /\ owner \in [Operations -> OwnerStates]
  /\ execution \in [Operations -> Commands \cup {Closing, None}]
  /\ failed \in SUBSET Operations
  /\ command \in [Operations -> [Commands -> CommandStates]]
  /\ joiner \in [Operations -> {"none", "waiting", "returned"}]
  /\ backend \in {"valid", "suspect", "closed"}

Init ==
  /\ admission = None
  /\ poisoned = FALSE
  /\ closed = FALSE
  /\ closeAttempt = None
  /\ attempt = [c \in Closers |-> "unused"]
  /\ closer = [c \in Closers |-> "new"]
  /\ joined = [c \in Closers |-> None]
  /\ cancelled = {}
  /\ owner = [o \in Operations |-> "new"]
  /\ execution = [o \in Operations |-> None]
  /\ failed = {}
  /\ command = [o \in Operations |-> [k \in Commands |-> "new"]]
  /\ joiner = [o \in Operations |-> "none"]
  /\ backend = "valid"

-----------------------------------------------------------------------------
(* Derived state.                                                          *)

\* Transaction.closed: set by the first Close call, never reset.
TransactionClosed(o) == owner[o] \in {"closing", "releasing", "closed"}

\* Begin returned a Transaction, which its callers may retain for ever.
HasTransaction(o) == owner[o] = "open" \/ TransactionClosed(o)

\* The native calls in progress: exchanges, recoveries and closes.
ExchangesInProgress ==
  {x \in Operations \X Commands : command[x[1]][x[2]] = "native"}
RecoveriesInProgress == {o \in Operations : owner[o] = "reopening"}
ClosesInProgress == {c \in Closers : attempt[c] = "native"}
NativeCalls ==
  ExchangesInProgress \cup RecoveriesInProgress \cup ClosesInProgress

-----------------------------------------------------------------------------
(* The environment: a caller's context is cancelled or runs out. The       *)
(* deadline that recover and Execute add on top of it expires inside the   *)
(* native call, which then fails.                                          *)

CancelContext(o) ==
  /\ o \notin cancelled
  /\ cancelled' = cancelled \cup {o}
  /\ UNCHANGED <<owner, execution, failed, command, joiner>>
  /\ UNCHANGED <<deviceVars, closeVars>>

-----------------------------------------------------------------------------
(* Session.Begin and Session.recover.                                      *)

\* What Begin polls before the select.
BeginRefused(o) == closed \/ o \in cancelled

MoveOwner(o, state) ==
  /\ owner' = [owner EXCEPT ![o] = state]
  /\ UNCHANGED <<cancelled, failed, command, joiner>>

BeginCall(o) ==
  /\ owner[o] = "new"
  /\ MoveOwner(o, IF BeginRefused(o) THEN "rejected" ELSE "waiting")
  /\ UNCHANGED <<execution, deviceVars, closeVars>>

Admit(o) ==
  /\ owner[o] = "waiting"
  /\ admission = None
  /\ admission' = o
  /\ MoveOwner(o, "admitted")
  /\ UNCHANGED <<execution, poisoned, backend, closeVars>>

AdmissionAbandoned(o) == o \in cancelled

AbandonAdmission(o) ==
  /\ owner[o] = "waiting"
  /\ AdmissionAbandoned(o)
  /\ MoveOwner(o, "rejected")
  /\ UNCHANGED <<execution, deviceVars, closeVars>>

\* What Begin polls again once it holds admission.
AdmittedRefused(o) == closed \/ o \in cancelled

\* releaseAdmission and the early return with an error.
GiveUpAdmission(o) ==
  /\ MoveOwner(o, "rejected")
  /\ admission' = None
  /\ UNCHANGED execution

RefuseAdmitted(o) ==
  /\ owner[o] = "admitted"
  /\ AdmittedRefused(o)
  /\ GiveUpAdmission(o)
  /\ UNCHANGED <<poisoned, backend, closeVars>>

\* Mutant: a poisoned session is handed out as it is.
NeedsRecoveryNever == FALSE

NeedsRecovery == poisoned

PassAdmitted(o) ==
  /\ owner[o] = "admitted"
  /\ ~AdmittedRefused(o)
  /\ MoveOwner(o, IF NeedsRecovery THEN "recovering" ELSE "open")
  /\ UNCHANGED <<execution, deviceVars, closeVars>>

\* recover polls the context once more before it calls ReopenAndValidate.
AbandonRecovery(o) ==
  /\ owner[o] = "recovering"
  /\ o \in cancelled
  /\ GiveUpAdmission(o)
  /\ UNCHANGED <<poisoned, backend, closeVars>>

StartRecovery(o) ==
  /\ owner[o] = "recovering"
  /\ o \notin cancelled
  /\ MoveOwner(o, "reopening")
  /\ UNCHANGED <<execution, deviceVars, closeVars>>

RecoverySucceeds(o) ==
  /\ owner[o] = "reopening"
  /\ backend' = "valid"
  /\ poisoned' = FALSE
  /\ MoveOwner(o, "open")
  /\ UNCHANGED <<execution, admission, closeVars>>

RecoveryFails(o) ==
  /\ owner[o] = "reopening"
  /\ backend' = "suspect"
  /\ GiveUpAdmission(o)
  /\ UNCHANGED <<poisoned, closeVars>>

-----------------------------------------------------------------------------
(* Transaction.Execute.                                                    *)

MoveCommand(o, k, state) ==
  /\ command' = [command EXCEPT ![o][k] = state]
  /\ UNCHANGED <<cancelled, owner, joiner>>

\* What Execute polls before the select.
ExecuteRefused(o) == TransactionClosed(o) \/ o \in cancelled

ExecuteCall(o, k) ==
  /\ command[o][k] = "new"
  /\ HasTransaction(o)
  /\ MoveCommand(o, k, IF ExecuteRefused(o) THEN "rejected" ELSE "waiting")
  /\ UNCHANGED <<execution, failed, deviceVars, closeVars>>

AcquireExecution(o, k) ==
  /\ command[o][k] = "waiting"
  /\ execution[o] = None
  /\ execution' = [execution EXCEPT ![o] = k]
  /\ MoveCommand(o, k, "gated")
  /\ UNCHANGED <<failed, deviceVars, closeVars>>

\* Mutant: the select does not observe closeRequested.
ExecuteAbandonedIgnoringClose(o) == o \in cancelled

\* The other two cases of the select: the context and closeRequested.
ExecuteAbandoned(o) == TransactionClosed(o) \/ o \in cancelled

AbandonExecution(o, k) ==
  /\ command[o][k] = "waiting"
  /\ ExecuteAbandoned(o)
  /\ MoveCommand(o, k, "rejected")
  /\ UNCHANGED <<execution, failed, deviceVars, closeVars>>

\* The mutants drop one of the rechecks under the execution gate.
GatedRefusedIgnoringFailure(o) ==
  o \in cancelled \/ TransactionClosed(o) \/ closed

GatedRefusedIgnoringSession(o) ==
  o \in cancelled \/ TransactionClosed(o) \/ o \in failed

\* What Execute polls under the execution gate before any I/O.
GatedRefused(o) ==
  o \in cancelled \/ TransactionClosed(o) \/ o \in failed \/ closed

\* Execute returns, running the releaseExecution it deferred.
LeaveExecution(o, k, state) ==
  /\ execution' = [execution EXCEPT ![o] = None]
  /\ MoveCommand(o, k, state)

RefuseGated(o, k) ==
  /\ command[o][k] = "gated"
  /\ GatedRefused(o)
  /\ LeaveExecution(o, k, "rejected")
  /\ UNCHANGED <<failed, deviceVars, closeVars>>

ClearGated(o, k) ==
  /\ command[o][k] = "gated"
  /\ ~GatedRefused(o)
  /\ MoveCommand(o, k, "cleared")
  /\ UNCHANGED <<execution, failed, deviceVars, closeVars>>

\* The context is polled once more before Backend.Exchange.
AbandonExchange(o, k) ==
  /\ command[o][k] = "cleared"
  /\ o \in cancelled
  /\ LeaveExecution(o, k, "rejected")
  /\ UNCHANGED <<failed, deviceVars, closeVars>>

StartExchange(o, k) ==
  /\ command[o][k] = "cleared"
  /\ o \notin cancelled
  /\ MoveCommand(o, k, "native")
  /\ UNCHANGED <<execution, failed, deviceVars, closeVars>>

ExchangeSucceeds(o, k) ==
  /\ command[o][k] = "native"
  /\ LeaveExecution(o, k, "done")
  /\ UNCHANGED <<failed, deviceVars, closeVars>>

\* The native call returned an error that nobody else knows of yet.
ExchangeFails(o, k) ==
  /\ command[o][k] = "native"
  /\ backend' = "suspect"
  /\ MoveCommand(o, k, "failing")
  /\ UNCHANGED <<execution, failed, admission, poisoned, closeVars>>

\* Mutant: only the transaction, not the session, learns of the failure.
PublishFailureUnpoisoned(o, k) ==
  /\ command[o][k] = "failing"
  /\ failed' = failed \cup {o}
  /\ LeaveExecution(o, k, "failed")
  /\ UNCHANGED <<deviceVars, closeVars>>

PublishFailure(o, k) ==
  /\ command[o][k] = "failing"
  /\ poisoned' = TRUE
  /\ failed' = failed \cup {o}
  /\ LeaveExecution(o, k, "failed")
  /\ UNCHANGED <<admission, backend, closeVars>>

-----------------------------------------------------------------------------
(* Transaction.Close.                                                      *)

\* closed.Swap(true) by the first caller, then close(closeRequested).
RequestClose(o) ==
  /\ owner[o] = "open"
  /\ MoveOwner(o, "closing")
  /\ UNCHANGED <<execution, deviceVars, closeVars>>

AcquireClose(o) ==
  /\ owner[o] = "closing"
  /\ execution[o] = None
  /\ execution' = [execution EXCEPT ![o] = Closing]
  /\ MoveOwner(o, "releasing")
  /\ UNCHANGED <<deviceVars, closeVars>>

\* releaseAdmission, close(closeDone) and the deferred releaseExecution: a
\* goroutine blocked on one of the three sees no more than a later wake-up.
ReleaseClose(o) ==
  /\ owner[o] = "releasing"
  /\ admission' = None
  /\ execution' = [execution EXCEPT ![o] = None]
  /\ MoveOwner(o, "closed")
  /\ UNCHANGED <<poisoned, backend, closeVars>>

\* A second Close call finds closed set and waits for closeDone.
JoinClose(o) ==
  /\ TransactionClosed(o)
  /\ joiner[o] = "none"
  /\ joiner' = [joiner EXCEPT ![o] = "waiting"]
  /\ UNCHANGED <<cancelled, owner, execution, failed, command>>
  /\ UNCHANGED <<deviceVars, closeVars>>

\* Mutant: the second Close call does not wait.
CloseDoneAtOnce(o) == TransactionClosed(o)

CloseDone(o) == owner[o] = "closed"

JoinedCloseReturns(o) ==
  /\ joiner[o] = "waiting"
  /\ CloseDone(o)
  /\ joiner' = [joiner EXCEPT ![o] = "returned"]
  /\ UNCHANGED <<cancelled, owner, execution, failed, command>>
  /\ UNCHANGED <<deviceVars, closeVars>>

-----------------------------------------------------------------------------
(* Session.CloseContext, getOrStartCloseAttempt and closeBackend.          *)

StoreClosed(c) ==
  /\ closer[c] = "new"
  /\ closed' = TRUE
  /\ closer' = [closer EXCEPT ![c] = "stored"]
  /\ UNCHANGED <<closeAttempt, attempt, joined, deviceVars, callers>>

\* The critical section of getOrStartCloseAttempt under closeMu.
JoinAttempt(c) ==
  /\ closer[c] = "stored"
  /\ closer' = [closer EXCEPT ![c] = "waiting"]
  /\ \/ /\ closeAttempt # None
        /\ joined' = [joined EXCEPT ![c] = closeAttempt]
        /\ UNCHANGED <<closeAttempt, attempt>>
     \/ /\ closeAttempt = None
        /\ closeAttempt' = c
        /\ attempt' = [attempt EXCEPT ![c] = "waiting"]
        /\ joined' = [joined EXCEPT ![c] = c]
  /\ UNCHANGED <<closed, deviceVars, callers>>

CloserReturns(c) ==
  /\ closer[c] = "waiting"
  /\ attempt[joined[c]] \in {"ok", "error"}
  /\ closer' = [closer EXCEPT ![c] = attempt[joined[c]]]
  /\ UNCHANGED <<closed, closeAttempt, attempt, joined, deviceVars, callers>>

\* The caller's context ends first; the generation goes on without it.
CloserExpires(c) ==
  /\ closer[c] = "waiting"
  /\ closer' = [closer EXCEPT ![c] = "expired"]
  /\ UNCHANGED <<closed, closeAttempt, attempt, joined, deviceVars, callers>>

\* closeBackend takes admission and calls Backend.Close.
StartBackendClose(g) ==
  /\ attempt[g] = "waiting"
  /\ admission = None
  /\ admission' = g
  /\ attempt' = [attempt EXCEPT ![g] = "native"]
  /\ UNCHANGED <<closed, closeAttempt, closer, joined, poisoned, backend, callers>>

\* Mutant: a failed Backend.Close is reported as a successful one.
BackendCloseFailsSilently(g) ==
  /\ attempt[g] = "native"
  /\ backend' = "suspect"
  /\ admission' = None
  /\ attempt' = [attempt EXCEPT ![g] = "succeeded"]
  /\ UNCHANGED <<closed, closeAttempt, closer, joined, poisoned, callers>>

\* Backend.Close returns an error and admission is released: the native
\* resources are retained for a later generation.
BackendCloseFails(g) ==
  /\ attempt[g] = "native"
  /\ backend' = "suspect"
  /\ admission' = None
  /\ attempt' = [attempt EXCEPT ![g] = "failed"]
  /\ UNCHANGED <<closed, closeAttempt, closer, joined, poisoned, callers>>

BackendCloseSucceeds(g) ==
  /\ attempt[g] = "native"
  /\ backend' = "closed"
  /\ admission' = None
  /\ attempt' = [attempt EXCEPT ![g] = "succeeded"]
  /\ UNCHANGED <<closed, closeAttempt, closer, joined, poisoned, callers>>

\* Mutant: a failed generation makes no room for another one.
NextGenerationNever(g) == closeAttempt

\* What closeBackend leaves in Session.closeAttempt.
NextGeneration(g) ==
  IF attempt[g] = "failed" /\ closeAttempt = g THEN None ELSE closeAttempt

\* The critical section of closeBackend under closeMu, then close(done).
PublishAttempt(g) ==
  /\ attempt[g] \in {"succeeded", "failed"}
  /\ attempt' = [attempt EXCEPT
                   ![g] = IF attempt[g] = "succeeded" THEN "ok" ELSE "error"]
  /\ closeAttempt' = NextGeneration(g)
  /\ UNCHANGED <<closed, closer, joined, deviceVars, callers>>

-----------------------------------------------------------------------------
(* Every call has been made and has returned.                              *)
Finished ==
  /\ \A o \in Operations :
       /\ owner[o] \in {"closed", "rejected"}
       /\ joiner[o] # "waiting"
       /\ \A k \in Commands :
            command[o][k] \in {"new", "done", "failed", "rejected"}
  /\ \A c \in Closers : /\ closer[c] \in {"ok", "error", "expired"}
                        /\ attempt[c] \in {"unused", "ok", "error"}
  /\ UNCHANGED vars

OwnerStep(o) ==
  \/ BeginCall(o) \/ Admit(o) \/ AbandonAdmission(o)
  \/ RefuseAdmitted(o) \/ PassAdmitted(o) \/ AbandonRecovery(o)
  \/ StartRecovery(o) \/ RecoverySucceeds(o) \/ RecoveryFails(o)
  \/ RequestClose(o) \/ AcquireClose(o) \/ ReleaseClose(o)
  \/ JoinClose(o) \/ JoinedCloseReturns(o)

CommandStep(o, k) ==
  \/ ExecuteCall(o, k) \/ AcquireExecution(o, k) \/ AbandonExecution(o, k)
  \/ RefuseGated(o, k) \/ ClearGated(o, k)
  \/ AbandonExchange(o, k) \/ StartExchange(o, k)
  \/ ExchangeSucceeds(o, k) \/ ExchangeFails(o, k) \/ PublishFailure(o, k)

CloserStep(c) ==
  \/ StoreClosed(c) \/ JoinAttempt(c) \/ CloserReturns(c) \/ CloserExpires(c)
  \/ StartBackendClose(c) \/ BackendCloseFails(c) \/ BackendCloseSucceeds(c)
  \/ PublishAttempt(c)

Next ==
  \/ \E o \in Operations : CancelContext(o) \/ OwnerStep(o)
  \/ \E o \in Operations, k \in Commands : CommandStep(o, k)
  \/ \E c \in Closers : CloserStep(c)
  \/ Finished

Spec == Init /\ [][Next]_vars

-----------------------------------------------------------------------------
(* Fairness. Goroutines that can run do run, and every caller in the       *)
(* repository defers Transaction.Close. New calls, cancellations and       *)
(* expiries need not happen. StuckSpec lets a native call hang for ever,   *)
(* as an uncooperative backend may; NativeCallsReturn says that it does not. *)

OwnerRuns(o) ==
  \/ Admit(o) \/ AbandonAdmission(o) \/ RefuseAdmitted(o) \/ PassAdmitted(o)
  \/ AbandonRecovery(o) \/ StartRecovery(o)
  \/ RequestClose(o) \/ AcquireClose(o) \/ ReleaseClose(o)

CommandRuns(o, k) ==
  \/ AcquireExecution(o, k) \/ AbandonExecution(o, k)
  \/ RefuseGated(o, k) \/ ClearGated(o, k)
  \/ AbandonExchange(o, k) \/ StartExchange(o, k) \/ PublishFailure(o, k)

GoroutinesRun ==
  /\ \A o \in Operations : WF_vars(OwnerRuns(o)) /\ WF_vars(JoinedCloseReturns(o))
  /\ \A o \in Operations, k \in Commands : WF_vars(CommandRuns(o, k))
  /\ \A c \in Closers : /\ WF_vars(JoinAttempt(c) \/ CloserReturns(c))
                        /\ WF_vars(StartBackendClose(c) \/ PublishAttempt(c))

NativeCallsReturn ==
  /\ \A o \in Operations : WF_vars(RecoverySucceeds(o) \/ RecoveryFails(o))
  /\ \A o \in Operations, k \in Commands :
       WF_vars(ExchangeSucceeds(o, k) \/ ExchangeFails(o, k))
  /\ \A c \in Closers : WF_vars(BackendCloseSucceeds(c) \/ BackendCloseFails(c))

StuckSpec == Spec /\ GoroutinesRun

-----------------------------------------------------------------------------
(* Safety.                                                                 *)

\* No two native calls of Exchange, ReopenAndValidate and Close overlap,
\* whatever transactions, retained transactions and closers do at once: the
\* promise "serializes access to the device" of Session.
NativeExclusion == \A x, y \in NativeCalls : x = y

\* No command reaches an instrument whose last exchange was ambiguous and
\* which no ReopenAndValidate has proved since: poisoned and
\* Transaction.failed together quarantine it.
ValidBeforeExchange == ExchangesInProgress # {} => backend = "valid"

\* The failure of an exchange is published before anyone else can be
\* admitted: a free suspect session is always marked poisoned (or closed).
Quarantine == admission = None /\ backend = "suspect" => poisoned \/ closed

\* A Transaction.Close call, the first or a concurrent second one, returns
\* only when the transaction's admission is gone and no exchange of the
\* transaction is still in native code.
CloseWaitsForNative ==
  \A o \in Operations :
    (owner[o] = "closed" \/ joiner[o] = "returned") =>
      /\ admission # o
      /\ \A k \in Commands : command[o][k] \notin {"cleared", "native", "failing"}

\* A CloseContext call that returned nil leaves a closed backend behind.
OkMeansClosed == \A c \in Closers : closer[c] = "ok" => backend = "closed"

\* Nobody reopens or closes again a backend that closed successfully: an
\* operation admitted after the close gives up instead of recovering, and a
\* successful generation stays the last one.
ClosedIsFinal ==
  [][backend = "closed" => backend' = "closed" /\ NativeCalls' = {}]_vars

\* The calls that have had their last look at Session.closed and are not in the
\* backend yet, and the exchanges and recoveries that are.
PastLastCheck ==
  {x \in Operations \X Commands : command[x[1]][x[2]] = "cleared"}
    \cup {o \in Operations : owner[o] = "recovering"}
InBackend == ExchangesInProgress \cup RecoveriesInProgress

\* Once Session.closed is set, at most one more exchange or recovery enters the
\* backend, of all transactions and queued Begin calls together: one that had its
\* last look at the flag before. A recovery that is still admitted so hands out a
\* transaction that can send nothing (session.go:237-247, 334-349).
OneMoreAtMost ==
  [][closed =>
       /\ \A x, y \in PastLastCheck : x = y
       /\ PastLastCheck' \subseteq PastLastCheck
       /\ InBackend' \ InBackend \subseteq PastLastCheck \ PastLastCheck']_vars

\* A CloseContext call waits for the one generation that still works on the
\* backend, or has closed it: it joins that one, or it starts one when every
\* earlier generation has reported its failure, and so retries the cleanup.
FailedCloseIsRetried ==
  [][\A c \in Closers :
       closer[c] = "stored" /\ closer'[c] = "waiting" =>
         \A g \in Closers :
           attempt'[g] \in {"waiting", "native", "succeeded", "failed", "ok"}
             <=> g = joined'[c]]_vars

-----------------------------------------------------------------------------
(* The inductive invariant behind the safety properties.                   *)

HoldsAdmission(o) ==
  owner[o] \in {"admitted", "recovering", "reopening", "open", "closing", "releasing"}

HoldsExecution(o, k) ==
  command[o][k] \in {"gated", "cleared", "native", "failing"}

\* Each gate is held by exactly the party whose control says that it is.
GatesMatch ==
  /\ \A o \in Operations : HoldsAdmission(o) <=> admission = o
  /\ \A c \in Closers : attempt[c] = "native" <=> admission = c
  /\ \A o \in Operations : owner[o] = "releasing" <=> execution[o] = Closing
  /\ \A o \in Operations, k \in Commands : HoldsExecution(o, k) <=> execution[o] = k

\* Past its recheck, a command runs in a transaction that holds admission,
\* has not failed, and cannot finish closing.
CommandsInside ==
  /\ \A o \in failed : HasTransaction(o)
  /\ \A o \in Operations : joiner[o] = "returned" => owner[o] = "closed"
  /\ \A o \in Operations, k \in Commands :
       /\ command[o][k] # "new" => HasTransaction(o)
       /\ command[o][k] \in {"cleared", "native", "failing"} =>
            owner[o] \in {"open", "closing"} /\ o \notin failed
       /\ command[o][k] = "failing" => backend = "suspect"

\* What each owner may assume of the backend.
HealthKnown ==
  /\ backend = "suspect" =>
       \/ poisoned \/ closed
       \/ \E o \in Operations, k \in Commands : command[o][k] = "failing"
  /\ \A o \in Operations :
       /\ owner[o] \in {"recovering", "reopening"} => backend = "suspect"
       /\ owner[o] \in {"open", "closing", "releasing"} =>
            /\ backend # "closed"
            /\ \/ backend = "valid" \/ o \in failed
               \/ \E k \in Commands : command[o][k] = "failing"
       /\ owner[o] \in {"open", "closing", "releasing"} /\ o \in failed => poisoned
  /\ poisoned /\ ~closed => backend = "suspect"

\* Close generations: at most one is unfinished or successful, and it is the
\* one every new closer joins.
GenerationsMatch ==
  /\ backend = "closed" => closed /\ closeAttempt # None
  /\ \A c \in Closers :
       /\ closer[c] # "new" => closed
       /\ closer[c] \in {"new", "stored"} => attempt[c] = "unused"
       /\ closer[c] \in {"waiting", "ok", "error", "expired"} => joined[c] \in Closers
       /\ attempt[c] \in {"waiting", "native", "succeeded", "failed", "ok"} <=>
            closeAttempt = c
       /\ attempt[c] \in {"succeeded", "ok"} <=> closeAttempt = c /\ backend = "closed"
       /\ closer[c] = "ok" => backend = "closed"

\* All of the above: inductive, and strong enough for each safety property.
IInv == TypeOK /\ GatesMatch /\ CommandsInside /\ HealthKnown /\ GenerationsMatch

-----------------------------------------------------------------------------
(* Liveness.                                                               *)

\* With a backend that returns, every Begin..Close life, every Execute call and
\* every CloseContext call, even one whose context never ends, comes to its end:
\* no path leaks admission or the execution gate (session.go:397-428, 499-519).
CallsReturn ==
  /\ \A o \in Operations :
       /\ owner[o] = "waiting" ~> owner[o] \in {"closed", "rejected"}
       /\ joiner[o] = "waiting" ~> joiner[o] = "returned"
  /\ \A o \in Operations, k \in Commands :
       command[o][k] = "waiting" ~> command[o][k] \in {"done", "failed", "rejected"}
  /\ \A c \in Closers :
       closer[c] = "stored" ~> closer[c] \in {"ok", "error", "expired"}

\* Even behind a native call that never returns, an Execute call that waits for
\* the gate comes back once its transaction is being closed, and a cancelled caller
\* is not held in Begin's wait for admission (session.go:228-232, 311-317).
QueuedCallsObserveTheirEnd ==
  \A o \in Operations :
    /\ owner[o] = "waiting" /\ o \in cancelled ~> owner[o] # "waiting"
    /\ \A k \in Commands :
         command[o][k] = "waiting" /\ TransactionClosed(o) ~> command[o][k] # "waiting"

\* Both: what waits for a call that hangs can still be given up, and if calls
\* return, nothing waits for ever.
EveryCallReturns == QueuedCallsObserveTheirEnd /\ (NativeCallsReturn => CallsReturn)

-----------------------------------------------------------------------------
(* The session implements the serialised device of SerialDevice: admission *)
(* is the holder, and the call is read off the native calls in progress.   *)

DeviceCall ==
  IF ExchangesInProgress # {} THEN "exchange"
  ELSE IF RecoveriesInProgress # {} THEN "reopen"
  ELSE IF ClosesInProgress # {} THEN "close" ELSE "none"

Device == INSTANCE SerialDevice WITH
  Clients <- Operations \cup Closers,
  holder <- admission,
  health <- backend,
  call <- DeviceCall

\* Every behaviour of the session is one of the serialised device: one
\* client at a time, one native call at a time, commands to a valid device
\* only, a suspect device given up only to be reopened or closed.
ImplementsDevice == Device!Spec

=============================================================================
