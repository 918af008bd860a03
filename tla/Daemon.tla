------------------------------- MODULE Daemon -------------------------------
(***************************************************************************)
(* cmd/owond: processes that are given the same Unix endpoint. Each one    *)
(* acquires an instrument, composes the service, takes the lock file of    *)
(* the endpoint, clears a stale socket, binds, serves, and on a signal     *)
(* stops the server, cleans up the path and closes the session. A process  *)
(* may be killed anywhere: the kernel then drops its lock, its listening   *)
(* socket and its claim on the device, and the path stays behind.          *)
(*                                                                         *)
(* What lies at the path is an inode number, so that a file which was      *)
(* replaced is told from the file that was looked at. Something foreign,   *)
(* another program or an administrator, may take, replace or remove the    *)
(* path at any moment. Every system call may fail.                         *)
(***************************************************************************)
EXTENDS Naturals

CONSTANTS
  Daemons,     \* the processes of owond
  Devices,     \* the instruments
  Serial,      \* which of them each process is to open
  Nobody,      \* no process
  MaxStarts,   \* the bound on the starts of a run
  MaxForeign   \* the bound on the foreign changes of the path

ASSUME DaemonAssumption ==
  /\ Nobody \notin Daemons
  /\ Serial \in [Daemons -> Devices]
  /\ MaxStarts \in Nat /\ MaxForeign \in Nat

Nothing == 0  \* no file

VARIABLES
  pc,         \* where each process is
  claim,      \* who has claimed the interface of each device
  owner,      \* who has to clean up: the backend, or the session that wraps it
  inCall,     \* a handler is past its last look at Session.closed, or in a native call
  failed,     \* the error that the process will report is not nil
  refused,    \* why openListener refused
  lock,       \* who holds the lock of path.lock
  path,       \* the inode at the path
  own,        \* the inode each process bound
  identity,   \* ownedUnixListener.identity
  listening,  \* the inodes of sockets that accept connections
  files,      \* the inodes that are no sockets
  created,    \* the number of inodes so far
  starts,     \* the number of starts so far
  foreign     \* the number of foreign changes so far

processVars == <<pc, owner, inCall, failed, refused, own, identity>>
fileVars == <<path, listening, files, created, foreign>>
vars == <<processVars, fileVars, claim, lock, starts>>

Inodes == 1..created

Starting == {"open", "session", "service", "rejecting"}
Locking == {"inspect", "probe", "stale", "bind"}
Bound == {"listen", "chmod", "identify", "discard", "serving", "stopping"}
Cleaning == {"check", "remove", "unlock"}
Steps == Starting \cup {"lock"} \cup Locking \cup Bound \cup Cleaning
         \cup {"off", "closing", "releasing", "leaving"}

\* Between flock and the release of the lock.
Up(d) == pc[d] \in Locking \cup Bound \cup Cleaning

\* The lock file is held from flock on until it is released, and by no process that
\* is elsewhere, whichever call failed in between.
LockHeld == \A d \in Daemons : Up(d) <=> lock = d

TypeOK ==
  /\ pc \in [Daemons -> Steps]
  /\ claim \in [Devices -> Daemons \cup {Nobody}]
  /\ owner \in [Daemons -> {"none", "backend", "session"}]
  /\ inCall \in [Daemons -> BOOLEAN]
  /\ failed \in [Daemons -> BOOLEAN]
  /\ refused \in [Daemons -> {"no", "error", "held", "served", "occupied"}]
  /\ lock \in Daemons \cup {Nobody}
  /\ path \in Inodes \cup {Nothing}
  /\ own \in [Daemons -> Inodes \cup {Nothing}]
  /\ identity \in [Daemons -> Inodes \cup {Nothing}]
  /\ listening \subseteq Inodes /\ files \subseteq Inodes
  /\ created \in Nat /\ starts \in 0..MaxStarts /\ foreign \in 0..MaxForeign

Init ==
  /\ pc = [d \in Daemons |-> "off"]
  /\ claim = [v \in Devices |-> Nobody]
  /\ owner = [d \in Daemons |-> "none"]
  /\ inCall = [d \in Daemons |-> FALSE]
  /\ failed = [d \in Daemons |-> FALSE]
  /\ refused = [d \in Daemons |-> "no"]
  /\ lock = Nobody
  /\ path = Nothing
  /\ own = [d \in Daemons |-> Nothing]
  /\ identity = [d \in Daemons |-> Nothing]
  /\ listening = {} /\ files = {}
  /\ created = 0 /\ starts = 0 /\ foreign = 0

Go(d, from, to) == pc[d] = from /\ pc' = [pc EXCEPT ![d] = to]
Fail(d) == failed' = [failed EXCEPT ![d] = TRUE]
Own(d, who) == owner' = [owner EXCEPT ![d] = who]
\* What process d has claimed is released.
Unclaimed(d) == [v \in Devices |-> IF claim[v] = d THEN Nobody ELSE claim[v]]

-----------------------------------------------------------------------------
(* Execute: an instrument, a session around it, a controller and a server.   *)

Start(d) ==
  /\ starts < MaxStarts
  /\ Go(d, "off", "open")
  /\ starts' = starts + 1
  /\ UNCHANGED <<owner, inCall, failed, refused, own, identity,
                 fileVars, claim, lock>>

\* owonusb.Open claims the interface, which only one process can do. Credentials
\* that cannot be loaded before it end the process like an Open that fails.
Open(d) ==
  /\ \/ /\ claim[Serial[d]] = Nobody
        /\ claim' = [claim EXCEPT ![Serial[d]] = d]
        /\ Own(d, "backend") /\ Go(d, "open", "session")
        /\ UNCHANGED failed
     \/ Fail(d) /\ Go(d, "open", "leaving") /\ UNCHANGED <<claim, owner>>
  /\ UNCHANGED <<inCall, refused, own, identity, fileVars, lock, starts>>

\* composeService: from session.New on the session is what has to be closed.
NewSession(d) ==
  /\ \/ Own(d, "session") /\ Go(d, "session", "service") /\ UNCHANGED failed
     \/ Fail(d) /\ Go(d, "session", "rejecting") /\ UNCHANGED owner
  /\ UNCHANGED <<inCall, refused, own, identity, fileVars, claim, lock, starts>>

\* controller.New, NewServerWithConfig, EnsureKeepAwake unless it is disabled and
\* NewRPCLogging: each one may reject the startup.
Compose(d) ==
  /\ \/ Go(d, "service", "lock") /\ UNCHANGED failed
     \/ Fail(d) /\ Go(d, "service", "rejecting")
  /\ UNCHANGED <<owner, inCall, refused, own, identity, fileVars, claim, lock, starts>>

\* Mutant: a cleanup that failed is forgotten.
CleanedForgetting(d, succeeds) ==
  Own(d, "none") /\ claim' = IF succeeds THEN Unclaimed(d) ELSE claim

\* rejectStartup: the owner of the moment is closed, and retained if that fails.
Cleaned(d, succeeds) ==
  IF succeeds THEN Own(d, "none") /\ claim' = Unclaimed(d)
              ELSE UNCHANGED <<owner, claim>>

RejectStartup(d) ==
  /\ \E succeeds \in BOOLEAN : Cleaned(d, succeeds)
  /\ Go(d, "rejecting", "leaving")
  /\ UNCHANGED <<inCall, failed, refused, own, identity, fileVars, lock, starts>>

\* ErrStartup.Close: whoever got the error may try again.
RetryCleanup(d) ==
  /\ pc[d] = "leaving" /\ owner[d] # "none" /\ refused[d] = "no" /\ own[d] = Nothing
  /\ Cleaned(d, TRUE)
  /\ UNCHANGED <<pc, inCall, failed, refused, own, identity, fileVars, lock, starts>>

-----------------------------------------------------------------------------
(* openListener *)

\* openListener returns an error; what it held is given back on the way.
Refuse(d, from, why) ==
  /\ Go(d, from, "closing")
  /\ refused' = [refused EXCEPT ![d] = why]
  /\ Fail(d)
  /\ lock' = IF lock = d THEN Nobody ELSE lock
  /\ UNCHANGED <<owner, inCall, own, identity, fileVars, claim, starts>>

\* A directory that is missing or unsafe, an unreadable file, a probe without an
\* answer.
SystemCallFails(d) ==
  \E from \in {"lock"} \cup Locking : Refuse(d, from, "error")

\* Only pc[d] changes.
Move(d, from, to) ==
  /\ Go(d, from, to)
  /\ UNCHANGED <<owner, inCall, failed, refused, own, identity,
                 fileVars, claim, lock, starts>>

\* Mutant: flock fails to exclude.
LockIsFreeAlways == lock \in Daemons \cup {Nobody}

\* flock(path.lock, LOCK_EX|LOCK_NB). The lock file is never removed.
LockIsFree == lock = Nobody
TakeLock(d) ==
  \/ ~LockIsFree /\ Refuse(d, "lock", "held")
  \/ /\ LockIsFree
     /\ lock' = d
     /\ Go(d, "lock", "inspect")
     /\ UNCHANGED <<owner, inCall, failed, refused, own, identity,
                    fileVars, claim, starts>>

\* prepareUnixSocketPath
Inspect(d) ==
  \/ path = Nothing /\ Move(d, "inspect", "bind")
  \/ path \in files /\ Refuse(d, "inspect", "occupied")
  \/ path \in Inodes \ files /\ Move(d, "inspect", "probe")

\* Mutant: a socket that refuses connections is taken for one that serves.
ProbeFindingStaleServed(d) ==
  \/ path # Nothing /\ Refuse(d, "probe", "served")
  \/ path = Nothing /\ Move(d, "probe", "stale")

Probe(d) ==
  \/ path \in listening /\ Refuse(d, "probe", "served")
  \/ path \notin listening /\ Move(d, "probe", "stale")

RemoveStale(d) ==
  \/ path = Nothing /\ Refuse(d, "stale", "error")
  \/ /\ path # Nothing
     /\ path' = Nothing
     /\ Go(d, "stale", "bind")
     /\ UNCHANGED <<owner, inCall, failed, refused, own, identity,
                    listening, files, created, foreign, claim, lock, starts>>

\* ListenConfig.Listen: bind creates the socket, which refuses connections until
\* listen.
Bind(d) ==
  \/ path # Nothing /\ Refuse(d, "bind", "occupied")
  \/ /\ path = Nothing
     /\ created' = created + 1
     /\ path' = created' /\ own' = [own EXCEPT ![d] = created']
     /\ Go(d, "bind", "listen")
     /\ UNCHANGED <<owner, inCall, failed, refused, identity,
                    listening, files, foreign, claim, lock, starts>>

\* A listen that fails closes the descriptor, and leaves the path where it is.
Listen(d) ==
  \/ /\ Go(d, "listen", "chmod")
     /\ listening' = listening \cup {own[d]}
     /\ UNCHANGED <<owner, inCall, failed, refused, own, identity,
                    path, files, created, foreign, claim, lock, starts>>
  \/ Refuse(d, "listen", "error")

\* Chmod, and then Lstat for the identity: either may fail, and both look up the
\* path again.
Chmod(d) ==
  \/ path # Nothing /\ Move(d, "chmod", "identify")
  \/ Move(d, "chmod", "discard")

Identify(d) ==
  \/ /\ path # Nothing
     /\ identity' = [identity EXCEPT ![d] = path]
     /\ Go(d, "identify", "serving")
     /\ UNCHANGED <<owner, inCall, failed, refused, own,
                    fileVars, claim, lock, starts>>
  \/ Move(d, "identify", "discard")

\* listener.Close with unlink-on-close removes whatever is at the path, and the
\* lock is released after it.
Discard(d) ==
  /\ Go(d, "discard", "closing")
  /\ listening' = listening \ {own[d]}
  /\ path' = Nothing
  /\ lock' = Nobody
  /\ refused' = [refused EXCEPT ![d] = "error"]
  /\ Fail(d)
  /\ UNCHANGED <<owner, inCall, own, identity, files, created, foreign, claim, starts>>

-----------------------------------------------------------------------------
(* serveGRPC: until the signal or the end of Serve. Stop closes the listener *)
(* and the connections, and does not wait for the handlers.                  *)

\* A handler that Stop left behind finds the session open until CloseContext has
\* stored its flag.
Admits(d) ==
  \/ pc[d] \in {"serving", "stopping"} \cup Cleaning
  \/ pc[d] = "closing" /\ refused[d] = "no"

HandlerEnters(d) ==
  /\ Admits(d) /\ ~inCall[d]
  /\ inCall' = [inCall EXCEPT ![d] = TRUE]
  /\ UNCHANGED <<pc, owner, failed, refused, own, identity, fileVars, claim, lock, starts>>

HandlerReturns(d) ==
  /\ inCall[d]
  /\ inCall' = [inCall EXCEPT ![d] = FALSE]
  /\ UNCHANGED <<pc, owner, failed, refused, own, identity, fileVars, claim, lock, starts>>

\* The signal, which may come at any time once the process serves.
Stop(d) == Move(d, "serving", "stopping")

ServeFails(d) ==
  /\ Go(d, "serving", "stopping") /\ Fail(d)
  /\ UNCHANGED <<owner, inCall, refused, own, identity, fileVars, claim, lock, starts>>

\* closeOwned: a listener that could not be closed leaves the path in place.
CloseListener(d) ==
  \/ /\ Go(d, "stopping", "check")
     /\ listening' = listening \ {own[d]}
     /\ UNCHANGED <<owner, inCall, failed, refused, own, identity,
                    path, files, created, foreign, claim, lock, starts>>
  \/ /\ Go(d, "stopping", "unlock") /\ Fail(d)
     /\ UNCHANGED <<owner, inCall, refused, own, identity, fileVars, claim, lock, starts>>

\* removeOwnedSocket: Lstat, the comparison, and then Remove, by name.
CheckPath(d) ==
  \/ path = Nothing /\ Move(d, "check", "unlock")
  \/ path = identity[d] /\ path # Nothing /\ Move(d, "check", "remove")
  \/ /\ Go(d, "check", "unlock") /\ Fail(d)
     /\ UNCHANGED <<owner, inCall, refused, own, identity, fileVars, claim, lock, starts>>

RemovePath(d) ==
  \/ /\ Go(d, "remove", "unlock")
     /\ path' = Nothing
     /\ UNCHANGED <<owner, inCall, failed, refused, own, identity,
                    listening, files, created, foreign, claim, lock, starts>>
  \/ /\ path # Nothing
     /\ Go(d, "remove", "unlock") /\ Fail(d)
     /\ UNCHANGED <<owner, inCall, refused, own, identity, fileVars, claim, lock, starts>>

Unlock(d) ==
  /\ Go(d, "unlock", "closing")
  /\ lock' = Nobody
  /\ UNCHANGED <<owner, inCall, failed, refused, own, identity, fileVars, claim, starts>>

-----------------------------------------------------------------------------
(* closeSession: CloseContext waits for the native call of a handler, at most *)
(* shutdownTimeout, and then the process ends with what it could not close.   *)

\* Session.closed, which no handler that looks at it later gets past.
StoreClosed(d) == Move(d, "closing", "releasing")

\* Mutant: CloseContext does not wait for the native call of a handler.
SessionClosesAtOnce(d) ==
  /\ Go(d, "releasing", "leaving")
  /\ Cleaned(d, TRUE)
  /\ UNCHANGED <<inCall, failed, refused, own, identity, fileVars, lock, starts>>

\* Mutant: the wait for the session has no deadline.
SessionCloseFailsUnbounded(d) ==
  /\ ~inCall[d]
  /\ Go(d, "releasing", "leaving") /\ Fail(d)
  /\ UNCHANGED <<owner, inCall, refused, own, identity, fileVars, claim, lock, starts>>

SessionCloses(d) ==
  /\ ~inCall[d]
  /\ Go(d, "releasing", "leaving")
  /\ Cleaned(d, TRUE)
  /\ UNCHANGED <<inCall, failed, refused, own, identity, fileVars, lock, starts>>

SessionCloseFails(d) ==
  /\ Go(d, "releasing", "leaving") /\ Fail(d)
  /\ UNCHANGED <<owner, inCall, refused, own, identity, fileVars, claim, lock, starts>>

\* The kernel takes back what a process held as it ends.
End(d) ==
  /\ pc' = [pc EXCEPT ![d] = "off"]
  /\ claim' = Unclaimed(d)
  /\ owner' = [owner EXCEPT ![d] = "none"]
  /\ inCall' = [inCall EXCEPT ![d] = FALSE]
  /\ failed' = [failed EXCEPT ![d] = FALSE]
  /\ refused' = [refused EXCEPT ![d] = "no"]
  /\ lock' = IF lock = d THEN Nobody ELSE lock
  /\ listening' = listening \ {own[d]}
  /\ own' = [own EXCEPT ![d] = Nothing]
  /\ identity' = [identity EXCEPT ![d] = Nothing]
  /\ UNCHANGED <<path, files, created, foreign, starts>>

Exit(d) == pc[d] = "leaving" /\ End(d)
Crash(d) == pc[d] \notin {"off", "leaving"} /\ End(d)

-----------------------------------------------------------------------------
(* Something foreign takes or replaces the path, with a socket that accepts,  *)
(* one that does not, or a file; or removes it.                               *)

ForeignChange ==
  /\ foreign < MaxForeign /\ foreign' = foreign + 1
  /\ \/ /\ created' = created + 1 /\ path' = created'
        /\ \/ listening' = listening \cup {created'} /\ UNCHANGED files
           \/ files' = files \cup {created'} /\ UNCHANGED listening
           \/ UNCHANGED <<listening, files>>
     \/ /\ path # Nothing
        /\ path' = Nothing
        /\ UNCHANGED <<listening, files, created>>
  /\ UNCHANGED <<processVars, claim, lock, starts>>

Run(d) ==
  \/ Open(d) \/ NewSession(d) \/ Compose(d) \/ RejectStartup(d)
  \/ TakeLock(d) \/ SystemCallFails(d) \/ Inspect(d) \/ Probe(d) \/ RemoveStale(d)
  \/ Bind(d) \/ Listen(d) \/ Chmod(d) \/ Identify(d) \/ Discard(d)
  \/ CloseListener(d) \/ CheckPath(d) \/ RemovePath(d) \/ Unlock(d)
  \/ StoreClosed(d) \/ SessionCloses(d) \/ SessionCloseFails(d) \/ Exit(d)

Next ==
  \/ \E d \in Daemons :
       \/ Start(d) \/ Run(d) \/ RetryCleanup(d)
       \/ HandlerEnters(d) \/ HandlerReturns(d)
       \/ Stop(d) \/ ServeFails(d) \/ Crash(d)
  \/ ForeignChange

Spec == Init /\ [][Next]_vars

\* A process runs, and its native calls at startup return; a handler's need not.
FairSpec == Spec /\ \A d \in Daemons : WF_vars(Run(d))

-----------------------------------------------------------------------------
\* Of the daemons that were given one endpoint at most one serves, its socket
\* accepts, and unless something foreign meddled the path leads to that socket.
OneServes ==
  \A d \in Daemons : pc[d] = "serving" =>
    /\ \A e \in Daemons \ {d} : pc[e] # "serving"
    /\ own[d] \in listening
    /\ foreign = 0 => path = own[d]

\* A device is claimed exactly as long as someone is left who closes it, however
\* the startup and its cleanup fail: the backend until there is a session, and
\* from then on the session.
OneOwner ==
  \A d \in Daemons :
    /\ owner[d] # "none" <=> claim[Serial[d]] = d
    /\ pc[d] \in {"off", "open"} => owner[d] = "none"
    /\ pc[d] = "session" => owner[d] = "backend"
    /\ pc[d] \in {"service", "lock", "closing", "releasing"} \cup Locking \cup Bound \cup Cleaning =>
         owner[d] = "session"

\* A process has a socket of its own from bind on, which accepts from listen until
\* it is closed.
SocketsAccounted ==
  \A d \in Daemons :
    /\ pc[d] \in {"off", "lock"} \cup Starting \cup Locking => own[d] = Nothing
    /\ pc[d] \in Bound \cup Cleaning => own[d] # Nothing
    /\ \A e \in Daemons \ {d} : own[d] = own[e] => own[d] = Nothing
    /\ pc[d] \in {"chmod", "identify", "serving", "stopping"} => own[d] \in listening

\* Unless something foreign meddled, who is about to bind finds the path free, who
\* has bound finds its own socket there, and every socket that accepts is that of a
\* process.
PathAccounted ==
  foreign = 0 =>
    /\ \A d \in Daemons :
         /\ pc[d] = "bind" => path = Nothing
         /\ pc[d] \in Bound => path = own[d]
    /\ files = {} /\ \A i \in listening : \E d \in Daemons : own[d] = i

\* Together: the lock, the path, the socket and the device have the owners that the
\* control of each process says they have.
Ownership ==
  TypeOK /\ LockHeld /\ OneServes /\ OneOwner /\ SocketsAccounted /\ PathAccounted

\* A daemon that stops without an error: its socket accepts no more, then it is off
\* the path, and it leaves only when its lock is free, its session is closed and no
\* native call runs. A startup that was rejected never counts as one.
CleanExitMeansReleased ==
  \A d \in Daemons : ~failed[d] =>
    /\ pc[d] # "rejecting"
    /\ pc[d] \in {"check", "remove", "unlock", "closing", "releasing", "leaving"} =>
         own[d] # Nothing /\ own[d] \notin listening
    /\ pc[d] \in {"unlock", "closing", "releasing", "leaving"} => own[d] # path
    /\ pc[d] = "leaving" => owner[d] = "none" /\ ~inCall[d] /\ lock # d

\* What a crash left behind stops no later daemon: one that is refused although
\* no system call failed met a daemon that is still there, or something foreign.
RefusalsAreExplained ==
  [][\A d \in Daemons : refused'[d] \in {"held", "served", "occupied"} \ {refused[d]} =>
       \/ foreign > 0
       \/ refused'[d] # "occupied" /\ \E e \in Daemons \ {d} : pc[e] # "off"]_vars

\* A daemon never takes the socket of another one off the path while that one
\* has it bound.
LiveSocketStays ==
  [][\A d \in Daemons :
       path = own[d] /\ path # Nothing /\ pc[d] \in Bound /\ pc'[d] = pc[d] =>
         path' = path \/ foreign' # foreign]_vars

\* A daemon that was started comes to serve or ends, and one that stops serving
\* ends, even if the native call of a handler never returns.
EveryDaemonEnds ==
  \A d \in Daemons : pc[d] \notin {"off", "serving"} ~> pc[d] \in {"off", "serving"}
=============================================================================
