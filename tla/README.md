# Formal models of owon

TLA+ specifications of the owon daemon and its libraries, TLC configurations
that model-check them on small instances, and machine-checked proofs for every
instance. Source paths are relative to the repository's root (`src/`).

    tlc -config MCOwonSession_operations.cfg MCOwonSession     # one of the runs
    tlapm OwonSession_proofs.tla                               # the proofs

## 1. The system

`owond` owns one USB oscilloscope (HDS200 series: oscilloscope, multimeter,
generator) and serves it over gRPC, on a Unix socket or TCP. `owonctl` and the
web bridge `owonweb` are clients. One native session, one device, many callers:
everything that is hard in this code is about sharing that device, surviving the
failure of a native call whose effect is unknown, and streaming its state to slow
clients.

| component | state it keeps | operations | hard behaviour |
|---|---|---|---|
| Session, Transaction (`pkg/owonsession`) | admission slot, poison and closed flags, close generation; per transaction an execution slot, closed and failed flags | Begin, Execute, Transaction.Close, CloseContext, recovery | callers race for the slot; a failed exchange leaves the device in an unknown state; closing while calls are queued or stuck in native code |
| USB backend (`pkg/owonusb` backend, resources, discovery, open_error) | libusb context, device handles, claim, endpoints, pinned serial | Open, Exchange, ReopenAndValidate, Close | every native step can fail, closing included, and what could not be closed must stay owned |
| Endpoint session, frame decoder (`pkg/owonusb/endpoint_session.go`, `pkg/owonprotocol`) | receive buffer, deferred error; the decoder's expectation and buffer | drainPending, Exchange; Feed, Payload | late bytes, a frame split over transfers, a command whose success is silence |
| Controller (`pkg/owoncontrol`) | none of its own between transactions | one transaction per operation: read-modify-write, multimeter barrier, generator convergence | failure in the middle of a sequence of commands; readings that change between two polls |
| Subscription queue, producer, handler (`pkg/owonrpc/owonserver`) | FIFO, byte charges, pending drops, terminal event; a server-wide byte budget; stream slots | poll, enqueue, dequeue, finish, close | three actors per stream share two mutexes; loss must be reported; the end must not overtake the events |
| Poll scheduler (`pkg/owonrpc/owonserver/subscription_scheduler.go`) | FIFO of requests, committed time | acquire, cancel | no goroutine of its own: waiters dispatch for each other, with clock readings taken before the mutex |
| gRPC service, RPC client (`owonserver/server.go` and handlers, `owonclient`) | slots for unary calls and streams; the calls of a client | admission, conversion, dispatch to the controller, mapping of errors to statuses | slots must come back on every path; a client may be gone while its handler runs; what is reported as done must be what the instrument shows |
| SCPI dialect, domain model, RPC conversions (`pkg/owonscpi`, `pkg/owonmodel`, `pkg/owonrpc`) | none | request to commands, replies to answers | presence of fields, domains, units, order of writes and of refusals, spellings of the firmware, in two directions that must agree |
| Daemon (`cmd/owond`) | the listener and its lock file; the sole owner of the device while the service is composed | start, stop, startup failure | several daemons at one socket path, crashes, cleanup that fails |
| Web bridge (`cmd/owonweb`, `pkg/owonweb`) | HTTP server and its connections, open event streams, the shared client of the daemon | routing, calls, event streams, shutdown | draining while streams are open; browsers that stall or leave; the cause of a stream's end |
| CLI, logging, browser UI, generated code | none, or presentation | | straight-line code that unit tests reach |

Interactions. A gRPC handler calls a Controller method, which runs one
Transaction: `Session.Begin` (admission, recovery if poisoned), any number of
`Transaction.Execute` (each one `Backend.Exchange`), `Transaction.Close`. A
subscription's producer does the same once per poll, after the poll scheduler
granted it; what it reads goes into its queue, from which the handler sends.
Shutdown stops the gRPC server, then closes the session, which takes the
admission slot like any other client. Failures come back the same way:
`Backend.Exchange` fails, the transaction is failed and the session poisoned,
the next `Begin` calls `Backend.ReopenAndValidate`.

What makes each part correct: the *session* never overlaps native calls, never
sends a command to a device in an unknown state and closes exactly once; the
*backend* neither leaks nor duplicates native objects and only trusts an
instrument that proved its identity; a *stream* accounts for every loss, in
order, within its byte budgets, and ends; the *scheduler* is fair and keeps the
rate; a *response* belongs to the command that asked for it; the *controller*
leaves the instrument in the requested or the previous state, or says that it
does not know; a *call* that is refused changes nothing, and one that is reported
as done is what the instrument shows; of several *daemons* at one path at most
one serves, and a crash does not block the next; the *web bridge* stops
within its time unless a browser prevents it, after its last handler, and no
stream ends without its cause being told or logged.

The same inventory with the status of each part, and the list of hazards at
their source lines with the properties that cover them, is `PROJECT.json`.

## 2. The modules

| module | what it is |
|---|---|
| `OwonSession` | `pkg/owonsession/session.go`, detailed |
| `SerialDevice` | the abstract device that a session promises |
| `SubscriptionStream` | queue, budget, producer, handler and stream slots |
| `PollScheduler` | the poll scheduler |
| `UsbBackend` | acquisition, validation, recovery and release of native objects |
| `FrameDecoder` | the frame decoder as operators, and the reference definition of a frame |
| `EndpointSession` | commands, answers and silence over bulk transfers; uses `FrameDecoder` |
| `Controller` | the operations of `pkg/owoncontrol` over a drifting instrument |
| `ControlDialect` | requests to writes: conversions, domain model, dialect; operators only |
| `ScreenHeader` | replies to answers: header, readbacks, trace, RPC messages; operators only, extends `ControlDialect` |
| `RpcService` | unary handlers, their slots, statuses and clients, over both of them |
| `Daemon` | processes of `owond` at one Unix endpoint, composition and shutdown included |
| `WebBridge` | `owonweb`: HTTP handlers, event streams and shutdown |
| `*_proofs` | the theorems about a module: session, subscription streams, scheduler, controller, RPC service, daemon, web bridge; `OwonUsb_proofs` has those of the USB backend, the endpoint session and the decoder |
| `MC*` | instances for TLC: symmetry sets and constants that a .cfg cannot write |

The components are checked apart, each over what it may assume of the one
below: `OwonSession` over a backend that fails at will, `Controller` and
`RpcService` over one transaction at a time (which `OwonSession` promises through
`SerialDevice`), `SubscriptionStream` over a scheduler that grants or is cancelled
(which `PollScheduler` is), `Daemon` over a CloseContext that waits for the
native call or gives up (`CloseWaitsForNative`, `EveryCallReturns`), `WebBridge`
over a daemon that answers what it likes. `RpcService` composes the whole way of a
request: conversion, model, dialect, instrument, and back.

Definitions whose comment begins with `Mutant:` are deliberately wrong variants
of the definition after them. They are used by no specification; substituting
one for its original must break the property it is listed with in
`PROJECT.json`, which shows that the property can fail.

### OwonSession

A member of `Operations` is one life of a Transaction from Begin to Close; of
`Commands`, one Execute call on it, by any goroutine; of `Closers`, one
CloseContext call. The close generation that a closer starts bears its name.
`Session.Execute` is an operation with one command.

| state | code |
|---|---|
| `admission`, `poisoned`, `closed`, `closeAttempt`, `attempt` | `Session.admission` (channel of capacity one), `.poisoned`, `.closed`, `.closeAttempt` and the progress of `closeBackend` |
| `execution`, `failed`, `owner` | `Transaction.execution`, `.failed`, and where Begin or Close is (`.closed` is derived from it) |
| `command`, `joiner`, `closer`, `joined` | where each Execute, second Close and CloseContext call is |
| `cancelled` | the contexts that are done: by cancellation or a timeout, at any moment |
| `backend` | what the native session is worth: valid, suspect after an ambiguous failure or an unfinished close, closed |

Begin is `BeginCall`, `Admit` or `AbandonAdmission` (both ready cases of a select
are possible), `RefuseAdmitted` or `PassAdmitted` after the second check, then
`StartRecovery`, `RecoverySucceeds` or `RecoveryFails`. Execute is `ExecuteCall`,
`AcquireExecution`/`AbandonExecution`, `RefuseGated`/`ClearGated`,
`AbandonExchange`/`StartExchange`, `ExchangeSucceeds` or `ExchangeFails` followed
by `PublishFailure`, a separate step because the flags are stored after the call
returned. Flags that never return to false are polled several times in a row in
the code; such a run of polls is one step. Native calls are a start and an end,
between which everybody else moves.

`SerialDevice` is the abstract promise: one client at a time holds the device, at
most one native call runs, an exchange needs a valid device, a suspect one can
only be reopened or closed, a closed one stays closed. `Device` in `OwonSession`
is the refinement mapping: holder is `admission`, health is `backend`, and the call
is read off the calls in progress.

### SubscriptionStream

Per stream: `rpc` (the handler of Subscribe), `producer` and its poll, the queue
(`events`, `bytes`, `drops`, `finished`, `terminal`, `terminalEvent`,
`terminalReady`, `notify`), and for the server `used` (`subscriptionBudget.used`)
and `slots`. `published` is a history of what was dequeued, cleared at the end.
A step is a critical section of `queue.mu`; a section that changes the shared
budget twice (coalescing a state, reporting a gap in front of a waveform, several
gaps in front of a terminal event) is two or more steps with the queue locked,
because the budget has a mutex of its own and other streams can come between. An event
keeps its kind, its channel, the capture numbers it tells of and its charge in
bytes; its contents are left out. The instrument is a nondeterministic answer
(a state and waveforms of any size, or a failure), the scheduler's grant a step
that may fail because the stream is cancelled.

### PollScheduler

Time is discrete and relative to now, so behaviours are infinite and the state
space is finite: `ahead` is `committedUntil` minus now, `Tick` brings everything
one tick closer. A waiter reads the clock before it takes the mutex: `reading` is
the age of that value, up to `MaxAge`, when it is used. `slots` is a history of
the recent grants, each with its start and weight, that the window properties
read; a cancelled waiter leaves the line wherever it stands. `acquire` is `Enqueue`, then
rounds of `ReadClock`, `DispatchAndNextWakeup` and a select: `TimerFires` and
`Redispatch`, `Granted`, or `Cancelled`. A stream that was cancelled is over;
another one takes its name (`AcquireCancelled`).

### UsbBackend

One call at a time, as the session makes them. `native` is the truth, the set of
native objects that are open, tagged with the acquisition they came from;
`resources` and `candidate` are what the program remembers. Every native step
may fail, every close may leave any subset of the handles open, and the call's
context may end between any two steps (`Expire`). The enumeration finds any of
the sequences in `Buses`: none, one, several, the same serial twice, an
unreadable descriptor.

### FrameDecoder and EndpointSession

A byte is its value and, unseen by the code, the number of the command that it
answers. `FrameDecoder` has `Feed` for both framings and, as its reference, what
frame a sequence of bytes begins with (`FrameEnds`, `FramePayload`,
`NoFrameFits`). `EndpointSession` has `buffer`, `deferredEOF`
(`endpointSession.deferredErr` when it is EOF) and `idleProbe`
(`.needsIdleProbe`), and `place`, where drain, Exchange or nothing is in
progress. `pending` and `wire` are the instrument: answers that it still owes and
bytes that nobody has read. An exchange that fails takes the session `down`, as
owonsession does by poisoning itself; `Reopen`, the drain and the identity query
bring up the next one, as `replaceAndValidate` does. `answered` is a history of
the last exchange that succeeded. A command of kind `query` may be a `*IDN?` of a
client's own (`Controller.State` begins with one, and Execute sends what it is
given), whose answer is the very line that the identity query of the next candidate
waits for.

The protocol has no way to tell which command a byte answers, so what the code
can promise depends on the instrument. It takes commands in order and answers a
query once, at any later time or never; an answer that was given up may come after
the next candidate's drain. Most of these fail the identity query that they meet.
One that reads as the identity, or as a part of its line, passes for it, and from
then on every command is given the answer to the one before. The history `imposter`
records that the drain was outlived by such an answer (`OutlivesDrain`), and
`AnswersBelong` claims nothing of that candidate: it says that this is the only way
for an old answer to get through. `docs/usb-protocol.md:152-160` says the same of
drain and probes: they are no synchronisation barrier.

Three assumptions are needed, and each is one definition. One speaks of time:

- `QuietBeforeCommand`: stray bytes after a command that has no answer come before
  the end of the probe that precedes the next command.

Two speak of the bytes. They are `ASSUME`s on the constants, which the instance of
the run satisfies and the proofs use:

- `OutputsFit`: what one command makes the instrument send is no longer than the
  longest length-prefixed frame, which is where the drain's limit comes from
  (`docs/usb-protocol.md:151`). `WithinBounds` is about this case;
- `AnswersAreFrames`: no frame ends before the answer does, as scalar replies end in
  LF and the others carry their length (`docs/usb-protocol.md:35`). A second frame
  that comes in a later transfer would otherwise answer the next command. An answer
  may still be no frame at all, by a missing end or a length that is too large.

The names of this module's specification carry the prefix `Endpoint` because
`OwonUsb_proofs` extends it together with `UsbBackend`.

### Controller

Per client: `task`, where its operation is, the counters of the barrier it is in
and the commands it still has to send; `result`, what it returns. A request is
what the compilers of `pkg/owonscpi` make of it: a waveform or function to select,
an output to set, and the list of the other commands. One step is one exchange
(`Sent`, `NotSent`, `Observe`, `ProbeRead`, `TimerRead`, `ReadBack`) or the end of
a barrier (`BarrierConverges`, `BarrierGivesUp`, `BarrierBreaks`), so that the
context may end (`ContextEnds`) and other callers may wait between any two.
`holder` is the open transaction, as `OwonSession` promises it.

| operation | steps |
|---|---|
| SetChannel, Set*, Run, Stop, Execute: plain writes | `settings` |
| State, Waveform, Measure: queries | `settings` with queries; State's meter range may be missing (`RangeMissing`) |
| SetChannel with a scale and no probe | `probe`, `settings` |
| SetAcquisition with averaging | `settings`, `readback` |
| EnsureKeepAwake | `timer`, `settings`, `readback` |
| SetDMM with a function | `configure`, `initial`, then `settings` and `final` if there are any |
| SetGeneratorObserved with a waveform | `preflight` if the output is not given, `function`, `context`, `settings`, `output`, `verify`; from a failed `context`: `compensate`, `compensated` |

The instrument is an assumption, and every promise of the barriers rests on it. A
new waveform, output or meter function is taken up some time after the write
(`Settles`), and only a change of the waveform may switch the output. Until then
an answer is the old value, `error`, garbage, or the new value, but the new value
never twice in a row (`premature`): two consecutive matches are all that the code
asks for, so an instrument that shows its new value twice before it has it would
defeat it. The query of a voltage or current function names AC or DC whatever
function is active (`Companions`), as the comment of `ParseDMMFunction` says, so
nothing is promised for them. A setting that the firmware ignores
(`Ignorable`) is caught only by the operations that read it back.

A reduction: results are private to their callers, so the next operation and the
instrument wait until a result is taken (`Quiet`).

The control state is one record per client. Its invariant says what each step
relies on: which requests come to which step and what is known by then
(`StepsFit`), where the counters of a barrier stop (`CountersStop`), what the
instrument is while the transaction waits for it (`StepsFollow`) and which writes
are still to come (`WritesFit`).

### ControlDialect and ScreenHeader

Pure operators, without state. A request is a function from the names of the fields
that are present to their values, because presence (a nil pointer) is what most of
these checks are about; an enum is its number on the wire, a number an integer
in a named unit or `NotFinite`, a text of the instrument its word without case and
blanks, a command the control that it sets and the token that it writes.
`ControlDialect` has the conversions from protobuf, the validation of every patch
of the domain model and the compilers of the dialect, with the order in which they
refuse. `ScreenHeader` has the parsers of the screen header and its controls, of
readbacks and of the identity, the decoder of the screen trace with its sizes and
its overflow (`MaxInt32`), and the messages made of them.

### RpcService

A call is a client and a number; a client makes its calls one after the other,
and may give one up while its handler runs (`givenUp`, `answer`).

| state | code |
|---|---|
| `stage`, `request`, `todo`, `result` | where the handler is, what it was asked, the exchanges that are left, what it will answer |
| `failure` | what `errors.Is` finds in the error; `RpcError` is the order of `rpcError`'s cases |
| `active` | `rpcAdmission`: who holds a slot |
| `holder` | the open transaction |
| `touched`, `before` | histories: whose writes may have reached the instrument, and the settings when a transaction began |
| `settings`, `firmware` | the instrument: what it is set to, and how it spells, averages, settles and samples |

A call is `Ask*` (one action per kind of request), `Refuse` or `Admit` (slot,
conversion and compilation, none of which waits), `Begin`, a `Write`, `Read` or
`Converge` per exchange, `Finish`, `Return` (the deferred release), `Answer`. The
steps inside an operation that `Controller` models (the multimeter's repeated
matches, the generator's preflight and compensation) are one step here: what this
module is about is whether the request that went in is the state that comes out.
The instrument follows a write at once; how late it may be is `Controller`'s subject.
An autoset is the exception: it changes any of the settings that `AutosetFinds`
names, or none, and since nothing is read back, nothing is claimed of the settings
after it. What other calls report is claimed whatever it found.

Two named assumptions say what is outside. `MessagesAreTyped`: a message has the
fields of its protobuf message and their types (`MessageFields`, from `owon.proto`).
`InstrumentIsSet`: each setting that the header shows has one of the values that the
firmware knows (`Legal`), and an autoset finds such values. The levels of the trigger are integers in microvolts, and
both assumptions leave out the two that the model uses for a number that is not
finite. What `OkMeansApplied` promises of sending a snapshot back is under one
condition, `ScaleFitsProbe`, without which it would not hold: a patch that names a
probe and no scale is compiled without looking at the scale (`CompileChannel`
compares the two only if the patch has both), so that a 1000X probe may be set over
a scale of 10 mV, and a patch with what the snapshot then shows is refused. The
run has that request.

### Daemon

Processes that are given one Unix endpoint. What lies at the path is an inode
number, so that a file which was replaced is told from the one that was looked at;
`listening` are the sockets that accept, `files` those that are none.

| state | code |
|---|---|
| `pc` | where `Execute`, `composeService`, `openListener`, `serveGRPC` and the deferred cleanups are |
| `claim`, `owner` | who has claimed each device; whether the backend or the session has to be closed (`ErrStartup` retains it) |
| `lock`, `own`, `identity` | the flock on `path.lock`; the inode that was bound; `ownedUnixListener.identity` |
| `inCall` | a handler is in a native call, which `grpc.Server.Stop` does not wait for |
| `failed`, `refused` | the error of the process, and why `openListener` refused |

Startup is `Start`, `Open`, `NewSession`, `Compose`, or `RejectStartup` and
`RetryCleanup`; the listener `TakeLock`, `Inspect`, `Probe`, `RemoveStale`, `Bind`,
`Listen`, `Chmod`, `Identify`, with `Refuse`, `SystemCallFails` and `Discard`; a
listen(2) that fails is refused with the bound path left in place, what fails after
it is discarded with its path. The end is `Stop` or `ServeFails`, `CloseListener`,
`CheckPath`, `RemovePath`, `Unlock`, `StoreClosed` (`Session.closed`),
`SessionCloses` or `SessionCloseFails`, `Exit`. `HandlerEnters` and `HandlerReturns`
are the exchanges of the handlers: those that Stop left behind still enter the
session until the flag is stored. `Crash` happens anywhere: the kernel
drops the lock, the socket and the claim, and the path stays. `ForeignChange` puts
a socket or a file at the path, or removes what is there.

### WebBridge

Each browser has one connection and sends one request; it may stall or leave at
any moment.

| state | code |
|---|---|
| `server`, `cancelled` | where `runServer` and `serveHTTP` are; the context of the requests |
| `serve`, `conn`, `tracked`, `open` | net/http (external): the loop of Serve, the state of each connection, what Close would close, whose socket is open |
| `active` | `httpConnections.active` |
| `request`, `stage` | what a connection asks and where its handler is |
| `deadline` | whose writes have a deadline |
| `failure`, `told`, `logged` | everything that went wrong for a handler, a history that only grows; the causes in the terminal frame that its browser was sent; the causes in the error that it returns, which is logged; cleared when the handler is over |
| `noticed` | net/http saw that the client is gone, which ends the request's context |

The external part says: Serve registers a connection before it accepts the next
one, and Shutdown and Close wait for it before they look at the connections; a write ends
when the browser reads, is gone, or the deadline passes; a short answer is
buffered, and sent after the handler returned (so its loss is not logged); static
pages have no write deadline. A stall that ends is a slow write and no step of its
own. `/healthz` answers like a static page and is left out.

## 3. The runs

| run | bounds | shows |
|---|---|---|
| `session_operations` | 2 operations, 2 commands each, 1 closer, symmetric | IInv, ValidBeforeExchange, CloseWaitsForNative, OneMoreAtMost (after CloseContext set its flag, one exchange or recovery at most), and that the session implements SerialDevice (ImplementsDevice) |
| `session_closers` | 1 operation, 2 commands, 2 closers, native calls may hang for ever | OkMeansClosed, FailedCloseIsRetried (a closer joins the one generation at work, or starts one after all failed), EveryCallReturns: what waits behind a stuck call still observes its transaction's end or its own context's, and if native calls return, every call does |
| `stream_events` | 1 stream, 2 channels, sizes 1, 3 and 4 against limits of 3, 4 and 5, 3 polls, a client that may stop reading | QueueConsistent (bounded, in production order, no lost wakeup), LossAccounted, EventsInOrder, EndExplained, EveryStreamEnds |
| `stream_budget` | 2 streams, one with a channel over 2 polls, one with a state over 1 poll; 1 ordinary and 2 critical events; sizes 1 and 2 against a shared budget of 2; 1 or 2 slots | BudgetCovered (bytes and slots are held exactly by the streams that run), EndExplained |
| `scheduler` | 2 streams, weights 1 to 3, budget 2, window 5, readings up to 1 tick old | LineConsistent, WindowBounded, GrantsInOrder, EveryPollIsGranted |
| `scheduler_window` | 2 streams, budget and window 3 | AtMostCapacityPerWindow is expected to be violated, see section 6 |
| `usb_backend` | 3 acquisitions, 2 serials, 8 buses | ResourcesAccounted (no native object leaks, one generation at a time, closed means released), TrustIsJustified (what is trusted was validated and is the same instrument) |
| `endpoint` | 5 commands, *IDN? among the ordinary ones, bytes of 4 values, 2-byte prefixes, payloads up to 2, transfers up to 3 | WithinBounds, AnswersBelong, DecodesReference |
| `controller` | 2 callers, 11 requests, 2 waveforms or functions, 4 observations per barrier | OutcomeIsReported, SuccessIsTrue, SettingsFit, EveryOperationReturns |
| `daemon` | 2 daemons with an instrument each, 3 starts, 1 foreign change | Ownership, CleanExitMeansReleased, RefusalsAreExplained, LiveSocketStays, EveryDaemonEnds |
| `rpc` | 2 clients with 2 calls each, 2 slots, 3 kinds of firmware, 1 failing exchange, MaxInt32 = 1000 | SlotsAccounted, ExcessIsExplained, RefusalsTouchNothing, OkMeansApplied |
| `web` | 2 browsers: one subscribes, one calls, is refused or loads a page | ClientOutlivesHandlers (with it, that the requests are cancelled before the shutdown waits), EndsAreAccounted, EverythingEnds |

Why the bounds are enough. *Session*: the gates have capacity one, so two
contenders for each make every conflict; a third operation or command meets
states that two already produced (the proofs cover any number). A third closer
could only join or follow a generation as the second does. *Stream*: with a
capacity of 2, a maximum of 3 and sizes on both sides of each byte limit, every
admission can be refused for each reason, and three polls let drops accumulate
over a coalesced state; what two streams share is only the byte budget and the
slots, and `stream_budget` makes both scarce. The second poll of its first stream
finds the state of the first one queued and coalesces it, or a waveform dropped and
puts a gap in front of the next one or of the end; either changes the budget twice,
and the second stream, whose state is 1 or 2 of the 2 bytes, may take what was
released in between, or have taken what is needed: so a gap is refused, a device
error ends in backpressure, and an event of 2 bytes is refused by the limit of the
server alone. What is too large for any queue is in `stream_events`. *Scheduler*: the
names are used again for ever, so two streams are any number of which two wait
at once, one at the head and one behind it; weights below, at and above the
budget; a window that the budget does not divide. *USB*: three
acquisitions are Open, a recovery and a second recovery after a failed one.
*Endpoint*: an abandoned command, the recovery with its identity
query, a command without an answer and the two after it are five, and so are an
abandoned `*IDN?`, the identity query that its answer may pass for and the commands
whose answers are then shifted; the answers include the longest that fits, one too long, a line without its end, an empty
frame, a CR before the LF and an LF inside a binary payload. The `ASSUME` of
`MCEndpointSession` compares the decoder with its reference on all inputs of up to
five bytes in all cuts into three transfers, which is one byte more than the
longest frame.
*Controller*: of two callers one is in a transaction and the other changes what it
relies on before or after it, more callers could not come closer; four
observations instead of eight leave room for a mismatch, a single match and a
restart of the count before two matches or the limit, and one setting per
waveform stands for the list of them, whose order only the writes depend on.
*Daemon*: two processes are a holder of the lock and a contender; the third start
is the one after a crash or a failed cleanup; one foreign change may come between
any two steps; the daemons have an instrument each, because two that open the same one
never both come to the listener (the proof covers any assignment). *RPC*: the
requests of `MCRpcService` have each kind of call, and for each kind a request that
is right and ones that the conversion, the model, the dialect or the instrument
refuses; the second client sets a probe alone, under the first one's snapshots and scales, gives up, and finds the
slots taken by calls that were given up; a smaller `MaxInt32` brings the overflow
checks of the trace within reach. *Web*: what connections share is the shutdown, and
two of them are one that holds it up and one that ends.
`MaxPolls`, `MaxOpens`, `MaxCommands`, `MaxStarts`, `MaxForeign`, `MaxCalls`,
`MaxFaults` and `MaxAge` are bounds of the models, not of the code: all but the
last cap counters, the last the delay between reading the clock and using it.
Two more of the runs stop: after its last start, call or answer the daemons, the
RPC clients and the web server have nothing left to do, and only those three
configurations say `CHECK_DEADLOCK FALSE`.

## 4. Fairness

`OwonSession!GoroutinesRun`: a goroutine that can move moves, and a Transaction is
closed by its owner, as every caller in the repository defers Close. New calls,
cancellations and expiries need not happen. `StuckSpec` is that and no more: native
calls may hang for ever. `NativeCallsReturn`, that libusb calls carry timeouts, is a
hypothesis of the part of `EveryCallReturns` that needs it.
Weak fairness of a choice between `AcquireExecution` and `AbandonExecution` suffices: Go's select
may choose either ready case, and both end the wait. Waiting senders of a
channel are served in the order in which they came, but the models do not rely on it:
with finitely many calls each one gets its turn.

`SubscriptionStream!SlowSpec`: producer and handler run, the instrument and the
scheduler answer; `stream.Send` returns when the stream's context is done, and
may block until then. The second part of `EveryStreamEnds` adds, as its
hypothesis, that Send returns.

`Controller!Fairness`: the goroutine of an operation runs, its exchanges return
or fail, and the operation budget expires in a barrier of the multimeter
(`Transaction.OperationContext`), because only that budget bounds it: the
generator's barriers count their observations instead. The instrument need not
follow a write.

`Daemon!FairSpec`: a process that can take a step of its own takes it; its native
calls at startup carry timeouts. A handler need not return from its native call, a signal
need not come, and what goes wrong may go wrong or not.

`WebBridge!FairSpec`: the goroutines of the server and of each connection run, and
the loop of Serve ends once its listener is closed. Nothing is expected of browsers
or of the daemon: `EverythingEnds` rests on deadlines alone, which are steps of
those goroutines.

`RpcService` has no liveness property: that its handlers return is
`Controller!EveryOperationReturns`.

`PollScheduler!FairSpec`: waiters run and time passes. `SF` on `Tick` because the
bound on the age of readings disables it again and again; `SF` on a ready grant
or cancellation because a select that finds one of them ready whenever it is reached
does not choose its timer for ever.

## 5. What is proved

`OwonSession_proofs` proves for any sets of operations, commands and closers,
assuming only `SessionAssumption` (the names are disjoint from each other and
from the two tokens):

- `Invariance`: `IInv` is an invariant. The safety properties are not inductive:
  that no two native calls overlap says nothing about who may start one next.
  `IInv` adds who holds each gate (`GatesMatch`), what must be true of the
  transaction around a command past its last check (`CommandsInside`), what an
  owner may assume of the device (`HealthKnown`: a suspect device is poisoned,
  closed, or about to be recorded by the command that holds the gate) and that
  at most one close generation is unfinished or successful (`GenerationsMatch`).
  The proof has one step per action, grouped into owner, command and closer
  steps.
- `ExclusionTheorem` (no two native calls overlap), `QuarantineHolds`, `QuarantineRecorded`,
  `CloseWaitsTheorem`, `OkCloseTheorem`: the state properties, from `IInv`.
- `ClosedIsFinalTheorem`, `OneMoreTheorem`, `FailedCloseTheorem`: the action
  properties, from `IInv` before the step. Those that are past their last look at
  the closed flag are one at most, because each of them holds a gate and the owner of
  the admission slot; nobody joins them, because the look fails once the flag is set;
  and who enters the backend leaves them. The closer's choice is the one of
  `getOrStartCloseAttempt`, and `GenerationsMatch` before the step says what the other
  generations have come to.
- `RefinementTheorem`: every step of the session is a step of `SerialDevice` or a
  stutter under the mapping.

The other proof modules have the same shape: an inductive invariant, one step per
action, one lemma per part that an action can disturb.

- `Daemon_proofs`, for any daemons, instruments and numbers of starts and foreign
  changes: `OwnershipTheorem`, `CleanExitTheorem`, `RefusalsTheorem`,
  `LiveSocketTheorem`. The invariant is TypeOK, `LockHeld` (flock is held from
  taking to releasing, and by nobody else), `OneOwner`, `SocketsAccounted`,
  `PathAccounted` and `CleanExitMeansReleased`. That two daemons do not serve at
  once follows from the lock; that a live socket stays at its path, from the lock
  and from new inodes being new.
- `WebBridge_proofs`, for any browsers and requests: `ClientTheorem`,
  `EndsTheorem`, `ForcedTheorem`. `ConnectionsMatch` ties the count of connections to
  the states of net/http, `ShutdownMatches` says what each phase of the shutdown
  may rely on; force is used only for a browser because what waits for the daemon
  was cancelled before. `EndsAreAccounted` is inductive with them: what went wrong
  is compared with what is told and what is logged when the handler is over, and
  until then nothing has been told, so a cause that a report dropped would be missed.
- `OwonUsb_proofs`, for any sets of serials and buses and any number of
  acquisitions: `ResourcesTheorem`, `TrustTheorem`. The invariant says for each
  step of an acquisition which native objects it holds (`HoldingsMatch`), that
  every open object has exactly one owner in the program (`Owned`), and which proofs of
  the instrument's identity a step has (`ProofsMatch`).
- `OwonUsb_proofs`, for any instrument that keeps the assumptions of section 2, any
  sizes and any number of commands: `EndpointAnswersBelong`,
  `EndpointDecodesReference`, `EndpointStaysWithinBounds`. None of the three is inductive:
  that the last answer was right says nothing about the next one. `EndpointIInv`
  adds what can be on the wire at each place of an exchange (`StreamKnown`): nothing
  before a write; while an answer is read, the answer of this command or, for an
  identity query only, something of an earlier command that does not read as the
  identity (`Stale`). All of it is said of candidates without an imposter. A stale stream begins with the whole output of an old command, so no
  frame it starts with is the identity (`StaleIsNotIdentity`); an own one is exactly
  one answer, so the frame that ends a transfer is all of it (`AnswerIsWhole`). The drain's
  bound is `Counted`: no command is met twice, on the wire or among what is still
  to come, so a run of bytes of one command is no longer than its output (`Runs`), and a drain
  that exceeds the limit has met two.

  For the decoder, `Decoding` says what it holds of the bytes it was fed when it
  needs more, and `FeedFeeds` what one more `Feed` makes of it, for both framings:
  it needs more and has taken all, or it is complete with exactly the first frame of
  all bytes, or it refuses and no frame fits. With `FedReference` every read keeps
  `DecodedAs`, so the invariant carries the reference over any number of transfers.
  The value of a length prefix is a fold over its bytes; that it is a number at all
  needs induction, which is done by hand as in `SubscriptionStream_proofs`: a fold is
  characterized by its values on all subsets of the domain (`Folds`), and there is no
  smallest subset without one (`FoldExists`, `LittleEndianType`).
- `PollScheduler_proofs`, for any streams, weights, budget, window and age of the
  readings: `LineTheorem`, `OrderTheorem` and `WindowTheorem`. The line is a sequence
  without repetition of exactly the waiting polls; the slots do not overlap; the
  committed time is the end of the last slot; a waiter's timer ends no later than
  its turn. The window theorem follows from the second of these: a set of slots that
  do not overlap and lie between two points takes no longer than the points are
  apart (`ApartFits`: a smallest counterexample is split at one of its slots into
  those before and those after it), and a slot that begins before another one
  begins has ended by then.
- `RpcService_proofs`, for any clients, calls, slots, requests and firmware:
  `SlotsTheorem`, `ExcessTheorem` and `RefusalsTheorem`. The second is a pigeonhole: a
  client has at most one call that it has not given up, so slots that are full with
  fewer clients waiting hold a call that was given up. The third needs to know what
  is still ahead of an operation: `RefusalsAreEarly` says that a read which follows a
  write, or may, is one of those that cannot call the request wrong
  (`LooksFirst`), that a call which wrote has failed only in ways of
  `LateFailures`, and that one not yet past its exchanges has not failed. That every plan
  begins like this (`PlansAreSound`) is proved from the definitions of the
  operations and the dialect: whatever the patch, a compilation is a sequence of
  writes (`EncodedIsWrites`), the probe is read before them, and averaging is read back
  only if it was asked for.
- `RpcService_proofs`, for every request that is typed, whatever its values, and
  whatever an autoset finds: `PlansTheorem` and `AppliedTheorem`. An Auto is held to its
  plan like any call, but neither theorem says what it sets. That what a call reports as applied is applied is
  a statement about the tables and operators of `ControlDialect` and `ScreenHeader`
  and about the order of steps, and the proof has a part for each.

  Of one request: every present row of a table becomes exactly one write
  (`EncodedRows`: the writes are numbered by a rank, which is a bijection), so a plan
  writes what `Commanded` says, each setting once, reads averaging back after its last
  write, and reads the header only if it writes nothing (`PlansAreFaithful`, one
  lemma per operation).

  Of the steps: `PlansAreFollowed` is the inductive invariant. What is left of the
  exchanges is the end of the plan; what was exchanged is `Done`: the written
  settings are what was written, all others are what they were when the transaction began,
  and averaging, which the firmware may ignore, is set once it was read back; what a
  snapshot will answer is what the settings were. It needs `SlotsAccounted`, because
  only the holder of the transaction writes, and `RefusalsAreEarly`. A step that ends
  an operation without a failure finds nothing left of the plan
  (`SuccessIsFinished`), so everything `Commanded` took (`FinishedTook`).

  Of the way back: whatever a setting is and however the firmware spells it, the
  header that shows it parses, and `Report` is a function of the settings
  (`ReportReads`). With that, `AppliedHolds` compares the two states field by field:
  the token of a value reads as the value, a field that is absent leaves what was
  there, and no write of one subsystem is shown in another. `SnapshotsGoBack` goes
  round once more: the patch made of a snapshot compiles, and writes the settings
  that it was read from.
- `Controller_proofs`, for any callers, requests, waveforms, values and number of
  observations: `Invariance`, `SuccessTheorem`, `OutcomeTheorem`,
  `SettingsTheorem`. `IInv` is TypeOK, `StepsRelyOnRequest`, `InstrumentFollows` and
  `WritesAreReported`. `SuccessIsTrue` needs what the instrument is at each step of a
  barrier, because the verdict of the last observation speaks of writes that were
  made many steps earlier, and other callers wrote in between the operations.

- `SubscriptionStream_proofs`, for any streams, channels, sizes and limits:
  `Invariance`, `QueuesAreConsistent`, `BudgetIsCovered`, and then
  `LossesAreAccounted`, `EventsAreInOrder` and `EndsAreExplained`. The first invariant is what the
  queues hold and reserve (`FifoOK`), that a producer runs and a queue is filled only
  while the handler has a slot (`Lifecycle`), and what the producer carries
  between the two halves of an enqueue (`InFlight`). No wakeup is lost because of a
  fact that no single line of the code shows: a handler that waits without a token
  while a gap was just queued knows of an otherwise empty FIFO, so the waveform
  that follows the gap cannot be dropped for lack of room, which would have left
  the gap unannounced.

  The budget is a sum over functions, a fold. The library's induction theorems take
  an operator and cannot be used, so the lemmas of its first section do the
  induction by hand: a sum is characterized by the measure of all subsets
  (`Measure`), which exists because there is no smallest set without one
  (`SmallestSubset`, from the well-founded order of the subsets of a finite set), and
  the fold takes its value (`TotalIsMeasure`). From that follow what one changed,
  one added and one removed weight do to a sum (`TotalChanges`, `TotalAppended`,
  `TotalRemoved`), and from those what an append and a removal do to a queue.

  What a client is told cannot be proved one property at a time, because none of the
  three is inductive: whether a gap that is queued now leaves a hole depends on what
  the producer still carries; whether a state that is queued now comes in order, on
  how far its poll has got; and whether an end is explained, on everything that is
  queued when the producer fails. `Stories` is the strengthening that the
  steps preserve (`StoriesHold`), and it says for each stream which captures its
  poll has taken and must still take (`Captures`), which one is between two halves of an
  enqueue (`Carries`), that the captures of a channel are told, dropped, carried or
  the one that ended the stream (`Tells`, with the arithmetic of `Balance`), that
  everything told was produced no later than the producer has got (`Orders`), and
  what the end owes the client, from the producer's failure to the handler's return
  (`Ends`, `Answers`). Its proof has one lemma per action of a stream; that the
  steps of one stream leave the story of the others alone is
  `OthersOfProducer` and `OthersOfHandler`. Coalescing is the one step that takes an event
  out of the middle of a queue: it is an order preserving embedding (`Embeds`)
  that leaves out events that tell of no channel, and nothing that is told or ordered
  changes under one (`EmbeddedChains`, `EmbeddedOrder`). So no property is
  stated over filtered sequences, whose definition is recursive: what is told of a
  channel is read off the places of its events.

The assumptions are those of the modules: names that are no sentinels, positive
bounds, well-typed requests. TLC evaluates each on its run.

Only model-checked: liveness and fairness (`EveryCallReturns`, `EveryStreamEnds`,
`EveryPollIsGranted`, `EveryOperationReturns`, `EveryDaemonEnds`, `EverythingEnds`), which
the provers do not do. Every safety property of a passing run is the statement of a
theorem.

No run checks `NativeExclusion`, `ClosedIsFinal` and `ForcedOnlyByBrowsers`, which are
proved: `ImplementsDevice` says the first two as well, because `SerialDevice` has one
call in progress at a time and no step out of closed, and `ClientOutlivesHandlers` has
what the third one follows from.

## 6. Findings

`defaultMaximumSubscriptionPollWork`'s comment says that the server admits at
most 64 estimated transport commands per window (`subscription_scheduler.go:16`).
`scheduler_window` shows that it can admit more: a poll is granted as soon as the
slot before it has ended, and charges its whole weight from then on, so a heavy
poll that begins near the end of a window adds to what the window already
admitted. The bound that holds is `WindowBounded`: all but the last slot of a
window fit into it, so the excess is at most the weight of one poll.

`removeOwnedSocket` looks at the path and then removes it by name
(`unix_listener.go:236-247`). The comment at lines 180-182 says that replacement
paths are not owned by the instance; one that comes between the two calls is
removed all the same. This is a limit of the system call that no program can avoid, and
`LiveSocketStays` and `Ownership` say so: what they promise of the path is under
the condition that nothing foreign changed it. No run is spent on it.

Two remarks that no run needs. The comment on `GeneratorOutputCompensationUnverified`
(`pkg/owonmodel/generator_observation.go`) says that a caller's deadline can leave
the restoration unverified; `SetGeneratorObserved` sets that status after the
preflight and replaces it on every path that returns, by failed, not attempted
or verified. And a State request that includes the controls returns without the
meter range when only the exchange of that query failed, although the session is
then poisoned and the next operation pays for the recovery.

## 7. What is left to do

`RpcService` over `Controller`: today the two share their assumption about the
instrument by reading, not by refinement.

## 8. What is not modelled

- *Browser UI* (`pkg/owonweb/ui`): presentation in JavaScript. How a browser
  behaves toward the bridge is in `WebBridge`, where it may do anything.
- *Command line* (`cmd/owonctl`, `pkg/owonctl`): one call of the RPC client per
  process; flags, files and printing.
- *Logging, generated protobuf code*: configuration of a library, and no code of the
  repository's own.
- TCP endpoints with credentials and TLS: a listener without a path, a lock or
  cleanup; a failure to load the credentials is a failure of `Open` in `Daemon`.
- *Text*: byte contents of commands and formatting of numbers are left out of every
  model, and so are JSON renderings. A command is what it sets, a reply
  what a parser would find in it.
- *Real time*: it appears only in the poll scheduler; elsewhere a timeout is the end of a
  context at any moment.
- A *panic* in a native call ends the process; in `Daemon` it is a crash.
