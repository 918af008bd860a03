------------------------- MODULE SubscriptionStream -------------------------
(***************************************************************************)
(* pkg/owonrpc/owonserver: the Subscribe streams of one server.            *)
(*                                                                         *)
(* Every stream has a producer goroutine, which polls the instrument, a    *)
(* bounded FIFO (subscriptionQueue) and a handler goroutine, which sends   *)
(* what it dequeues to the client. All queues charge what they hold to one *)
(* server-wide subscriptionBudget. A slow client loses state snapshots     *)
(* silently (a newer one replaces them) and waveforms audibly (a gap event *)
(* stands for them); the stream of a client that is too slow, or of an     *)
(* instrument that fails, ends with a terminal event and error.            *)
(*                                                                         *)
(* A step is one critical section of queue.mu, except that a section that  *)
(* changes the shared budget twice is two steps, between which other       *)
(* streams run and this queue stays locked (Locked). An event is its kind, *)
(* its channel (NoChannel for the events that have none), the first and    *)
(* the last capture sequence it tells of (the number of the poll for a     *)
(* state), and its charge.                                                 *)
(***************************************************************************)
EXTENDS Integers, Sequences, FiniteSets, SequencesExt

CONSTANTS
  Streams,           \* the Subscribe calls
  WaveformChannels,  \* request.WaveformChannels of each call, in the order requested
  Capacity,          \* queue.capacity: ordinary events
  MaximumCapacity,   \* MaximumSubscriptionCapacity: events of any kind
  Sizes,             \* the charges states, waveforms and errors can have
  EventBytes,        \* maximumSubscriptionEventBytes
  QueueBytes,        \* maximumSubscriptionBytes
  ServerBytes,       \* maximumServerSubscriptionBytes
  MaxSubscriptions,  \* what ServerConfig.MaxActiveSubscriptions may be
  MaxPolls           \* the bound on the polls of each producer

Channels == UNION {ToSet(WaveformChannels[s]) : s \in Streams}
NoChannel == 0
GapSize == 1

ASSUME SubscriptionAssumption ==
  /\ IsFiniteSet(Streams)
  /\ WaveformChannels \in [Streams -> Seq(Nat \ {NoChannel})]
  /\ \A s \in Streams : IsInjective(WaveformChannels[s])
  /\ Capacity \in Nat \ {0} /\ MaximumCapacity \in Nat /\ Capacity <= MaximumCapacity
  /\ MaximumCapacity > 1
  /\ Sizes \subseteq Nat \ {0}
  /\ MaxSubscriptions \subseteq Nat \ {0}
  /\ {EventBytes, QueueBytes, ServerBytes} \subseteq Nat \ {0}
  /\ MaxPolls \in [Streams -> Nat \ {0}]

VARIABLES
  limit,          \* the capacity of server.subscriptions, configured once
  slots,          \* server.subscriptions: the streams that hold a slot
  used,           \* subscriptionBudget.used
  cancelled,      \* the streams whose producerCtx is done
  rpc,            \* per stream: where the handler is
  outcome,        \* per stream: the errors the handler returns
  producer,       \* per stream: where the producer is
  poll,           \* per stream: the number of the poll
  remaining,      \* per stream: the channels the poll still has to capture
  capture,        \* per stream and channel: producer.waveformCapture
  captured,       \* per stream: the waveform on its way into the queue
  failure,        \* per stream: the error that ends the producer
  events,         \* per stream: queue.events
  bytes,          \* per stream: queue.bytes
  drops,          \* per stream and channel: queue.drops, NoDrop if absent
  finished,       \* the streams whose queue.finished is set
  terminal,       \* per stream: the errors joined in queue.terminal
  terminalEvent,  \* per stream: queue.terminalEvent, as a sequence
  terminalReady,  \* the streams whose queue.terminalReady is set
  notify,         \* the streams whose queue.notify holds a token
  published       \* per stream: the events dequeued so far, a history

rpcVars == <<limit, slots, cancelled, rpc, outcome>>
pollVars == <<poll, remaining, capture, captured, failure>>
fifoVars == <<used, events, bytes>>
terminalVars == <<finished, terminal, terminalEvent, terminalReady>>
vars == <<rpcVars, producer, pollVars, fifoVars, drops, terminalVars, notify,
          published>>

NoDrop == [first |-> 0, last |-> 0, count |-> 0]
StateEvent(n, size) ==
  [kind |-> "state", channel |-> NoChannel, first |-> n, last |-> n, size |-> size]
WaveformEvent(c, n, size) ==
  [kind |-> "waveform", channel |-> c, first |-> n, last |-> n, size |-> size]
ErrorEvent(size) ==
  [kind |-> "error", channel |-> NoChannel, first |-> 0, last |-> 0, size |-> size]
GapEvent(c, drop) ==
  [kind |-> "gap", channel |-> c, first |-> drop.first, last |-> drop.last,
   size |-> GapSize]

Critical(event) == event.kind \in {"gap", "error"}
IsState(event) == event.kind = "state"

\* What is counted over a queue, or over the queues of the server.
Total(weights) == FoldFunction(+, 0, weights)
Charge(queue) == Total([i \in DOMAIN queue |-> queue[i].size])
Ordinary(queue) == Total([i \in DOMAIN queue |-> IF Critical(queue[i]) THEN 0 ELSE 1])
AtMostOneState(queue) ==
  \A i, j \in DOMAIN queue : IsState(queue[i]) /\ IsState(queue[j]) => i = j

Errors == {"device", "canceled", "send", "exhausted", "backpressure",
           "tooLarge"}
HandlerStates == {"idle", "ready", "waiting", "sending", "stopping", "joining",
                  "closed", "ended"}
ProducerStates == {"new", "admission", "state", "coalesced", "capture",
                   "captured", "gapped", "sleeping", "failing", "done"}
Kinds == {"state", "waveform", "gap", "error"}
Events == [kind : Kinds, channel : Channels \cup {NoChannel}, first : Nat,
           last : Nat, size : Nat]

TypeOK ==
  /\ limit \in MaxSubscriptions
  /\ slots \in SUBSET Streams
  /\ used \in 0..ServerBytes
  /\ {cancelled, finished, terminalReady, notify} \subseteq SUBSET Streams
  /\ rpc \in [Streams -> HandlerStates]
  /\ outcome \in [Streams -> SUBSET Errors]
  /\ producer \in [Streams -> ProducerStates]
  /\ poll \in [Streams -> Nat]
  /\ remaining \in [Streams -> Seq(Channels)]
  /\ capture \in [Streams -> [Channels -> Nat]]
  /\ captured \in [Streams -> Seq(Events)]
  /\ failure \in [Streams -> SUBSET Errors]
  /\ events \in [Streams -> Seq(Events)]
  /\ \A s \in Streams : /\ Len(events[s]) <= MaximumCapacity
                        /\ Ordinary(events[s]) <= Capacity
                        /\ AtMostOneState(events[s])
  /\ bytes \in [Streams -> 0..QueueBytes]
  /\ drops \in [Streams -> [Channels -> [first : Nat, last : Nat, count : Nat]]]
  /\ terminal \in [Streams -> SUBSET Errors]
  /\ terminalEvent \in [Streams -> Seq(Events)]
  /\ published \in [Streams -> Seq(Events)]

Init ==
  /\ limit \in MaxSubscriptions
  /\ slots = {} /\ used = 0 /\ cancelled = {}
  /\ rpc = [s \in Streams |-> "idle"]
  /\ outcome = [s \in Streams |-> {}]
  /\ producer = [s \in Streams |-> "new"]
  /\ poll = [s \in Streams |-> 0]
  /\ remaining = [s \in Streams |-> <<>>]
  /\ capture = [s \in Streams |-> [c \in Channels |-> 0]]
  /\ captured = [s \in Streams |-> <<>>]
  /\ failure = [s \in Streams |-> {}]
  /\ events = [s \in Streams |-> <<>>]
  /\ bytes = [s \in Streams |-> 0]
  /\ drops = [s \in Streams |-> [c \in Channels |-> NoDrop]]
  /\ finished = {} /\ terminalReady = {} /\ notify = {}
  /\ terminal = [s \in Streams |-> {}]
  /\ terminalEvent = [s \in Streams |-> <<>>]
  /\ published = [s \in Streams |-> <<>>]

-----------------------------------------------------------------------------
(* The queue                                                               *)

\* queue.mu is held by the producer between the two halves of an enqueue.
Locked(s) == producer[s] \in {"coalesced", "gapped"}

\* The error of appendLocked, {} if the event is admitted. The refusal of a
\* critical event by the event count is the same error as that of an ordinary
\* one by queue.capacity.
AppendErrors(s, event) ==
  IF event.size > EventBytes \/ bytes[s] + event.size > QueueBytes
  THEN {"exhausted"}
  ELSE IF \/ Len(events[s]) >= MaximumCapacity
          \/ ~Critical(event) /\ Ordinary(events[s]) >= Capacity
  THEN {"backpressure"}
  ELSE IF event.size > ServerBytes - used THEN {"exhausted"} ELSE {}

\* Mutant: a state is put before the events that wait.
AppendEventStateFirst(s, event) ==
  /\ events' = [events EXCEPT ![s] =
                  IF event.kind = "state" THEN <<event>> \o @ ELSE Append(@, event)]
  /\ bytes' = [bytes EXCEPT ![s] = @ + event.size]
  /\ used' = used + event.size

AppendEvent(s, event) ==
  /\ events' = [events EXCEPT ![s] = Append(@, event)]
  /\ bytes' = [bytes EXCEPT ![s] = @ + event.size]
  /\ used' = used + event.size

\* Mutant: a later drop overwrites where the loss began.
RecordDropOverwriting(s, waveform) ==
  drops' = [drops EXCEPT ![s][waveform.channel] =
              [first |-> waveform.last, last |-> waveform.last, count |-> @.count + 1]]

\* recordDropLocked
RecordDrop(s, waveform) ==
  drops' = [drops EXCEPT ![s][waveform.channel] =
              [first |-> IF @ = NoDrop THEN waveform.last ELSE @.first,
               last |-> waveform.last,
               count |-> @.count + 1]]

HasDrop(s, c) == drops[s][c] # NoDrop
Signal(s) == notify' = notify \cup {s}

\* The producer's enqueue failed, or its instrument or its scheduler did: poll
\* returns the error and finishWithError is next.
Fails(s, errors) ==
  /\ producer' = [producer EXCEPT ![s] = "failing"]
  /\ failure' = [failure EXCEPT ![s] = errors]

-----------------------------------------------------------------------------
(* The producer                                                            *)

\* subscriptionPollScheduler.acquire: granted, cancelled while waiting, or
\* refused because the poll weighs more than the whole budget.
Admit(s) ==
  /\ producer[s] = "admission"
  /\ producer' = [producer EXCEPT ![s] = "state"]
  /\ UNCHANGED <<rpcVars, pollVars, fifoVars, drops, terminalVars, notify, published>>

AdmitRefused(s) ==
  /\ producer[s] = "admission"
  /\ \/ s \in cancelled /\ Fails(s, {"canceled"})
     \/ Fails(s, {"exhausted"})
  /\ UNCHANGED <<rpcVars, poll, remaining, capture, captured, fifoVars, drops,
                 terminalVars, notify, published>>

\* instrument.State or instrument.Waveform fails.
InstrumentFails(s) ==
  /\ producer[s] \in {"state", "capture"}
  /\ \/ s \in cancelled /\ Fails(s, {"canceled"})
     \/ Fails(s, {"device"})
  /\ UNCHANGED <<rpcVars, poll, remaining, capture, captured, fifoVars, drops,
                 terminalVars, notify, published>>

\* The first half of enqueueState: the pending state leaves the FIFO. An enqueue
\* on a finished queue is io.ErrClosedPipe; that this guard never fails is
\* SlotCoversStream, below.
PendingState(queue) == SelectInSeq(queue, IsState)
CoalesceState(s) ==
  /\ producer[s] = "state" /\ s \notin finished
  /\ producer' = [producer EXCEPT ![s] = "coalesced"]
  /\ IF PendingState(events[s]) = 0
     THEN UNCHANGED fifoVars
     ELSE LET size == events[s][PendingState(events[s])].size IN
          /\ events' = [events EXCEPT ![s] = RemoveAt(@, PendingState(events[s]))]
          /\ bytes' = [bytes EXCEPT ![s] = @ - size]
          /\ used' = used - size
  /\ UNCHANGED <<rpcVars, pollVars, drops, terminalVars, notify, published>>

\* The second half: the new state enters at the end.
AppendState(s) ==
  /\ producer[s] = "coalesced"
  /\ \E size \in Sizes :
       LET event == StateEvent(poll[s], size)
           errors == AppendErrors(s, event)
       IN \/ /\ errors = {}
             /\ AppendEvent(s, event)
             /\ Signal(s)
             /\ producer' = [producer EXCEPT ![s] = "capture"]
             /\ remaining' = [remaining EXCEPT ![s] = WaveformChannels[s]]
             /\ UNCHANGED failure
          \/ /\ errors # {}
             /\ Fails(s, errors)
             /\ UNCHANGED <<fifoVars, notify, remaining>>
  /\ UNCHANGED <<rpcVars, poll, capture, captured, drops, terminalVars, published>>

\* instrument.Waveform returned; producer.enqueueWaveform numbers the capture
\* and checks its size on the wire.
CaptureWaveform(s) ==
  /\ producer[s] = "capture" /\ remaining[s] # <<>>
  /\ \E size \in Sizes :
       LET c == Head(remaining[s])
           n == capture[s][c] + 1
       IN /\ capture' = [capture EXCEPT ![s][c] = n]
          /\ \/ /\ size <= EventBytes
                /\ captured' = [captured EXCEPT ![s] = <<WaveformEvent(c, n, size)>>]
                /\ producer' = [producer EXCEPT ![s] = "captured"]
                /\ UNCHANGED failure
             \/ /\ size > EventBytes
                /\ Fails(s, {"tooLarge"})
                /\ UNCHANGED captured
  /\ remaining' = [remaining EXCEPT ![s] = Tail(@)]
  /\ UNCHANGED <<rpcVars, poll, fifoVars, drops, terminalVars, notify, published>>

\* queue.enqueueWaveform, the gap that has to precede the waveform.
AppendGap(s) ==
  /\ producer[s] = "captured" /\ s \notin finished
  /\ LET waveform == Head(captured[s])
         c == waveform.channel
         gap == GapEvent(c, drops[s][c])
         errors == AppendErrors(s, gap)
     IN /\ HasDrop(s, c)
        /\ \/ /\ errors = {}
              /\ AppendEvent(s, gap)
              /\ drops' = [drops EXCEPT ![s][c] = NoDrop]
              /\ producer' = [producer EXCEPT ![s] = "gapped"]
              /\ UNCHANGED <<captured, failure>>
           \/ /\ errors # {}
              /\ RecordDrop(s, waveform)
              /\ captured' = [captured EXCEPT ![s] = <<>>]
              /\ Fails(s, errors)
              /\ UNCHANGED fifoVars
  /\ UNCHANGED <<rpcVars, poll, remaining, capture, terminalVars, notify, published>>

\* Mutant: an admitted waveform wakes nobody.
WaveformAdmittedSilently(s, waveform) ==
  /\ AppendEvent(s, waveform)
  /\ producer' = [producer EXCEPT ![s] = "capture"]
  /\ UNCHANGED notify

WaveformAdmitted(s, waveform) ==
  /\ AppendEvent(s, waveform)
  /\ producer' = [producer EXCEPT ![s] = "capture"]
  /\ Signal(s)

\* queue.enqueueWaveform, the waveform itself; a full queue drops it.
AppendWaveform(s) ==
  /\ \/ producer[s] = "captured" /\ s \notin finished
        /\ ~HasDrop(s, Head(captured[s]).channel)
     \/ producer[s] = "gapped"
  /\ LET waveform == Head(captured[s])
         errors == AppendErrors(s, waveform)
     IN \/ /\ errors = {}
           /\ WaveformAdmitted(s, waveform)
           /\ UNCHANGED <<drops, failure>>
        \/ /\ errors = {"backpressure"}
           /\ RecordDrop(s, waveform)
           /\ producer' = [producer EXCEPT ![s] = "capture"]
           /\ UNCHANGED <<fifoVars, notify, failure>>
        \/ /\ errors = {"exhausted"}
           /\ Fails(s, errors)
           /\ UNCHANGED <<fifoVars, notify, drops>>
  /\ captured' = [captured EXCEPT ![s] = <<>>]
  /\ UNCHANGED <<rpcVars, poll, remaining, capture, terminalVars, published>>

\* Run waits for its ticker; the client's cancellation, or MaxPolls, ends that.
NextPoll(s) ==
  /\ \/ producer[s] = "capture" /\ remaining[s] = <<>>
        /\ producer' = [producer EXCEPT ![s] = "sleeping"]
        /\ UNCHANGED poll
     \/ producer[s] = "sleeping" /\ poll[s] < MaxPolls[s]
        /\ producer' = [producer EXCEPT ![s] = "admission"]
        /\ poll' = [poll EXCEPT ![s] = @ + 1]
  /\ UNCHANGED <<rpcVars, remaining, capture, captured, failure, fifoVars, drops,
                 terminalVars, notify, published>>

\* Mutant: the handler is not told.
FinishSilently(s, event, errors) ==
  /\ finished' = finished \cup {s}
  /\ terminal' = [terminal EXCEPT ![s] = errors]
  /\ terminalEvent' = [terminalEvent EXCEPT ![s] = event]
  /\ producer' = [producer EXCEPT ![s] = "done"]
  /\ UNCHANGED <<rpcVars, pollVars, fifoVars, drops, terminalReady, notify, published>>

\* queue.finish, which nothing but the end of Run calls; the token of Run's
\* completion (done) is given in the same step.
Finish(s, event, errors) ==
  /\ finished' = finished \cup {s}
  /\ terminal' = [terminal EXCEPT ![s] = errors]
  /\ terminalEvent' = [terminalEvent EXCEPT ![s] = event]
  /\ producer' = [producer EXCEPT ![s] = "done"]
  /\ Signal(s)
  /\ UNCHANGED <<rpcVars, pollVars, fifoVars, drops, terminalReady, published>>

FinishWithError(s) ==
  /\ producer[s] = "failing"
  /\ \E size \in Sizes : Finish(s, <<ErrorEvent(size)>>, failure[s])

FinishCancelled(s) ==
  /\ producer[s] = "sleeping" /\ s \in cancelled
  /\ Finish(s, <<>>, {"canceled"})

Producer(s) ==
  \/ Admit(s) \/ AdmitRefused(s) \/ InstrumentFails(s)
  \/ CoalesceState(s) \/ AppendState(s)
  \/ CaptureWaveform(s) \/ AppendGap(s) \/ AppendWaveform(s)
  \/ NextPoll(s) \/ FinishWithError(s) \/ FinishCancelled(s)

-----------------------------------------------------------------------------
(* The handler                                                             *)

Handler(s, from, to) == rpc[s] = from /\ rpc' = [rpc EXCEPT ![s] = to]
Returns(s, errors) == outcome' = [outcome EXCEPT ![s] = errors]

\* Subscribe takes a slot, or is refused, and starts its producer.
Subscribe(s) ==
  /\ Cardinality(slots) < limit
  /\ Handler(s, "idle", "ready")
  /\ slots' = slots \cup {s}
  /\ producer' = [producer EXCEPT ![s] = "admission"]
  /\ poll' = [poll EXCEPT ![s] = 1]
  /\ UNCHANGED <<limit, cancelled, outcome, remaining, capture, captured, failure,
                 fifoVars, drops, terminalVars, notify, published>>

SubscribeRefused(s) ==
  /\ Cardinality(slots) >= limit
  /\ Handler(s, "idle", "ended")
  /\ Returns(s, {"exhausted"})
  /\ UNCHANGED <<limit, slots, cancelled, producer, pollVars, fifoVars, drops,
                 terminalVars, notify, published>>

\* prepareTerminalLocked: one gap at a time, lowest channel first, then the
\* terminal event. What it admits is dequeued in the same critical section;
\* what it cannot admit ends the stream.
PreparesTerminal(s) ==
  /\ rpc[s] = "ready" /\ ~Locked(s) /\ events[s] = <<>>
  /\ s \in finished \ terminalReady

\* Mutant: the refusal is not joined to the terminal error.
TerminalFailsSilently(s, errors) ==
  /\ terminalReady' = terminalReady \cup {s}
  /\ UNCHANGED <<fifoVars, terminal>>

TerminalFails(s, errors) ==
  /\ terminal' = [terminal EXCEPT ![s] = @ \cup errors]
  /\ terminalReady' = terminalReady \cup {s}
  /\ UNCHANGED fifoVars

PrepareGap(s) ==
  /\ PreparesTerminal(s)
  /\ \E c \in Channels :
       /\ HasDrop(s, c)
       /\ \A d \in Channels : HasDrop(s, d) => c <= d
       /\ LET gap == GapEvent(c, drops[s][c])
              errors == AppendErrors(s, gap)
          IN \/ /\ errors = {}
                /\ AppendEvent(s, gap)
                /\ drops' = [drops EXCEPT ![s][c] = NoDrop]
                /\ UNCHANGED <<terminal, terminalReady>>
             \/ /\ errors # {}
                /\ TerminalFails(s, errors)
                /\ UNCHANGED drops
  /\ UNCHANGED <<rpcVars, producer, pollVars, finished, terminalEvent, notify,
                 published>>

GapsReported(s) == \A c \in Channels : ~HasDrop(s, c)

PrepareTerminalEvent(s) ==
  /\ PreparesTerminal(s)
  /\ GapsReported(s)
  /\ \/ /\ terminalEvent[s] = <<>>
        /\ terminalReady' = terminalReady \cup {s}
        /\ UNCHANGED <<fifoVars, terminal, terminalEvent>>
     \/ /\ terminalEvent[s] # <<>>
        /\ LET event == Head(terminalEvent[s])
               errors == AppendErrors(s, event)
           IN \/ /\ errors = {}
                 /\ AppendEvent(s, event)
                 /\ terminalEvent' = [terminalEvent EXCEPT ![s] = <<>>]
                 /\ terminalReady' = terminalReady \cup {s}
                 /\ UNCHANGED terminal
              \/ /\ errors # {}
                 /\ TerminalFails(s, errors)
                 /\ UNCHANGED terminalEvent
  /\ UNCHANGED <<rpcVars, producer, pollVars, drops, finished, notify, published>>

\* nextReady removes the head of the FIFO, and its charge, and numbers it; its
\* publication sequence is its place in published, which forgets the charge.
Dequeue(s) ==
  /\ ~Locked(s) /\ events[s] # <<>>
  /\ Handler(s, "ready", "sending")
  /\ published' = [published EXCEPT ![s] = Append(@, [Head(events[s]) EXCEPT !.size = 0])]
  /\ events' = [events EXCEPT ![s] = Tail(@)]
  /\ bytes' = [bytes EXCEPT ![s] = @ - Head(events[s]).size]
  /\ used' = used - Head(events[s]).size
  /\ UNCHANGED <<limit, slots, cancelled, outcome, producer, pollVars, drops,
                 terminalVars, notify>>

\* nextReady has nothing left but the terminal error.
ReturnTerminal(s) ==
  /\ ~Locked(s) /\ events[s] = <<>> /\ s \in finished \cap terminalReady
  /\ Handler(s, "ready", "stopping")
  /\ Returns(s, terminal[s])
  /\ UNCHANGED <<limit, slots, cancelled, producer, pollVars, fifoVars, drops,
                 terminalVars, notify, published>>

\* nextReady has nothing: next waits for notify or for the context.
WaitForEvent(s) ==
  /\ ~Locked(s) /\ events[s] = <<>> /\ s \notin finished
  /\ Handler(s, "ready", "waiting")
  /\ UNCHANGED <<limit, slots, cancelled, outcome, producer, pollVars, fifoVars, drops,
                 terminalVars, notify, published>>

Notified(s) ==
  /\ s \in notify
  /\ Handler(s, "waiting", "ready")
  /\ notify' = notify \ {s}
  /\ UNCHANGED <<limit, slots, cancelled, outcome, producer, pollVars, fifoVars, drops,
                 terminalVars, published>>

WaitCancelled(s) ==
  /\ s \in cancelled
  /\ Handler(s, "waiting", "stopping")
  /\ Returns(s, {"canceled"})
  /\ UNCHANGED <<limit, slots, cancelled, producer, pollVars, fifoVars, drops,
                 terminalVars, notify, published>>

\* stream.Send returns once the client's flow control lets it, or fails.
SendReturns(s) ==
  /\ Handler(s, "sending", "ready")
  /\ UNCHANGED <<limit, slots, cancelled, outcome, producer, pollVars, fifoVars, drops,
                 terminalVars, notify, published>>

SendFails(s) ==
  /\ Handler(s, "sending", "stopping")
  /\ Returns(s, {"send"})
  /\ UNCHANGED <<limit, slots, cancelled, producer, pollVars, fifoVars, drops,
                 terminalVars, notify, published>>

\* Subscribe's deferred calls: cancel the producer and wait until it is done,
\* close the queue, give the slot back. The history ends with the queue.
CancelProducer(s) ==
  /\ Handler(s, "stopping", "joining")
  /\ cancelled' = cancelled \cup {s}
  /\ UNCHANGED <<limit, slots, outcome, producer, pollVars, fifoVars, drops,
                 terminalVars, notify, published>>

ProducerStopped(s) == producer[s] = "done"

\* Mutant: the charges of what is still queued stay in the budget.
ReleaseChargesNever(s) == UNCHANGED used

ReleaseCharges(s) == used' = used - bytes[s]

CloseQueue(s) ==
  /\ ProducerStopped(s)
  /\ Handler(s, "joining", "closed")
  /\ ReleaseCharges(s)
  /\ bytes' = [bytes EXCEPT ![s] = 0]
  /\ events' = [events EXCEPT ![s] = <<>>]
  /\ drops' = [drops EXCEPT ![s] = [c \in Channels |-> NoDrop]]
  /\ finished' = finished \cup {s}
  /\ terminalReady' = terminalReady \cup {s}
  /\ terminal' = [terminal EXCEPT ![s] = {}]
  /\ terminalEvent' = [terminalEvent EXCEPT ![s] = <<>>]
  /\ published' = [published EXCEPT ![s] = <<>>]
  /\ UNCHANGED <<limit, slots, cancelled, outcome, producer, pollVars, notify>>

ReleaseSlot(s) ==
  /\ Handler(s, "closed", "ended")
  /\ slots' = slots \ {s}
  /\ UNCHANGED <<limit, cancelled, outcome, producer, pollVars, fifoVars, drops,
                 terminalVars, notify, published>>

Serve(s) ==
  \/ PrepareGap(s) \/ PrepareTerminalEvent(s)
  \/ Dequeue(s) \/ ReturnTerminal(s) \/ WaitForEvent(s)
  \/ Notified(s) \/ WaitCancelled(s)
  \/ CancelProducer(s) \/ CloseQueue(s) \/ ReleaseSlot(s)

\* The client, its connection or the server's shutdown cancels the stream.
ClientCancels(s) ==
  /\ rpc[s] \notin {"idle", "ended"} /\ s \notin cancelled
  /\ cancelled' = cancelled \cup {s}
  /\ UNCHANGED <<limit, slots, rpc, outcome, producer, pollVars, fifoVars, drops,
                 terminalVars, notify, published>>

Finished ==
  /\ \A s \in Streams : rpc[s] = "ended"
  /\ UNCHANGED vars

Next ==
  \/ \E s \in Streams :
       \/ Subscribe(s) \/ SubscribeRefused(s)
       \/ Producer(s) \/ Serve(s) \/ SendReturns(s) \/ SendFails(s)
       \/ ClientCancels(s)
  \/ Finished

Spec == Init /\ [][Next]_vars

\* The goroutines run; the instrument and the scheduler answer; Send returns
\* when the stream's context is done, and may block forever until then.
SlowSpec ==
  /\ Spec
  /\ \A s \in Streams :
       /\ WF_vars(Producer(s))
       /\ WF_vars(Serve(s))
       /\ WF_vars(s \in cancelled /\ SendFails(s))

-----------------------------------------------------------------------------
(* Properties                                                              *)

\* What the client has been or will be sent, in order, unless the stream stops.
Reported(s) == published[s] \o events[s]
\* What the first n of these events report of a channel, and the last capture they
\* tell of.
Reports(history, c, n) == {i \in 1..n : history[i].channel = c}
ToldBy(history, c, n) ==
  IF Reports(history, c, n) = {} THEN 0 ELSE history[Max(Reports(history, c, n))].last
Told(s, c) == ToldBy(Reported(s), c, Len(Reported(s)))
Accounted(s, c) == IF HasDrop(s, c) THEN drops[s][c].last ELSE Told(s, c)
InHand(s, c) == captured[s] # <<>> /\ Head(captured[s]).channel = c
Open(s) == rpc[s] \notin {"closed", "ended"}

\* The server-wide budget is exactly what the queues hold, whatever streams are
\* coalesced, dequeued, failed or closed at the same time, so no release can
\* exceed it (the panic of subscriptionBudget.release).
BudgetExact ==
  /\ used = Total(bytes)
  /\ \A s \in Streams : bytes[s] = Charge(events[s])

\* No capture disappears: the waveforms and gaps a client is told of follow one
\* another without a hole or an overlap in the capture sequence, the pending
\* drop continues them, and what is not in any of them is on its way into the
\* queue or is the one capture whose own admission ended the stream.
LossAccounted ==
  \A s \in Streams : Open(s) => \A c \in Channels :
    LET history == Reported(s)
        drop == drops[s][c]
        lost == capture[s][c] - Accounted(s, c)
    IN /\ \A i \in Reports(history, c, Len(history)) :
            history[i].first = ToldBy(history, c, i - 1) + 1
       /\ HasDrop(s, c) => /\ drop.first = Told(s, c) + 1
                            /\ drop.count = drop.last - drop.first + 1
       /\ \/ lost = 0
          \/ lost = 1 /\ (InHand(s, c) \/ failure[s] \in {{"exhausted"}, {"tooLarge"}})

\* A poll takes the state, then the channels in the order in which they were requested.
Place(s, event) == SelectInSeq(WaveformChannels[s], LAMBDA c : c = event.channel)
ProducedBefore(s, a, b) ==
  a.last < b.last \/ (a.last = b.last /\ Place(s, a) < Place(s, b))
InProductionOrder(s) ==
  \A i, j \in DOMAIN Reported(s) :
    i < j /\ ~Critical(Reported(s)[i]) /\ ~Critical(Reported(s)[j]) =>
      ProducedBefore(s, Reported(s)[i], Reported(s)[j])
ErrorIsLast(s) ==
  \A i \in DOMAIN Reported(s) : Reported(s)[i].kind = "error" =>
    /\ i = Len(Reported(s))
    /\ \A c \in Channels : ~HasDrop(s, c)

\* A client sees what happened in the order in which it happened: states and
\* waveforms are published in production order (Subscribe's comment: state
\* coalescing never lets a newer state overtake an older waveform), and the
\* terminal ServiceError overtakes nothing: it is the last event of the stream,
\* and every loss was reported before it.
EventsInOrder ==
  \A s \in Streams : InProductionOrder(s) /\ (Open(s) => ErrorIsLast(s))

\* A handler that waits without a token in queue.notify has nothing to read; if
\* it has, the token is still to come, from the producer that holds the lock or
\* is about to finish.
NoLostWakeup ==
  \A s \in Streams :
    rpc[s] = "waiting" /\ s \notin notify =>
      \/ events[s] = <<>> /\ s \notin finished
      \/ producer[s] \in {"gapped", "failing"}

\* Both, with the bounds of the queue: the number of events and all three limits of
\* the bytes hold whatever is critical, coalesced or refused.
QueueConsistent == TypeOK /\ NoLostWakeup

\* A stream that ends with the error of its producer, and with no resource error
\* joined to it, told the client everything first: every capture, then the
\* ServiceError. What could not be told is never hidden behind a device error.
EndExplained ==
  \A s \in Streams :
    rpc[s] \in {"stopping", "joining"}
      /\ outcome[s] \in {{"device"}, {"backpressure"}, {"tooLarge"}} =>
      /\ published[s] # <<>> /\ Last(published[s]).kind = "error"
      /\ \A c \in Channels : ~HasDrop(s, c)
      /\ outcome[s] # {"tooLarge"} =>
           \A c \in Channels : Told(s, c) = capture[s][c]

\* A stream without a slot neither polls the instrument nor holds an event: the
\* number of slots bounds the producers and the queues of the server. And
\* io.ErrClosedPipe is out of reach: no producer enqueues on a finished queue,
\* since the handler closes it only after the producer is done.
SlotCoversStream ==
  /\ Cardinality(slots) <= limit
  /\ \A s \in Streams \ slots :
       producer[s] \in {"new", "done"} /\ events[s] = <<>> /\ bytes[s] = 0
  /\ \A s \in finished : producer[s] \notin {"state", "coalesced", "captured", "gapped"}

\* Both: what the server reserves, in bytes and in slots, is what its streams hold.
BudgetCovered == BudgetExact /\ SlotCoversStream

\* A stream whose client is gone, or whose handler gives up, ends and gives its
\* slot back, whatever its handler and its producer were waiting for, a Send that
\* never returns included. A stream whose client reads ends once its producer is
\* done.
EveryStreamEnds ==
  \A s \in Streams :
    /\ s \in cancelled \/ rpc[s] = "stopping" ~> rpc[s] = "ended"
    /\ WF_vars(SendReturns(s)) => (s \in finished ~> rpc[s] = "ended")

=============================================================================
