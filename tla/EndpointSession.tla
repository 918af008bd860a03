-------------------------- MODULE EndpointSession --------------------------
(***************************************************************************)
(* pkg/owonusb: endpointSession sends one command at a time over a pair of  *)
(* USB bulk endpoints and reads the frame that answers it. Nothing in the   *)
(* protocol says which command a byte answers. So a command that has no     *)
(* answer is followed by a quiet probe, and by another one before the next  *)
(* command; and when an exchange fails, owonsession discards the session,   *)
(* and its replacement drains what is queued and has the instrument         *)
(* identify itself before it is used (Backend.replaceAndValidate).          *)
(*                                                                         *)
(* The instrument is external: it takes commands in order and answers a     *)
(* query once, in whatever bytes, at any later time, or never; after a      *)
(* command without an answer it may send stray bytes. A probe cannot prove  *)
(* that nothing will come after it; what the instrument is trusted with is  *)
(* named where it is assumed (QuietBeforeCommand). After a drain nothing is  *)
(* assumed of it: an answer that was given up may come while the candidate  *)
(* is identified, and if it reads as the identity the candidate takes it    *)
(* for its own. A transfer takes any part of what is queued. Commands are   *)
(* numbered in the order in which they are tried, identity queries included.*)
(***************************************************************************)
EXTENDS FrameDecoder, FiniteSets

CONSTANTS
  Answers,        \* per kind of query: the value sequences that may answer it
  Strays,         \* what may follow a command that has no answer
  IdentityValues, \* the payload that ParseIdentity accepts and validates
  TransferBytes,  \* endpointReadBytes
  MaxCommands     \* the bound on the commands of a run

\* The kind "identity" is the query of a candidate; *IDN? as a command of a
\* controller or of a client is a "query" like any other.
Kinds == {"identity", "query", "waveform", "none"}
ModeOf(k) == IF k = "waveform" THEN "lengthPrefixed" ELSE "ascii"
Outputs(k) == IF k = "none" THEN Strays ELSE Answers[k]
Values(bytes) == [i \in DOMAIN bytes |-> bytes[i].value]
Tagged(values, n) == [i \in DOMAIN values |-> [value |-> values[i], of |-> n]]

\* One maximum length-prefixed frame.
DrainLimit == MaximumBytes + PrefixBytes

ASSUME EndpointAssumption ==
  /\ Answers \in [Kinds \ {"none"} -> SUBSET Seq(0 .. Base - 1)]
  /\ Strays \subseteq Seq(0 .. Base - 1)
  /\ IdentityValues \in Seq(0 .. Base - 1)
  /\ TransferBytes \in Nat \ {0} /\ MaxCommands \in Nat

\* What one command makes the instrument send fits a drain.
ASSUME OutputsFit ==
  \A k \in Kinds : \A values \in Outputs(k) : Len(values) <= DrainLimit

\* An answer is one frame, or none that can be read: no frame ends before it does.
ASSUME AnswersAreFrames ==
  \A k \in Kinds \ {"none"}, n \in 1 .. MaxCommands : \A values \in Answers[k] :
    \A m \in 1 .. Len(values) - 1 : ~FrameEnds(ModeOf(k), Tagged(values, n), m)

\* What begins as the identity does, or is a part of it.
IdentityLines == {IdentityValues \o <<LF>>, IdentityValues \o <<CR, LF>>}
ReadsAsIdentity(values) ==
  \E line \in IdentityLines : IsPrefix(values, line) \/ IsPrefix(line, values)

VARIABLES
  pending,     \* the instrument: answers it has not sent yet, with their command
  wire,        \* what it has sent and nobody has read
  number,      \* the number of the current command
  kind,        \* its kind
  place,       \* where the session is
  buffer,      \* session.buffer
  deferredEOF, \* session.deferredErr: a read has ended with EOF
  idleProbe,   \* session.needsIdleProbe
  decoder,     \* readResponse's decoder
  received,    \* what the current exchange has read, a history
  drained,     \* what the last drain has discarded
  imposter,    \* what comes first after the drain reads as the identity, a history
  answered     \* the last successful exchange of this candidate, a history

instrument == <<pending, wire>>
session == <<buffer, deferredEOF, idleProbe, decoder>>
histories == <<received, drained, imposter, answered>>
endpointVars == <<instrument, number, kind, place, session, histories>>

Places == {"down", "draining", "idle", "probing", "writing", "silence", "reading"}
NoAnswer == [number |-> 0, kind |-> "none", received |-> <<>>, payload |-> <<>>]

EndpointTypeOK ==
  /\ pending \in Seq([number : 1 .. MaxCommands, kind : Kinds, bytes : Seq(Bytes)])
  /\ wire \in Seq(Bytes)
  /\ number \in 0 .. MaxCommands /\ kind \in Kinds /\ place \in Places
  /\ buffer \in Seq(Bytes) /\ {deferredEOF, idleProbe} \subseteq BOOLEAN
  /\ decoder \in Decoders
  /\ received \in Seq(Bytes)
  /\ drained \in Seq(Bytes) /\ Len(drained) <= DrainLimit + TransferBytes
  /\ imposter \in BOOLEAN
  /\ answered \in [number : 0 .. MaxCommands, kind : Kinds, received : Seq(Bytes),
                   payload : Seq(Bytes)]

EndpointInit ==
  /\ pending = <<>> /\ wire = <<>>
  /\ number = 0 /\ kind = "identity" /\ place = "down"
  /\ buffer = <<>> /\ deferredEOF = FALSE /\ idleProbe = FALSE
  /\ decoder = NewFrameDecoder("ascii")
  /\ received = <<>> /\ drained = <<>>
  /\ imposter = FALSE /\ answered = NoAnswer

-----------------------------------------------------------------------------
(* The instrument                                                          *)

\* It takes the command: there may be something to come.
TakesCommand ==
  \/ UNCHANGED pending
  \/ \E values \in Outputs(kind) :
       pending' = Append(pending, [number |-> number, kind |-> kind,
                                  bytes |-> Tagged(values, number)])

Emit ==
  /\ pending # <<>>
  /\ wire' = wire \o Head(pending).bytes
  /\ pending' = Tail(pending)
  /\ UNCHANGED <<number, kind, place, session, histories>>

\* A probe is quiet if nothing is queued. That is all it can say after a command
\* that has no answer.
QuietAfterCommand == wire = <<>>

\* Assumed: stray bytes come before the end of the next command's probe.
QuietBeforeCommand == wire = <<>> /\ pending = <<>>

\* Answers that were given up may come after the drain of the next candidate.
QuietAfterDrain == wire = <<>>
OutlivesDrain == pending # <<>> /\ ReadsAsIdentity(Values(Head(pending).bytes))

-----------------------------------------------------------------------------
(* One transfer                                                            *)

\* ReadContext returns some of what is queued.
Transfer(n) ==
  /\ n \in 1 .. Smaller(TransferBytes, Len(wire))
  /\ wire' = SubSeq(wire, n + 1, Len(wire))
  /\ UNCHANGED pending

Chunk(n) == SubSeq(wire, 1, n)

\* It fails, with an invalid count, no progress, the end of the caller's context or
\* any error of the endpoint; what it had read is lost.
TransferFails ==
  \/ UNCHANGED instrument
  \/ \E n \in DOMAIN wire : Transfer(n)

\* The error return of an exchange or of a drain: owonsession poisons itself, or
\* replaceAndValidate rejects the candidate.
SessionFails == place' = "down"

-----------------------------------------------------------------------------
(* replaceAndValidate                                                      *)

\* A new candidate has a new endpoint session.
Reopen ==
  /\ place = "down" /\ number < MaxCommands
  /\ place' = "draining"
  /\ buffer' = <<>> /\ deferredEOF' = FALSE /\ idleProbe' = FALSE
  /\ drained' = <<>> /\ received' = <<>> /\ answered' = NoAnswer
  /\ UNCHANGED <<instrument, number, kind, decoder, imposter>>

\* Mutant: the limit leaves out the length prefix.
WithinDrainLimitPayload(bytes) == Len(bytes) <= MaximumBytes

WithinDrainLimit(bytes) == Len(bytes) <= DrainLimit

DrainTransfer ==
  /\ place = "draining"
  /\ \E n \in DOMAIN wire :
       /\ Transfer(n)
       /\ drained' = drained \o Chunk(n)
  /\ place' = IF WithinDrainLimit(drained') THEN "draining" ELSE "down"
  /\ UNCHANGED <<number, kind, session, received, imposter, answered>>

\* The probe's own deadline ends the drain; the identity is asked for.
DrainQuiet ==
  /\ place = "draining" /\ QuietAfterDrain
  /\ number' = number + 1 /\ kind' = "identity"
  /\ place' = "writing"
  /\ imposter' = OutlivesDrain
  /\ UNCHANGED <<instrument, session, received, drained, answered>>

DrainFails ==
  /\ place = "draining"
  /\ TransferFails
  /\ SessionFails
  /\ UNCHANGED <<number, kind, session, histories>>

-----------------------------------------------------------------------------
(* Exchange                                                                *)

\* Exchange takes the command, unless something is left over.
BeginExchange(k) ==
  /\ place = "idle" /\ number < MaxCommands
  /\ number' = number + 1 /\ kind' = k
  /\ received' = <<>>
  /\ place' = CASE buffer # <<>> \/ deferredEOF -> "down"
               [] buffer = <<>> /\ ~deferredEOF /\ idleProbe -> "probing"
               [] buffer = <<>> /\ ~deferredEOF /\ ~idleProbe -> "writing"
  /\ UNCHANGED <<instrument, session, drained, imposter, answered>>

\* verifyNoResponse before the command.
ProbeQuiet ==
  /\ place = "probing" /\ QuietBeforeCommand
  /\ idleProbe' = FALSE
  /\ place' = "writing"
  /\ UNCHANGED <<instrument, number, kind, buffer, deferredEOF, decoder, histories>>

Write ==
  /\ place = "writing"
  /\ TakesCommand
  /\ place' = IF kind = "none" THEN "silence" ELSE "reading"
  /\ decoder' = NewFrameDecoder(ModeOf(kind))
  /\ UNCHANGED <<wire, number, kind, buffer, deferredEOF, idleProbe, histories>>

\* writeAll fails; the instrument may have the whole command.
WriteFails ==
  /\ place = "writing"
  /\ TakesCommand
  /\ SessionFails
  /\ UNCHANGED <<wire, number, kind, session, histories>>

Answered(payload) ==
  answered' = [number |-> number, kind |-> kind, received |-> received', payload |-> payload]

\* Mutant: the quiet probe before the next command is not asked for.
NeedsIdleProbeNever == FALSE

NeedsIdleProbe == TRUE

\* verifyNoResponse after the command.
SilenceObserved ==
  /\ place = "silence" /\ QuietAfterCommand
  /\ idleProbe' = NeedsIdleProbe
  /\ place' = "idle"
  /\ UNCHANGED received /\ Answered(<<>>)
  /\ UNCHANGED <<instrument, number, kind, buffer, deferredEOF, decoder, drained, imposter>>

\* Bytes, and every other end of a read, fail either probe.
ProbeFails ==
  /\ place \in {"probing", "silence"}
  /\ TransferFails
  /\ SessionFails
  /\ UNCHANGED <<number, kind, session, histories>>

\* Mutant: bytes behind the frame are dropped.
UnconsumedDropped(chunk, consumed) == <<>>

Unconsumed(chunk, consumed) == SubSeq(chunk, consumed + 1, Len(chunk))

\* The identity must be that of the instrument that was selected.
Accepted(payload) == kind = "identity" => Values(payload) = IdentityValues

\* readResponse takes one transfer and feeds it. EOF with bytes ends the session
\* only for the next read.
Receive ==
  /\ place = "reading" /\ ~deferredEOF
  /\ \E n \in DOMAIN wire :
       /\ Transfer(n)
       /\ received' = received \o Chunk(n)
       /\ LET fed == Feed(decoder, Chunk(n))
              rest == Unconsumed(Chunk(n), fed.consumed)
              ok == fed.decoder.complete /\ rest = <<>> /\ Accepted(fed.decoder.payload)
          IN /\ decoder' = fed.decoder
             /\ buffer' = rest
             /\ \/ /\ ok
                   /\ place' = "idle" /\ Answered(fed.decoder.payload)
                \/ /\ ~ok /\ (fed.decoder.complete \/ fed.decoder.tooLarge)
                   /\ SessionFails /\ UNCHANGED answered
                \/ /\ ~fed.decoder.complete /\ ~fed.decoder.tooLarge
                   /\ UNCHANGED <<place, answered>>
  /\ deferredEOF' \in BOOLEAN
  /\ UNCHANGED <<number, kind, idleProbe, drained, imposter>>

\* fill returns an error: a new one, or the deferred one.
ReadFails ==
  /\ place = "reading"
  /\ IF deferredEOF THEN UNCHANGED instrument ELSE TransferFails
  /\ SessionFails
  /\ UNCHANGED <<number, kind, session, histories>>

CommandsDone == number = MaxCommands /\ place \in {"down", "idle"} /\ UNCHANGED endpointVars

EndpointNext ==
  \/ Emit
  \/ Reopen \/ DrainTransfer \/ DrainQuiet \/ DrainFails
  \/ \E k \in Kinds \ {"identity"} : BeginExchange(k)
  \/ ProbeQuiet \/ ProbeFails \/ Write \/ WriteFails
  \/ SilenceObserved \/ Receive \/ ReadFails
  \/ CommandsDone

EndpointSpec == EndpointInit /\ [][EndpointNext]_endpointVars

-----------------------------------------------------------------------------
(* Properties                                                              *)

\* An exchange that succeeds has read the whole answer to its own command and
\* nothing else, whatever was given up, came late or came in pieces before; one
\* without an answer has read nothing (endpoint_session.go:223-249, 257-289). The
\* one exception is a candidate whose drain was outlived by something that reads
\* as the identity, such as the answer to a *IDN? that was given up: the drain is
\* no barrier (docs/usb-protocol.md:152-160), and nothing else gets through it.
AnswersBelong ==
  answered # NoAnswer /\ ~imposter =>
    /\ \A i \in DOMAIN answered.received : answered.received[i].of = answered.number
    /\ answered.kind = "none" => answered.received = <<>>
    /\ answered.kind # "none" => Values(answered.received) \in Answers[answered.kind]

\* However a frame is cut into transfers, the decoder finds it, refuses exactly what
\* cannot fit, and leaves the bytes behind it in the buffer, where they fail the
\* exchange (frame_decoder.go:61-169, endpoint_session.go:244-249, 362-382).
DecodesReference ==
  /\ place = "reading" \/ (place = "idle" /\ answered.kind # "none") =>
       DecodedAs(decoder, received)
  /\ place = "down" /\ decoder.complete =>
       \A n \in DOMAIN received : FrameEnds(decoder.mode, received, n) =>
         buffer = SubSeq(received, n + 1, Len(received))

\* One abandoned answer that fits the limits never makes the drain of the next
\* candidate overflow (endpoint_session.go:134-135, 164-172).
OverflowMeansExcess ==
  ~WithinDrainLimit(drained) =>
    Cardinality({drained[i].of : i \in DOMAIN drained}) > 1

\* With the bounds of the buffers and of what is read at once.
WithinBounds == EndpointTypeOK /\ OverflowMeansExcess

=============================================================================
