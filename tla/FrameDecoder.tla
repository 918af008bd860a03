---------------------------- MODULE FrameDecoder ----------------------------
(***************************************************************************)
(* pkg/owonprotocol: FrameDecoder takes one response frame out of transfers *)
(* of any size: a line that ends in LF, or a little-endian length and as    *)
(* many payload bytes. A byte is its value and the number of the command    *)
(* whose answer it belongs to, which the decoder does not see.              *)
(***************************************************************************)
EXTENDS Integers, Sequences, SequencesExt

CONSTANTS
  MaximumBytes,  \* decoder.maximumBytes
  PrefixBytes,   \* len(decoder.prefix)
  Base,          \* the number of values a byte has
  LF, CR

ASSUME DecoderAssumption ==
  /\ MaximumBytes \in Nat \ {0} /\ PrefixBytes \in Nat \ {0} /\ Base \in Nat \ {0}
  /\ {LF, CR} \subseteq 0 .. Base - 1 /\ LF # CR

Bytes == [value : 0 .. Base - 1, of : Nat]
FrameModes == {"ascii", "lengthPrefixed"}
Decoders == [mode : FrameModes, prefix : Seq(Bytes), payload : Seq(Bytes),
             complete : BOOLEAN, tooLarge : BOOLEAN]

Smaller(a, b) == IF a <= b THEN a ELSE b
FirstLF(bytes) == SelectInSeq(bytes, LAMBDA byte : byte.value = LF)
LittleEndian(prefix) == FoldRight(LAMBDA byte, high : byte.value + Base * high, prefix, 0)

\* The line without its CR, if it ends in one.
WithoutCR(line) ==
  IF line # <<>> /\ Last(line).value = CR THEN Front(line) ELSE line

-----------------------------------------------------------------------------
(* The decoder                                                             *)

NewFrameDecoder(mode) ==
  [mode |-> mode, prefix |-> <<>>, payload |-> <<>>, complete |-> FALSE,
   tooLarge |-> FALSE]

\* Each Feed returns the decoder and how much of the fragment it consumed.
\* At most one byte more than the line may still hold is looked at: its LF.
FeedASCII(decoder, fragment) ==
  LET remaining == MaximumBytes - Len(decoder.payload)
      seen == SubSeq(fragment, 1, Smaller(Len(fragment), remaining + 1))
      lineEnd == FirstLF(seen)
      size == IF lineEnd > 0 THEN lineEnd - 1 ELSE Len(seen)
      line == decoder.payload \o SubSeq(seen, 1, size)
  IN CASE size > remaining ->
            [decoder |-> [decoder EXCEPT !.tooLarge = TRUE], consumed |-> size]
       [] size <= remaining /\ lineEnd = 0 ->
            [decoder |-> [decoder EXCEPT !.payload = line], consumed |-> size]
       [] size <= remaining /\ lineEnd > 0 ->
            [decoder |-> [decoder EXCEPT !.payload = WithoutCR(line), !.complete = TRUE],
             consumed |-> size + 1]

FeedLengthPrefixed(decoder, fragment) ==
  LET head == Smaller(PrefixBytes - Len(decoder.prefix), Len(fragment))
      prefix == decoder.prefix \o SubSeq(fragment, 1, head)
      length == LittleEndian(prefix)
      size == Smaller(Len(fragment) - head, length - Len(decoder.payload))
      payload == decoder.payload \o SubSeq(fragment, head + 1, head + size)
      started == [decoder EXCEPT !.prefix = prefix]
  IN CASE Len(prefix) < PrefixBytes -> [decoder |-> started, consumed |-> head]
       [] Len(prefix) = PrefixBytes /\ length > MaximumBytes ->
            [decoder |-> [started EXCEPT !.tooLarge = TRUE], consumed |-> head]
       [] Len(prefix) = PrefixBytes /\ length <= MaximumBytes ->
            [decoder |-> [started EXCEPT !.payload = payload,
                                         !.complete = Len(payload) = length],
             consumed |-> head + size]

\* Completion and terminal errors are sticky.
Feed(decoder, fragment) ==
  CASE decoder.complete \/ decoder.tooLarge -> [decoder |-> decoder, consumed |-> 0]
    [] ~decoder.complete /\ ~decoder.tooLarge /\ decoder.mode = "ascii" ->
         FeedASCII(decoder, fragment)
    [] ~decoder.complete /\ ~decoder.tooLarge /\ decoder.mode = "lengthPrefixed" ->
         FeedLengthPrefixed(decoder, fragment)

-----------------------------------------------------------------------------
(* The reference: what frame a sequence of bytes begins with, however it   *)
(* was cut into transfers.                                                 *)

\* The number of bytes of the first frame, if it is there.
FrameEnds(mode, bytes, n) ==
  CASE mode = "ascii" -> /\ n - 1 <= MaximumBytes
                         /\ bytes[n].value = LF
                         /\ \A m \in 1 .. n - 1 : bytes[m].value # LF
    [] mode = "lengthPrefixed" ->
         /\ n >= PrefixBytes
         /\ LittleEndian(SubSeq(bytes, 1, PrefixBytes)) = n - PrefixBytes
         /\ n - PrefixBytes <= MaximumBytes

FramePayload(mode, bytes, n) ==
  IF mode = "ascii" THEN WithoutCR(SubSeq(bytes, 1, n - 1))
                    ELSE SubSeq(bytes, PrefixBytes + 1, n)

NoFrameFits(mode, bytes) ==
  CASE mode = "ascii" -> /\ Len(bytes) > MaximumBytes
                         /\ \A m \in 1 .. MaximumBytes + 1 : bytes[m].value # LF
    [] mode = "lengthPrefixed" ->
         /\ Len(bytes) >= PrefixBytes
         /\ LittleEndian(SubSeq(bytes, 1, PrefixBytes)) > MaximumBytes

\* A decoder that was fed these bytes, in any fragments, has found their first
\* frame, has it complete exactly when it is, and refuses exactly what cannot fit.
DecodedAs(decoder, bytes) ==
  /\ decoder.tooLarge <=> NoFrameFits(decoder.mode, bytes)
  /\ decoder.complete <=> \E n \in DOMAIN bytes : FrameEnds(decoder.mode, bytes, n)
  /\ \A n \in DOMAIN bytes : FrameEnds(decoder.mode, bytes, n) =>
       decoder.payload = FramePayload(decoder.mode, bytes, n)

=============================================================================
