-------------------------- MODULE MCEndpointSession --------------------------
(* Bytes of four values, two-byte prefixes, payloads of up to two bytes. A line  *)
(* may be empty, end in CR LF, lack its LF, be too long or be the identity, which *)
(* a client may ask for; a waveform may be empty, hold an LF, be cut off, or be a *)
(* line of text.                                                                  *)
EXTENDS EndpointSession

MCAnswers ==
  [identity |-> {<<1, 3>>, <<1, 0, 0, 3>>},
   query |-> {<<1, 3>>, <<0, 3>>, <<0, 2, 3>>, <<3>>, <<0, 0, 0, 0>>},
   waveform |-> {<<0, 0>>, <<2, 0, 3, 1>>, <<0, 3>>, <<2, 0, 1>>}]
MCStrays == {<<0, 3>>, <<0, 0>>}
MCIdentity == <<1>>

\* The decoder against its reference, for every sequence of up to five bytes in
\* every cut into three transfers, surplus bytes included.
FeedTwice(first, fragment) ==
  LET second == Feed(first.decoder, fragment)
  IN [second EXCEPT !.consumed = @ + first.consumed]

ASSUME DecoderMatchesReference ==
  \A mode \in FrameModes, size \in 0 .. 5 :
    \A bytes \in [1 .. size -> [value : 0 .. 3, of : {0}]], i, j \in 0 .. size :
      i <= j =>
        LET first == Feed(NewFrameDecoder(mode), SubSeq(bytes, 1, i))
            second == FeedTwice(first, SubSeq(bytes, i + 1, j))
            fed == FeedTwice(second, SubSeq(bytes, j + 1, size))
        IN /\ DecodedAs(fed.decoder, bytes)
           /\ \A n \in 1 .. size : FrameEnds(mode, bytes, n) => fed.consumed = n

=============================================================================
