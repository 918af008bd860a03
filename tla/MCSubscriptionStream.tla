------------------------ MODULE MCSubscriptionStream ------------------------
(* Instances of SubscriptionStream for TLC.                                  *)
EXTENDS SubscriptionStream

\* Of two streams, one takes waveforms over two polls, and one a single state.
First == CHOOSE s \in Streams : TRUE
OneChannelOnFirst == [s \in Streams |-> IF s = First THEN <<1>> ELSE <<>>]
TwoPollsOfFirst == [s \in Streams |-> IF s = First THEN 2 ELSE 1]

\* Requested in the opposite of the order in which terminal gaps are reported.
TwoChannels == [s \in Streams |-> <<2, 1>>]
ThreePolls == [s \in Streams |-> 3]
=============================================================================
