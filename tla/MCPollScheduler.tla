-------------------------- MODULE MCPollScheduler --------------------------
(* Instances of PollScheduler for TLC.                                     *)
EXTENDS PollScheduler, TLC

Symmetry == Permutations(Streams)

=============================================================================
