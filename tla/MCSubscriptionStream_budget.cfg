\* Two streams compete for the slots, and for a budget that the state of the second
\* one may fill. The first one coalesces its state, drops a waveform, puts a gap
\* before the next one or at its end, and is refused any of them, by its own limits
\* or for what the second one reserves between two steps.
SPECIFICATION Spec
CONSTANTS
  Streams = {s1, s2}
  WaveformChannels <- OneChannelOnFirst
  Capacity = 1
  MaximumCapacity = 2
  Sizes = {1, 2}
  EventBytes = 2
  QueueBytes = 2
  ServerBytes = 2
  MaxSubscriptions = {1, 2}
  MaxPolls <- TwoPollsOfFirst
INVARIANTS
  BudgetCovered
  EndExplained
