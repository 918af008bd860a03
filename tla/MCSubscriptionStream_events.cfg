\* A stream of two channels, events of every size, one of them too large: every
\* admission of a state, a waveform, a gap or a terminal event can be refused, for
\* its bytes or for the number of events, and drops accumulate over the polls. The
\* client may stop reading.
SPECIFICATION SlowSpec
CONSTANTS
  Streams = {s1}
  WaveformChannels <- TwoChannels
  Capacity = 2
  MaximumCapacity = 3
  Sizes = {1, 3, 4}
  EventBytes = 3
  QueueBytes = 4
  ServerBytes = 5
  MaxSubscriptions = {1}
  MaxPolls <- ThreePolls
INVARIANTS
  QueueConsistent
  LossAccounted
  EventsInOrder
  EndExplained
PROPERTIES
  EveryStreamEnds
