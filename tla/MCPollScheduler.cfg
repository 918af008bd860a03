\* Two streams that poll, are cancelled and are replaced for ever; one weight that
\* exceeds the budget, a window that the budget does not divide, readings up to
\* one tick old.
SPECIFICATION FairSpec
CONSTANTS
  Streams = {s1, s2}
  Weights = {1, 2, 3}
  Capacity = 2
  Window = 5
  MaxAge = 1
INVARIANTS
  LineConsistent
  WindowBounded
PROPERTIES
  GrantsInOrder
  EveryPollIsGranted
