\* Two streams and the default way of spreading the budget over the window.
SPECIFICATION Spec
CONSTANTS
  Streams = {s1, s2}
  Weights = {1, 2, 3}
  Capacity = 3
  Window = 3
  MaxAge = 0
SYMMETRY Symmetry
INVARIANTS
  AtMostCapacityPerWindow
