\* Two operations of two commands each, one CloseContext call.
CONSTANTS
  Operations = {o1, o2}
  Commands = {k1, k2}
  Closers = {c1}
  Closing = Closing
  None = None
SYMMETRY Symmetry
SPECIFICATION Spec
INVARIANTS
  IInv
  ValidBeforeExchange
  CloseWaitsForNative
PROPERTIES
  OneMoreAtMost
  ImplementsDevice
