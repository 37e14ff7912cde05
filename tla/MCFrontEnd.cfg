CONSTANTS
  Caller = {a, b}
  Key = {k1, k2}
  Channel = {smtp}
  Max = 2
  Rate = 2
  Minute = 3
  Window = 2
  MaxTracked = 1
  MaxEra = 1
  MaxTime = 4
SPECIFICATION Spec
INVARIANTS
  OncePerWindow
  RateBounded
SYMMETRY Symmetry
