CONSTANTS
  N = 3
  Elem = {y, s1, s2}
  Yielder = y
  Sleepers = {s1, s2}
SPECIFICATION Spec
INVARIANT HoldsThePushed
