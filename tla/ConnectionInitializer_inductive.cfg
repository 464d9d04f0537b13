CONSTANTS
  N = 2
  MaxPolls = 5
SPECIFICATION Spec
INVARIANTS
  IInv
