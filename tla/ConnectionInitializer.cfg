CONSTANTS
  N = 2
  MaxPolls = 5
SPECIFICATION Spec
INVARIANTS
  CompleteOnlyIfAllSucceeded
PROPERTY
  NoPollAfterReady
