CONSTANTS
  N = 3
  MaxPolls = 3
SPECIFICATION Spec
PROPERTY
  JoinSpec
