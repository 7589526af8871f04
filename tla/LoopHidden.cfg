\* A loop that lists a parameter, used in one that does not pass it on.
SPECIFICATION Spec
INVARIANTS
  HiddenLikeTheRest
CHECK_DEADLOCK FALSE
