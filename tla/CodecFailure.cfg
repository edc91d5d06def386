SPECIFICATION Spec
CONSTANT Depth = 2
INVARIANT DecodeFailuresCounted
CHECK_DEADLOCK FALSE
