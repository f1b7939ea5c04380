SPECIFICATION Spec
CONSTANT UPROCMAX = 4
INVARIANT SupportsDistinct
CHECK_DEADLOCK FALSE
