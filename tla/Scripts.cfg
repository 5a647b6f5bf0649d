SPECIFICATION Spec
INVARIANTS OnlyTheCircle InOrder UpdatesKept
PROPERTIES Termination
CHECK_DEADLOCK FALSE
