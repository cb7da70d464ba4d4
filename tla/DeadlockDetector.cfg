SPECIFICATION Spec
CONSTANT N = 2
PROPERTY NoDeadlockMeansNone
CHECK_DEADLOCK FALSE
