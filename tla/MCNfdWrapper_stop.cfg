\* A service that stops NFD while its thread is starting or failing.
SPECIFICATION Spec
CONSTANT MaxStarts = 1
INVARIANT StopIsSafe
CHECK_DEADLOCK FALSE
