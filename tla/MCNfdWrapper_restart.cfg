\* A service that starts NFD again without waiting for the last thread to end.
SPECIFICATION Spec
CONSTANT MaxStarts = 2
PROPERTY EveryStartRuns
CHECK_DEADLOCK FALSE
