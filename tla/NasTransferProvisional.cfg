SPECIFICATION Spec
CONSTANTS
    Procs = {p1, p2}
    NoProc = none
    MaxRuns = 1
    MaxFaults = 0
PROPERTY MismatchWaitedOut
CHECK_DEADLOCK FALSE
