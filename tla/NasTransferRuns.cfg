SPECIFICATION FairSpec
CONSTANTS
    Procs = {p1, p2}
    NoProc = none
    MaxRuns = 3
    MaxFaults = 2
INVARIANTS TypeOK VerifiedHeld
PROPERTIES SpoolKept ForeignKept RunReturns
CHECK_DEADLOCK FALSE
