SPECIFICATION Spec
CONSTANTS
    Ids = {s1, s2}
    MaxEdits = 3
    MaxLaunches = 2
INVARIANTS TypeOK RegisteredMatchesRow
PROPERTIES CurrentOnly EditsKept
