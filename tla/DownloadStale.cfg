SPECIFICATION Spec
CONSTANTS
    Segments = 2
    Blocks = 1
    Conns = {c1, c2}
    Attempts = 1
    NoHash = none
INVARIANT AcceptedMatchesSource
