SPECIFICATION FairSpec
CONSTANTS
    Segments = 2
    Blocks = 2
    Conns = {c1, c2}
    Attempts = 2
    NoHash = none
INVARIANTS TypeOK CheckpointedOnDisk AcceptedComplete
PROPERTY DownloadReturns
