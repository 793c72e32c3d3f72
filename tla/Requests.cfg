SPECIFICATION MCSpec
CONSTANTS
    ApprovalIDs = {a1}
    Calls = {c1, c2}
    Files = {f1, f2}
    Paths = {1, 2, 3}
    Folder <- MCFolder
    Gone = 0
    NoApproval = NoApproval
    Ttl = 1
    MaxTime = 1
    Items = {i1, i2}
    NativeItems = {i2}
    MaxChanges = 3
    Fills = {t1, t2}
    MaxPolls = 3
    NoTask = NoTask
INVARIANTS
    PartsTypeOK
    ApprovalSpentOnce
    OriginalsOfDeleted
    ChangesCountedOnce
    OneFillUnderWay
PROPERTIES
    AnsweredTruly
    ChangesFlushed
\* the webhook service is over once it is closed
CHECK_DEADLOCK FALSE
