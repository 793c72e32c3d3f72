SPECIFICATION Spec
CONSTANTS
    Ids = {s1}
    MaxEdits = 1
    MaxLaunches = 2
PROPERTY LatestLaunchKept
