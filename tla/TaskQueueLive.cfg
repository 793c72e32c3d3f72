CONSTANTS
  Uuids = {u1}
  NoTask = NoTask
  Submitted = {"import", "effect"}
  Limit = 1
  MaxCrashes = 3
  MaxFaults = 0
  MaxMutations = 1
SPECIFICATION FairSpec
PROPERTY PendingSettles
