CONSTANTS
  Uuids = {u1, u2}
  NoTask = NoTask
  Submitted = {"import"}
  Limit = 5
  MaxCrashes = 1
  MaxFaults = 0
  MaxMutations = 1
SPECIFICATION Spec
INVARIANT ContinuationNotSpent
