CONSTANTS
  Uuids = {u1, u2, u3}
  NoTask = NoTask
  Submitted = {"autofill", "ingest"}
  Limit = 2
  MaxCrashes = 1
  MaxFaults = 1
  MaxMutations = 0
SPECIFICATION Spec
SYMMETRY TaskSymmetry
INVARIANTS EffectAtMostOnce BoundAfterParent
