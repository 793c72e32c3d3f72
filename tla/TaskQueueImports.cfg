CONSTANTS
  Uuids = {u1, u2}
  NoTask = NoTask
  Submitted = {"import"}
  Limit = 1
  MaxCrashes = 2
  MaxFaults = 0
  MaxMutations = 1
SPECIFICATION Spec
SYMMETRY TaskSymmetry
INVARIANTS TypeOK RunsAgree PendingRunnable NoOrphan MediaExclusive ShareSavedOnce ContinuationExists
PROPERTIES TerminalStable RefinesLifecycle
