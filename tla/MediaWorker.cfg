SPECIFICATION MCSpec
CONSTANTS
    MaxMeddles = 1
    Works <- MCWorks
    Catalogue <- MCCatalogue
    Series = {1, 2}
    Resources = {"r1", "r2"}
    Provider <- MCProvider
    ShareMenu <- MCShareMenu
    Payloads <- MCPayloads
    Missing <- MCMissing
    MaxSeries = 2
    CandidateLimit = 2
    Items = {"i", "j", "k"}
    Movable = {"i", "j", "k"}
    Others = {"f"}
    Bytes <- MCBytes
    Canonical <- MCCanonical
    NoItem = "none"
    MaxRuns = 2
    Sources = {"a", "b", "d", "x"}
    Excluded = {"x"}
    Original <- MCOriginal
    Output <- MCOutput
    NoFile = "none"
    MaxChanges = 1
    MaxDrops = 1
    Entries = {1, 2}
    Names = {"a", "b"}
    Sizes = {1, 2}
    Selections <- MCSelections
    MaxEdits = 1
    MaxAdds = 1
INVARIANTS
    PartsTypeOK
    NothingLost
    EndsWhole
    
    RunAccounted
    IngestedTruly
    SavedAsSelected
PROPERTIES
    StaysPlayable
\* every task ends
CHECK_DEADLOCK FALSE
