---------------------------- MODULE Replacement ----------------------------
(***************************************************************************)
(* The replacement of a series by a completed pack                         *)
(* (internal/service/replacement.go, replacement_state.go,                 *)
(* replacement_mount.go): a second root is staged beside the old one,      *)
(* verified in Emby, and takes its place: the old 115 root moves to a      *)
(* quarantine, the old STRM tree to a backup, and what users have watched  *)
(* is put back on the new items. Any error rolls back, and the run that    *)
(* started the replacement rolls back once more before it ends.            *)
(*                                                                         *)
(* Every provider call may fail before or after it took effect. The        *)
(* process may stop anywhere; nothing resumes a cutover, so what is on 115 *)
(* and on disk must be enough to repair it by hand. Emby scans on its own. *)
(* A user may move one of the two roots away meanwhile.                    *)
(***************************************************************************)
EXTENDS Naturals

CONSTANTS MaxMeddles    \* bound on the roots users move away

ASSUME MeddlesAssumption == MaxMeddles \in Nat

VARIABLES
    \* 115
    oldRoot,        \* where OldCID is: canonical, quarantine, elsewhere
    newRoot,        \* NewCID: none, staged, canonical, elsewhere, recycled
    \* the disk
    strm,           \* the tree under the series' STRM path: old, new, empty, none
    backup,         \* BackupDir/strm holds the old tree
    newStrm,        \* the STRM root of the staged series exists
    snapshot,       \* state.json was written
    \* Emby
    items,          \* the tree the items at the series' path were made from
    marks,          \* those items carry what users have watched
    \* completedPackReplacement
    newCID,         \* NewCID is set
    saved,          \* States hold what users have watched
    cutover, finalized, rolledBack, ownCanonical,
    rpc,            \* where the replacement is
    rollbacks,      \* rollbacks a failure would lead to
    meddles

cloud == <<oldRoot, newRoot>>
disk == <<strm, backup, newStrm, snapshot>>
emby == <<items, marks>>
record == <<newCID, saved, cutover, finalized, rolledBack, ownCanonical>>
vars == <<cloud, disk, emby, record, rpc, rollbacks, meddles>>

Forward == {"mkdir", "receive", "staged", "verify", "save", "persist", "recheck",
            "move", "rename", "mount", "backup", "canonical", "unstage", "sync",
            "scan", "check", "restore", "finish"}
Backward == {"locate", "unname", "unmove", "unbackup", "relist", "recycle",
             "clean", "rescan", "unrestore"}

TypeOK ==
    /\ oldRoot \in {"canonical", "quarantine", "elsewhere"}
    /\ newRoot \in {"none", "staged", "canonical", "elsewhere", "recycled"}
    /\ strm \in {"old", "new", "empty", "none"} /\ items \in {"old", "new", "none"}
    /\ {backup, newStrm, snapshot, marks, newCID, saved, cutover, finalized,
        rolledBack, ownCanonical} \subseteq BOOLEAN
    /\ rpc \in Forward \cup Backward \cup {"start", "failed", "end"}
    /\ rollbacks \in 0..2 /\ meddles \in 0..MaxMeddles
    /\ ~(finalized /\ rolledBack)

Init ==
    /\ oldRoot = "canonical" /\ newRoot = "none"
    /\ strm = "old" /\ backup = FALSE /\ newStrm = FALSE /\ snapshot = FALSE
    /\ items = "old" /\ marks = TRUE
    /\ newCID = FALSE /\ saved = FALSE /\ cutover = FALSE /\ finalized = FALSE
    /\ rolledBack = FALSE /\ ownCanonical = FALSE
    /\ rpc = "start" /\ rollbacks = 1 /\ meddles = 0

\* replacementFolderIs: the CID has the name, and nothing else in that parent.
OldIsCanonical == oldRoot = "canonical" /\ newRoot # "canonical"
NewIsCanonical == newRoot = "canonical" /\ oldRoot # "canonical"

Goto(from, to) == rpc = from /\ rpc' = to

\* A provider call: it answers success, or an error that may hide its effect.
ProviderCall(from, to, effect, none) ==
    /\ rpc = from
    /\ \/ rpc' = to /\ effect
       \/ rpc' = "failed" /\ (effect \/ none)

-----------------------------------------------------------------------------
(* stageCompletedPack.                                                     *)

MkdirSTRM ==
    /\ Goto("start", "mkdir") /\ newStrm' = TRUE
    /\ UNCHANGED <<cloud, strm, backup, snapshot, emby, record, rollbacks, meddles>>

\* createReplacementFolder gives NewCID only when the listings before and
\* after the mkdir agree that the folder is new.
CreateReplacementFolder ==
    /\ rpc = "mkdir"
    /\ \/ rpc' = "receive" /\ newRoot' = "staged" /\ newCID' = TRUE
       \/ rpc' = "failed" /\ newRoot' \in {"none", "staged"} /\ UNCHANGED newCID
    /\ UNCHANGED <<oldRoot, disk, emby, saved, cutover, finalized, rolledBack,
                   ownCanonical, rollbacks, meddles>>

\* The pack is received into NewCID, covers every expected episode on the
\* mount, is synchronised and scanned as a second series, and checked.
Receive ==
    /\ Goto("receive", "staged")
    /\ UNCHANGED <<cloud, disk, emby, record, rollbacks, meddles>>
AutoFillChecks ==
    /\ Goto("staged", "verify") /\ rollbacks' = 2
    /\ UNCHANGED <<cloud, disk, emby, record, meddles>>

-----------------------------------------------------------------------------
(* finalizeCompletedPack.                                                  *)

\* Emby must own both series; what users have watched is read from the items.
SnapshotReplacementState ==
    /\ Goto("verify", "save") /\ items = "old" /\ OldIsCanonical /\ newRoot = "staged"
    /\ saved' = marks
    /\ UNCHANGED <<cloud, disk, emby, newCID, cutover, finalized, rolledBack,
                   ownCanonical, rollbacks, meddles>>

\* BackupDir and the quarantine folder are made.
CreateQuarantine ==
    /\ Goto("save", "persist")
    /\ UNCHANGED <<cloud, disk, emby, record, rollbacks, meddles>>

\* Mutant of Persisted: the snapshot is written when the cutover is over.
PersistedLater == snapshot
Persisted == TRUE

PersistReplacementSnapshot ==
    /\ Goto("persist", "recheck") /\ snapshot' = Persisted
    /\ UNCHANGED <<cloud, strm, backup, newStrm, emby, record, rollbacks, meddles>>

\* Both series again, no playback, a real canonical STRM directory.
StartCutover ==
    /\ Goto("recheck", "move") /\ items = "old" /\ strm = "old" /\ cutover' = TRUE
    /\ UNCHANGED <<cloud, disk, emby, newCID, saved, finalized, rolledBack,
                   ownCanonical, rollbacks, meddles>>

MoveOld ==
    /\ ProviderCall("move", "rename",
          oldRoot' = "quarantine", UNCHANGED oldRoot)
    /\ UNCHANGED <<newRoot, disk, emby, record, rollbacks, meddles>>

RenameNew ==
    /\ ProviderCall("rename", "mount",
          newRoot' = (IF newRoot = "staged" THEN "canonical" ELSE newRoot),
          UNCHANGED newRoot)
    /\ UNCHANGED <<oldRoot, disk, emby, record, rollbacks, meddles>>

\* waitForReplacementMount: the mount shows the staged files at the canonical path.
WaitForReplacementMount ==
    /\ Goto("mount", "backup") /\ newRoot = "canonical"
    /\ UNCHANGED <<cloud, disk, emby, record, rollbacks, meddles>>

BackupSTRM ==
    /\ Goto("backup", "canonical") /\ strm' = "none" /\ backup' = TRUE
    /\ UNCHANGED <<cloud, newStrm, snapshot, emby, record, rollbacks, meddles>>

CreateCanonicalSTRM ==
    /\ rpc = "canonical" /\ strm' = "empty"
    /\ \/ rpc' = "unstage" /\ ownCanonical' = TRUE
       \/ rpc' = "failed" /\ UNCHANGED ownCanonical
    /\ UNCHANGED <<cloud, backup, newStrm, snapshot, emby, newCID, saved, cutover,
                   finalized, rolledBack, rollbacks, meddles>>

RemoveNewSTRM ==
    /\ Goto("unstage", "sync") /\ newStrm' = FALSE
    /\ UNCHANGED <<cloud, strm, backup, snapshot, emby, record, rollbacks, meddles>>

\* SyncSTRM fills the canonical directory; a failure may leave part of it.
SyncCanonical ==
    /\ rpc = "sync"
    /\ \/ rpc' = "scan" /\ strm' = "new"
       \/ rpc' = "failed" /\ strm' \in {"empty", "new"}
    /\ UNCHANGED <<cloud, backup, newStrm, snapshot, emby, record, rollbacks, meddles>>

\* What a library scan makes of the series' path: items of another tree are
\* new items, and what users had watched went with the old ones.
Scanned ==
    LET found == IF strm \in {"old", "new"} THEN strm ELSE "none"
    IN items' = found /\ marks' = (marks /\ found = items)

RunLibraryScan ==
    /\ Goto("scan", "check") /\ Scanned
    /\ UNCHANGED <<cloud, disk, record, rollbacks, meddles>>

VerifyReplacementSeries ==
    /\ Goto("check", "restore") /\ items = "new"
    /\ UNCHANGED <<cloud, disk, emby, record, rollbacks, meddles>>

\* Mutant of RestoredMarks: the items are taken to have kept what was watched.
KeptMarks == marks
\* What users have watched, after the saved states were written to the items.
RestoredMarks == saved

RestoreReplacementState ==
    /\ Goto("restore", "finish") /\ items = "new" /\ marks' = RestoredMarks
    /\ UNCHANGED <<cloud, disk, items, record, rollbacks, meddles>>

Finish ==
    /\ Goto("finish", "end") /\ finalized' = TRUE
    /\ UNCHANGED <<cloud, disk, emby, newCID, saved, cutover, rolledBack,
                   ownCanonical, rollbacks, meddles>>

\* Any step before the last may fail, and then nothing of it has happened.
StepFails ==
    /\ rpc \in Forward \cup Backward /\ rpc' = "failed"
    /\ UNCHANGED <<cloud, disk, emby, record, rollbacks, meddles>>

-----------------------------------------------------------------------------
(* rollbackCompletedPack: once after a failed staging, once by the cleanup *)
(* of runSeriesAutoFill when its checks fail, and twice, by both, after a  *)
(* failed cutover.                                                         *)

StartRollback ==
    /\ rpc = "failed"
    /\ IF rollbacks = 0
       THEN rpc' = "end" /\ UNCHANGED rollbacks
       ELSE /\ rpc' = (IF cutover THEN "locate" ELSE "relist")
            /\ rollbacks' = rollbacks - 1
    /\ UNCHANGED <<cloud, disk, emby, record, meddles>>

LocatedOld == OldIsCanonical \/ oldRoot = "quarantine"

Locate ==
    /\ Goto("locate", "unname")
    /\ LocatedOld /\ (newCID => NewIsCanonical \/ newRoot = "staged")
    /\ UNCHANGED <<cloud, disk, emby, record, rollbacks, meddles>>

RenameBack ==
    /\ ProviderCall("unname", "unmove",
          newRoot' = (IF newCID /\ NewIsCanonical THEN "staged" ELSE newRoot),
          UNCHANGED newRoot)
    /\ UNCHANGED <<oldRoot, disk, emby, record, rollbacks, meddles>>

MoveBack ==
    /\ ProviderCall("unmove", "unbackup",
          oldRoot' = (IF oldRoot = "quarantine" THEN "canonical" ELSE oldRoot),
          UNCHANGED oldRoot)
    /\ UNCHANGED <<newRoot, disk, emby, record, rollbacks, meddles>>

\* The canonical tree is removed when this replacement made it, and the backup
\* takes its place, unless a directory is still there; a backup that is not
\* there is left alone.
RestoreSTRM ==
    /\ rpc = "unbackup"
    /\ \/ /\ backup /\ (strm = "none" \/ ownCanonical) /\ rpc' = "relist"
          /\ strm' = "old" /\ backup' = FALSE /\ ownCanonical' = FALSE
       \/ /\ backup /\ ownCanonical /\ rpc' = "failed"
          /\ strm' = "none" /\ UNCHANGED <<backup, ownCanonical>>
       \/ /\ ~backup /\ rpc' = "relist"
          /\ UNCHANGED <<strm, backup, ownCanonical>>
    /\ UNCHANGED <<cloud, newStrm, snapshot, emby, newCID, saved, cutover, finalized,
                   rolledBack, rollbacks, meddles>>

MayRecycle == /\ cutover => OldIsCanonical
              /\ newRoot \in {"none", "staged", "elsewhere", "recycled"}

Relist ==
    /\ rpc = "relist"
    /\ \/ ~newCID /\ rpc' = "clean"
       \/ newCID /\ MayRecycle /\ rpc' = "recycle"
    /\ UNCHANGED <<cloud, disk, emby, record, rollbacks, meddles>>

\* Only a root still listed in the library is recycled.
RecycleStaged ==
    /\ ProviderCall("recycle", "clean",
          newRoot' = (IF newRoot \in {"staged", "canonical"} THEN "recycled" ELSE newRoot),
          UNCHANGED newRoot)
    /\ newCID' = (newCID /\ rpc' = "failed")
    /\ UNCHANGED <<oldRoot, disk, emby, saved, cutover, finalized, rolledBack,
                   ownCanonical, rollbacks, meddles>>

RemoveStagedSTRM ==
    /\ rpc = "clean" /\ newStrm' = FALSE
    /\ IF cutover THEN rpc' = "rescan" /\ UNCHANGED rolledBack
                  ELSE rpc' = "end" /\ rolledBack' = TRUE
    /\ UNCHANGED <<cloud, strm, backup, snapshot, emby, newCID, saved, cutover,
                   finalized, ownCanonical, rollbacks, meddles>>

RescanCanonical ==
    /\ Goto("rescan", "unrestore") /\ Scanned
    /\ UNCHANGED <<cloud, disk, record, rollbacks, meddles>>

RestoreOldState ==
    /\ Goto("unrestore", "end") /\ items # "none"
    /\ marks' = RestoredMarks /\ cutover' = FALSE /\ rolledBack' = TRUE
    /\ UNCHANGED <<cloud, disk, items, newCID, saved, finalized, ownCanonical,
                   rollbacks, meddles>>

-----------------------------------------------------------------------------
(* Around the replacement.                                                 *)

EmbyScans ==
    /\ Scanned /\ UNCHANGED <<cloud, disk, record, rpc, rollbacks, meddles>>

UserMovesRoot ==
    /\ rpc # "end" /\ meddles < MaxMeddles /\ meddles' = meddles + 1
    /\ \/ oldRoot = "canonical" /\ oldRoot' = "elsewhere" /\ UNCHANGED newRoot
       \/ newRoot \in {"staged", "canonical"} /\ newRoot' = "elsewhere" /\ UNCHANGED oldRoot
    /\ UNCHANGED <<disk, emby, record, rpc, rollbacks>>

\* The process is gone, and with it the replacement: nobody resumes it.
Crash ==
    /\ rpc # "end" /\ rpc' = "end"
    /\ UNCHANGED <<cloud, disk, emby, record, rollbacks, meddles>>

Next ==
    \/ MkdirSTRM \/ CreateReplacementFolder \/ Receive \/ AutoFillChecks
    \/ SnapshotReplacementState \/ CreateQuarantine \/ PersistReplacementSnapshot
    \/ StartCutover \/ MoveOld \/ RenameNew \/ WaitForReplacementMount
    \/ BackupSTRM \/ CreateCanonicalSTRM \/ RemoveNewSTRM \/ SyncCanonical
    \/ RunLibraryScan \/ VerifyReplacementSeries \/ RestoreReplacementState \/ Finish
    \/ StepFails \/ StartRollback
    \/ Locate \/ RenameBack \/ MoveBack \/ RestoreSTRM \/ Relist \/ RecycleStaged
    \/ RemoveStagedSTRM \/ RescanCanonical \/ RestoreOldState
    \/ EmbyScans \/ UserMovesRoot \/ Crash

Spec == Init /\ [][Next]_vars

-----------------------------------------------------------------------------
\* At every instant, so that a crash anywhere can be repaired by hand: while
\* the old 115 root is in quarantine, the snapshot that says so is on disk and
\* the new root has not been recycled; and the old STRM tree is either in its
\* place or in the backup.
NothingLost ==
    /\ oldRoot = "quarantine" => snapshot /\ saved /\ newRoot \notin {"none", "recycled"}
    /\ strm = "old" \/ backup

\* A replacement that reports success has the new root and its STRM tree in
\* place, the old ones kept, and users' marks on the new items; one that
\* reports it kept the old series has the old root and tree in place, the
\* staged root gone, and the marks where they were. (Roots that users moved
\* themselves are theirs to find.)
EndsWhole ==
    meddles = 0 =>
        /\ finalized => /\ newRoot = "canonical" /\ oldRoot = "quarantine"
                        /\ strm = "new" /\ backup /\ items = "new" /\ marks
        /\ rolledBack => /\ oldRoot = "canonical" /\ newRoot \notin {"canonical"}
                         /\ newCID = FALSE
                         /\ strm = "old" /\ items = "old" /\ marks
=============================================================================
