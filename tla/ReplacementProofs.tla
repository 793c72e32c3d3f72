------------------------- MODULE ReplacementProofs -------------------------
(***************************************************************************)
(* Proofs about Replacement, for any number of roots that users move away. *)
(*                                                                         *)
(* Neither NothingLost nor EndsWhole is inductive: both speak of what is   *)
(* where and not of how far the replacement has come. The strengthening    *)
(* says what is known at each stage of the cutover (Advanced) and of the   *)
(* rollback (Returned), what holds outside a cutover (Untouched), and what *)
(* is known of the staged root as long as NewCID is recorded (StagedRoot). *)
(***************************************************************************)
EXTENDS Replacement, TLAPS

BeforeCutover == {"start", "mkdir", "receive", "staged", "verify", "save", "persist",
                  "recheck"}
InCutover == {"move", "rename", "mount", "backup", "canonical", "unstage", "sync",
              "scan", "check", "restore", "finish"}
Received == (BeforeCutover \cup InCutover) \ {"start", "mkdir"}
OldMoved == InCutover \ {"move"}
NewNamed == OldMoved \ {"rename", "mount"}
BackedUp == NewNamed \ {"backup"}
Synced == {"scan", "check", "restore", "finish"}
MovedBack == {"unbackup", "relist", "recycle", "clean", "rescan", "unrestore"}

\* Until the cutover, and after it was undone, the old series is as it was.
Untouched ==
    /\ ~cutover => oldRoot # "quarantine" /\ strm = "old" /\ items = "old" /\ marks
    /\ rpc \in BeforeCutover => ~cutover
    /\ rpc \in InCutover => cutover
    /\ cutover => snapshot /\ saved /\ newRoot # "none"

\* What the steps of stageCompletedPack and finalizeCompletedPack have reached.
Advanced ==
    /\ rpc \in {"save", "persist", "recheck"} => saved
    /\ rpc = "recheck" => snapshot
    /\ rpc \in Received => newCID /\ newRoot \notin {"none", "recycled"}
    /\ rpc \in OldMoved => oldRoot = "quarantine"
    /\ rpc \in BackedUp => backup
    /\ rpc \in Synced => strm = "new"
    /\ rpc \in {"restore", "finish"} => items = "new"
    /\ rpc = "finish" => marks
    /\ meddles = 0 /\ rpc \in NewNamed => newRoot = "canonical"

\* What the steps of rollbackCompletedPack have reached.
Returned ==
    /\ rpc \in MovedBack => oldRoot # "quarantine"
    /\ rpc \in MovedBack \ {"unbackup"} => strm = "old"
    /\ rpc \in {"clean", "rescan", "unrestore"} => ~newCID
    /\ rpc \in {"locate", "unname", "unmove", "unbackup", "rescan", "unrestore"} => cutover
    /\ rpc = "unrestore" => items = "old"

\* The staged root and the trees.
StagedRoot ==
    /\ newRoot = "recycled" => oldRoot # "quarantine"
    /\ ~newCID => newRoot # "canonical"
    /\ strm = "old" \/ backup
    /\ meddles = 0 => oldRoot # "elsewhere"

\* A verdict is given at the end only, and what it says was reached.
Verdict ==
    /\ finalized \/ rolledBack => rpc = "end"
    /\ finalized => /\ oldRoot = "quarantine" /\ strm = "new" /\ backup /\ items = "new"
                    /\ marks /\ cutover /\ newCID
                    /\ meddles = 0 => newRoot = "canonical"
    /\ rolledBack => ~cutover /\ ~newCID

IInv == TypeOK /\ Untouched /\ Advanced /\ Returned /\ StagedRoot /\ Verdict

-----------------------------------------------------------------------------
Facts == Untouched /\ Advanced /\ Returned /\ StagedRoot /\ Verdict

\* The type invariant, one variable at a time.
Types ==
    /\ oldRoot \in {"canonical", "quarantine", "elsewhere"}
    /\ newRoot \in {"none", "staged", "canonical", "elsewhere", "recycled"}
    /\ strm \in {"old", "new", "empty", "none"} /\ items \in {"old", "new", "none"}
    /\ backup \in BOOLEAN /\ newStrm \in BOOLEAN /\ snapshot \in BOOLEAN
    /\ marks \in BOOLEAN /\ newCID \in BOOLEAN /\ saved \in BOOLEAN
    /\ cutover \in BOOLEAN /\ finalized \in BOOLEAN /\ rolledBack \in BOOLEAN
    /\ ownCanonical \in BOOLEAN
    /\ rpc \in Forward \cup Backward \cup {"start", "failed", "end"}
    /\ rollbacks \in 0..2 /\ meddles \in 0..MaxMeddles
    /\ ~(finalized /\ rolledBack)

\* A set of Booleans is a subset of BOOLEAN when each of them is one.
LEMMA TypesOK == (TypeOK <=> Types) /\ (TypeOK' <=> Types')
<1>1. TypeOK <=> Types BY DEF TypeOK, Types
<1>2. TypeOK' <=> Types' BY DEF TypeOK, Types
<1> QED BY <1>1, <1>2

\* Before anything was staged.
LEMMA InitIInv ==
    Init => IInv
<1>1. Init => Types
  <2> SUFFICES ASSUME Init PROVE Types
    OBVIOUS
  <2>1. /\ backup \in BOOLEAN /\ newStrm \in BOOLEAN /\ snapshot \in BOOLEAN
        /\ marks \in BOOLEAN /\ newCID \in BOOLEAN /\ saved \in BOOLEAN
        /\ cutover \in BOOLEAN /\ finalized \in BOOLEAN /\ rolledBack \in BOOLEAN
        /\ ownCanonical \in BOOLEAN
    BY DEF Init
  <2> QED BY <2>1, MeddlesAssumption DEF Init, Types, Forward, Backward
<1>2. Init => Facts
  BY DEF Init, Facts, Untouched, Advanced, Returned, StagedRoot, Verdict, BeforeCutover,
         InCutover, Received, OldMoved, NewNamed, BackedUp, Synced, MovedBack
<1> QED BY <1>1, <1>2, TypesOK DEF IInv, Facts

\* Each call on 115, the disk or Emby keeps the state within its ranges.
LEMMA TypeStep ==
    ASSUME TypeOK, Facts, [Next]_vars
    PROVE  TypeOK'
<1> SUFFICES ASSUME Types PROVE Types'
  BY TypesOK
<1> USE DEF Types, Goto, cloud, disk, emby, record, Facts, Verdict, Forward, Backward
<1>1. CASE MkdirSTRM
  BY <1>1 DEF MkdirSTRM
<1>2. CASE CreateReplacementFolder
  <2>1. newCID' \in BOOLEAN
    BY <1>2 DEF CreateReplacementFolder
  <2> QED BY <1>2, <2>1 DEF CreateReplacementFolder
<1>3. CASE Receive
  BY <1>3 DEF Receive
<1>4. CASE AutoFillChecks
  BY <1>4 DEF AutoFillChecks
<1>5. CASE SnapshotReplacementState
  BY <1>5 DEF SnapshotReplacementState, OldIsCanonical
<1>6. CASE CreateQuarantine
  BY <1>6 DEF CreateQuarantine
<1>7. CASE PersistReplacementSnapshot
  BY <1>7 DEF PersistReplacementSnapshot, Persisted
<1>8. CASE StartCutover
  BY <1>8 DEF StartCutover
<1>9. CASE MoveOld
  BY <1>9 DEF MoveOld, ProviderCall
<1>10. CASE RenameNew
  BY <1>10 DEF RenameNew, ProviderCall
<1>11. CASE WaitForReplacementMount
  BY <1>11 DEF WaitForReplacementMount
<1>12. CASE BackupSTRM
  BY <1>12 DEF BackupSTRM
<1>13. CASE CreateCanonicalSTRM
  <2>1. ownCanonical' \in BOOLEAN
    BY <1>13 DEF CreateCanonicalSTRM
  <2> QED BY <1>13, <2>1 DEF CreateCanonicalSTRM
<1>14. CASE RemoveNewSTRM
  <2>1. newStrm' \in BOOLEAN
    BY <1>14 DEF RemoveNewSTRM
  <2> QED BY <1>14, <2>1 DEF RemoveNewSTRM
<1>15. CASE SyncCanonical
  BY <1>15 DEF SyncCanonical
<1>16. CASE RunLibraryScan
  BY <1>16 DEF RunLibraryScan, Scanned
<1>17. CASE VerifyReplacementSeries
  BY <1>17 DEF VerifyReplacementSeries
<1>18. CASE RestoreReplacementState
  BY <1>18 DEF RestoreReplacementState, RestoredMarks
<1>19. CASE Finish
  BY <1>19 DEF Finish
<1>20. CASE StepFails
  BY <1>20 DEF StepFails
<1>21. CASE StartRollback
  BY <1>21 DEF StartRollback
<1>22. CASE Locate
  BY <1>22 DEF Locate
<1>23. CASE RenameBack
  BY <1>23 DEF RenameBack, ProviderCall, NewIsCanonical
<1>24. CASE MoveBack
  BY <1>24 DEF MoveBack, ProviderCall
<1>25. CASE RestoreSTRM
  <2>1. backup' \in BOOLEAN /\ ownCanonical' \in BOOLEAN
    BY <1>25 DEF RestoreSTRM
  <2> QED BY <1>25, <2>1 DEF RestoreSTRM
<1>26. CASE Relist
  BY <1>26 DEF Relist, MayRecycle
<1>27. CASE RecycleStaged
  BY <1>27 DEF RecycleStaged, ProviderCall
<1>28. CASE RemoveStagedSTRM
  <2>1. newStrm' \in BOOLEAN /\ rolledBack' \in BOOLEAN
    BY <1>28 DEF RemoveStagedSTRM
  <2> QED BY <1>28, <2>1 DEF RemoveStagedSTRM
<1>29. CASE RescanCanonical
  BY <1>29 DEF RescanCanonical, Scanned
<1>30. CASE RestoreOldState
  <2>1. cutover' \in BOOLEAN /\ rolledBack' \in BOOLEAN /\ marks' \in BOOLEAN
    BY <1>30 DEF RestoreOldState, RestoredMarks
  <2> QED BY <1>30, <2>1 DEF RestoreOldState, RestoredMarks
<1>31. CASE EmbyScans
  BY <1>31 DEF EmbyScans, Scanned
<1>32. CASE UserMovesRoot
  BY MeddlesAssumption, <1>32 DEF UserMovesRoot
<1>33. CASE Crash
  BY <1>33 DEF Crash
<1>34. CASE UNCHANGED vars
  BY <1>34 DEF vars
<1> QED BY <1>1, <1>2, <1>3, <1>4, <1>5, <1>6, <1>7, <1>8, <1>9, <1>10, <1>11,
           <1>12, <1>13, <1>14, <1>15, <1>16, <1>17, <1>18, <1>19, <1>20, <1>21,
           <1>22, <1>23, <1>24, <1>25, <1>26, <1>27, <1>28, <1>29, <1>30, <1>31,
           <1>32, <1>33, <1>34 DEF Next

\* Each of them, whether its answer arrives or not, keeps what is known of the
\* stage it leads to.
LEMMA FactsStep ==
    ASSUME TypeOK, Facts, [Next]_vars
    PROVE  Facts'
<1> SUFFICES ASSUME Types PROVE Facts'
  BY TypesOK
<1> USE DEF Types, Goto, cloud, disk, emby, record, Facts, Untouched, Advanced, Returned,
        StagedRoot, Verdict, BeforeCutover, InCutover, Received, OldMoved, NewNamed,
        BackedUp, Synced, MovedBack, Forward, Backward
<1>1. CASE MkdirSTRM
  BY <1>1 DEF MkdirSTRM
<1>2. CASE CreateReplacementFolder
  BY <1>2 DEF CreateReplacementFolder
<1>3. CASE Receive
  BY <1>3 DEF Receive
<1>4. CASE AutoFillChecks
  BY <1>4 DEF AutoFillChecks
<1>5. CASE SnapshotReplacementState
  BY <1>5 DEF SnapshotReplacementState, OldIsCanonical
<1>6. CASE CreateQuarantine
  BY <1>6 DEF CreateQuarantine
<1>7. CASE PersistReplacementSnapshot
  BY <1>7 DEF PersistReplacementSnapshot, Persisted
<1>8. CASE StartCutover
  BY <1>8 DEF StartCutover
<1>9. CASE MoveOld
  BY <1>9 DEF MoveOld, ProviderCall
<1>10. CASE RenameNew
  BY <1>10 DEF RenameNew, ProviderCall
<1>11. CASE WaitForReplacementMount
  BY <1>11 DEF WaitForReplacementMount
<1>12. CASE BackupSTRM
  BY <1>12 DEF BackupSTRM
<1>13. CASE CreateCanonicalSTRM
  BY <1>13 DEF CreateCanonicalSTRM
<1>14. CASE RemoveNewSTRM
  BY <1>14 DEF RemoveNewSTRM
<1>15. CASE SyncCanonical
  BY <1>15 DEF SyncCanonical
<1>16. CASE RunLibraryScan
  BY <1>16 DEF RunLibraryScan, Scanned
<1>17. CASE VerifyReplacementSeries
  BY <1>17 DEF VerifyReplacementSeries
<1>18. CASE RestoreReplacementState
  BY <1>18 DEF RestoreReplacementState, RestoredMarks
<1>19. CASE Finish
  BY <1>19 DEF Finish
<1>20. CASE StepFails
  BY <1>20 DEF StepFails
<1>21. CASE StartRollback
  BY <1>21 DEF StartRollback
<1>22. CASE Locate
  BY <1>22 DEF Locate
<1>23. CASE RenameBack
  BY <1>23 DEF RenameBack, ProviderCall, NewIsCanonical
<1>24. CASE MoveBack
  BY <1>24 DEF MoveBack, ProviderCall
<1>25. CASE RestoreSTRM
  <2>1. CASE ~backup
    BY <1>25, <2>1 DEF RestoreSTRM
  <2>2. CASE backup /\ rpc' = "relist"
    BY <1>25, <2>2 DEF RestoreSTRM
  <2>3. CASE backup /\ rpc' = "failed"
    BY <1>25, <2>3 DEF RestoreSTRM
  <2> QED BY <1>25, <2>1, <2>2, <2>3 DEF RestoreSTRM
<1>26. CASE Relist
  BY <1>26 DEF Relist, MayRecycle
<1>27. CASE RecycleStaged
  BY <1>27 DEF RecycleStaged, ProviderCall
<1>28. CASE RemoveStagedSTRM
  BY <1>28 DEF RemoveStagedSTRM
<1>29. CASE RescanCanonical
  BY <1>29 DEF RescanCanonical, Scanned
<1>30. CASE RestoreOldState
  BY <1>30 DEF RestoreOldState, RestoredMarks
<1>31. CASE EmbyScans
  BY <1>31 DEF EmbyScans, Scanned
<1>32. CASE UserMovesRoot
  BY <1>32 DEF UserMovesRoot
<1>33. CASE Crash
  BY <1>33 DEF Crash
<1>34. CASE UNCHANGED vars
  BY <1>34 DEF vars
<1> QED BY <1>1, <1>2, <1>3, <1>4, <1>5, <1>6, <1>7, <1>8, <1>9, <1>10, <1>11,
           <1>12, <1>13, <1>14, <1>15, <1>16, <1>17, <1>18, <1>19, <1>20, <1>21,
           <1>22, <1>23, <1>24, <1>25, <1>26, <1>27, <1>28, <1>29, <1>30, <1>31,
           <1>32, <1>33, <1>34 DEF Next

\* The strengthened invariant holds in every reachable state.
LEMMA AlwaysIInv ==
    Spec => []IInv
<1>1. Init => IInv BY InitIInv
<1>2. IInv /\ [Next]_vars => IInv'
  BY TypeStep, FactsStep DEF IInv, Facts
<1> QED BY <1>1, <1>2, PTL DEF Spec

\* Every variable of a replacement stays within its range, and no replacement
\* is reported both finalized and rolled back.
THEOREM TypeCorrect ==
    Spec => []TypeOK
<1>1. IInv => TypeOK BY DEF IInv
<1> QED BY <1>1, AlwaysIInv, PTL

\* Wherever finalizeCompletedPack or rollbackCompletedPack stops, whatever call
\* acted without answering and whatever roots users moved: a quarantined root
\* has its snapshot and its counterpart, and the old STRM tree exists.
THEOREM NothingIsLost ==
    Spec => []NothingLost
<1>1. IInv => NothingLost
  BY TypesOK DEF Types, IInv, Untouched, StagedRoot, NothingLost
<1> QED BY <1>1, AlwaysIInv, PTL

\* A replacement reported as done, or as rolled back, is whole.
THEOREM VerdictIsTrue ==
    Spec => []EndsWhole
<1>1. IInv => EndsWhole
  BY TypesOK DEF Types, IInv, Untouched, StagedRoot, Verdict, EndsWhole
<1> QED BY <1>1, AlwaysIInv, PTL
=============================================================================
