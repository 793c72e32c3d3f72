------------------------- MODULE MediaWorkerProofs -------------------------
(***************************************************************************)
(* Proofs about the procedures of MediaWorker, for any library, shares,    *)
(* files and bounds. The procedures have no state in common: a step of the *)
(* worker is a step of one of them and leaves the others alone, so each    *)
(* has an inductive invariant of its own (SInv for the STRM sync, GInv for *)
(* the ingest, QInv for the share save, FInv for the gap filling; IInv of  *)
(* ReplacementProofs for the replacement).                                 *)
(***************************************************************************)
EXTENDS MediaWorker, ReplacementProofs, SequenceTheorems

-----------------------------------------------------------------------------
(* The STRM synchronisation. Whether the file to be removed may go was     *)
(* decided a step earlier: what was found then must still hold.            *)

\* A source that has existed since the sync began exists.
SteadyExists == steady \subseteq media
\* The file to be removed is chosen by the pruning that removes it.
ChosenHere == spc \in {"walk", "write"} => doomed = NoFile
\* Pruning began with the mount in place.
MountSeen == spc = "prune" /\ ~mounted => lostLate
\* The file to be removed is not the only one of a lasting source.
Dispensable ==
    spc = "prune" /\ doomed # NoFile =>
        \/ lostLate \/ tree[doomed] \notin steady
        \/ S!Relocates(doomed, tree[doomed]) /\ tree[Output[tree[doomed]]] = tree[doomed]

SInv ==
    /\ S!TypeOK /\ found \in Seq(Sources) /\ jobs \in Seq(Sources)
    /\ SteadyExists /\ ChosenHere /\ MountSeen /\ Dispensable

\* Before the first sync nothing is under way.
LEMMA SyncInit == S!Init => SInv
<1> SUFFICES ASSUME S!Init PROVE SInv
  OBVIOUS
<1>1. S!TypeOK
  <2>1. S!Met = {}
    BY DEF S!Init, S!Met
  <2>2. mounted \in BOOLEAN /\ lostLate \in BOOLEAN
    BY DEF S!Init
  <2> QED BY <2>1, <2>2, WorkerAssumption DEF S!Init, S!TypeOK
<1> QED
  BY <1>1 DEF S!Init, SInv, SteadyExists, ChosenHere, MountSeen, Dispensable

\* The two paths of a source are paths of the tree.
LEMMA PathsOf ==
    ASSUME NEW s \in Sources
    PROVE  Original[s] \in S!Paths /\ Output[s] \in S!Paths
BY DEF S!Paths

\* The types, step by step.
LEMMA SyncTypes ==
    ASSUME SInv, S!Next
    PROVE  S!TypeOK' /\ found' \in Seq(Sources) /\ jobs' \in Seq(Sources)
<1> USE DEF SInv, S!TypeOK, S!Met
<1>1. CASE S!StartSync
  <2>1. S!Met' = {} /\ found' = <<>> /\ jobs' = <<>>
    BY <1>1 DEF S!StartSync
  <2>2. lostLate' \in BOOLEAN
    BY <1>1 DEF S!StartSync
  <2> QED BY <1>1, <2>1, <2>2 DEF S!StartSync, S!env
<1>2. CASE S!WalkDone \/ S!PruneDone \/ S!VerifySTRM \/ S!SyncFails
  BY <1>2 DEF S!WalkDone, S!PruneDone, S!VerifySTRM, S!SyncFails, S!env
<1>3. CASE S!StartPrune
  BY <1>3 DEF S!StartPrune, S!env
<1>4. CASE S!RemoveFile
  BY <1>4 DEF S!RemoveFile, S!env
<1>5. CASE S!Unmount \/ S!Remount
  <2>1. mounted' \in BOOLEAN /\ lostLate' \in BOOLEAN
    BY <1>5 DEF S!Unmount, S!Remount
  <2> QED BY <1>5, <2>1, WorkerAssumption DEF S!Unmount, S!Remount
<1>6. ASSUME NEW s \in Sources, S!WalkEntry(s)
      PROVE  S!TypeOK' /\ found' \in Seq(Sources) /\ jobs' \in Seq(Sources)
  <2>1. found' \in Seq(Sources)
    BY <1>6 DEF S!WalkEntry
  <2> QED BY <1>6, <2>1 DEF S!WalkEntry, S!env
<1>7. ASSUME NEW s \in Sources, S!SourceAppears(s) \/ S!SourceGoes(s)
      PROVE  S!TypeOK' /\ found' \in Seq(Sources) /\ jobs' \in Seq(Sources)
  BY <1>7, WorkerAssumption DEF S!SourceAppears, S!SourceGoes
<1>8. ASSUME NEW i \in DOMAIN jobs, S!ReconcileOutput(i)
      PROVE  S!TypeOK' /\ found' \in Seq(Sources) /\ jobs' \in Seq(Sources)
  <2>1. i \in 1..Len(jobs) /\ jobs[i] \in Sources
    BY DEF S!ReconcileOutput
  <2>2. jobs' \in Seq(Sources)
    <3>1. SubSeq(jobs, 1, i - 1) \in Seq(Sources) /\ SubSeq(jobs, i + 1, Len(jobs)) \in Seq(Sources)
      BY <2>1, SubSeqProperties
    <3> QED BY <1>8, <3>1, ConcatProperties DEF S!ReconcileOutput
  <2>3. Output[jobs[i]] \in S!Paths
    BY <2>1, PathsOf
  <2> QED BY <1>8, <2>1, <2>2, <2>3 DEF S!ReconcileOutput, S!env
<1>9. ASSUME NEW p \in S!Paths, S!PruneFile(p)
      PROVE  S!TypeOK' /\ found' \in Seq(Sources) /\ jobs' \in Seq(Sources)
  BY <1>9 DEF S!PruneFile, S!env
<1> QED
  BY <1>1, <1>2, <1>3, <1>4, <1>5, <1>6, <1>7, <1>8, <1>9 DEF S!Next

\* What is known while pruning, step by step.
LEMMA SyncFacts ==
    ASSUME SInv, S!Next
    PROVE  SteadyExists' /\ ChosenHere' /\ MountSeen' /\ Dispensable'
<1> USE DEF SInv, SteadyExists, ChosenHere, MountSeen, Dispensable
<1>1. CASE S!StartSync
  BY <1>1 DEF S!StartSync, S!env
<1>2. CASE S!WalkDone \/ S!PruneDone \/ S!VerifySTRM \/ S!SyncFails
  BY <1>2 DEF S!WalkDone, S!PruneDone, S!VerifySTRM, S!SyncFails, S!env
<1>3. CASE S!StartPrune
  BY <1>3 DEF S!StartPrune, S!CanarySeen, S!env
<1>4. CASE S!RemoveFile
  BY <1>4 DEF S!RemoveFile, S!env
<1>5. CASE S!Unmount \/ S!Remount
  BY <1>5 DEF S!Unmount, S!Remount, S!Relocates, S!Met, S!Normalized
<1>6. ASSUME NEW s \in Sources, S!WalkEntry(s)
      PROVE  SteadyExists' /\ ChosenHere' /\ MountSeen' /\ Dispensable'
  BY <1>6 DEF S!WalkEntry, S!env
<1>7. ASSUME NEW s \in Sources, S!SourceAppears(s) \/ S!SourceGoes(s)
      PROVE  SteadyExists' /\ ChosenHere' /\ MountSeen' /\ Dispensable'
  BY <1>7 DEF S!SourceAppears, S!SourceGoes, S!Relocates, S!Met, S!Normalized
<1>8. ASSUME NEW i \in DOMAIN jobs, S!ReconcileOutput(i)
      PROVE  SteadyExists' /\ ChosenHere' /\ MountSeen' /\ Dispensable'
  BY <1>8 DEF S!ReconcileOutput, S!env
<1>9. ASSUME NEW p \in S!Paths, S!PruneFile(p)
      PROVE  SteadyExists' /\ ChosenHere' /\ MountSeen' /\ Dispensable'
  <2>1. SteadyExists' /\ ChosenHere' /\ MountSeen'
    BY <1>9 DEF S!PruneFile, S!env
  <2>2. ASSUME doomed' # NoFile
        PROVE  \/ lostLate \/ tree[p] \notin steady
               \/ S!Relocates(p, tree[p]) /\ tree[Output[tree[p]]] = tree[p]
    <3>1. S!Stale(p)
      BY <1>9, <2>2 DEF S!PruneFile
    <3>2. CASE S!Relocates(p, tree[p])
      BY <1>9, <3>2 DEF S!PruneFile
    <3>3. CASE tree[p] \notin S!Visible
      BY <1>9, <3>3 DEF S!Visible, S!PruneFile
    <3> QED BY <3>1, <3>2, <3>3 DEF S!Stale
  <2>3. Dispensable'
    BY <1>9, <2>2 DEF S!PruneFile, S!env, S!Relocates, S!Met, S!Normalized
  <2> QED BY <2>1, <2>3
<1> QED
  BY <1>1, <1>2, <1>3, <1>4, <1>5, <1>6, <1>7, <1>8, <1>9 DEF S!Next

\* Only a write and a removal change the tree, and neither takes the last file.
LEMMA SyncPlayable ==
    ASSUME SInv, S!Next
    PROVE  S!StaysPlayableStep
<1> SUFFICES ASSUME NEW s \in steady \cap steady',
                    S!Alone(s), S!Playable(s), ~lostLate'
             PROVE  S!Playable(s)'
  BY DEF S!StaysPlayableStep
<1>1. PICK p \in S!Paths : tree[p] = s
  BY DEF S!Playable
<1>2. s \in Sources /\ p \in {Original[s], Output[s]}
  BY <1>1, WorkerAssumption DEF SInv, S!TypeOK
<1>3. CASE UNCHANGED tree
  BY <1>1, <1>3 DEF S!Playable
<1>4. CASE S!RemoveFile
  <2>1. CASE doomed # p
    BY <1>1, <1>4, <2>1 DEF S!RemoveFile, S!Playable, SInv, S!TypeOK
  <2>2. CASE doomed = p
    <3>1. S!Relocates(p, s) /\ tree[Output[s]] = s
      BY <1>1, <1>4, <2>2 DEF S!RemoveFile, SInv, Dispensable
    <3>2. Output[s] # p /\ Output[s] \in S!Paths
      BY <1>2, <3>1, PathsOf DEF S!Relocates, S!Normalized
    <3> QED BY <1>4, <2>2, <3>1, <3>2 DEF S!RemoveFile, S!Playable, SInv, S!TypeOK
  <2> QED BY <2>1, <2>2
<1>5. ASSUME NEW i \in DOMAIN jobs, S!ReconcileOutput(i)
      PROVE  S!Playable(s)'
  <2>1. jobs[i] \in Sources /\ Output[jobs[i]] \in S!Paths
    BY PathsOf DEF SInv
  <2>2. tree' = [tree EXCEPT ![Output[jobs[i]]] = jobs[i]]
    BY <1>5 DEF S!ReconcileOutput
  <2>3. CASE jobs[i] = s
    BY <2>1, <2>2, <2>3 DEF S!Playable, SInv, S!TypeOK
  <2>4. CASE jobs[i] # s
    <3>1. Output[jobs[i]] # p
      BY <1>2, <2>1, <2>4 DEF S!Alone
    <3> QED BY <1>1, <2>1, <2>2, <3>1 DEF S!Playable, SInv, S!TypeOK
  <2> QED BY <2>3, <2>4
<1> QED
  BY <1>3, <1>4, <1>5 DEF S!Next, S!StartSync, S!WalkDone, S!StartPrune, S!PruneDone,
     S!VerifySTRM, S!SyncFails, S!Unmount, S!Remount, S!WalkEntry, S!SourceAppears,
     S!SourceGoes, S!PruneFile

\* A step of the worker is a step of the sync or leaves it alone.
LEMMA SyncStepOnly ==
    [WorkerNext]_workerVars => S!Next \/ UNCHANGED syncVars
BY DEF WorkerNext, workerVars, ReplacementStep, FillStep, IngestStep, SyncStep, SaveStep

\* The other procedures leave the sync's invariant and its files alone.
LEMMA SyncUnchanged == ASSUME SInv, UNCHANGED syncVars PROVE SInv' /\ S!StaysPlayableStep
BY DEF syncVars, SInv, S!TypeOK, S!Met, SteadyExists, ChosenHere, MountSeen, Dispensable, S!Relocates,
   S!Normalized, S!StaysPlayableStep, S!Playable, S!Paths

\* The strengthening of StaysPlayable is an invariant of the worker.
LEMMA AlwaysSInv == WorkerSpec => []SInv
<1>1. WorkerInit => SInv
  BY SyncInit DEF WorkerInit
<1>2. SInv /\ [WorkerNext]_workerVars => SInv'
  BY SyncStepOnly, SyncUnchanged, SyncTypes, SyncFacts DEF SInv
<1> QED BY <1>1, <1>2, PTL DEF WorkerSpec

\* However the mount comes and goes and sources change, no single write or
\* removal of SyncSTRMWithProgress takes away the last STRM file of a source
\* that lasts.
THEOREM SyncKeepsPlayable == WorkerSpec => StaysPlayable
<1>1. SInv /\ [WorkerNext]_workerVars => [S!StaysPlayableStep]_workerVars
  BY SyncStepOnly, SyncUnchanged, SyncPlayable
<1> QED BY <1>1, AlwaysSInv, PTL DEF WorkerSpec, StaysPlayable

-----------------------------------------------------------------------------
(* The ingest. What is reported of an item holds until the end of the run  *)
(* because the run does not come back to that item.                        *)

InHand == {"meet", "move", "rename", "wait"}

\* The run has not begun to move anything, or an item is in hand.
ItemInHand == gpc \in InHand => item \in Movable \ left
\* An item is reported once, and then neither left nor in hand.
ReportedOnce ==
    /\ gpc = "resolve" => \A i \in Items : report[i].status = "none"
    /\ \A i \in Items : report[i].status # "none" => i \notin left /\ (gpc \in InHand => item # i)
\* No item is forgotten.
NoneForgotten ==
    /\ gpc \in InHand \cup {"list", "scan", "done"} =>
          \A i \in Movable : \/ i \in left \/ report[i].status # "none"
                             \/ gpc \in InHand /\ item = i
    /\ gpc \in {"scan", "done"} => left = {}
\* As long as no user moves a file, what is reported is true, and an item that
\* is compared with the target is in staging.
ReportsTrue ==
    outsiders = 0 =>
        /\ \A i \in Items :
              /\ report[i].status = "organized" => where[i] = "target" /\ name[i] = report[i].name
              /\ report[i].status = "duplicate" =>
                    where[i] = "staging" /\ \E f \in I!Target : Bytes[f] = Bytes[i]
        /\ gpc = "meet" => where[item] = "staging" /\ unmet \subseteq I!Target

GInv == I!TypeOK /\ ItemInHand /\ ReportedOnce /\ NoneForgotten /\ ReportsTrue

\* Nothing has been moved or reported at first.
LEMMA IngestInit == I!Init => GInv
BY WorkerAssumption, MeddlesAssumption DEF I!Init, GInv, I!TypeOK, I!Unreported, ItemInHand, ReportedOnce,
   NoneForgotten, ReportsTrue, InHand

\* The types, step by step.
LEMMA IngestTypes ==
    ASSUME GInv, I!Next
    PROVE  I!TypeOK'
<1> USE WorkerAssumption DEF GInv, I!TypeOK, ItemInHand, InHand
<1>1. CASE I!StartIngest
  BY <1>1 DEF I!StartIngest, I!Unreported, I!files
<1>2. CASE I!ResolveCandidate \/ I!Organized \/ I!NameFree
  BY <1>2 DEF I!ResolveCandidate, I!Organized, I!NameFree, I!files
<1>3. CASE I!MoveItem
  BY <1>3 DEF I!MoveItem, I!ProviderCall
<1>4. CASE I!RenameItem
  BY <1>4 DEF I!RenameItem, I!ProviderCall
<1>5. CASE I!WaitForItem
  BY <1>5 DEF I!WaitForItem, I!files
<1>6. CASE I!VerifyIngest \/ I!IngestFails \/ I!RetryIngest
  BY <1>6 DEF I!VerifyIngest, I!IngestFails, I!RetryIngest, I!files
<1>7. ASSUME NEW i \in Items, I!ListItem(i)
      PROVE  I!TypeOK'
  BY <1>7 DEF I!ListItem, I!Target, I!files
<1>8. ASSUME NEW i \in Items, I!UserMoves(i)
      PROVE  I!TypeOK'
  BY <1>8, MeddlesAssumption DEF I!UserMoves
<1>9. ASSUME NEW f \in Items \cup Others, I!MeetFile(f)
      PROVE  I!TypeOK'
  BY <1>9 DEF I!MeetFile, I!files
<1> QED BY <1>1, <1>2, <1>3, <1>4, <1>5, <1>6, <1>7, <1>8, <1>9 DEF I!Next

\* The account of the items, step by step.
LEMMA IngestAccount ==
    ASSUME GInv, I!Next
    PROVE  ItemInHand' /\ ReportedOnce' /\ NoneForgotten'
<1> USE WorkerAssumption DEF GInv, I!TypeOK, ItemInHand, ReportedOnce, NoneForgotten, InHand
<1>1. CASE I!StartIngest
  BY <1>1 DEF I!StartIngest, I!Unreported
<1>2. CASE I!ResolveCandidate
  BY <1>2 DEF I!ResolveCandidate
<1>3. CASE I!MoveItem
  BY <1>3 DEF I!MoveItem, I!ProviderCall
<1>4. CASE I!RenameItem
  BY <1>4 DEF I!RenameItem, I!ProviderCall
<1>5. CASE I!WaitForItem
  BY <1>5 DEF I!WaitForItem
<1>6. CASE I!Organized \/ I!NameFree \/ I!VerifyIngest \/ I!IngestFails \/ I!RetryIngest
  BY <1>6 DEF I!Organized, I!NameFree, I!VerifyIngest, I!IngestFails, I!RetryIngest
<1>7. ASSUME NEW i \in Items, I!ListItem(i)
      PROVE  ItemInHand' /\ ReportedOnce' /\ NoneForgotten'
  BY <1>7 DEF I!ListItem
<1>8. ASSUME NEW i \in Items, I!UserMoves(i)
      PROVE  ItemInHand' /\ ReportedOnce' /\ NoneForgotten'
  BY <1>8 DEF I!UserMoves
<1>9. ASSUME NEW f \in Items \cup Others, I!MeetFile(f)
      PROVE  ItemInHand' /\ ReportedOnce' /\ NoneForgotten'
  BY <1>9 DEF I!MeetFile
<1> QED BY <1>1, <1>2, <1>3, <1>4, <1>5, <1>6, <1>7, <1>8, <1>9 DEF I!Next

\* What is reported stays true: an item is moved or renamed only while it is
\* in hand, and then nothing is reported of it yet.
LEMMA IngestTrue ==
    ASSUME GInv, I!Next
    PROVE  ReportsTrue'
<1> SUFFICES ASSUME outsiders' = 0
             PROVE  /\ \A i \in Items :
                          /\ report'[i].status = "organized" =>
                                where'[i] = "target" /\ name'[i] = report'[i].name
                          /\ report'[i].status = "duplicate" =>
                                where'[i] = "staging" /\ \E f \in I!Target' : Bytes[f] = Bytes[i]
                    /\ gpc' = "meet" => where'[item'] = "staging" /\ unmet' \subseteq I!Target'
  BY DEF ReportsTrue
<1> USE WorkerAssumption DEF GInv, I!TypeOK, ItemInHand, ReportedOnce, ReportsTrue, InHand
<1>1. CASE I!StartIngest
  BY <1>1 DEF I!StartIngest, I!Unreported
<1>2. CASE I!ResolveCandidate \/ I!Organized \/ I!NameFree \/ I!VerifyIngest \/ I!IngestFails
             \/ I!RetryIngest
  BY <1>2 DEF I!ResolveCandidate, I!Organized, I!NameFree, I!VerifyIngest, I!IngestFails,
     I!RetryIngest, I!Target, I!files
<1>3. CASE I!MoveItem
  <2>1. I!Target \subseteq I!Target'
    BY <1>3 DEF I!MoveItem, I!ProviderCall, I!Target
  <2> QED BY <1>3, <2>1 DEF I!MoveItem, I!ProviderCall
<1>4. CASE I!RenameItem
  BY <1>4 DEF I!RenameItem, I!ProviderCall, I!Target
<1>5. CASE I!WaitForItem
  BY <1>5 DEF I!WaitForItem, I!Exposed, I!Target, I!files
<1>6. ASSUME NEW i \in Items, I!UserMoves(i)
      PROVE  FALSE
  BY <1>6 DEF I!UserMoves
<1>7. ASSUME NEW i \in Items, I!ListItem(i)
      PROVE  ReportsTrue'
  BY <1>7 DEF I!ListItem, I!Target, I!files
<1>8. ASSUME NEW f \in Items \cup Others, I!MeetFile(f)
      PROVE  ReportsTrue'
  <2>1. I!Target' = I!Target
    BY <1>8 DEF I!MeetFile, I!Target, I!files
  <2>2. f \in I!Target /\ where[item] = "staging" /\ item \in Items
    BY <1>8 DEF I!MeetFile
  <2> QED BY <1>8, <2>1, <2>2 DEF I!MeetFile, I!files
<1> QED BY <1>1, <1>2, <1>3, <1>4, <1>5, <1>6, <1>7, <1>8 DEF I!Next

\* A step of the worker is a step of the ingest or leaves it alone.
LEMMA IngestStepOnly ==
    [WorkerNext]_workerVars => I!Next \/ UNCHANGED ingestVars
BY DEF WorkerNext, workerVars, ReplacementStep, FillStep, IngestStep, SyncStep, SaveStep

\* The other procedures leave the ingest's invariant alone.
LEMMA IngestUnchanged == ASSUME GInv, UNCHANGED ingestVars PROVE GInv'
BY DEF ingestVars, GInv, I!TypeOK, ItemInHand, ReportedOnce, NoneForgotten, ReportsTrue, I!Target

\* The strengthening of IngestedTruly is an invariant of the worker.
LEMMA AlwaysGInv == WorkerSpec => []GInv
<1>1. WorkerInit => GInv
  BY IngestInit DEF WorkerInit
<1>2. GInv /\ [WorkerNext]_workerVars => GInv'
  BY IngestStepOnly, IngestUnchanged, IngestTypes, IngestAccount, IngestTrue DEF GInv
<1> QED BY <1>1, <1>2, PTL DEF WorkerSpec

\* After any number of failed runs of runMediaIngest, and whatever 115
\* answered: a run that reports success tells the truth about every file.
THEOREM IngestTellsTruth == WorkerSpec => []IngestedTruly
<1>1. GInv => IngestedTruly
  BY WorkerAssumption DEF GInv, I!TypeOK, NoneForgotten, ReportsTrue, InHand, IngestedTruly,
     I!IngestedTruly
<1> QED BY <1>1, AlwaysGInv, PTL

-----------------------------------------------------------------------------
(* The share save. The save works on the snapshot it took; an object it    *)
(* made differs from the snapshot only if the owner edited the entry since.*)

BeforeSave == {"preview", "snapshot", "before", "save"}
Selected == {"before", "save", "task", "resolve", "done"}

ShareState == [Entries -> [name : Names, size : Sizes, rev : Nat]]
Row == [entry : Entries, name : Names, size : Sizes, rev : Nat]
Manifested == manifest \in Seq(Row)

\* Revisions grow, and an entry that keeps its revision is as it was.
Revised ==
    /\ fresh \in ShareState
    /\ \A e \in Entries :
          /\ share[e].rev <= edits /\ fresh[e].rev <= share[e].rev
          /\ share[e].rev = fresh[e].rev => share[e] = fresh[e]
\* Past the snapshot the selection is one, and as previewed in exact mode.
SnapshotFits ==
    qpc \in Selected => Q!Selectable(fresh) /\ (exact => Q!SameAsPreviewed(fresh))
\* Where the objects of the target are from.
Origin(o) ==
    \/ o.from = Q!Foreign /\ \E n \in 0..adds - 1 : o.id = <<"added", n>>
    \/ \E j \in DOMAIN manifest :
          /\ o.id = <<"saved", j>> /\ o.from = manifest[j].entry
          /\ \/ Q!Fits(o, j)
             \/ share[o.from].rev > fresh[o.from].rev
Origins ==
    /\ qpc \in BeforeSave => arriving = {} /\ \A o \in target : o.from = Q!Foreign
    /\ \A o \in arriving : o.from # Q!Foreign
    /\ \A o \in target \cup arriving : Origin(o)

QInv ==
    Q!TypeOK /\ Manifested /\ Revised /\ SnapshotFits /\ Origins /\ Q!SavedAsSelected

\* At first nothing is selected and the target is empty.
LEMMA SaveInit == Q!Init => QInv
<1> SUFFICES ASSUME Q!Init PROVE QInv
  OBVIOUS
<1>1. Q!TypeOK
  BY WorkerAssumption DEF Q!Init, Q!TypeOK, Q!IDs
<1>2. Manifested
  BY DEF Q!Init, Manifested
<1>3. Revised
  BY DEF Q!Init, Revised, ShareState
<1> QED
  BY <1>1, <1>2, <1>3 DEF Q!Init, QInv, SnapshotFits, Origins, Q!SavedAsSelected,
     Selected

\* The manifest of a selection.
LEMMA ManifestOf ==
    ASSUME Q!TypeOK, NEW s \in Selections, Q!PreviewShare(s)
    PROVE  Manifested'
<1>1. s \in Seq(Entries) /\ DOMAIN s = 1..Len(s) /\ Len(s) \in Nat
  BY WorkerAssumption
<1>2. \A i \in DOMAIN s : /\ s[i] \in Entries /\ share[s[i]].name \in Names
                          /\ share[s[i]].size \in Sizes /\ share[s[i]].rev \in Nat
  BY <1>1, WorkerAssumption DEF Q!TypeOK
<1>3. manifest' \in [1..Len(s) -> Row]
  BY <1>1, <1>2 DEF Q!PreviewShare, Row
<1> QED BY <1>1, <1>3 DEF Manifested

\* What is selected is of the share.
LEMMA EntryOf ==
    ASSUME Manifested, NEW j \in DOMAIN manifest
    PROVE  manifest[j].entry \in Entries
<1>1. manifest[j] \in Row
  BY DEF Manifested
<1> QED BY <1>1 DEF Row

\* Before the save all objects of the target are of others.
LEMMA OthersOnly ==
    ASSUME QInv, qpc \in BeforeSave, NEW o \in target
    PROVE  o.from = Q!Foreign /\ \E n \in 0..adds - 1 : o.id = <<"added", n>>
<1>1. o.from = Q!Foreign /\ o.from \notin Entries
  BY WorkerAssumption DEF QInv, Origins, Q!Foreign
<1>2. Origin(o)
  BY DEF QInv, Origins
<1>3. \A j \in DOMAIN manifest : manifest[j].entry \in Entries
  BY EntryOf DEF QInv
<1> QED BY <1>1, <1>2, <1>3 DEF Origin

\* What Quark copies of a selected entry.
Copy(j) ==
    [id |-> <<"saved", j>>, from |-> manifest[j].entry,
     name |-> share[manifest[j].entry].name, size |-> share[manifest[j].entry].size]

\* What a save makes of the selected entries.
LEMMA SavedObjects ==
    ASSUME QInv, qpc = "save", NEW o \in Q!ToSet(Q!Saved)
    PROVE  o.from \in Entries /\ Origin(o) /\ \E j \in DOMAIN manifest : o = Copy(j)
<1>1. PICK j \in DOMAIN manifest : o = Copy(j)
  BY DEF Q!ToSet, Q!Saved, Q!Object, Copy
<1>2. manifest[j].entry \in Entries
  BY EntryOf DEF QInv
<1>3. \/ share[o.from].name = fresh[o.from].name /\ share[o.from].size = fresh[o.from].size
      \/ share[o.from].rev > fresh[o.from].rev
  BY <1>1, <1>2, WorkerAssumption DEF QInv, Revised, ShareState, Q!TypeOK, Copy
<1> QED BY <1>1, <1>2, <1>3 DEF Origin, Q!Fits, Copy

\* The steps that touch neither objects nor the selection.
LEMMA QuietSteps ==
    ASSUME QInv, Q!ListBefore \/ Q!WaitTask \/ Q!SaveFails
    PROVE  QInv'
<1> USE DEF QInv
<1>1. Q!TypeOK'
  BY DEF Q!TypeOK, Q!ListBefore, Q!WaitTask, Q!SaveFails
<1>2. Manifested' /\ Revised'
  BY DEF Manifested, Revised, Q!ListBefore, Q!WaitTask, Q!SaveFails
<1>3. SnapshotFits'
  BY DEF SnapshotFits, Selected, Q!Selectable, Q!SameAsPreviewed, Q!ListBefore, Q!WaitTask,
     Q!SaveFails
<1>4. Origins'
  BY DEF Origins, Origin, Q!Fits, BeforeSave, Q!ListBefore, Q!WaitTask, Q!SaveFails
<1>5. Q!SavedAsSelected'
  BY DEF Q!SavedAsSelected, Q!ListBefore, Q!WaitTask, Q!SaveFails
<1> QED BY <1>1, <1>2, <1>3, <1>4, <1>5

\* A preview is made before anything is saved.
LEMMA PreviewStep ==
    ASSUME QInv, NEW s \in Selections, Q!PreviewShare(s)
    PROVE  QInv'
<1> USE DEF QInv
<1>1. Q!TypeOK'
  BY DEF Q!TypeOK, Q!PreviewShare
<1>2. Manifested'
  BY ManifestOf
<1>3. Revised'
  BY DEF Revised, Q!PreviewShare
<1>4. Origins'
  BY OthersOnly DEF Origins, Origin, BeforeSave, Q!PreviewShare
<1> QED
  BY <1>1, <1>2, <1>3, <1>4 DEF SnapshotFits, Selected, Q!SavedAsSelected,
     Q!PreviewShare

\* The snapshot is the share as it is, and the save goes on only if the
\* selection fits it.
LEMMA SnapshotStep ==
    ASSUME QInv, Q!SnapshotShareTree
    PROVE  QInv'
<1> USE DEF QInv
<1>1. Q!TypeOK'
  BY DEF Q!TypeOK, Q!SnapshotShareTree
<1>2. Manifested'
  BY DEF Manifested, Q!SnapshotShareTree
<1>3. Revised'
  BY WorkerAssumption DEF Revised, ShareState, Q!TypeOK, Q!SnapshotShareTree
<1>4. Origins'
  BY OthersOnly DEF Origins, Origin, BeforeSave, Q!SnapshotShareTree
<1>5. SnapshotFits'
  BY DEF SnapshotFits, Selected, Q!Selectable, Q!SameAsPreviewed, Q!SnapshotShareTree
<1> QED
  BY <1>1, <1>2, <1>3, <1>4, <1>5 DEF Q!SavedAsSelected, Q!SnapshotShareTree

\* What Quark saves comes from the selected entries, under new IDs.
LEMMA RequestStep ==
    ASSUME QInv, Q!RequestSave
    PROVE  QInv'
<1> USE DEF QInv
<1>1. qpc = "save" /\ arriving = {} /\ \A o \in target : o.from = Q!Foreign
  BY DEF Q!RequestSave, Origins, BeforeSave
<1>2. arriving' \in {{}, Q!ToSet(Q!Saved)}
  BY DEF Q!RequestSave
<1>3. \A o \in arriving' :
         o.from \in Entries /\ Origin(o) /\ \E j \in DOMAIN manifest : o = Copy(j)
  BY <1>1, <1>2, SavedObjects
<1>4. \A o \in target : \E n \in 0..adds - 1 : o.id = <<"added", n>>
  BY <1>1, OthersOnly DEF BeforeSave
<1>5. Q!TypeOK'
  <2>1. target' = target /\ \A o \in target, p \in arriving' : o.id # p.id
    BY <1>3, <1>4 DEF Q!RequestSave, Copy
  <2>2. \A o, p \in arriving' : o.id = p.id => o = p
    BY <1>3 DEF Copy
  <2>3. Q!IDs(target)' \cap Q!IDs(arriving)' = {}
    BY <2>1 DEF Q!IDs
  <2>4. \A o, p \in target' \cup arriving' : o.id = p.id => o = p
    BY <2>1, <2>2 DEF Q!TypeOK
  <2> QED BY <1>3, <2>1, <2>3, <2>4 DEF Q!TypeOK, Q!RequestSave
<1>6. Manifested' /\ Revised'
  BY DEF Manifested, Revised, Q!RequestSave
<1>7. SnapshotFits'
  BY DEF SnapshotFits, Selected, Q!Selectable, Q!SameAsPreviewed, Q!RequestSave
<1>8. Origins'
  BY <1>3, WorkerAssumption DEF Origins, Origin, Q!Fits, Q!Foreign, BeforeSave, Q!RequestSave
<1> QED
  BY <1>5, <1>6, <1>7, <1>8 DEF Q!SavedAsSelected, Q!RequestSave

\* A saved object keeps what it is when it is listed.
LEMMA AppearStep ==
    ASSUME QInv, NEW x \in arriving, Q!SavedAppears(x)
    PROVE  QInv'
<1> USE DEF QInv
<1>1. Q!TypeOK'
  <2>1. target' \cup arriving' = target \cup arriving
    BY DEF Q!SavedAppears
  <2>2. \A o, p \in target' \cup arriving' : o.id = p.id => o = p
    BY <2>1 DEF Q!TypeOK
  <2>3. target' \cap arriving' = {}
    BY DEF Q!SavedAppears, Q!TypeOK, Q!IDs
  <2>4. Q!IDs(target)' \cap Q!IDs(arriving)' = {}
    BY <2>2, <2>3 DEF Q!IDs
  <2> QED BY <2>1, <2>2, <2>4 DEF Q!TypeOK, Q!SavedAppears
<1>2. Manifested' /\ Revised'
  BY DEF Manifested, Revised, Q!SavedAppears
<1>3. SnapshotFits'
  BY DEF SnapshotFits, Selected, Q!Selectable, Q!SameAsPreviewed, Q!SavedAppears
<1>4. Origins'
  BY DEF Origins, Origin, Q!Fits, BeforeSave, Q!SavedAppears
<1>5. Q!SavedAsSelected'
  BY DEF Q!SavedAsSelected, Q!SavedAppears
<1> QED BY <1>1, <1>2, <1>3, <1>4, <1>5

\* An edit makes the entry's revision greater than the one of the snapshot.
LEMMA EditStep ==
    ASSUME QInv, NEW e \in Entries, NEW n \in Names, NEW z \in Sizes, Q!OwnerEdits(e, n, z)
    PROVE  QInv'
<1> USE WorkerAssumption DEF QInv
<1>1. /\ edits \in Nat /\ edits' = edits + 1 /\ edits' <= MaxEdits
      /\ share' = [share EXCEPT ![e] = [name |-> n, size |-> z, rev |-> edits + 1]]
      /\ qpc \notin {"done", "failed"}
      /\ UNCHANGED <<target, arriving, manifest, exact, qpc, fresh, before, answered, roots, adds>>
  BY DEF Q!TypeOK, Q!OwnerEdits
<1>2. \A x \in Entries : /\ x # e => share'[x] = share[x]
                         /\ share'[x].rev \in Nat /\ share[x].rev \in Nat /\ fresh[x].rev \in Nat
                         /\ share'[x].rev >= share[x].rev
                         /\ x = e => share'[x].rev > fresh[x].rev
  BY <1>1 DEF Q!TypeOK, Revised, ShareState
<1>3. Q!TypeOK'
  <2>1. share' \in [Entries -> [name : Names, size : Sizes, rev : 0..MaxEdits]]
    BY <1>1 DEF Q!TypeOK
  <2> QED BY <1>1, <2>1 DEF Q!TypeOK, Q!IDs
<1>4. Manifested'
  BY <1>1 DEF Manifested
<1>5. Revised'
  BY <1>1, <1>2 DEF Revised, Q!TypeOK
<1>6. SnapshotFits'
  BY <1>1 DEF SnapshotFits, Selected, Q!Selectable, Q!SameAsPreviewed
<1>7. Origins'
  <2>1. ASSUME NEW o \in target \cup arriving PROVE Origin(o)'
    <3>1. CASE o.from = Q!Foreign /\ \E m \in 0..adds - 1 : o.id = <<"added", m>>
      BY <1>1, <3>1 DEF Origin
    <3>2. ASSUME NEW j \in DOMAIN manifest, o.id = <<"saved", j>>, o.from = manifest[j].entry,
                 Q!Fits(o, j) \/ share[o.from].rev > fresh[o.from].rev
          PROVE  Origin(o)'
      <4>1. o.from \in Entries
        BY <3>2, EntryOf
      <4>2. Q!Fits(o, j)' \/ share'[o.from].rev > fresh'[o.from].rev
        BY <1>1, <1>2, <3>2, <4>1 DEF Q!Fits
      <4> QED BY <1>1, <3>2, <4>2 DEF Origin
    <3> QED BY <3>1, <3>2 DEF Origins, Origin
  <2> QED BY <1>1, <2>1 DEF Origins
<1>8. Q!SavedAsSelected'
  BY <1>1 DEF Q!SavedAsSelected
<1> QED BY <1>3, <1>4, <1>5, <1>6, <1>7, <1>8

\* A file another client adds has an ID of its own.
LEMMA AddStep ==
    ASSUME QInv, NEW n \in Names, NEW z \in Sizes, Q!AnotherAdds(n, z)
    PROVE  QInv'
<1> USE WorkerAssumption DEF QInv
<1>0. PICK x : x = [id |-> <<"added", adds>>, from |-> Q!Foreign, name |-> n, size |-> z]
  OBVIOUS
<1>1. /\ adds \in Nat /\ adds' = adds + 1 /\ adds' <= MaxAdds
      /\ target' = target \cup {x} /\ qpc \notin {"done", "failed"}
      /\ UNCHANGED <<share, arriving, manifest, exact, qpc, fresh, before, answered, roots, edits>>
  BY <1>0 DEF Q!TypeOK, Q!AnotherAdds, Q!Object
<1>2. \A o \in target \cup arriving : o.id # x.id
  BY <1>0, <1>1 DEF Origins, Origin
<1>3. Q!TypeOK'
  <2>1. \A o, p \in target' \cup arriving' : o.id = p.id => o = p
    BY <1>1, <1>2 DEF Q!TypeOK
  <2>2. Q!IDs(target)' \cap Q!IDs(arriving)' = {}
    BY <1>1, <1>2 DEF Q!TypeOK, Q!IDs
  <2>3. \A o \in target' \cup arriving' : o.from \in Entries \cup {Q!Foreign}
    BY <1>0, <1>1 DEF Q!TypeOK
  <2>4. adds' \in 0..MaxAdds
    BY <1>1
  <2>5. /\ share' \in [Entries -> [name : Names, size : Sizes, rev : 0..MaxEdits]]
        /\ qpc' \in {"preview", "snapshot", "before", "save", "task", "resolve", "done", "failed"}
        /\ exact' \in BOOLEAN /\ edits' \in 0..MaxEdits
    BY <1>1 DEF Q!TypeOK
  <2> QED BY <2>1, <2>2, <2>3, <2>4, <2>5 DEF Q!TypeOK
<1>4. Manifested' /\ Revised'
  BY <1>1 DEF Manifested, Revised
<1>5. SnapshotFits'
  BY <1>1 DEF SnapshotFits, Selected, Q!Selectable, Q!SameAsPreviewed
<1>6. Origins'
  <2>1. Origin(x)'
    BY <1>0, <1>1 DEF Origin
  <2>2. ASSUME NEW o \in target \cup arriving PROVE Origin(o)'
    BY <1>1 DEF Origins, Origin, Q!Fits
  <2>3. x.from = Q!Foreign
    BY <1>0
  <2> QED BY <1>1, <2>1, <2>2, <2>3 DEF Origins, BeforeSave
<1>7. Q!SavedAsSelected'
  BY <1>1 DEF Q!SavedAsSelected
<1> QED BY <1>3, <1>4, <1>5, <1>6, <1>7

\* An object that fits an entry is somebody else's or made from that entry,
\* unless the owner has edited the one it was made from.
LEMMA FittingIsSaved ==
    ASSUME QInv, qpc = "resolve", NEW i \in DOMAIN manifest, NEW o \in target, Q!Fits(o, i)
    PROVE  \/ o.from \in {manifest[i].entry, Q!Foreign}
           \/ share[o.from].rev > fresh[o.from].rev
<1>1. CASE o.from = Q!Foreign
  BY <1>1
<1>2. ASSUME NEW j \in DOMAIN manifest, o.from = manifest[j].entry,
             Q!Fits(o, j) \/ share[o.from].rev > fresh[o.from].rev
      PROVE  o.from = manifest[i].entry \/ share[o.from].rev > fresh[o.from].rev
  <2>1. Q!Fits(o, j) => i = j
    BY DEF QInv, SnapshotFits, Selected, Q!Selectable, Q!Fits
  <2> QED BY <1>2, <2>1
<1> QED BY <1>1, <1>2 DEF QInv, Origins, Origin

\* In exact mode what fits the snapshot is as previewed.
LEMMA FittingIsExact ==
    ASSUME QInv, qpc = "resolve", NEW i \in DOMAIN manifest, NEW o \in target, Q!Fits(o, i), exact
    PROVE  o.name = manifest[i].name /\ o.size = manifest[i].size
BY DEF QInv, SnapshotFits, Selected, Q!SameAsPreviewed, Q!Fits

\* One object does not fit two selected entries.
LEMMA FitsOneOnly ==
    ASSUME QInv, qpc = "resolve", NEW i \in DOMAIN manifest, NEW j \in DOMAIN manifest,
           NEW o \in target, Q!Fits(o, i), Q!Fits(o, j)
    PROVE  i = j
BY DEF QInv, SnapshotFits, Selected, Q!Selectable, Q!Fits

\* Each root is of an object that fits its entry, and is new or was answered.
RootsFit ==
    \A i \in DOMAIN manifest :
        \E o \in target : /\ o.id = roots[i] /\ Q!Fits(o, i)
                          /\ o.id \in before => o.id \in Q!ToSet(answered)

\* The roots are resolved by the IDs Quark answered, or by what is new.
LEMMA ResolvedRoots ==
    ASSUME QInv, Q!ResolveSavedRoots
    PROVE  RootsFit'
<1> SUFFICES ASSUME NEW i \in DOMAIN manifest
             PROVE  \E o \in target : /\ o.id = roots'[i] /\ Q!Fits(o, i)
                                      /\ o.id \in before => o.id \in Q!ToSet(answered)
  BY DEF RootsFit, Q!ResolveSavedRoots, Q!Fits, Q!ToSet
<1>1. CASE Q!AnswersFit /\ roots' = answered
  BY <1>1 DEF Q!AnswersFit, Q!ToSet
<1>2. CASE /\ \A k \in DOMAIN manifest : \E o \in target : Q!NewOnes(k) = {o}
           /\ roots' = [k \in DOMAIN manifest |-> (CHOOSE o \in Q!NewOnes(k) : TRUE).id]
  <2>1. PICK o \in target : Q!NewOnes(i) = {o}
    BY <1>2
  <2>2. (CHOOSE x \in Q!NewOnes(i) : TRUE) = o
    BY <2>1
  <2>3. Q!Fits(o, i) /\ o.id \notin before
    BY <2>1 DEF Q!NewOnes
  <2> QED BY <1>2, <2>2, <2>3
<1> QED BY <1>1, <1>2 DEF Q!ResolveSavedRoots

\* What fits is reported once and for the right entry.
LEMMA ResolveStep ==
    ASSUME QInv, Q!ResolveSavedRoots
    PROVE  QInv'
<1> USE DEF QInv
<1>1. /\ qpc = "resolve" /\ qpc' = "done"
      /\ UNCHANGED <<share, target, arriving, manifest, exact, fresh, before, answered, edits, adds>>
  BY DEF Q!ResolveSavedRoots
<1>2. Q!TypeOK'
  BY <1>1 DEF Q!TypeOK, Q!IDs
<1>3. Manifested' /\ Revised'
  BY <1>1 DEF Manifested, Revised
<1>4. SnapshotFits'
  BY <1>1 DEF SnapshotFits, Selected, Q!Selectable, Q!SameAsPreviewed
<1>5. Origins'
  BY <1>1 DEF Origins, Origin, Q!Fits, BeforeSave
<1>6. \A i \in DOMAIN manifest :
         \E o \in target : /\ o.id = roots'[i] /\ Q!Fits(o, i)
                           /\ o.id \in before => o.id \in Q!ToSet(answered)
  BY <1>1, ResolvedRoots DEF RootsFit, Q!Fits, Q!ToSet
<1>7. ASSUME NEW i \in DOMAIN manifest, NEW j \in DOMAIN manifest, roots'[i] = roots'[j]
      PROVE  i = j
  <2>1. PICK o \in target : o.id = roots'[i] /\ Q!Fits(o, i)
    BY <1>6
  <2>2. PICK p \in target : p.id = roots'[j] /\ Q!Fits(p, j)
    BY <1>6
  <2>3. p = o
    BY <1>7, <2>1, <2>2 DEF Q!TypeOK
  <2> QED BY <1>1, <2>1, <2>2, <2>3, FitsOneOnly
<1>8. Q!SavedAsSelected'
  <2>1. ASSUME NEW i \in DOMAIN manifest
        PROVE  \E o \in target :
                  /\ o.id = roots'[i] /\ Q!Fits(o, i)
                  /\ exact => o.name = manifest[i].name /\ o.size = manifest[i].size
                  /\ o.id \in before => o.id \in Q!ToSet(answered)
                  /\ \/ o.from \in {manifest[i].entry, Q!Foreign}
                     \/ share[o.from].rev > fresh[o.from].rev
    <3>1. PICK o \in target : /\ o.id = roots'[i] /\ Q!Fits(o, i)
                              /\ o.id \in before => o.id \in Q!ToSet(answered)
      BY <1>6
    <3> QED BY <1>1, <3>1, FittingIsSaved, FittingIsExact
  <2> QED BY <1>1, <1>7, <2>1 DEF Q!SavedAsSelected, Q!Fits, Q!ToSet
<1> QED BY <1>2, <1>3, <1>4, <1>5, <1>8

\* A step of the worker is a step of the save or leaves it alone.
LEMMA SaveStepOnly ==
    [WorkerNext]_workerVars => Q!Next \/ UNCHANGED saveVars
BY DEF WorkerNext, workerVars, ReplacementStep, FillStep, IngestStep, SyncStep, SaveStep

\* The other procedures leave the save's invariant alone.
LEMMA SaveUnchanged == ASSUME QInv, UNCHANGED saveVars PROVE QInv'
<1> USE DEF QInv, saveVars
<1>1. Q!TypeOK' /\ Manifested' /\ Revised'
  BY DEF Q!TypeOK, Q!IDs, Manifested, Revised
<1>2. SnapshotFits'
  BY DEF SnapshotFits, Q!Selectable, Q!SameAsPreviewed
<1>3. Origins'
  BY DEF Origins, Origin, Q!Fits
<1>4. Q!SavedAsSelected'
  BY DEF Q!SavedAsSelected, Q!Fits, Q!ToSet
<1> QED BY <1>1, <1>2, <1>3, <1>4

\* The strengthening of SavedAsSelected is an invariant of the worker.
LEMMA AlwaysQInv == WorkerSpec => []QInv
<1>1. WorkerInit => QInv
  BY SaveInit DEF WorkerInit
<1>2. QInv /\ Q!Next => QInv'
  BY QuietSteps, PreviewStep, SnapshotStep, RequestStep, AppearStep, EditStep, AddStep,
     ResolveStep DEF Q!Next
<1>3. QInv /\ [WorkerNext]_workerVars => QInv'
  BY <1>2, SaveStepOnly, SaveUnchanged
<1> QED BY <1>1, <1>3, PTL DEF WorkerSpec

\* However often the owner edits the share, whatever Quark answers and whatever
\* others add to the target: the roots saveShareSelections reports are different
\* objects with the name and size of the snapshot (in exact mode as previewed),
\* new unless Quark answered their IDs, and none was made from another selected
\* entry that the owner has left alone.
THEOREM SaveReportsSelected == WorkerSpec => []SavedAsSelected
<1>1. QInv => SavedAsSelected
  BY DEF QInv, SavedAsSelected
<1> QED BY <1>1, AlwaysQInv, PTL

-----------------------------------------------------------------------------
(* The gap filling. That a leaf is the series' own is settled when the     *)
(* share is scanned (SelectedOwn) and must survive until it is taken; that *)
(* an episode is taken once needs that each series is done once (Untaken)  *)
(* and that what is chosen is neither chosen twice nor taken (ChosenOnce). *)

\* What the run has taken for a series.
Taken(s) == folder[s] \cup UNION {q.files : q \in {x \in queued : x.series = s}}
\* The path of a leaf gives the season.
GivesSeason(leaf) == leaf.numbered \/ \E l \in leaf.ancestors : l.season # 0
\* A leaf is of the series' work, and of its season where its path gives one, and
\* an episode that was missing.
Own(s, leaf, key) ==
    leaf.work = s /\ (GivesSeason(leaf) => leaf.season = key[1]) /\ key \in gaps[s]

\* The run's records are of all series, and it was asked only for known ones.
FunctionsOfSeries ==
    /\ folder = [s \in Series |-> folder[s]] /\ linked \in [Series -> SUBSET F!Episodes]
    /\ gaps \in [Series -> SUBSET F!Episodes] /\ got \in [Series -> SUBSET F!Episodes]
    /\ remaining \in [Series -> SUBSET F!Episodes] /\ spec \in Payloads
    /\ fpc = "inventory" => F!SeriesIDs(spec) \subseteq Series
    /\ \A q \in queued : q = [series |-> q.series, files |-> q.files, state |-> q.state]
\* A series that is still to be done has nothing yet.
Untaken ==
    /\ fpc \in {"start", "inventory"} =>
          queued = {} /\ \A s \in Series : got[s] = {} /\ remaining[s] = {} /\ folder[s] = {}
    /\ \A s \in todo : got[s] = {} /\ Taken(s) = {}
    /\ fpc = "probe" => got[cur] = {} /\ Taken(cur) = {}
    /\ fpc \in {"probe", "transfer"} => cur \notin todo /\ F!UniqueID(cur)
\* Selected leaves are of the series.
SelectedOwn ==
    fpc \in {"probe", "transfer"} =>
        \A r \in DOMAIN inspected : \A k \in DOMAIN inspected[r] :
            Own(cur, shares[r].leaves[inspected[r][k]], k)
\* An episode is chosen from one share, and has not been taken before.
ChosenOnce ==
    fpc = "transfer" =>
        \A r \in DOMAIN chosen :
            /\ chosen[r] \subseteq DOMAIN inspected[r]
            /\ \A x \in DOMAIN chosen \ {r} : chosen[r] \cap chosen[x] = {}
            /\ \A f \in Taken(cur) : f.key \notin chosen[r]
TakenOwn == \A s \in Series : \A f \in Taken(s) : Own(s, f.leaf, f.key)
TakenOnce == \A s \in Series : \A f, g \in Taken(s) : f.key = g.key => f = g
\* What is transferred is linked, and then not missing.
Linked ==
    /\ ~moved => \A s \in Series : got[s] = {}
    /\ fpc \in {"scan", "verify", "done"} => \A s \in Series : got[s] \subseteq linked[s]
    /\ fpc = "verify" => \A s \in Series : got[s] \cap missing[s] = {}
    /\ fpc = "failed" => \A q \in queued : q.state \in {"cancelled", "kept"}

FInv ==
    /\ F!TypeOK /\ FunctionsOfSeries /\ Untaken /\ SelectedOwn /\ ChosenOnce
    /\ TakenOwn /\ TakenOnce /\ Linked

\* A leaf that EpisodeIdentityMatches accepts is of the series' work and, where
\* its path gives a season, of the season of its keys.
LEMMA IdentityHolds ==
    ASSUME NEW s \in Series, F!UniqueID(s), NEW sh \in ShareMenu, NEW i \in DOMAIN sh.leaves,
           F!EpisodeIdentityMatches(Works[s], sh, sh.leaves[i]),
           NEW j \in DOMAIN sh.leaves[i].keys
    PROVE  /\ sh.leaves[i].work = s
           /\ GivesSeason(sh.leaves[i]) => sh.leaves[i].season = sh.leaves[i].keys[j][1]
<1> DEFINE leaf == sh.leaves[i]
           live == leaf.ancestors \cup {leaf.name}
           all == live \cup sh.titles
           w == leaf.work
<1>1. /\ w \in DOMAIN Catalogue
      /\ \A l \in all : TrueOf(l, w)
      /\ \A l \in leaf.ancestors : l.season \in {0, leaf.season}
      /\ leaf.numbered => \A n \in DOMAIN leaf.keys : leaf.keys[n][1] = leaf.season
  BY ShareAssumption
<1>2. /\ F!Agrees(Works[s], all, FALSE)
      /\ F!Corroborated(Works[s], all)
      /\ F!MatchedTitle(Works[s], live) \/ F!MatchedID(live)
      /\ F!LeafSeasonMatches(leaf)
  BY DEF F!EpisodeIdentityMatches
<1>3. GivesSeason(leaf) => leaf.season = leaf.keys[j][1]
  <2>1. \A l \in leaf.ancestors : l.season \in {0, leaf.keys[j][1]}
    BY <1>2 DEF F!LeafSeasonMatches
  <2> QED BY <1>1, <2>1 DEF GivesSeason
<1>4. /\ s \in DOMAIN Catalogue /\ Works[s].id = Catalogue[s].id
      /\ Works[s].year \in {0, Catalogue[s].year}
      /\ F!Titles(Works[s]) \subseteq Catalogue[s].titles /\ 0 \notin F!Titles(Works[s])
  BY CatalogueAssumption DEF F!Titles, F!Named
<1>5. Catalogue[w].id = Catalogue[s].id
  <2>1. CASE F!MatchedID(all)
    <3>1. PICK l \in all : l.id # 0
      BY <2>1 DEF F!MatchedID
    <3>2. l.id = Works[s].id
      BY <1>2, <3>1 DEF F!Agrees
    <3>3. l.id = Catalogue[w].id
      BY <1>1, <3>1 DEF TrueOf
    <3> QED BY <1>4, <3>2, <3>3
  <2>2. CASE ~F!MatchedID(all)
    <3>1. Works[s].year # 0 /\ F!MatchedYear(all)
      BY <1>2, <2>2 DEF F!Corroborated
    <3>2. PICK l \in all : l.year # 0
      BY <3>1 DEF F!MatchedYear
    <3>3. l.year = Works[s].year
      <4>1. F!OneOf({x.year : x \in all} \cup {Works[s].year})
        BY <1>2 DEF F!Agrees
      <4> QED BY <3>1, <3>2, <4>1 DEF F!OneOf, F!Named
    <3>4. l.year = Catalogue[w].year
      BY <1>1, <3>2 DEF TrueOf
    <3>5. PICK m \in live : m.title \in F!Titles(Works[s])
      BY <1>2, <2>2 DEF F!MatchedTitle, F!MatchedID
    <3>6. m.title \in Catalogue[s].titles /\ m.title \in Catalogue[w].titles
      BY <1>1, <1>4, <3>5 DEF TrueOf
    <3>7. Catalogue[w].year = Catalogue[s].year
      BY <1>4, <3>1, <3>3, <3>4
    <3> QED BY <1>1, <1>4, <3>6, <3>7, CatalogueAssumption
  <2> QED BY <2>1, <2>2
<1>6. w = s
  <2>1. CASE w \in Series
    <3>1. Works[w].id = Works[s].id
      BY <1>4, <1>5, <2>1, CatalogueAssumption
    <3> QED BY <2>1, <3>1 DEF F!UniqueID
  <2>2. CASE w \notin Series
    BY <1>1, <1>4, <1>5, <2>2, CatalogueAssumption
  <2> QED BY <2>1, <2>2
<1> QED BY <1>3, <1>6

\* A selection names leaves of the series, each for an episode that is missing.
LEMMA SelectionsOwn ==
    ASSUME F!TypeOK, F!UniqueID(cur), NEW r \in Resources,
           NEW sel \in F!LeafSelections(Works[cur], shares[r], gaps[cur]), NEW k \in DOMAIN sel
    PROVE  Own(cur, shares[r].leaves[sel[k]], k)
<1> DEFINE sh == shares[r]
<1>1. sh \in ShareMenu /\ cur \in Series
  BY DEF F!TypeOK
<1>2. k \in gaps[cur] /\ sel[k] \in DOMAIN sh.leaves
  BY DEF F!LeafSelections
<1>3. {x \in DOMAIN sel : sel[x] = sel[k]} =
        IF F!EpisodeIdentityMatches(Works[cur], sh, sh.leaves[sel[k]])
        THEN F!FirstOf(sh.leaves[sel[k]].keys, gaps[cur] \ {x \in DOMAIN sel : sel[x] < sel[k]})
        ELSE {}
  BY <1>2 DEF F!LeafSelections
<1>4. k \in {x \in DOMAIN sel : sel[x] = sel[k]}
  OBVIOUS
<1>5. /\ F!EpisodeIdentityMatches(Works[cur], sh, sh.leaves[sel[k]])
      /\ k \in F!FirstOf(sh.leaves[sel[k]].keys, gaps[cur] \ {x \in DOMAIN sel : sel[x] < sel[k]})
  BY <1>3, <1>4
<1>6. PICK j \in DOMAIN sh.leaves[sel[k]].keys : sh.leaves[sel[k]].keys[j] = k
  BY <1>5 DEF F!FirstOf
<1>7. /\ sh.leaves[sel[k]].work = cur
      /\ GivesSeason(sh.leaves[sel[k]])
           => sh.leaves[sel[k]].season = sh.leaves[sel[k]].keys[j][1]
  BY <1>1, <1>2, <1>5, IdentityHolds
<1> QED BY <1>2, <1>6, <1>7 DEF Own

\* Emby's first answer is of the right type, and nothing has been taken.
LEMMA FillInit == F!Init => FInv
<1> SUFFICES ASSUME F!Init PROVE FInv
  OBVIOUS
<1>1. missing \in [Series -> SUBSET F!Episodes]
  BY AnswerAssumption DEF F!Init, F!Episodes
<1>2. cur \in Series
  BY WorkerAssumption DEF F!Init
<1>3. moved \in BOOLEAN /\ fatal \in BOOLEAN /\ stop \in BOOLEAN
  BY DEF F!Init
<1>4. /\ folder = [s \in Series |-> {}] /\ linked = [s \in Series |-> {}] /\ queued = {}
      /\ gaps = [s \in Series |-> {}] /\ got = [s \in Series |-> {}]
      /\ remaining = [s \in Series |-> {}] /\ todo = {} /\ candidates = {}
      /\ inspected = <<>> /\ chosen = <<>> /\ fpc = "start" /\ spec \in Payloads
      /\ shares \in [Resources -> ShareMenu]
  BY DEF F!Init
<1>5. F!TypeOK
  BY <1>1, <1>2, <1>3, <1>4 DEF F!TypeOK
<1>6. FunctionsOfSeries
  BY <1>4 DEF FunctionsOfSeries
<1>7. \A s \in Series : Taken(s) = {}
  BY <1>4 DEF Taken
<1> QED
  BY <1>4, <1>5, <1>6, <1>7 DEF FInv, Untaken, SelectedOwn, ChosenOnce, TakenOwn, TakenOnce, Linked

\* What a run has taken changes only with the folders and the queue.
LEMMA TakenSame ==
    ASSUME UNCHANGED <<folder, queued>>
    PROVE  \A s : Taken(s)' = Taken(s)
BY DEF Taken

\* The steps that change only how far the run is.
LEMMA PaceSteps ==
    ASSUME FInv, F!ResolveSpec \/ F!RunFails
    PROVE  FInv'
<1> USE DEF FInv
<1>1. UNCHANGED <<shares, missing, folder, linked, queued, spec, gaps, todo, cur, candidates,
                  inspected, chosen, got, remaining, moved, fatal, stop>>
  BY DEF F!ResolveSpec, F!RunFails, F!world, F!run
<1>2. /\ fpc' \in {"inventory", "failed", "cleanup"}
      /\ fpc' \in {"inventory", "failed"} => fpc = "start"
      /\ fpc' = "inventory" => F!SeriesIDs(spec) \subseteq Series
  BY DEF F!ResolveSpec, F!RunFails, F!Valid
<1>3. F!TypeOK' /\ FunctionsOfSeries'
  BY <1>1, <1>2 DEF F!TypeOK, FunctionsOfSeries, F!SeriesIDs
<1>4. Untaken' /\ SelectedOwn' /\ ChosenOnce'
  BY <1>1, <1>2, TakenSame DEF Untaken, SelectedOwn, ChosenOnce
<1>5. TakenOwn' /\ TakenOnce'
  BY <1>1, TakenSame DEF TakenOwn, TakenOnce, Own
<1>6. Linked'
  BY <1>1, <1>2 DEF Linked, Untaken
<1> QED BY <1>3, <1>4, <1>5, <1>6

\* The gaps are listed when nothing has been taken yet.
LEMMA ListStep ==
    ASSUME FInv, F!ListMissing
    PROVE  FInv'
<1> USE DEF FInv
<1>1. /\ fpc = "inventory" /\ fpc' = "library" /\ todo' \subseteq Series
      /\ fatal' \in BOOLEAN
      /\ UNCHANGED <<shares, missing, folder, linked, queued, spec, cur, candidates,
                     inspected, chosen, got, remaining, moved, stop>>
  <2>1. todo' \subseteq Series
    BY DEF F!ListMissing, F!UpTo, FunctionsOfSeries
  <2>2. fatal' \in BOOLEAN
    BY DEF F!ListMissing
  <2> QED BY <2>1, <2>2 DEF F!ListMissing, F!world
<1>2. gaps' \in [Series -> SUBSET F!Episodes]
  BY DEF F!ListMissing, F!TypeOK
<1>3. queued = {} /\ \A s \in Series : got[s] = {} /\ remaining[s] = {} /\ folder[s] = {}
  BY <1>1 DEF Untaken
<1>4. \A s \in Series : Taken(s)' = {}
  BY <1>1, <1>3 DEF Taken
<1>5. F!TypeOK' /\ FunctionsOfSeries'
  BY <1>1, <1>2, <1>3 DEF F!TypeOK, FunctionsOfSeries
<1>6. Untaken' /\ SelectedOwn' /\ ChosenOnce'
  BY <1>1, <1>3, <1>4 DEF Untaken, SelectedOwn, ChosenOnce
<1>7. TakenOwn' /\ TakenOnce' /\ Linked'
  BY <1>1, <1>3, <1>4 DEF TakenOwn, TakenOnce, Linked
<1> QED BY <1>5, <1>6, <1>7

\* A series is started once, with nothing taken for it.
LEMMA StartStep ==
    ASSUME FInv, NEW s \in Series, F!StartSeries(s)
    PROVE  FInv'
<1> USE DEF FInv
<1>1. /\ fpc = "library" /\ fpc' = "probe" /\ s \in todo /\ F!UniqueID(s)
      /\ todo' = todo \ {s} /\ cur' = s /\ inspected' = <<>> /\ chosen' = <<>>
      /\ UNCHANGED <<shares, missing, folder, linked, queued, spec, gaps, got, remaining,
                     moved, fatal, stop>>
  BY DEF F!StartSeries, F!world
<1>2. candidates' \subseteq Resources
  BY PayloadAssumption DEF F!StartSeries, F!UpTo, FunctionsOfSeries
<1>3. F!TypeOK' /\ FunctionsOfSeries'
  BY <1>1, <1>2 DEF F!TypeOK, FunctionsOfSeries
<1>4. Untaken'
  BY <1>1, TakenSame DEF Untaken, F!UniqueID
<1>5. SelectedOwn' /\ ChosenOnce' /\ Linked'
  BY <1>1 DEF SelectedOwn, ChosenOnce, Linked
<1>6. TakenOwn' /\ TakenOnce'
  BY <1>1, TakenSame DEF TakenOwn, TakenOnce, Own
<1> QED BY <1>3, <1>4, <1>5, <1>6

\* A series that cannot be filled keeps all its gaps.
LEMMA UnusableStep ==
    ASSUME FInv, NEW s \in Series, F!SeriesUnusable(s)
    PROVE  FInv'
<1> USE DEF FInv
<1>1. /\ fpc = "library" /\ fpc' = "library" /\ s \in todo /\ todo' = todo \ {s}
      /\ remaining' = [remaining EXCEPT ![s] = gaps[s]] /\ got[s] = {}
      /\ UNCHANGED <<shares, missing, folder, linked, queued, spec, gaps, cur, candidates,
                     inspected, chosen, got, moved, stop>>
  BY DEF F!SeriesUnusable, F!world, Untaken
<1>2. fatal' \in BOOLEAN
  BY DEF F!SeriesUnusable
<1>3. FunctionsOfSeries'
  BY <1>1 DEF FunctionsOfSeries
<1>4. F!TypeOK'
  BY <1>1, <1>2 DEF F!TypeOK, FunctionsOfSeries
<1>5. Untaken' /\ SelectedOwn' /\ ChosenOnce' /\ Linked'
  BY <1>1, TakenSame DEF Untaken, SelectedOwn, ChosenOnce, Linked
<1>6. TakenOwn' /\ TakenOnce'
  BY <1>1, TakenSame DEF TakenOwn, TakenOnce, Own
<1> QED BY <1>3, <1>4, <1>5, <1>6

\* What a share is selected for is of the series.
LEMMA ScanStep ==
    ASSUME FInv, NEW r \in Resources, F!ScanShare(r) \/ F!ScanFails(r)
    PROVE  FInv'
<1> USE DEF FInv
<1>1. /\ fpc = "probe" /\ fpc' = "probe" /\ candidates' \subseteq candidates
      /\ UNCHANGED <<shares, missing, folder, linked, queued, spec, gaps, todo, cur, chosen,
                     got, remaining, moved, fatal>>
  BY DEF F!ScanShare, F!ScanFails, F!world
<1>2. stop' \in BOOLEAN
  BY DEF F!ScanShare, F!ScanFails, F!TypeOK
<1>3. F!UniqueID(cur)
  BY <1>1 DEF Untaken
<1>4. /\ DOMAIN inspected \subseteq DOMAIN inspected' /\ DOMAIN inspected' \subseteq Resources
      /\ \A x \in DOMAIN inspected' : \A k \in DOMAIN inspected'[x] :
            Own(cur, shares[x].leaves[inspected'[x][k]], k)
  <2>1. CASE inspected' = inspected
    BY <1>1, <2>1 DEF SelectedOwn, F!TypeOK
  <2>2. ASSUME NEW sel \in F!LeafSelections(Works[cur], shares[r], gaps[cur]),
               inspected' = [x \in DOMAIN inspected \cup {r} |->
                                IF x = r THEN sel ELSE inspected[x]]
        PROVE  <1>4
    <3>1. \A k \in DOMAIN sel : Own(cur, shares[r].leaves[sel[k]], k)
      BY <1>3, SelectionsOwn
    <3> QED BY <1>1, <2>2, <3>1 DEF SelectedOwn, F!TypeOK
  <2> QED BY <2>1, <2>2 DEF F!ScanShare, F!ScanFails
<1>5. F!TypeOK' /\ FunctionsOfSeries'
  BY <1>1, <1>2, <1>4 DEF F!TypeOK, FunctionsOfSeries
<1>6. Untaken' /\ ChosenOnce' /\ Linked'
  BY <1>1, <1>3, TakenSame DEF Untaken, ChosenOnce, Linked, F!UniqueID
<1>7. SelectedOwn'
  BY <1>1, <1>4 DEF SelectedOwn, Own
<1>8. TakenOwn' /\ TakenOnce'
  BY <1>1, TakenSame DEF TakenOwn, TakenOnce, Own
<1> QED BY <1>5, <1>6, <1>7, <1>8

\* An episode is chosen from one share only.
LEMMA ChoiceOnce ==
    ASSUME NEW r \in DOMAIN inspected, NEW x \in DOMAIN inspected, NEW k \in F!Choice(r),
           k \in F!Choice(x)
    PROVE  r = x
<1> DEFINE refs == {y \in DOMAIN inspected : k \in DOMAIN inspected[y]}
<1>1. r \in F!ChosenFor(k, refs) /\ x \in F!ChosenFor(k, refs)
  BY DEF F!Choice
<1> QED BY <1>1 DEF F!ChosenFor

\* No episode is chosen from two shares.
LEMMA ChooseStep ==
    ASSUME FInv, F!Choose
    PROVE  FInv'
<1> USE DEF FInv
<1>1. /\ fpc = "probe" /\ fpc' \in {"transfer", "library"} /\ cur \in Series
      /\ got[cur] = {} /\ Taken(cur) = {} /\ F!UniqueID(cur)
      /\ UNCHANGED <<shares, missing, folder, linked, queued, spec, gaps, todo, cur, candidates,
                     inspected, got, moved, fatal, stop>>
  BY DEF F!Choose, F!world, Untaken, F!TypeOK
<1>2. \E m : m \subseteq gaps[cur] /\ remaining' = [remaining EXCEPT ![cur] = m]
  <2>1. CASE spec.transfer
    BY <2>1 DEF F!Choose
  <2>2. CASE ~spec.transfer
    <3> DEFINE matched == UNION {F!Choice(r) : r \in {x \in DOMAIN inspected : F!Choice(x) # {}}}
    <3>1. remaining' = [remaining EXCEPT ![cur] = gaps[cur] \ matched]
      BY <2>2 DEF F!Choose
    <3> QED BY <3>1
  <2> QED BY <2>1, <2>2
<1>3. /\ DOMAIN chosen' \subseteq DOMAIN inspected
      /\ fpc' = "transfer" => \A r \in DOMAIN chosen' : chosen'[r] = F!Choice(r)
  BY DEF F!Choose, F!TypeOK
<1>4. FunctionsOfSeries'
  BY <1>1, <1>2 DEF FunctionsOfSeries
<1>5. F!TypeOK'
  BY <1>1, <1>2, <1>3 DEF F!TypeOK, FunctionsOfSeries
<1>6. Untaken' /\ Linked'
  BY <1>1, TakenSame DEF Untaken, Linked, F!UniqueID
<1>7. SelectedOwn'
  BY <1>1 DEF SelectedOwn, Own
<1>8. ChosenOnce'
  <2> SUFFICES ASSUME fpc' = "transfer", NEW r \in DOMAIN chosen'
               PROVE  /\ chosen'[r] \subseteq DOMAIN inspected[r]
                      /\ \A x \in DOMAIN chosen' \ {r} : chosen'[r] \cap chosen'[x] = {}
    BY <1>1, TakenSame DEF ChosenOnce
  <2>1. r \in DOMAIN inspected /\ chosen'[r] = F!Choice(r)
    BY <1>3
  <2>2. chosen'[r] \subseteq DOMAIN inspected[r]
    BY <2>1 DEF F!Choice
  <2>3. \A x \in DOMAIN chosen' \ {r} : chosen'[r] \cap chosen'[x] = {}
    BY <1>3, <2>1, ChoiceOnce
  <2> QED BY <2>2, <2>3
<1>9. TakenOwn' /\ TakenOnce'
  BY <1>1, TakenSame DEF TakenOwn, TakenOnce, Own
<1> QED BY <1>4, <1>5, <1>6, <1>7, <1>8, <1>9

\* The files taken from a share are leaves of the series, one for each episode
\* chosen from it.
LEMMA FilesOwn ==
    ASSUME FInv, fpc = "transfer", NEW r \in DOMAIN chosen
    PROVE  /\ \A f \in F!Files(r) : /\ Own(cur, f.leaf, f.key) /\ f.key \in chosen[r]
                                    /\ f.resource \in Resources
           /\ \A f, g \in F!Files(r) : f.key = g.key => f = g
           /\ chosen[r] \subseteq gaps[cur]
<1>1. r \in DOMAIN inspected /\ r \in Resources /\ chosen[r] \subseteq DOMAIN inspected[r]
  BY DEF FInv, F!TypeOK, ChosenOnce
<1>2. \A k \in chosen[r] : Own(cur, shares[r].leaves[inspected[r][k]], k)
  BY <1>1 DEF FInv, SelectedOwn
<1>3. chosen[r] \subseteq gaps[cur]
  BY <1>2 DEF Own
<1> QED BY <1>1, <1>2, <1>3 DEF F!Files

\* Taking the files of one chosen share, or some of them.
LEMMA TakeStep ==
    ASSUME FInv, fpc = "transfer", NEW r \in DOMAIN chosen,
           UNCHANGED <<shares, gaps, todo, cur, inspected, fpc>>,
           \/ chosen' = <<>>
           \/ chosen' = [x \in DOMAIN chosen \ {r} |-> chosen[x]],
           Taken(cur)' \subseteq Taken(cur) \cup F!Files(r),
           \A s \in Series \ {cur} : Taken(s)' = Taken(s)
    PROVE  /\ TakenOwn' /\ TakenOnce' /\ SelectedOwn' /\ ChosenOnce'
           /\ \A s \in todo : Taken(s)' = Taken(s)
<1> USE DEF FInv
<1>1. PICK c \in Series : c = cur
  BY DEF F!TypeOK
<1>2. /\ Taken(c)' \subseteq Taken(c) \cup F!Files(r) /\ Taken(cur)' = Taken(c)'
      /\ \A s \in Series \ {c} : Taken(s)' = Taken(s)
  BY <1>1
<1>3. /\ \A f \in F!Files(r) : Own(c, f.leaf, f.key) /\ f.key \in chosen[r]
      /\ \A f, g \in F!Files(r) : f.key = g.key => f = g
  BY <1>1, FilesOwn
<1>4. \A f \in Taken(c) : f.key \notin chosen[r]
  BY <1>1 DEF ChosenOnce
<1>5. TakenOwn'
  <2>1. ASSUME NEW s \in Series, NEW f \in Taken(s)' PROVE Own(s, f.leaf, f.key)
    BY <1>2, <1>3, <2>1 DEF TakenOwn
  <2> QED BY <2>1 DEF TakenOwn, Own
<1>6. TakenOnce'
  <2>1. ASSUME NEW s \in Series, NEW f \in Taken(s)', NEW g \in Taken(s)', f.key = g.key PROVE f = g
    BY <1>2, <1>3, <1>4, <2>1 DEF TakenOnce
  <2> QED BY <2>1 DEF TakenOnce
<1>7. SelectedOwn'
  BY DEF SelectedOwn, Own
<1>8. ChosenOnce'
  <2>1. ASSUME NEW x \in DOMAIN chosen'
        PROVE  x \in DOMAIN chosen /\ x # r /\ chosen'[x] = chosen[x]
    BY <2>1
  <2>2. ASSUME NEW x \in DOMAIN chosen', NEW f \in Taken(c)'
        PROVE  f.key \notin chosen'[x]
    <3>1. chosen[r] \cap chosen[x] = {}
      BY <2>1, <2>2 DEF ChosenOnce
    <3>2. CASE f \in Taken(c)
      BY <1>1, <2>1, <2>2, <3>2 DEF ChosenOnce
    <3>3. CASE f \in F!Files(r)
      BY <1>3, <2>1, <2>2, <3>1, <3>3
    <3> QED BY <1>2, <3>2, <3>3
  <2>3. ASSUME NEW x \in DOMAIN chosen'
        PROVE  /\ chosen'[x] \subseteq DOMAIN inspected[x]
               /\ \A y \in DOMAIN chosen' \ {x} : chosen'[x] \cap chosen'[y] = {}
    BY <2>1 DEF ChosenOnce
  <2> QED BY <1>2, <2>2, <2>3 DEF ChosenOnce
<1>9. \A s \in todo : Taken(s)' = Taken(s)
  BY <1>1, <1>2 DEF Untaken, F!TypeOK
<1> QED BY <1>5, <1>6, <1>7, <1>8, <1>9

\* A queued import takes what was chosen from its share.
LEMMA QueueStep ==
    ASSUME FInv, NEW r \in Resources, F!QueueImport(r)
    PROVE  FInv'
<1> USE DEF FInv
<1>1. /\ fpc = "transfer" /\ fpc' = "transfer" /\ r \in DOMAIN chosen /\ cur \in Series
      /\ chosen' = [x \in DOMAIN chosen \ {r} |-> chosen[x]]
      /\ UNCHANGED <<shares, missing, folder, linked, spec, gaps, todo, cur, candidates,
                     inspected, got, moved, stop>>
  BY DEF F!QueueImport, F!Handled, F!TypeOK
<1>2. fatal' \in BOOLEAN
  BY DEF F!QueueImport, F!TypeOK
<1>3. remaining' \in {remaining, [remaining EXCEPT ![cur] = @ \ chosen[r]]}
  BY DEF F!QueueImport
<1>4. queued' \in {queued, queued \cup {[series |-> cur, files |-> F!Files(r), state |-> "pending"]}}
  BY DEF F!QueueImport
<1>5. \A s \in Series : Taken(s)' \in {Taken(s), Taken(s) \cup (IF s = cur THEN F!Files(r) ELSE {})}
  <2>1. CASE queued' = queued
    BY <1>1, <2>1, TakenSame
  <2>2. CASE queued' = queued \cup {[series |-> cur, files |-> F!Files(r), state |-> "pending"]}
    BY <1>1, <2>2 DEF Taken
  <2> QED BY <1>4, <2>1, <2>2
<1>6. Taken(cur)' \subseteq Taken(cur) \cup F!Files(r) /\ \A s \in Series \ {cur} : Taken(s)' = Taken(s)
  <2>1. PICK c \in Series : c = cur /\ c = cur'
    BY <1>1
  <2>2. Taken(c)' \subseteq Taken(c) \cup F!Files(r)
    BY <1>5, <2>1
  <2>3. Taken(cur)' = Taken(c)'
    BY <2>1
  <2>4. \A s \in Series \ {cur} : Taken(s)' = Taken(s)
    BY <1>5
  <2> QED BY <2>1, <2>2, <2>3, <2>4
<1>7. TakenOwn' /\ TakenOnce' /\ SelectedOwn' /\ ChosenOnce' /\ \A s \in todo : Taken(s)' = Taken(s)
  BY <1>1, <1>6, TakeStep
<1>8. FunctionsOfSeries'
  <2>1. \A q \in queued' : q = [series |-> q.series, files |-> q.files, state |-> q.state]
    BY <1>4 DEF FunctionsOfSeries
  <2> QED BY <1>1, <1>3, <2>1 DEF FunctionsOfSeries
<1>9. F!TypeOK'
  <2>1. \A q \in queued' : q.series \in Series /\ q.state \in {"pending", "cancelled", "kept"}
    BY <1>1, <1>4 DEF F!TypeOK
  <2>2. DOMAIN chosen' \subseteq DOMAIN inspected'
    BY <1>1 DEF F!TypeOK
  <2>3. \A s \in Series : /\ got'[s] \cup remaining'[s] \subseteq gaps'[s]
                          /\ got'[s] \cap remaining'[s] = {}
    BY <1>1, <1>3 DEF F!TypeOK, FunctionsOfSeries
  <2> QED BY <1>1, <1>2, <2>1, <2>2, <2>3 DEF F!TypeOK
<1>10. Untaken' /\ Linked'
  BY <1>1, <1>7 DEF Untaken, Linked, F!UniqueID
<1> QED BY <1>7, <1>8, <1>9, <1>10

\* A share is received with, without or despite an answer.
LEMMA ReceiveStep ==
    ASSUME FInv, NEW r \in Resources, F!ReceiveShare(r)
    PROVE  FInv'
<1> USE DEF FInv
<1>1. /\ fpc = "transfer" /\ fpc' = "transfer" /\ r \in DOMAIN chosen /\ cur \in Series
      /\ \/ chosen' = <<>>
         \/ chosen' = [x \in DOMAIN chosen \ {r} |-> chosen[x]]
      /\ UNCHANGED <<shares, missing, linked, queued, spec, gaps, todo, cur, candidates, inspected>>
  BY DEF F!ReceiveShare, F!Handled, F!TypeOK
<1>2. fatal' \in BOOLEAN /\ stop' \in BOOLEAN /\ moved' \in BOOLEAN
  BY DEF F!ReceiveShare, F!TypeOK
<1>3. \/ UNCHANGED <<got, remaining, moved>>
      \/ /\ got' = [got EXCEPT ![cur] = @ \cup chosen[r]]
         /\ remaining' = [remaining EXCEPT ![cur] = @ \ chosen[r]] /\ moved' = TRUE
  BY DEF F!ReceiveShare
<1>4. folder' \in {folder, [folder EXCEPT ![cur] = @ \cup F!Files(r)]}
  BY DEF F!ReceiveShare
<1>5. /\ folder' = [s \in Series |-> folder'[s]]
      /\ folder'[cur] \subseteq folder[cur] \cup F!Files(r)
      /\ \A s \in Series \ {cur} : folder'[s] = folder[s]
  BY <1>1, <1>4 DEF FunctionsOfSeries
<1>6. Taken(cur)' \subseteq Taken(cur) \cup F!Files(r) /\ \A s \in Series \ {cur} : Taken(s)' = Taken(s)
  BY <1>1, <1>5 DEF Taken
<1>7. TakenOwn' /\ TakenOnce' /\ SelectedOwn' /\ ChosenOnce' /\ \A s \in todo : Taken(s)' = Taken(s)
  BY <1>1, <1>6, TakeStep
<1>8. chosen[r] \subseteq gaps[cur] /\ \A f \in F!Files(r) : f.resource \in Resources
  BY <1>1, FilesOwn
<1>9. FunctionsOfSeries'
  <2>1. chosen[r] \subseteq F!Episodes
    BY <1>1, <1>8 DEF FunctionsOfSeries
  <2> QED BY <1>1, <1>3, <1>5, <2>1 DEF FunctionsOfSeries
<1>10. F!TypeOK'
  <2>1. \A s \in Series : /\ got'[s] \cup remaining'[s] \subseteq gaps'[s]
                          /\ got'[s] \cap remaining'[s] = {}
    BY <1>1, <1>3, <1>8 DEF F!TypeOK, FunctionsOfSeries
  <2>2. \A s \in Series : \A f \in folder'[s] : f.resource \in Resources
    BY <1>1, <1>5, <1>8 DEF F!TypeOK
  <2>3. DOMAIN chosen' \subseteq DOMAIN inspected'
    BY <1>1 DEF F!TypeOK
  <2> QED BY <1>1, <1>2, <2>1, <2>2, <2>3 DEF F!TypeOK
<1>11. cur \notin todo /\ F!UniqueID(cur)
  BY <1>1 DEF Untaken
<1>12. \A s \in Series \ {cur} : got'[s] = got[s]
  BY <1>3 DEF FunctionsOfSeries
<1>13. Untaken'
  BY <1>1, <1>7, <1>11, <1>12 DEF Untaken, F!UniqueID, F!TypeOK
<1>14. Linked'
  BY <1>1, <1>3 DEF Linked
<1> QED BY <1>7, <1>9, <1>10, <1>13, <1>14

\* What does not appear on the mount counts as remaining again.
LEMMA WaitStep ==
    ASSUME FInv, F!WaitForFiles
    PROVE  FInv'
<1> USE DEF FInv
<1>1. /\ fpc = "transfer" /\ fpc' = "library" /\ cur \in Series
      /\ UNCHANGED <<shares, missing, folder, linked, queued, spec, gaps, todo, cur, candidates,
                     inspected, chosen, moved, stop>>
  BY DEF F!WaitForFiles, F!world, F!TypeOK
<1>2. fatal' \in BOOLEAN
  BY DEF F!WaitForFiles, F!TypeOK
<1>3. \/ UNCHANGED <<got, remaining>>
      \/ /\ remaining' = [remaining EXCEPT ![cur] = @ \cup got[cur]]
         /\ got' = [got EXCEPT ![cur] = {}]
  BY DEF F!WaitForFiles, F!NotSeen
<1>4. FunctionsOfSeries'
  BY <1>1, <1>3 DEF FunctionsOfSeries
<1>5. F!TypeOK'
  <2>1. \A s \in Series : /\ got'[s] \cup remaining'[s] \subseteq gaps'[s]
                          /\ got'[s] \cap remaining'[s] = {}
    BY <1>1, <1>3 DEF F!TypeOK, FunctionsOfSeries
  <2> QED BY <1>1, <1>2, <2>1 DEF F!TypeOK
<1>6. \A s \in Series : got'[s] \subseteq got[s]
  BY <1>3 DEF FunctionsOfSeries
<1>7. Untaken' /\ SelectedOwn' /\ ChosenOnce' /\ Linked'
  BY <1>1, <1>6, TakenSame DEF Untaken, SelectedOwn, ChosenOnce, Linked, F!TypeOK
<1>8. TakenOwn' /\ TakenOnce'
  BY <1>1, TakenSame DEF TakenOwn, TakenOnce, Own
<1> QED BY <1>4, <1>5, <1>7, <1>8

\* Everything reported as transferred gets its STRM file.
LEMMA SyncRunStep ==
    ASSUME FInv, NEW late, F!SyncSTRM(late)
    PROVE  FInv'
<1> USE DEF FInv
<1>1. /\ fpc = "library" /\ fpc' \in {"scan", "verify"} /\ (fpc' = "verify" => ~moved)
      /\ UNCHANGED <<shares, missing, folder, queued, spec, gaps, todo, cur, candidates,
                     inspected, chosen, got, remaining, moved, fatal, stop>>
  BY DEF F!SyncSTRM, F!run
<1>2. \A s \in Series : folder[s] \subseteq Taken(s)
  BY DEF Taken
<1>3. \A s \in Series : \A f \in folder[s] : f.key \in F!Episodes
  BY <1>2 DEF TakenOwn, Own, FunctionsOfSeries
<1>4. linked' \in [Series -> SUBSET F!Episodes] /\ \A s \in Series : got[s] \subseteq linked'[s]
  BY <1>3 DEF F!SyncSTRM, FunctionsOfSeries
<1>5. F!TypeOK' /\ FunctionsOfSeries'
  BY <1>1, <1>4 DEF F!TypeOK, FunctionsOfSeries
<1>6. Untaken' /\ SelectedOwn' /\ ChosenOnce' /\ Linked'
  BY <1>1, <1>4, TakenSame DEF Untaken, SelectedOwn, ChosenOnce, Linked
<1>7. TakenOwn' /\ TakenOnce'
  BY <1>1, TakenSame DEF TakenOwn, TakenOnce, Own
<1> QED BY <1>5, <1>6, <1>7

\* What is linked is no longer missing after the scan.
LEMMA LibraryStep ==
    ASSUME FInv, F!RunLibraryScan
    PROVE  FInv'
<1> USE DEF FInv
<1>1. /\ fpc = "scan" /\ fpc' = "verify"
      /\ missing' = [s \in Series |-> missing[s] \ linked[s]]
      /\ UNCHANGED <<shares, folder, linked, queued, spec, gaps, todo, cur, candidates,
                     inspected, chosen, got, remaining, moved, fatal, stop>>
  BY DEF F!RunLibraryScan, F!run
<1>2. F!TypeOK' /\ FunctionsOfSeries'
  BY <1>1 DEF F!TypeOK, FunctionsOfSeries
<1>3. Untaken' /\ SelectedOwn' /\ ChosenOnce' /\ Linked'
  BY <1>1, TakenSame DEF Untaken, SelectedOwn, ChosenOnce, Linked
<1>4. TakenOwn' /\ TakenOnce'
  BY <1>1, TakenSame DEF TakenOwn, TakenOnce, Own
<1> QED BY <1>2, <1>3, <1>4

\* What still is missing was not transferred.
LEMMA VerifyStep ==
    ASSUME FInv, F!VerifyRun
    PROVE  FInv'
<1> USE DEF FInv
<1>1. /\ fpc = "verify" /\ fpc' \in {"cleanup", "done"}
      /\ remaining' = [s \in Series |-> missing[s] \cap gaps[s]]
      /\ UNCHANGED <<shares, missing, folder, linked, queued, spec, gaps, todo, cur, candidates,
                     inspected, chosen, got, moved, stop>>
  BY DEF F!VerifyRun, F!world
<1>2. fatal' \in BOOLEAN
  BY DEF F!VerifyRun, F!TypeOK
<1>3. FunctionsOfSeries'
  BY <1>1 DEF FunctionsOfSeries
<1>4. F!TypeOK'
  <2>1. \A s \in Series : /\ got'[s] \cup remaining'[s] \subseteq gaps'[s]
                          /\ got'[s] \cap remaining'[s] = {}
    BY <1>1 DEF F!TypeOK, Linked
  <2> QED BY <1>1, <1>2, <2>1 DEF F!TypeOK
<1>5. Untaken' /\ SelectedOwn' /\ ChosenOnce' /\ Linked'
  BY <1>1, TakenSame DEF Untaken, SelectedOwn, ChosenOnce, Linked
<1>6. TakenOwn' /\ TakenOnce'
  BY <1>1, TakenSame DEF TakenOwn, TakenOnce, Own
<1> QED BY <1>3, <1>4, <1>5, <1>6

\* Cancelling an import, or failing to, adds nothing to what was taken.
LEMMA CancelStep ==
    ASSUME FInv, NEW q \in queued, F!CancelImport(q)
    PROVE  FInv'
<1> USE DEF FInv
<1>1. /\ fpc = "cleanup" /\ fpc' = "cleanup"
      /\ UNCHANGED <<shares, missing, folder, linked, spec, gaps, todo, cur, candidates,
                     inspected, chosen, got, remaining, moved, fatal, stop>>
  BY DEF F!CancelImport, F!run
<1>2. PICK outcome \in {"cancelled", "kept"} :
        queued' = (queued \ {q}) \cup {[q EXCEPT !.state = outcome]}
  BY DEF F!CancelImport
<1>3. [q EXCEPT !.state = outcome] = [series |-> q.series, files |-> q.files, state |-> outcome]
  BY DEF FunctionsOfSeries
<1>4. \A p \in queued' : /\ p.series \in Series /\ p.state \in {"pending", "cancelled", "kept"}
                         /\ \E o \in queued : o.series = p.series /\ o.files = p.files
                         /\ p = [series |-> p.series, files |-> p.files, state |-> p.state]
  BY <1>2, <1>3 DEF F!TypeOK, FunctionsOfSeries
<1>5. \A s \in Series : Taken(s)' \subseteq Taken(s)
  BY <1>1, <1>4 DEF Taken
<1>6. F!TypeOK' /\ FunctionsOfSeries'
  BY <1>1, <1>4 DEF F!TypeOK, FunctionsOfSeries
<1>7. Untaken' /\ SelectedOwn' /\ ChosenOnce' /\ Linked'
  BY <1>1, <1>5 DEF Untaken, SelectedOwn, ChosenOnce, Linked, F!TypeOK
<1>8. TakenOwn' /\ TakenOnce'
  BY <1>1, <1>5 DEF TakenOwn, TakenOnce, Own
<1> QED BY <1>6, <1>7, <1>8

\* The clean-up is over when every import was tried.
LEMMA CleanupStep ==
    ASSUME FInv, F!Cleanup
    PROVE  FInv'
<1> USE DEF FInv
<1>1. /\ fpc = "cleanup" /\ fpc' = "failed" /\ \A q \in queued : q.state \in {"cancelled", "kept"}
      /\ UNCHANGED <<shares, missing, folder, linked, queued, spec, gaps, todo, cur, candidates,
                     inspected, chosen, got, remaining, moved, fatal, stop>>
  BY DEF F!Cleanup, F!AllTried, F!TypeOK, F!world, F!run
<1>2. F!TypeOK' /\ FunctionsOfSeries'
  BY <1>1 DEF F!TypeOK, FunctionsOfSeries
<1>3. Untaken' /\ SelectedOwn' /\ ChosenOnce' /\ Linked'
  BY <1>1, TakenSame DEF Untaken, SelectedOwn, ChosenOnce, Linked, F!TypeOK
<1>4. TakenOwn' /\ TakenOnce'
  BY <1>1, TakenSame DEF TakenOwn, TakenOnce, Own
<1> QED BY <1>2, <1>3, <1>4

\* A step of the worker is a step of the fill or leaves it alone.
LEMMA FillStepOnly ==
    [WorkerNext]_workerVars => F!Next \/ UNCHANGED fillVars
BY DEF WorkerNext, workerVars, ReplacementStep, FillStep, IngestStep, SyncStep, SaveStep

\* The other procedures leave the fill's invariant alone.
LEMMA FillUnchanged == ASSUME FInv, UNCHANGED fillVars PROVE FInv'
<1> USE DEF FInv, fillVars
<1>1. F!TypeOK' /\ FunctionsOfSeries'
  BY DEF F!TypeOK, FunctionsOfSeries, F!SeriesIDs
<1>2. Untaken' /\ SelectedOwn' /\ ChosenOnce' /\ Linked'
  BY TakenSame DEF Untaken, SelectedOwn, ChosenOnce, Linked, Own, F!UniqueID
<1>3. TakenOwn' /\ TakenOnce'
  BY TakenSame DEF TakenOwn, TakenOnce, Own
<1> QED BY <1>1, <1>2, <1>3

\* The strengthening of OnlyOwnEpisodes and RunAccounted is an invariant of
\* the worker.
LEMMA AlwaysFInv == WorkerSpec => []FInv
<1>1. WorkerInit => FInv
  BY FillInit DEF WorkerInit
<1>2. FInv /\ F!Next => FInv'
  BY PaceSteps, ListStep, StartStep, UnusableStep, ScanStep, ChooseStep, QueueStep, ReceiveStep,
     WaitStep, SyncRunStep, LibraryStep, VerifyStep, CancelStep,
     CleanupStep DEF F!Next
<1>3. FInv /\ [WorkerNext]_workerVars => FInv'
  BY <1>2, FillStepOnly, FillUnchanged
<1> QED BY <1>1, <1>3, PTL DEF WorkerSpec

\* Whatever shares turn up, as long as their names tell the truth, a series
\* gets only files of its own work, and of its own season where the path of the
\* file gives one (autoFillEpisodeIdentityMatches).
THEOREM FillsOwnEpisodes == WorkerSpec => []OnlyOwnEpisodes
<1>1. FInv => OnlyOwnEpisodes
  BY DEF FInv, TakenOwn, Taken, Own, GivesSeason, OnlyOwnEpisodes, F!OnlyOwnEpisodes
<1> QED BY <1>1, AlwaysFInv, PTL

\* A run of runSeriesAutoFill takes an episode from one share at most, links
\* what it reports, and when it fails tries to cancel every import it queued.
THEOREM FillIsAccounted == WorkerSpec => []RunAccounted
<1>1. FInv => RunAccounted
  BY DEF FInv, TakenOnce, Taken, Linked, RunAccounted, F!RunAccounted
<1> QED BY <1>1, AlwaysFInv, PTL

-----------------------------------------------------------------------------
(* All procedures.                                                         *)

\* The worker does to a replacement what Replacement says.
LEMMA ReplacementOnly ==
    /\ WorkerInit => Init
    /\ [WorkerNext]_workerVars => [Next]_vars
BY DEF WorkerInit, WorkerNext, workerVars, ReplacementStep, FillStep, IngestStep, SyncStep, SaveStep

\* The state of every procedure of the worker stays within its ranges.
THEOREM WorkerTyped == WorkerSpec => []PartsTypeOK
<1>1. WorkerSpec => Spec
  BY ReplacementOnly, PTL DEF WorkerSpec, Spec
<1>2. TypeOK /\ SInv /\ GInv /\ QInv /\ FInv => PartsTypeOK
  BY DEF SInv, GInv, QInv, FInv, PartsTypeOK
<1> QED BY <1>1, <1>2, TypeCorrect, AlwaysSInv, AlwaysGInv, AlwaysQInv, AlwaysFInv, PTL
=============================================================================
