------------------------------ MODULE TaskQueue ------------------------------
(***************************************************************************)
(* The persistent task queue: internal/service/taskqueue.go over the       *)
(* async_tasks, task_runs and cross_drive_imports tables of                *)
(* internal/storage.                                                       *)
(*                                                                         *)
(* One worker goroutine claims pending rows and runs them one at a time.   *)
(* HTTP and MCP handlers enqueue, cancel and retry concurrently, the       *)
(* deletion handler borrows the media lock, and the process may be         *)
(* terminated gracefully or crash between any two of its durable writes.   *)
(* Every method of *DB holds DB.mu and is one transaction, so it is one    *)
(* step; everything between two such calls is a separate step.             *)
(***************************************************************************)
EXTENDS Integers, Sequences, FiniteSets

CONSTANTS
    Uuids,          \* identifiers uuid.NewString may return
    NoTask,         \* an empty source, parent or prior task reference
    Submitted,      \* the task kinds clients submit in this model
    Limit,          \* how many rows processPendingTasks lists (5 in the code)
    MaxCrashes,     \* bound on crashes and on graceful terminations
    MaxFaults,      \* bound on failing database writes
    MaxMutations    \* bound on media mutations started by the deletion handler

\* uuid.NewSHA1 of "media-ingest:" and the source: one identifier per source.
IngestId(u) == <<"media-ingest", u>>
IngestIds == {IngestId(u) : u \in Uuids}
Ids == Uuids \cup IngestIds

\* quark_to_115_import comes in two forms: submitted by a client ("import") or
\* bound to a series by series_auto_fill ("bound"). "effect" stands for every
\* other task type, none of which creates tasks or reads another task.
Imports == {"import", "bound"}
Kinds == Imports \cup {"ingest", "autofill", "effect"}
Terminal == {"completed", "failed", "cancelled"}

ASSUME IdAssumption == NoTask \notin Ids /\ Uuids \cap IngestIds = {}
ASSUME FiniteAssumption == IsFiniteSet(Ids)
ASSUME KindAssumption == Submitted \subseteq Kinds \ {"bound"}
ASSUME BoundAssumption == /\ Limit \in Nat \ {0}
                          /\ MaxCrashes \in Nat
                          /\ MaxFaults \in Nat
                          /\ MaxMutations \in Nat

VARIABLES
    \* rows of async_tasks and task_runs
    status, kind, attempts, maxAttempts, createdAt, runs,
    link,           \* payload source_task_id or parent_task_id
    prior,          \* payload prior_import_task_id
    \* rows of cross_drive_imports
    row,            \* "none", "row" (no saved roots yet) or "roots"
    cancelRequested, owned,
    \* the provider: how often each task submitted its share save
    saves,
    \* the process
    proc,           \* "down", "up" or "stopping" (the signal context is done)
    wpc,            \* where the worker goroutine is
    batch,          \* rows listed by processPendingTasks, not yet tried
    cur,            \* the task executeTask runs
    ctxDone,        \* the cancel function of cur was called
    running,        \* keys of TaskQueueService.running
    outcome,        \* the status executeTask is about to record
    mediaMu,        \* who is between locking and unlocking mediaMu
    cpc, ctask,     \* a Cancel request and its task
    crashes, faults, mutations

taskVars == <<status, kind, attempts, maxAttempts, createdAt, runs, link, prior>>
importVars == <<row, cancelRequested, owned, saves>>
workerVars == <<wpc, batch, cur, ctxDone, running, outcome>>
cancelVars == <<cpc, ctask>>
countVars == <<crashes, faults, mutations>>
vars == <<taskVars, importVars, proc, workerVars, mediaMu, cancelVars, countVars>>

WorkerPCs == {"off", "poll", "claimed", "started", "run", "owned", "checked",
              "saving", "transfer", "finish", "cleanup"}
Executing == WorkerPCs \ {"off", "poll"}

\* Only random identifiers name imports.
TaskTypeOK ==
    /\ status \in [Ids -> Terminal \cup {"absent", "pending", "running"}]
    /\ kind \in [Ids -> Kinds] /\ \A t \in IngestIds : kind[t] \notin Imports
    /\ attempts \in [Ids -> Nat] /\ maxAttempts \in [Ids -> Nat]
    /\ createdAt \in [Ids -> Nat]
    /\ runs \in [Ids -> Seq(Terminal \cup {"running"})]
    /\ link \in [Ids -> Ids \cup {NoTask}] /\ prior \in [Ids -> Ids \cup {NoTask}]

ImportTypeOK ==
    /\ row \in [Ids -> {"none", "row", "roots"}]
    /\ cancelRequested \subseteq Ids /\ owned \subseteq Ids
    /\ saves \in [Ids -> Nat]

\* The worker has a current task exactly while it executes one.
WorkerTypeOK ==
    /\ wpc \in WorkerPCs /\ batch \subseteq Ids
    /\ IF wpc \in Executing THEN cur \in Ids ELSE cur = NoTask
    /\ ctxDone \in BOOLEAN /\ running \subseteq Ids /\ outcome \in Terminal

ProcessTypeOK ==
    /\ proc \in {"down", "up", "stopping"} /\ mediaMu \subseteq {"worker", "api"}
    /\ IF cpc = "idle" THEN ctask = NoTask
                       ELSE cpc \in {"pending", "request", "signal"} /\ ctask \in Ids
    /\ crashes \in 0..MaxCrashes /\ faults \in 0..MaxFaults
    /\ mutations \in 0..MaxMutations

TypeOK == TaskTypeOK /\ ImportTypeOK /\ WorkerTypeOK /\ ProcessTypeOK

Init ==
    /\ status = [t \in Ids |-> "absent"] /\ kind = [t \in Ids |-> "effect"]
    /\ attempts = [t \in Ids |-> 0] /\ maxAttempts = [t \in Ids |-> 0]
    /\ createdAt = [t \in Ids |-> 0] /\ runs = [t \in Ids |-> <<>>]
    /\ link = [t \in Ids |-> NoTask] /\ prior = [t \in Ids |-> NoTask]
    /\ row = [t \in Ids |-> "none"] /\ cancelRequested = {}
    /\ owned = {} /\ saves = [t \in Ids |-> 0]
    /\ proc = "down" /\ wpc = "off" /\ batch = {} /\ cur = NoTask
    /\ ctxDone = FALSE /\ running = {} /\ outcome = "failed"
    /\ mediaMu = {} /\ cpc = "idle" /\ ctask = NoTask
    /\ crashes = 0 /\ faults = 0 /\ mutations = 0

-----------------------------------------------------------------------------
(* Enqueue, Retry and the deletion handler's media lock.                   *)

Existing == {t \in Ids : status[t] # "absent"}

\* persistTask and CreateAsyncTask: a pending row with one attempt allowed.
CreateAsyncTask(t, k, source, before) ==
    /\ status[t] = "absent"
    /\ status' = [status EXCEPT ![t] = "pending"]
    /\ kind' = [kind EXCEPT ![t] = k]
    /\ maxAttempts' = [maxAttempts EXCEPT ![t] = 1]
    /\ createdAt' = [createdAt EXCEPT ![t] = Cardinality(Existing) + 1]
    /\ link' = [link EXCEPT ![t] = source]
    /\ prior' = [prior EXCEPT ![t] = before]
    /\ UNCHANGED <<attempts, runs>>

\* Enqueue: a client names any source for an ingest; the other kinds have none.
Enqueue(t, k, source) ==
    /\ proc # "down" /\ k \in Submitted
    /\ (k = "ingest") <=> (source # NoTask)
    /\ CreateAsyncTask(t, k, source, NoTask)
    /\ UNCHANGED <<importVars, proc, workerVars, mediaMu, cancelVars, countVars>>

\* Retry: a new row from a failed or cancelled one. An import whose row has no
\* saved roots is refused: its share save may have reached the provider.
Retry(t, new) ==
    /\ proc # "down" /\ status[t] \in {"failed", "cancelled"}
    /\ \/ /\ kind[t] \in Imports /\ row[t] # "row"
          /\ CreateAsyncTask(new, kind[t], link[t], t)
       \/ /\ kind[t] \notin Imports
          /\ CreateAsyncTask(new, kind[t], link[t], NoTask)
    /\ UNCHANGED <<importVars, proc, workerVars, mediaMu, cancelVars, countVars>>

\* TryMediaMutation: the deletion handler's critical section opens and closes.
BeginMediaMutation ==
    /\ proc # "down" /\ mediaMu = {} /\ mutations < MaxMutations
    /\ mediaMu' = mediaMu \cup {"api"} /\ mutations' = mutations + 1
    /\ UNCHANGED <<taskVars, importVars, proc, workerVars, cancelVars, crashes, faults>>

EndMediaMutation ==
    /\ "api" \in mediaMu
    /\ mediaMu' = mediaMu \ {"api"}
    /\ UNCHANGED <<taskVars, importVars, proc, workerVars, cancelVars, countVars>>

-----------------------------------------------------------------------------
(* Cancel: the status is read first and acted upon in later steps.         *)

CancelRead(t) ==
    /\ proc # "down" /\ cpc = "idle" /\ status[t] \in {"pending", "running"}
    /\ ctask' = t
    /\ cpc' = IF status[t] = "pending" THEN "pending"
              ELSE IF kind[t] \in Imports THEN "request" ELSE "signal"
    /\ UNCHANGED <<taskVars, importVars, proc, workerVars, mediaMu, countVars>>

\* CancelPendingAsyncTask updates only WHERE status = 'pending'.
CancelPendingAsyncTask ==
    /\ cpc = "pending"
    /\ status' = [status EXCEPT ![ctask] = IF @ = "pending" THEN "cancelled" ELSE @]
    /\ cpc' = "idle" /\ ctask' = NoTask
    /\ UNCHANGED <<kind, attempts, maxAttempts, createdAt, runs, link, prior>>
    /\ UNCHANGED <<importVars, proc, workerVars, mediaMu, countVars>>

\* RequestCrossDriveCancellation: an UPDATE, without effect when no row exists.
RequestCrossDriveCancellation ==
    /\ cpc = "request"
    /\ cancelRequested' = cancelRequested \cup {t \in {ctask} : row[t] # "none"}
    /\ cpc' = "signal"
    /\ UNCHANGED <<taskVars, row, owned, saves, proc, workerVars, mediaMu, ctask, countVars>>

\* The lookup in s.running: no entry is an error, an entry is called.
SignalRunning ==
    /\ cpc = "signal"
    /\ ctxDone' = (ctxDone \/ ctask \in running)
    /\ cpc' = "idle" /\ ctask' = NoTask
    /\ UNCHANGED <<taskVars, importVars, proc, wpc, batch, cur, running, outcome>>
    /\ UNCHANGED <<mediaMu, countVars>>

-----------------------------------------------------------------------------
(* The worker goroutine: workerLoop, processPendingTasks, executeTask.     *)

Pending == {t \in Ids : status[t] = "pending"}

\* ListPendingAsyncTasks: the Limit oldest pending rows.
OldestPending ==
    {t \in Pending : Cardinality({u \in Pending : createdAt[u] < createdAt[t]}) < Limit}

ListPending ==
    /\ wpc = "poll" /\ batch = {} /\ proc = "up"
    /\ batch' = OldestPending
    /\ UNCHANGED <<taskVars, importVars, proc, wpc, cur, ctxDone, running, outcome>>
    /\ UNCHANGED <<mediaMu, cancelVars, countVars>>

NextInBatch(t) == t \in batch /\ \A u \in batch : createdAt[t] <= createdAt[u]

\* Mutant of Claimable: the claim trusts the listed row.
ClaimStaleRow(t) == attempts[t] < maxAttempts[t]
Claimable(t) == status[t] = "pending" /\ attempts[t] < maxAttempts[t]

\* Mutant of MediaLockFree: the worker does not try the media lock.
IgnoreMediaLock == TRUE
MediaLockFree == mediaMu = {}

\* executeTask up to BeginAsyncTask. The media lock is taken with TryLock and
\* kept; the claim moves the row to running and appends a running run.
BeginAsyncTask(t) ==
    /\ wpc = "poll" /\ proc = "up" /\ NextInBatch(t)
    /\ MediaLockFree /\ Claimable(t)
    /\ mediaMu' = mediaMu \cup {"worker"} /\ wpc' = "claimed" /\ cur' = t /\ batch' = batch \ {t}
    /\ ctxDone' = FALSE
    /\ status' = [status EXCEPT ![t] = "running"]
    /\ attempts' = [attempts EXCEPT ![t] = @ + 1]
    /\ runs' = [runs EXCEPT ![t] = Append(@, "running")]
    /\ UNCHANGED <<kind, maxAttempts, createdAt, link, prior, running, outcome>>
    /\ UNCHANGED <<importVars, proc, cancelVars, countVars>>

\* The lock is busy, the row is no longer claimable, or the claim fails.
SkipTask(t) ==
    /\ wpc = "poll" /\ proc = "up" /\ NextInBatch(t)
    /\ \/ ~(MediaLockFree /\ Claimable(t)) /\ UNCHANGED faults
       \/ MediaLockFree /\ faults < MaxFaults /\ faults' = faults + 1
    /\ batch' = batch \ {t}
    /\ UNCHANGED <<taskVars, importVars, proc, wpc, cur, ctxDone, running, outcome>>
    /\ UNCHANGED <<mediaMu, cancelVars, crashes, mutations>>

\* s.running[task.ID] = cancel, one step after the row says running.
RegisterRunning ==
    /\ wpc = "claimed"
    /\ running' = running \cup {cur} /\ wpc' = "started"
    /\ UNCHANGED <<taskVars, importVars, proc, batch, cur, ctxDone, outcome>>
    /\ UNCHANGED <<mediaMu, cancelVars, countVars>>

\* The start log and first progress write; when one fails the task is failed
\* without having run.
StartRun ==
    /\ wpc = "started"
    /\ \/ wpc' = "run" /\ UNCHANGED <<outcome, faults>>
       \/ /\ faults < MaxFaults /\ faults' = faults + 1
          /\ wpc' = "finish" /\ outcome' = "failed"
    /\ UNCHANGED <<taskVars, importVars, proc, batch, cur, ctxDone, running>>
    /\ UNCHANGED <<mediaMu, cancelVars, crashes, mutations>>

\* The task's context is done: its own cancel function or the parent context.
Cancelled == ctxDone \/ proc = "stopping"

\* run returns. Once the import is claimed, a deferred call clears run_owner;
\* its error is dropped.
Return(result) ==
    /\ wpc' = "finish" /\ outcome' = result
    /\ \/ /\ owned' = IF wpc = "run" THEN owned ELSE owned \ {cur}
          /\ UNCHANGED faults
       \/ /\ wpc # "run" /\ faults < MaxFaults /\ faults' = faults + 1
          /\ UNCHANGED owned

\* An error: cancelled when the context is done, failed otherwise.
RunFails ==
    /\ wpc \in {"run", "owned", "checked", "saving", "transfer"}
    /\ Return(IF Cancelled THEN "cancelled" ELSE "failed")
    /\ UNCHANGED <<taskVars, row, cancelRequested, saves, proc, batch, cur, ctxDone, running>>
    /\ UNCHANGED <<mediaMu, cancelVars, crashes, mutations>>

\* runMediaIngest proceeds only when its source is a completed plain import;
\* the other kinds have no such condition.
IngestSourceReady(t) ==
    /\ link[t] # NoTask /\ status[link[t]] = "completed" /\ kind[link[t]] = "import"

RunSucceeds ==
    /\ wpc = "run" /\ kind[cur] \notin Imports
    /\ kind[cur] = "ingest" => IngestSourceReady(cur)
    /\ Return("completed")
    /\ UNCHANGED <<taskVars, row, cancelRequested, saves, proc, batch, cur, ctxDone, running>>
    /\ UNCHANGED <<mediaMu, cancelVars, crashes, mutations>>

\* runSeriesAutoFill queues a bound Quark import for a series and goes on.
EnqueueAutofillQuarkImport(t) ==
    /\ wpc = "run" /\ kind[cur] = "autofill"
    /\ CreateAsyncTask(t, "bound", cur, NoTask)
    /\ UNCHANGED <<importVars, proc, workerVars, mediaMu, cancelVars, countVars>>

-----------------------------------------------------------------------------
(* runQuarkTo115Import, down to its checkpoints.                           *)

\* Mutant of ParentCompleted: the child only asks that its parent has ended.
ParentEnded(t) == link[t] # NoTask /\ status[link[t]] \in Terminal
ParentCompleted(t) ==
    link[t] # NoTask /\ status[link[t]] = "completed" /\ kind[link[t]] = "autofill"

\* The parent check, CreateCrossDriveImport and ClaimCrossDriveImport.
ImportCheckpoint ==
    /\ wpc = "run" /\ kind[cur] \in Imports /\ cur \notin owned
    /\ kind[cur] = "bound" => ParentCompleted(cur)
    /\ row' = [row EXCEPT ![cur] = IF @ = "none" THEN "row" ELSE @]
    /\ owned' = owned \cup {cur}
    /\ wpc' = "owned"
    /\ UNCHANGED <<taskVars, cancelRequested, saves, proc, batch, cur, ctxDone, running, outcome>>
    /\ UNCHANGED <<mediaMu, cancelVars, countVars>>

\* state.CancelRequested: context.Canceled whatever the context says.
ImportCancelled ==
    /\ wpc \in {"owned", "transfer"} /\ cur \in cancelRequested
    /\ Return("cancelled")
    /\ UNCHANGED <<taskVars, row, cancelRequested, saves, proc, batch, cur, ctxDone, running>>
    /\ UNCHANGED <<mediaMu, cancelVars, crashes, mutations>>

\* The row carries no cancellation: it is not looked at again before the items.
CancelNotRequested ==
    /\ wpc = "owned" /\ cur \notin cancelRequested
    /\ wpc' = "checked"
    /\ UNCHANGED <<taskVars, importVars, proc, batch, cur, ctxDone, running, outcome>>
    /\ UNCHANGED <<mediaMu, cancelVars, countVars>>

PriorHas(t, checkpoint) == prior[t] # NoTask /\ row[prior[t]] = checkpoint

\* Saved roots of this task or of the prior one are reused.
ReuseRoots ==
    /\ wpc = "checked"
    /\ row[cur] = "roots" \/ PriorHas(cur, "roots")
    /\ row' = [row EXCEPT ![cur] = "roots"]
    /\ wpc' = "transfer"
    /\ UNCHANGED <<taskVars, cancelRequested, owned, saves, proc, batch, cur, ctxDone, running, outcome>>
    /\ UNCHANGED <<mediaMu, cancelVars, countVars>>

\* The share is submitted to the provider: only without roots of its own, with
\* no prior row, and on the first attempt (the listed row had attempts = 0).
\* Mutant of MaySaveShare: a resumed first attempt submits the share again.
SaveShareOnResume(t) == row[t] = "row" /\ ~PriorHas(t, "roots") /\ ~PriorHas(t, "row")
MaySaveShare(t) ==
    /\ row[t] = "row"
    /\ ~PriorHas(t, "roots") /\ ~PriorHas(t, "row")
    /\ attempts[t] = 1

SaveProviderShare ==
    /\ wpc = "checked" /\ MaySaveShare(cur)
    /\ saves' = [saves EXCEPT ![cur] = @ + 1]
    /\ wpc' = "saving"
    /\ UNCHANGED <<taskVars, row, cancelRequested, owned, proc, batch, cur, ctxDone, running, outcome>>
    /\ UNCHANGED <<mediaMu, cancelVars, countVars>>

SaveCrossDriveRoots ==
    /\ wpc = "saving"
    /\ row' = [row EXCEPT ![cur] = "roots"]
    /\ wpc' = "transfer"
    /\ UNCHANGED <<taskVars, cancelRequested, owned, saves, proc, batch, cur, ctxDone, running, outcome>>
    /\ UNCHANGED <<mediaMu, cancelVars, countVars>>

\* Every item is verified. A plain import queues its ingest, once: an existing
\* row with the deterministic identifier is returned as it is.
\* Mutant of QueuesIngest: a resumed import assumes that the ingest exists.
QueuesIngestFirstTime(t) ==
    kind[t] = "import" /\ status[IngestId(t)] = "absent" /\ attempts[t] = 1
QueuesIngest(t) == kind[t] = "import" /\ status[IngestId(t)] = "absent"

ImportVerified ==
    /\ wpc = "transfer"
    /\ IF QueuesIngest(cur)
         THEN CreateAsyncTask(IngestId(cur), "ingest", cur, NoTask)
         ELSE UNCHANGED taskVars
    /\ Return("completed")
    /\ UNCHANGED <<row, cancelRequested, saves, proc, batch, cur, ctxDone, running>>
    /\ UNCHANGED <<mediaMu, cancelVars, crashes, mutations>>

-----------------------------------------------------------------------------

LastRun(t) == runs[t][Len(runs[t])]
CloseRun(history, result) == [history EXCEPT ![Len(history)] = result]

\* FinishAsyncTask: the row and its running run move together. When the write
\* fails the error is only logged, and the row stays running.
FinishAsyncTask ==
    /\ wpc = "finish"
    /\ \/ /\ status[cur] = "running" /\ runs[cur] # <<>> /\ LastRun(cur) = "running"
          /\ status' = [status EXCEPT ![cur] = outcome]
          /\ runs' = [runs EXCEPT ![cur] = CloseRun(@, outcome)]
          /\ UNCHANGED faults
       \/ /\ faults < MaxFaults /\ faults' = faults + 1
          /\ UNCHANGED <<status, runs>>
    /\ wpc' = "cleanup"
    /\ UNCHANGED <<kind, attempts, maxAttempts, createdAt, link, prior>>
    /\ UNCHANGED <<importVars, proc, batch, cur, ctxDone, running, outcome>>
    /\ UNCHANGED <<mediaMu, cancelVars, crashes, mutations>>

\* The deferred functions of executeTask: forget the cancel function, unlock.
Cleanup ==
    /\ wpc = "cleanup"
    /\ running' = running \ {cur} /\ mediaMu' = mediaMu \ {"worker"}
    /\ wpc' = "poll" /\ cur' = NoTask /\ ctxDone' = FALSE
    /\ UNCHANGED <<taskVars, importVars, proc, batch, outcome, cancelVars, countVars>>

\* The parent context is done between two tasks: the goroutine returns.
WorkerReturns ==
    /\ wpc = "poll" /\ proc = "stopping"
    /\ wpc' = "off" /\ batch' = {}
    /\ UNCHANGED <<taskVars, importVars, proc, cur, ctxDone, running, outcome>>
    /\ UNCHANGED <<mediaMu, cancelVars, countVars>>

-----------------------------------------------------------------------------
(* The process: Start, termination, crash.                                 *)

\* Mutant of Resumable: every interrupted task is resumed.
ResumeEverything == Kinds
Resumable == Imports

\* Mutant of RecoveredStatus: interrupted work gets a status no reader knows.
InterruptedStatus(t) == IF status[t] = "running" THEN "interrupted" ELSE status[t]
\* Mutant of RecoveredStatus: a restart leaves the rows as it finds them.
LeaveStatus(t) == status[t]
RecoveredStatus(t) ==
    IF status[t] # "running" THEN status[t]
    ELSE IF kind[t] \in Resumable THEN "pending" ELSE "failed"

\* Mutant of RecoveredMaxAttempts: the spent attempt is not given back.
KeepMaxAttempts(t) == maxAttempts[t]
RecoveredMaxAttempts(t) ==
    IF status[t] = "running" /\ kind[t] \in Resumable /\ maxAttempts[t] < attempts[t] + 1
      THEN attempts[t] + 1
      ELSE maxAttempts[t]

\* Mutant of RecoveredRun: the interrupted run record stays open.
KeepRun(r) == r
RecoveredRun(r) == IF r = "running" THEN "failed" ELSE r

\* RecoverInterruptedAsyncTasks, one transaction, before the worker exists.
RecoverInterruptedAsyncTasks ==
    /\ status' = [t \in Ids |-> RecoveredStatus(t)]
    /\ maxAttempts' = [t \in Ids |-> RecoveredMaxAttempts(t)]
    /\ owned' = {t \in owned : ~(kind[t] \in Imports /\ RecoveredStatus(t) = "pending")}
    /\ runs' = [t \in Ids |-> [i \in 1..Len(runs[t]) |-> RecoveredRun(runs[t][i])]]
    /\ UNCHANGED <<kind, attempts, createdAt, link, prior, row, cancelRequested, saves>>

Start ==
    /\ proc = "down"
    /\ RecoverInterruptedAsyncTasks
    /\ proc' = "up" /\ wpc' = "poll"
    /\ batch' = {} /\ cur' = NoTask /\ ctxDone' = FALSE /\ running' = {}
    /\ UNCHANGED <<outcome, mediaMu, cancelVars, countVars>>

\* SIGTERM: the signal context, parent of the worker context, is done.
Terminate ==
    /\ proc = "up" /\ crashes < MaxCrashes
    /\ proc' = "stopping" /\ crashes' = crashes + 1
    /\ UNCHANGED <<taskVars, importVars, workerVars, mediaMu, cancelVars, faults, mutations>>

\* Everything the process held in memory is gone.
LoseMemory ==
    /\ proc' = "down" /\ wpc' = "off" /\ batch' = {} /\ cur' = NoTask
    /\ ctxDone' = FALSE /\ running' = {} /\ outcome' = "failed"
    /\ mediaMu' = {} /\ cpc' = "idle" /\ ctask' = NoTask
    /\ UNCHANGED <<taskVars, importVars>>

\* Stop has waited for the worker; main returns.
Exit ==
    /\ proc = "stopping" /\ wpc = "off"
    /\ LoseMemory
    /\ UNCHANGED countVars

Crash ==
    /\ proc # "down" /\ crashes < MaxCrashes
    /\ LoseMemory
    /\ crashes' = crashes + 1
    /\ UNCHANGED <<faults, mutations>>

-----------------------------------------------------------------------------

RunStep ==
    \/ RunFails \/ RunSucceeds
    \/ ImportCheckpoint \/ ImportCancelled \/ CancelNotRequested \/ ReuseRoots
    \/ SaveProviderShare \/ SaveCrossDriveRoots \/ ImportVerified

WorkerStep ==
    \/ ListPending
    \/ \E t \in Ids : BeginAsyncTask(t) \/ SkipTask(t)
    \/ RegisterRunning \/ StartRun \/ RunStep
    \/ FinishAsyncTask \/ Cleanup \/ WorkerReturns

CancelStep ==
    \/ CancelPendingAsyncTask \/ RequestCrossDriveCancellation \/ SignalRunning

Request ==
    \/ \E t \in Uuids, k \in Submitted, s \in Uuids \cup {NoTask} : Enqueue(t, k, s)
    \/ \E t \in Ids, new \in Uuids : Retry(t, new)
    \/ \E t \in Ids : CancelRead(t)
    \/ BeginMediaMutation

Next ==
    \/ Request \/ CancelStep \/ EndMediaMutation
    \/ WorkerStep
    \/ \E t \in Uuids : EnqueueAutofillQuarkImport(t)
    \/ Start \/ Terminate \/ Exit \/ Crash

Spec == Init /\ [][Next]_vars

\* The worker goroutine keeps running and every provider call returns, an
\* accepted deletion ends, and the service manager restarts the process.
\* Requests, signals and crashes are never owed.
Fairness ==
    /\ WF_vars(WorkerStep)
    /\ WF_vars(CancelStep) /\ WF_vars(EndMediaMutation)
    /\ WF_vars(Start) /\ WF_vars(Exit)

FairSpec == Spec /\ Fairness

-----------------------------------------------------------------------------
(* Properties.                                                             *)

\* An effectful task other than an import is executed at most once: whatever
\* crashes, it is never claimed a second time (RecoverInterruptedAsyncTasks
\* fails it for review; Retry makes another row).
EffectAtMostOnce == \A t \in Ids : kind[t] \notin Imports => Len(runs[t]) <= 1

\* async_tasks and task_runs tell one story at every crash point: one run per
\* attempt, only the last one may be open, it is open exactly while the row is
\* running, and a completed row ends with a completed run.
RunsAgree ==
    \A t \in Ids :
        /\ Len(runs[t]) = attempts[t]
        /\ \A i \in 1..Len(runs[t]) :
             /\ runs[t][i] = "running" <=> (i = Len(runs[t]) /\ status[t] = "running")
             /\ runs[t][i] = "completed" <=> (i = Len(runs[t]) /\ status[t] = "completed")

\* No pending row is stuck: the conditional UPDATE of BeginAsyncTask accepts it
\* and, for an import, ClaimCrossDriveImport will find it unowned. Five rows
\* that can never be claimed would starve every younger one.
PendingRunnable ==
    \A t \in Pending : attempts[t] < maxAttempts[t] /\ t \notin owned

\* While no write failed, a running row of a live process is the one its
\* worker executes; nothing is orphaned by cancellation or restart.
NoOrphan ==
    faults = 0 /\ proc # "down" =>
        \A t \in Ids : status[t] = "running" => t = cur /\ wpc \in Executing

\* A worker task never overlaps a media mutation of the deletion handler.
MediaExclusive == wpc \in Executing => mediaMu = {"worker"}

\* A terminal status is final: a cancelled pending row that the worker has
\* already listed is not run, and a late Cancel does not rewrite a result.
TerminalStable ==
    [][\A t \in Ids : status[t] \in Terminal => status'[t] = status[t]]_vars

\* A task submits its share to the provider at most once, whatever crashes
\* between the save and its checkpoint, and a retry submits it only when the very
\* task it retries left no import row and has submitted nothing. Of a task further
\* back in a chain of retries nothing is said: when one in between ended before it
\* had an import row, the code no longer sees the saves before it.
ShareSavedOnce ==
    \A t \in Ids :
        /\ saves[t] <= 1
        /\ saves[t] = 1 /\ prior[t] # NoTask => row[prior[t]] = "none" /\ saves[prior[t]] = 0

\* A completed plain import always has its ingest continuation.
ContinuationExists ==
    \A u \in Uuids :
        kind[u] = "import" /\ status[u] = "completed" => status[IngestId(u)] # "absent"

\* docs/operations.md: "After every manually submitted Quark import reaches
\* verified 115 identities, the controller creates one deterministic
\* media_ingest continuation", and the README: "a verified import continues
\* into move, canonical naming, STRM synchronization". So a completed import
\* never finds its continuation already failed without having seen the import
\* complete: runMediaIngest refuses a source that is not completed.
ContinuationNotSpent ==
    \A u \in Uuids :
        LET ingest == IngestId(u)
        IN  status[u] = "running" /\ wpc = "finish" /\ cur = u /\ outcome = "completed"
              => status[ingest] # "failed"

\* A bound import writes nothing unless its series_auto_fill parent completed:
\* a parent that queued the child and then crashed disowns it.
BoundAfterParent ==
    \A t \in Ids : kind[t] = "bound" /\ row[t] # "none" => status[link[t]] = "completed"

\* Everything queued is eventually settled, across restarts and deletions.
PendingSettles ==
    \A t \in Ids : status[t] = "pending" ~> status[t] \in Terminal

-----------------------------------------------------------------------------
(* The inductive strengthening the proofs in TaskQueueProofs rest on.      *)

\* Attempts are counted by runs and limited by max_attempts, which only
\* recovery raises and only for imports.
AttemptsBounded ==
    \A t \in Ids :
        /\ Len(runs[t]) = attempts[t] /\ attempts[t] <= maxAttempts[t]
        /\ kind[t] \notin Imports => maxAttempts[t] <= 1
        /\ status[t] = "absent" => attempts[t] = 0
        /\ status[t] = "pending" => attempts[t] < maxAttempts[t]

\* The worker exists only in a live process and, until it records a result,
\* its current row is running.
WorkerOwnsRow ==
    /\ proc = "down" => wpc = "off"
    /\ wpc \in Executing \ {"cleanup"} => status[cur] = "running" /\ attempts[cur] >= 1

\* Import rows and provider saves belong to attempts that began; a retry's
\* prior task is settled; the first attempt reaches the save at most once.
ImportHistory ==
    /\ \A t \in Ids :
         /\ attempts[t] = 0 => row[t] = "none" /\ t \notin owned
         /\ row[t] = "none" => saves[t] = 0
         /\ saves[t] <= 1
         /\ prior[t] # NoTask => status[prior[t]] \in Terminal
         /\ saves[t] = 1 /\ prior[t] # NoTask => row[prior[t]] = "none"
    /\ wpc \in {"claimed", "started", "run", "owned", "checked"} /\ attempts[cur] = 1 => saves[cur] = 0

\* An import row is owned only by a run that began and may have to release it.
OwnedStarted == \A t \in owned : status[t] \notin {"absent", "pending"} /\ kind[t] \in Imports

\* While no write failed, a running row is the worker's and not yet recorded.
RunningIsCurrent ==
    faults = 0 /\ proc # "down" =>
        \A t \in Ids : status[t] = "running" => t = cur /\ wpc \in Executing \ {"cleanup"}

\* A plain import about to be recorded as completed has queued its ingest.
ContinuationQueued ==
    /\ ContinuationExists
    /\ wpc = "finish" /\ outcome = "completed" /\ kind[cur] = "import" =>
          status[IngestId(cur)] # "absent"

\* Beyond its checkpoint a run has an import row; a bound one's parent is there.
ParentDone ==
    /\ wpc \in {"owned", "checked", "saving", "transfer"} => row[cur] # "none"
    /\ \A t \in Ids : kind[t] = "bound" /\ row[t] # "none" =>
                        link[t] \in Ids /\ status[link[t]] = "completed"

\* An identifier has no kind before its row exists.
NoKindYet == \A t \in Ids : status[t] = "absent" => kind[t] = "effect"

-----------------------------------------------------------------------------
(* The lifecycle clients rely on, and where this module keeps it.          *)

Phase(t) ==
    CASE status[t] = "absent" -> "absent"
      [] status[t] = "pending" -> "waiting"
      [] status[t] = "running" -> IF wpc \in Executing /\ cur = t THEN "taken" ELSE "left"
      [] OTHER -> "ended"

Lifecycle == INSTANCE TaskLifecycle
    WITH Tasks <- Ids, phase <- [t \in Ids |-> Phase(t)],
         resumable <- {t \in Ids : kind[t] \in Imports},
         starts <- [t \in Ids |-> Len(runs[t])]

\* Enqueue, Retry, Cancel, the worker, a failing database write and a crash
\* with its recovery implement the lifecycle: one task is executed at a time, an
\* ended row stays ended, a row nobody executes waits for the next start, and
\* only an interrupted import is executed again.
RefinesLifecycle == Lifecycle!Spec
=============================================================================
