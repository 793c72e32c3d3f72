# Verification of embymedia

embymedia is a Go controller for a personal Emby library. It saves shares on a
Quark drive, transfers their files to a 115 drive, files them into the library,
keeps STRM files in step, fills gaps in series and deletes media, from a web
console, an MCP interface and schedules. Its state is one SQLite database and a
few directories; the hard part is that every effect is on somebody else's
service and the process may stop between any two writes.

This directory holds TLA+ models of its core, the TLC runs that check them on
small instances, and TLAPS proofs for every instance. Paths below are relative
to the repository root; `PROJECT.json` names the source lines of every
definition.

## The parts of the system

| Part | State | Operations | What is hard | What makes it correct |
|---|---|---|---|---|
| Task queue (`internal/service/taskqueue.go`, `internal/storage/sqlite.go`) | `async_tasks`, `task_runs`; `running` map, media lock | enqueue, claim, run, finish, cancel, retry, recover | one worker against concurrent requests; crash between durable writes; rows listed before they are run | effects at most once, rows and runs agree, terminal is final, everything queued is settled |
| Quark to 115 import (`cross_drive_import.go`, `internal/storage/cross_drive.go`) | `cross_drive_imports`, `cross_drive_items`, upload sessions and parts | save share, discover, download, upload, verify, continue | unknown outcome of a provider call; resumption and retry from checkpoints; two queued tasks that depend on each other | share saved once by a task and not again by its retry, items verified before they are reported, one live continuation |
| Segmented download (`internal/transfer/download.go`) | spool file, `cross_drive_download_segments_v2` or a checkpoint file | download, resume | connection pool, cancellation, power loss, spool removed and recreated | checkpoints are durable, only the source's bytes are accepted, the call returns |
| NAS worker (`cmd/transfer-worker`, `internal/transfer/publish.go`, `internal/service/nas_*.go`) | spool, checkpoint file, lock file, mounted 115 directory | transfer, publish, commit | two processes over SSH; crash on either side; a partial file under the final name | a published name has the verified bytes; commit only after verification |
| 115 upload, CloudDrive staging | multipart session and parts | upload, resume, abort | abort against resume; partial staging file | the uploaded object is the spool |
| Scheduler (`internal/service/cron.go`) | `scheduled_tasks`, `entryMap`, closures with captured rows | start, schedule, delete, run now, callback | callbacks that wait for the lock across an edit; captured rows written back | only current definitions launch, edits are kept |
| Media ingest (`media_ingest.go`) | folders and names on 115 | move, rename, wait, synchronise, verify | runs after its source import; calls with an unknown outcome, then a retry; names already taken | what it reports as organized is there under that name, nothing is forgotten |
| Gap filling (`autofill.go`, `autofill_identity.go`) | none of its own | list gaps, search, identify, choose, receive, queue imports, clean up | names decide which work a file belongs to; some failures end the run, others the share; the child is queued before the parent has completed | only files of the series' own work, for missing episodes, each once; whatever can be cancelled is cancelled after a failure |
| Approvals (`sqlite.go`, `internal/mcp/server.go`, `internal/api/routes.go`) | `destructive_approvals` | request, list, decide, claim, delete, finish, expire | overlapping calls, expiry against decision, crash while executing | spent on one deletion at most, and only when a browser user approved it |
| Emby deletion (`internal/api/emby_deletion.go`, `emby_deletion_sources.go`) | none of its own | authorise, plan, delete in Emby, recycle, verify | the plan is made before Emby acts; agents change the same account; lost answers | only what deleted items played is recycled, and the answer is true of the planned folders |
| Webhook (`webhook.go`) | pending count, timer | notify, flush, close | a timer that has fired cannot be stopped | every change is counted once and flushed |
| Share subscriptions (`share_auto_sync.go`, `internal/storage/share_subscription.go`) | `share_subscriptions` | poll, queue | a child is still in flight, or left behind by a fill that ended | one fill under way |
| Replacement (`replacement*.go`) | 115 roots, STRM trees, backup and `state.json`, Emby items and user data | stage, snapshot, cut over, verify, restore, roll back | a crash or an unknown outcome between any two of its calls on three systems | nothing set aside is lost; it ends with the old series or the new one, whole |
| STRM synchronisation (`media.go`, `media_series.go`) | STRM tree | walk, write, prune, verify | the mount goes away and everything looks deleted; relocation; concurrent writes | a title that could be played stays playable |
| Quark share save (`provider_quark.go`, `drive_provider.go`) | objects in the target folder | preview, select, save, identify | the owner edits the share; Quark returns no, few or wrong identifiers; others add files | the roots reported are different objects of the selected names and sizes |
| Other provider calls, Emby, metadata, settings, tokens, HTTP, MCP, web console | mostly none | request encoding, validation, presentation | | |

The API and MCP handlers and the scheduler call the queue; the queue's worker
calls imports, ingest and gap filling; imports call the download, the upload or
the NAS worker; imports and gap filling queue further tasks. The deletion
handler shares the media lock with the worker. All durable state goes through
`storage.DB`, whose methods hold one mutex and one transaction each; the models
therefore take one such call as one step, and everything between two calls as
separate steps.

## Modules

| Module | Models | Used by |
|---|---|---|
| `TaskQueue` | task queue, import checkpoints, continuation, parent check, media lock, process life | `MCTaskQueue`, `TaskQueueProofs` |
| `Download` | segmented download, segment checkpoints, spool life | `MCDownload`, `DownloadProofs` |
| `Cron` | scheduler, schedule rows, launches | `MCCron`, `CronProofs` |
| `NasTransfer` | controller, NAS worker processes, mount and 115 listing for one object | `MCNasTransfer`, `NasTransferProofs` |
| `TaskLifecycle` | abstract specification: the life of a task | instantiated by `TaskQueue` |
| `Approvals` | approvals, deletions and moves by agents and browser users | `Requests` |
| `EmbyDeletion` | the deletion handler and its plan | `Requests` |
| `Webhook` | the debounced CloudDrive notices | `Requests` |
| `Subscriptions` | subscription rows, polls, and the tasks they queue | `Requests`, `SubscriptionsProofs` |
| `Requests` | the four parts above as goroutines of one process | `MCRequests`, `RequestsProofs` |
| `Replacement` | the replacement of a series and its rollback | `MediaWorker`, `ReplacementProofs` |
| `AutoFill` | one run of gap filling | `MediaWorker` |
| `Ingest` | one ingest task and its retries | `MediaWorker` |
| `StrmSync` | synchronisations of one library | `MediaWorker` |
| `ShareSave` | one save of a Quark share | `MediaWorker` |
| `MediaWorker` | the five procedures above, one per task of the worker | `MCMediaWorker`, `MediaWorkerProofs` |

`Requests` composes parts whose steps interleave. `Approvals` and `EmbyDeletion`
write the same 115 account (`drive`), and `ServerCrash` stops all parts in one
step. The product of all interleavings is too large for TLC, so `MCRequests`
chooses at the start which requests come (the scene): approvals alone, a
deletion beside an agent, the webhook, or the subscription. Every such behaviour
is one of `ServerSpec`; the proofs are about `ServerSpec` itself.

`MediaWorker` composes procedures of which one runs at a time: `executeTask`
runs one task, under the media lock. Its `scene` is that task. `MCMediaWorker`
gives the values and fixes the initial state of what a scene does not run.

Each component module also defines, next to an operator it could be confused
with, a variant of that operator that a plausible mistake in the code would
produce (marked "Mutant of"). They are not part of any specification; they show
that the properties can fail.

### TaskQueue

State: the columns of `async_tasks` the code decides by (`status`, `kind`,
`attempts`, `maxAttempts`, `createdAt`), the run records (`runs`), the task
references of payloads (`link`, `prior`), the import row (`row`: none, without
roots, with roots), its `cancelRequested` and run owner (`owned`), the number of
share submissions that reached the provider (`saves`), and the process: the
worker's program counter `wpc`, the listed `batch`, the current task, its
context, the `running` map, the media lock and one Cancel request in flight.

The worker's steps follow `workerLoop`, `processPendingTasks`, `executeTask` and
`run`: list, try the lock and claim (or skip), register the cancel function,
write the start log, run, finish, run the deferred functions. `run` is detailed
for the Quark import down to its checkpoints: import row and claim, cancellation
check, reuse of roots, share save, roots, everything verified. Discovery and
the item loop are one step, `ImportVerified`, which may be preceded by a failure
or cancellation. Other task types either succeed or fail. `Cancel` is three
steps, because it reads the status first and acts later. `Start` is
`RecoverInterruptedAsyncTasks` and the creation of the worker; `Terminate`,
`Exit` and `Crash` are the signal, the orderly return of main and a kill.

Identifiers made by `uuid.NewString` are the constant `Uuids`; the ingest of
source `u` has the identifier `IngestId(u)`, as `uuid.NewSHA1` is a function of
the source. `faults` counts failing database writes, at the places where the
code goes on after one.

### Download

State: which segments are on record, whether the spool exists, and its content
as the kernel and as the device has it: per segment, how many leading blocks are
the source's. A SHA-1 is the content it was computed from, so a hash comparison
is a comparison of contents. A call of `Download` is `Open`, the pool (dispatch,
read and write a block, fail and retry, flush, checkpoint), the pool's return,
and acceptance or rejection by hash. Around it: verification, removal of the
spool, a later import of the same object, cancellation, a process crash (the
kernel's content survives) and a power loss (anything between the flushed and
the written content survives).

### Cron

A schedule's definition is named by the number of the `ScheduleTask` call that
wrote it, which also serves as its cron entry. `captured` is the result in the
closure's row, `waiting` the callbacks dispatched but not yet holding `cm.mu`,
`holder` the callback between `EnqueueScheduled` and `SaveTask`: the one window
inside the lock into which another actor (`Retry`) can write. Saves, deletes and
enqueues may fail.

### NasTransfer

One object on its way from Quark to 115. The controller's position `cpc` follows
`transferQuarkItemViaNAS`: the three calls of the worker, the look-up and the
placeholder probe before publishing, the wait for the verified object, the
record. A call (`CallWorker`) starts a process, which runs as its own actor: it
takes the flock or gives up, downloads, removes the spool, or publishes in the
steps of `transfer.Publish` (remove or stat, create with `O_EXCL`, copy). Its
end is the return of the call if the session still exists. `LoseSession`,
`KillWorker` and `StopController` may come between any two steps; the worker of
a lost session keeps running. Spool, file and object are known by what they
hold. CloudDrive uploads closed files at its own pace, gives an upload up, or
never begins. Somebody else may at any time use a free name, by a file on the
mount, which CloudDrive uploads like any other, or by an object put on 115 at
once. The placeholder probe cannot tell whose upload it sees, nor whether it is
the one of a longer name; `Stale` says so, and `ForeignKept` is about what is
settled under the name outside the window between a look-up and the removal it
leads to (`Replacing`).

Two assumptions about what is not in the repository. Removing the file on the
mount removes the object. And a publication whose session is gone before it has
the lock does not get past its first report: the request comes through that
session and the spool is hashed before the report, so the pipe is closed by
then. A publication that loses its session later goes on, with the lock.

### TaskLifecycle

What a client of the queue may rely on: a task waits, is taken by one executor
at a time, and ends once and for all; one that is taken may be left behind, and
recovery ends it or, if it is an import, makes it wait again; any other task is
taken once. `TaskQueue` implements it with the mapping `Phase` (a running row is
*taken* while the worker executes it and *left* otherwise, by a crash or by a
failing write of its result), imports as the resumable tasks and the number of
run records as `starts`. Every step of the queue is a step of the abstract
specification or a stutter (`RefinesLifecycle`).

### Approvals, EmbyDeletion

`drive` says where every object of the 115 account is. A tool call is a
goroutine with its own position: resolve the targets in a listing, create the
approval; claim it, delete, finish. Decisions come from the browser, expiry from
the clock, and a listing of pending approvals writes the expired ones. A
provider deletion may act and lose its answer, or answer and leave an object
listed. Beside this, the browser's delete route checks the switch and deletes
in two steps, and anyone with write scope moves and renames objects.

The deletion handler follows `handleEmbyDeletion`: parse and authorise, take the
media lock, resolve what the items play to objects (by folders and names, in an
inventory), let Emby delete, and then for each original look again, recycle,
and look once more. The look-up compares identifier, folder and name with the
plan (`Unchanged`). It lists the planned folder alone, so an object somebody has
moved to another one is `Absent`; `strayed` remembers those that counted as
handled for that reason. Emby's answer may say success, be cut off after a success
status, or be lost. A task may re-point an item only while it has the lock.

### Webhook, Subscriptions

A timer is armed, fired (its callback waits for the mutex), flushing or over;
stopping one that has fired does nothing. A flush takes the count under the
mutex and enqueues after releasing it. Notices are numbered, and a count is the
set of the notices it stands for, so that "counted once" is a statement about
each notice and not about a sum.

A poll reads the pending tasks, then the running ones, then queues a fill; the
single worker runs polls, fills and imports one at a time, while users retry
tasks and edit the row. `Retry` inserts a new row with the old payload; the
model lets it take the place of the old one, which has ended and which no poll
looks at, and the property leaves out tasks that a user retried.

### Replacement, AutoFill, Ingest, StrmSync, ShareSave

These are procedures inside one task, between two points of `TaskQueue`'s
`run`. Each action is one call on 115, the disk, Emby or Quark with the
decisions that lead to it. `ProviderCall` is a call that takes effect and
answers, takes effect and fails, or fails. `StepFails`, `RunFails`,
`IngestFails`, `SyncFails` and `SaveFails` are the error returns: reads that
fail, deadlines, cancellation.

`Replacement` keeps where the two 115 roots are, what the STRM path, its backup
and the staged STRM root hold, whether `state.json` exists, from which tree the
Emby items were made and whether they carry what users watched.
`finalizeCompletedPack` runs forward, its deferred rollback and the one of
`runSeriesAutoFill` backward; a rollback finds out from listings what there is
to undo.

`AutoFill` describes a name by what `parseAutoFillLabel` extracts: a title, a
year, a season, a TMDB identifier, each possibly absent. A share has titles and
leaves; a leaf knows which work and season it really is, which the code does
not, and whether its own name gives the season (`numbered`): `episodeKeysFromName`
takes a name without one for season 1. `EpisodeIdentityMatches` and its parts are the evidence rules. The loop over
the leaves is stated by its result: `LeafSelections` is the selection in which
each matching leaf has the first missing episode of its name that no earlier
leaf has. When a run fails, `CancelImport` tries one queued import after the
other, and each cancellation may fail and leave its import as it is.

`Ingest` names a file by its canonical name and the suffixes appended to it on
a collision, and knows the bytes of every file. The listing of the target is
gone through one file per step (`MeetFile`), in any order, as the loop does; the
wanted name may grow on the way. `StrmSync` maps every source to
its original and its canonical STRM path; a mount that is gone shows nothing,
and the canary tells. `ShareSave` gives every object the share entry it was made
from, which the code can only infer from identifiers, names and sizes. Quark
may answer identifiers of saved objects, of others in the target or of none
there, or no identifiers at all, and may have saved nothing; others add any file
at any time.

## Runs

| Run | Instance | Checks |
|---|---|---|
| `TaskQueueImports` | two identifiers with their ingests, one row listed at a time, two crashes or terminations, one deletion | `TypeOK`, `RunsAgree`, `PendingRunnable`, `NoOrphan`, `MediaExclusive`, `ShareSavedOnce`, `ContinuationExists`, `TerminalStable`, `RefinesLifecycle` |
| `TaskQueueMixed` | three identifiers, gap filling and ingest, two rows listed, one crash, one failing write | `EffectAtMostOnce`, `BoundAfterParent` |
| `TaskQueueLive` | one identifier, import or effect, three crashes or terminations, one deletion, fairness | `PendingSettles` |
| `TaskQueueContinuation` | two identifiers, one crash, one deletion | `ContinuationNotSpent`: violated |
| `DownloadResume` | two segments of two blocks, two connections, two tries, fairness | `TypeOK`, `CheckpointedOnDisk`, `AcceptedComplete`, `DownloadReturns` |
| `DownloadStale` | two segments of one block | `AcceptedMatchesSource`: violated |
| `CronEdits` | two schedules, three edits, two launches | `TypeOK`, `RegisteredMatchesRow`, `CurrentOnly`, `EditsKept` |
| `CronLatest` | one schedule, one edit, two launches | `LatestLaunchKept`: violated |
| `NasTransferRuns` | one item, two processes, three runs, two faults, fairness | `TypeOK`, `VerifiedHeld`, `SpoolKept`, `ForeignKept`, `RunReturns` |
| `NasTransferProvisional` | one run without faults | `MismatchWaitedOut`: violated |
| `Requests` | one approval with two calls; two items, one of a native library, two objects, two names in one folder and a place elsewhere, and an agent with an approval; three notices; two fills and three polls | `PartsTypeOK`, `ApprovalSpentOnce`, `OriginalsOfDeleted`, `AnsweredTruly`, `ChangesCountedOnce`, `ChangesFlushed`, `OneFillUnderWay` |
| `MediaWorker` | one replacement; two series, a remake of one of them outside the library, two shares, one of them named plainly; three files of an ingest with one name, run twice; four sources, two in legacy directories, one excluded that has its file at first; two share entries | `PartsTypeOK`, `NothingLost`, `EndsWhole`, `OnlyOwnEpisodes`, `RunAccounted`, `IngestedTruly`, `StaysPlayable`, `SavedAsSelected` |

Why the bounds suffice. Two identifiers allow a task and its retry, or two
independent tasks, and each has its ingest; three allow a parent, its child and
a retry of either. Two crashes allow an interruption of the resumed run. Listing
one row makes a stuck row starve the others at once; listing two makes a row be
run from a stale listing. Two connections and two segments give every overlap of
one connection's failure with another's write; a second block gives partly
written segments and a second try gives a resumed one. In the scheduler three
edits over two schedules give an edit, a pause and an edit again while a
callback of the first version waits. In the NAS
transfer two processes are an orphan and the worker of the current call, and
three runs let a second orphan meet a third attempt. The bounds are the
constants `MaxCrashes`, `MaxFaults`, `MaxMutations`, `MaxEdits`, `MaxLaunches`
and `MaxRuns`; the proofs do not depend on their values. In `Requests` one
approval and two calls give every race for it, and one tick of the clock its
expiry; two objects and two paths let an agent swap what a plan resolved, and the third
path lets it move an original out of the planned folder; a
third notice can arrive while two earlier timers are fired and not over; a third
poll comes after a fill that left an import and one that failed. In
`MediaWorker` a fill has two series and two shares, of which both may offer the
same episode, one share may have files of both series (so that two imports are
queued and cancelled), and the season may stand in a directory or in the share's
title alone; three ingest files with one name collide twice, also with a file
that has the suffixed name; one edit of a share gives an entry the name and size
of the other before it is saved; one addition, drop of the mount or change of the library
may come at any step. The bounds are `Ttl`, `MaxTime`,
`MaxChanges`, `MaxPolls`, `MaxMeddles`, `MaxRuns`, `MaxSeries`,
`CandidateLimit`, `MaxDrops`, `MaxEdits` and `MaxAdds`; `MaxSeries` and
`CandidateLimit` are parameters of the code. Task identifiers are interchangeable, and the two
larger runs use that symmetry; the liveness run does not.

Fairness. `TaskQueue`: the worker goroutine keeps being scheduled and its
provider calls return (their clients have timeouts), a Cancel request that was
accepted and a deletion that holds the lock end, and the service manager
restarts a stopped process (`deploy/systemd`). Requests, crashes and signals are
never assumed to happen. Crashes are bounded: a process that is killed for ever
settles nothing. `Download`: the goroutines of a running call keep running, as
reads, writes and database calls return; nobody is obliged to call it again.
`Webhook`: the Go runtime fires an armed timer and runs its callback.
`NasTransfer`: controller and workers keep running, ssh notices a dead peer and
a wait ends at its deadline; nothing is assumed of CloudDrive, and provider
errors are not assumed to help.

What the media runs assume of the world: the names of a share tell the truth
about the work and, where they say so, the season (`OnlyOwnEpisodes` is about
what follows from true labels); folders that users move by hand during a
replacement or ingest are theirs to find (`EndsWhole` and `IngestedTruly` say
nothing then, `NothingLost` still holds).

### Findings

* `TaskQueueContinuation`. An import queues its ingest before its own result is
  recorded (`cross_drive_import.go:442`). After a crash in between both are
  pending. If a deletion holds the media lock when the worker tries the import,
  the import is skipped and the ingest, next in the batch, fails because its
  source is not completed. The resumed import then finds the ingest row and
  completes with a continuation that has already failed.
* `DownloadStale`. Segment rows are not deleted with the spool
  (`download.go:60`). A new download of the same object ignores them only while
  the spool is missing; once interrupted, the next call believes them and
  accepts the zeros of `Truncate`, when Quark lists no SHA-1. With a SHA-1 it
  rejects the file each time.
* `CronLatest`. A callback writes back its captured row (`cron.go:94`) and so
  moves the schedule's result to an older execution when a retry was recorded
  in between.
* `NasTransferProvisional`. A listed object of another size or hash ends the
  wait at once (`provider_115_upload.go:231`), while the comment on the timeout
  says that such a mismatch is waited out because CloudDrive lists provisional
  values for minutes.

## Proofs

Proved for all constants that satisfy the modules' assumptions (a finite set of
tasks whose ingest identifiers are distinct from random ones; positive listing
limit; at least one block per segment and one try; natural bounds).

**TaskQueueProofs.** `TypeCorrect`, `AtMostOnce`, `HistoryAgrees`,
`TerminalIsFinal`, `PendingCanRun`, `ShareOnce`, `MediaIsExclusive`,
`NothingOrphaned`, `ImportsContinue`, `BoundNeedParent`, `ImplementsLifecycle`. Four frame
lemmas say which steps write which group of variables, so that each type lemma
has a case per writing step only. `RunsAgree` is inductive relative to the type
invariant: recovery closes the open run of exactly the rows it moves away from
running (`RecoverRow`, `RecoverRuns`) and a finish closes the last one
(`FinishRuns`). The others need a strengthening:

* `AttemptsBounded`: attempts are counted by runs and bounded by
  `max_attempts`, which exceeds one only for imports. Without it a second claim
  of an effectful task could not be excluded.
* `WorkerOwnsRow`: while the worker executes, its row is running. Cancel only
  touches pending rows, so nobody takes the row away before the finish.
* `ImportHistory`: import rows and saves belong to attempts that began, a
  retry's predecessor is settled (so its row can no longer change), and until
  the save of a first attempt the count is zero. `ShareSavedOnce` alone is not
  inductive: it says nothing of where the worker is.
* `OwnedStarted`: an owned import is an import that began and is not pending; a
  lost release leaves the owner behind only on a running or settled row.
* `MediaExclusive` itself.
* `RunningIsCurrent`: a running row is the worker's and its result is not yet
  written; `NoOrphan` alone would allow the worker to be past its last write.
* `ContinuationQueued`: an import that is about to be recorded as completed has
  its ingest row already. `ParentDone`: past its checkpoint an import has a row,
  and a bound one's parent is completed (a terminal status, which
  `TerminalIsFinal` keeps). `NoKindYet`: a row that does not exist is no import.

`ImplementsLifecycle` has one case per step that writes a row or changes what the
worker executes, each of which is one abstract action; a claim is *Take* because
`AttemptsBounded` leaves no second attempt to a task that may not resume, a
finish whose write fails, and a crash, is *Leave*, and `Start` is *Recover*,
which needs that nothing is taken then. All other steps stutter.

**DownloadProofs.** `TypeCorrect`, `CheckpointsAreDurable`, `AcceptsOnlySource`.
The strengthening: connections work only inside a call and the spool exists
during one (`PoolConfined`); the device never has more than the kernel, the
kernel has what each connection wrote, and a segment about to be checkpointed is
flushed (`WrittenInOrder`); until a failure no segment is forgotten between
queue, connections and checkpoints (`PoolCovers`); a listed SHA-1 is never
replaced by another (`HashKept`).

**CronProofs.** `TypeCorrect`, `RegistrationsMatch`, `LaunchesAreCurrent`,
`EditsSurvive`. The strengthening: the callback holding the lock is still
registered and a stopped process has no registrations (`HolderCurrent`), and a
stored version was handed out to its schedule (`VersionsOwned`).

**NasTransferProofs.** `TypeCorrect`, `VerifiedObjectHeld`,
`SpoolKeptUntilVerified`, `ForeignIsKept`. `VerifiedHeld` is not inductive: it
does not say that no process is about to remove the object. The strengthening:
only the holder of the lock is past it (`LockExclusive`); a publication is the
call in progress, or no run is past its download, because that call needed the
lock (`PublisherAlone`); from a run's result on, and while a commit is alive,
the object stays (`ResultHeld`); listing and mount agree (`CloudMatchesFile`);
and while the name may still be replaced no commit is alive
(`ReplaceUncommitted`), so no removal takes away an object a result rests on.
`ForeignKept` is a step property of the same invariant: a window opens only at a
look-up that finds nothing listed. One lemma each for a worker that ends, goes on, or
takes the lock, one for the controller and one for the cloud.

**RequestsProofs.** About approvals alone `TypeCorrect` and `SpentOnce`; about
the composed server `ServerTyped`, `ServerSpentOnce`, `OnlyDeletedOriginals`,
`AnswersTrue`, `CountedOnce` and `FillsNeverOverlap`. The composition is proved
part by part:

* *Subscriptions* share no variable with the rest, so a behaviour of the server
  is a behaviour of theirs (`SubscriptionsStep`) and `PollsNeverOverlap` applies.
* *Webhook*: `CountedOnce` says where each notice is, not which timers may still
  take some. The strengthening (`WInv`) adds that the timers exist in the order
  of the notices and that only one that is flushing carries any
  (`TimersInOrder`); two lemmas say what `Stop` leaves of a timer.
* *Approvals*: `ApprovalSpentOnce` does not say who may still start a deletion.
  The strengthening: the row of a call past its claim is executing and that call
  is the only one for it (`Holding`, `HolderAlone`), its approval has not been
  used (`ClaimUnused`), and rows that are not executing or beyond were never used
  and reach that only through a browser's decision (`Unused`, `BrowserDecided`).
* *Deletion*: `OriginalsOfDeleted` is about recycled objects; the strengthening
  (`DInv`) is about the one that is going to be: the handler has the lock, and
  what it planned is what the items of the request play (`LockAlone`); until Emby
  has answered it has all of them, from then on none (`EmbyFirst`); the target
  was seen where the plan has it, and what is handled is gone or had strayed from
  the planned folder (`TargetSeen`). Items are re-pointed only under the lock, so
  the plan stays true of them. `AnswersTrue` follows from `DInv` for each step
  that answers.

Approvals and the deletion handler rely on each other in one point: whoever
writes the account, an object that is gone stays gone (`AccountStep`). Each step
of either provides that, and each invariant is kept by any step of the other
that does (`ApprovalsRely`, `DeletionRely`), so `IInv /\ DInv` is inductive for
the composition although neither module mentions the other. Assumed: paths are
numbers (their order is the order in which originals are handled), and the names
for what the worker does are distinct.

**SubscriptionsProofs.** `TypeCorrect`, `PollsNeverOverlap`. What runs is what
the one worker runs (`WorkerRuns`), so nothing starts while a poll looks for
active tasks; after the look, only a retry brings back a pending one
(`NonePending`); hence two fills under way are the same (`OnlyOne`). What the
proof needs of the constants is a hypothesis, `WorkersDistinct`, which
`RequestsProofs` derives from the assumptions of `Requests`.

**ReplacementProofs.** `TypeCorrect`, `NothingIsLost`, `VerdictIsTrue`. Both
invariants speak of what is where and not of how far the replacement has come.
The strengthening: the old series is as it was outside a cutover (`Untouched`);
what each stage of the cutover and of the rollback has reached (`Advanced`,
`Returned`); what is known of the staged root and the trees (`StagedRoot`); a
verdict is given at the end only (`Verdict`).

**MediaWorkerProofs.** `SyncKeepsPlayable`, `IngestTellsTruth`,
`SaveReportsSelected`, `FillsOwnEpisodes`, `FillIsAccounted`, `WorkerTyped`, each
about `WorkerSpec`, whose steps outside a procedure leave that procedure's
variables alone. Per procedure:

* *Synchronisation* (`SInv`): the file chosen for removal is one a lasting source
  can do without, or the mount was lost after the canary was seen
  (`Dispensable`). The choice and the removal are two steps, and sources come and
  go in between, so the property does not carry itself from one to the other.
* *Ingest* (`GInv`): an item is reported once and not touched again
  (`ReportedOnce`), no item falls out between the list, the item in hand and the
  reports (`NoneForgotten`), and reports are true as long as no user moved a file
  (`ReportsTrue`).
* *Share save* (`QInv`): an object of the target is somebody else's, or this save
  made it and it has the name and size of the snapshot unless the owner has edited
  its entry since (`Origins`, from `Revised`). Selected names differ in the
  snapshot (`SnapshotFits`), so one object does not fit two entries; hence the
  roots differ, whichever way they were found.
* *Gap filling* (`FInv`): a selected leaf is the series' own (`SelectedOwn`), an
  episode is chosen from one share and not taken yet (`ChosenOnce`), a series
  that is still to be done has nothing (`Untaken`), and what is transferred is
  linked from the synchronisation on (`Linked`); a run ends failed only when no
  queued import is left untried. That the run only does series of
  the library needs the validation of the payload (in `FunctionsOfSeries`).

`FillsOwnEpisodes` rests on the lemma `IdentityHolds`, which is the argument for
the evidence rules: a leaf that `EpisodeIdentityMatches` accepts has a label with
the series' TMDB identifier, or a matching title with a matching year, and no
label that contradicts. If the labels are true of the leaf's work
(`ShareAssumption`), that work has the identifier, or a title and the year, of
the series. By `CatalogueAssumption` (a title and a year determine a TMDB
identifier, and what Emby knows of a series is true) it is the series itself or
another series of the library with its identifier, which `UniqueID` excludes.
The season follows from the leaf's own name or from a directory above it, where
one of them gives it, and only then. These two assumptions are the premises of the
result: the code has no other evidence than names.

**What the proofs changed.** `SavedAsSelected` as first stated did not hold: an
owner who exchanges the names and sizes of two selected entries between the
snapshot and the save has the two roots exchanged in the report, which takes two
edits, one more than the run allowed. The property now says what does hold; with
one edit the run reaches the exception too, when somebody else adds the file that
is missing. Every inductive invariant was checked by TLC on
the instances of the runs before it was proved.

**Only model-checked.** The liveness properties `PendingSettles`,
`DownloadReturns`, `RunReturns` and `ChangesFlushed` (fairness and `ENABLED` are
out of the prover's reach), and the four violations. Every safety property that
a passing run checks is also proved.

## Observations

What the models show or the reading of the code found, and no property forbids:

* A share can be saved twice along a chain of retries: the first task saves it
  and fails, its retry ends before it has an import row, and the retry of that
  one finds no row (`sql.ErrNoRows`, `cross_drive_import.go:232`) and saves
  again. `ShareSavedOnce` is about a task and the one it directly retries.
* `cloudDriveUploadPlaceholder` takes any entry that begins with the name and ends
  in `..uploading` for its own stale upload. `Publish` then removes the name
  (`publish.go:97`), also when the upload is somebody else's, when it is the one
  of a longer name, or when somebody took the name after the look-up, although
  `classifyDestination` says that another object must never be overwritten.
* An original that a remaining item plays too is recycled with the item that was
  deleted.
* A deletion looks for an original in its planned folder only
  (`emby_deletion_sources.go:462-494`). One that was moved elsewhere in time
  counts as deleted, and success is answered, while 115 still has it.
* A share whose season stands in its title alone is taken for season 1: the
  leaf's key defaults to it (`autofill.go:452`), and only the directories above a
  leaf and its name are compared (`autofill_identity.go:134-147`). An episode
  number that `autoFillSeasonPattern` reads as a season makes a right file
  refused.
* An import whose cancellation fails after a failed fill stays pending. It runs
  later and is refused, because its parent did not complete (`BoundAfterParent`).
* A share save whose identifiers do not fit reports another client's new object
  when that is the only new one of the name and size; one that was there before
  when Quark answers its identifier.
* A crash in the middle of a cutover is not resumed. `NothingLost` says that
  the quarantine, the backup and `state.json` suffice to repair it by hand.
* `persistReplacementSnapshot` may have replaced `state.json` when the
  synchronisation of its directory fails, so a replacement that is rolled back
  can leave a record that says it was finalized.
* `createReplacementFolder` that fails after 115 created the folder leaves it
  behind with its staging name.
* A crash between Emby's deletion and the recycling leaves originals on 115
  with no record of them.
* An approval is bound to identifiers, not to names or folders: an object
  renamed or moved between request and execution is deleted all the same.
* The browser's delete route needs only the switch (`SAFETY.md` says so too).
* A retried ingest may find a file already moved under its suffixed name and
  renames it to the plain canonical name without looking for collisions; the
  collision loop itself looks at each neighbour once.
* A gap-filling run that fails after receiving files leaves them without STRM
  files; its retry receives them again.
* The canary is looked at once before pruning. A mount lost after that can cost
  the STRM files of excluded roots, until the next synchronisation.
* A stale STRM file at a canonical path (the source's extension changed) makes
  every synchronisation of that library fail; two sources that differ in the
  extension alone take turns.
* A running row whose result could not be written is executed by nobody until
  the next start (phase *left*).

## Not modelled

Contents of requests and replies of Quark, 115, CloudDrive, Emby and TMDB;
offline downloads, share links, account checks and the resource search; poster
and metadata lookups; progress values, log lines and error texts; the audit log,
tokens and settings other than the dangerous switch; the single-process database
lock, which is assumed. They are requests that change nothing here, or
one write each. The item loop of the import is one step: the states of an upload
session are CloudDrive's and 115's, and what the code does with one item is in
`Download` and `NasTransfer`. A database error inside a transaction is a step
without effect. Reads of the database are assumed to succeed. A Cancel that
arrives before the import row exists sets no durable flag; the model shows it
(the request is then lost by a crash) but no property forbids it. A schedule
whose save failed stays enabled and unregistered until the next restart;
`RegisteredMatchesRow` states the direction that does hold.

## Plan

1. `ImportItems`: discovery and the item loop of the import (upsert, download,
   upload session and parts, verification, reconciliation, abort, reset), with
   the run owner as fence. Property: an item reported verified is the source's
   object on 115; no upload session survives a reset; counters match items. The
   invariant to prove: a session's parts belong to the spool that is on record.
2. An abstract specification of the deletion handler (an item is deleted, then
   its originals, or nothing is) with `EmbyDeletion` implementing it from `DInv`.
3. That the fill and the ingest, which `TaskQueue` takes as one step each, keep
   the promises `TaskQueue` assumes of them: an import that a failed fill could
   not cancel does nothing (`FillIsAccounted` and `BoundNeedParent` together).
