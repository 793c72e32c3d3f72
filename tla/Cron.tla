--------------------------------- MODULE Cron ---------------------------------
(***************************************************************************)
(* The scheduler: CronManager of internal/service/cron.go, the             *)
(* scheduled_tasks rows of internal/storage/sqlite.go, and the executions  *)
(* it hands to the task queue.                                             *)
(*                                                                         *)
(* cm.mu serialises editing, manual runs and the cron callbacks. The cron  *)
(* library dispatches a callback without that lock, so a callback may wait *)
(* for it while its schedule is edited; Retry of an earlier execution does *)
(* not take it at all. A callback works on the row its registration        *)
(* captured and writes it back whole.                                      *)
(***************************************************************************)
EXTENDS Integers, Sequences

CONSTANTS
    Ids,            \* schedule identifiers
    MaxEdits,       \* bound on ScheduleTask calls
    MaxLaunches     \* bound on executions

ASSUME BoundAssumption == MaxEdits \in Nat /\ MaxLaunches \in Nat /\ Ids # {}

\* The number of the ScheduleTask call that wrote type, name, params and cron
\* expression names a version of a schedule. A process registers a version at
\* most once, so the version also stands for the cron.EntryID.
Versions == 1..MaxEdits

\* A row is its version (0: no row), whether it is enabled, and the execution
\* its result column names (0: none).
Rows == [version : 0..MaxEdits, enabled : BOOLEAN, result : 0..MaxLaunches]
NoRow == [version |-> 0, enabled |-> FALSE, result |-> 0]

\* An execution: its schedule, who launched it, and the version it runs.
Launches == [id : Ids, by : {"cron", "manual", "retry"}, version : Versions]

VARIABLES
    rows,           \* scheduled_tasks
    launches,       \* linked rows of async_tasks, oldest first
    edits,          \* how many versions there are
    scheduleOf,     \* the schedule each version belongs to
    up,             \* the process runs
    entryMap,       \* CronManager.entryMap; 0: not registered
    captured,       \* the result in the task variable of each closure
    waiting,        \* dispatched callbacks that do not hold cm.mu yet
    holder          \* the callback between its two writes; 0: cm.mu is free

vars == <<rows, launches, edits, scheduleOf, up, entryMap, captured, waiting, holder>>

TypeOK ==
    /\ rows \in [Ids -> Rows]
    /\ launches \in Seq(Launches) /\ Len(launches) <= MaxLaunches
    /\ edits \in 0..MaxEdits /\ scheduleOf \in [Versions -> Ids] /\ up \in BOOLEAN
    /\ entryMap \in [Ids -> 0..MaxEdits]
    /\ captured \in [Versions -> 0..MaxLaunches]
    /\ waiting \subseteq Versions /\ holder \in 0..MaxEdits

Init ==
    /\ rows = [i \in Ids |-> NoRow] /\ launches = <<>> /\ edits = 0
    /\ scheduleOf = [v \in Versions |-> CHOOSE i \in Ids : TRUE]
    /\ up = FALSE /\ entryMap = [i \in Ids |-> 0]
    /\ captured = [v \in Versions |-> 0] /\ waiting = {} /\ holder = 0

Exists(i) == rows[i].version # 0

-----------------------------------------------------------------------------
(* Executions.                                                             *)

\* CreateScheduledAsyncTask: the execution and the row's result column in one
\* transaction, rolled back when there is no such schedule.
CreateScheduledAsyncTask(i, by, version) ==
    /\ Exists(i) /\ Len(launches) < MaxLaunches
    /\ launches' = Append(launches, [id |-> i, by |-> by, version |-> version])
    /\ rows' = [rows EXCEPT ![i].result = Len(launches) + 1]

\* RunTask, under cm.mu.
RunTask(i) ==
    /\ up /\ holder = 0
    /\ CreateScheduledAsyncTask(i, "manual", rows[i].version)
    /\ UNCHANGED <<edits, scheduleOf, up, entryMap, captured, waiting, holder>>

\* TaskQueueService.Retry of an execution that failed: cm.mu is not involved.
Retry(n) ==
    /\ up /\ n <= Len(launches)
    /\ CreateScheduledAsyncTask(launches[n].id, "retry", launches[n].version)
    /\ UNCHANGED <<edits, scheduleOf, up, entryMap, captured, waiting, holder>>

-----------------------------------------------------------------------------
(* Editing.                                                                *)

\* Mutant of PausedEntry: pausing a schedule leaves its cron entry in place.
KeptEntry(i) == entryMap[i]
\* cron.Remove and delete(entryMap) before a paused schedule is saved.
PausedEntry(i) == 0

\* What a client may post as the result: what it once read, or nothing.
Readable(i) == {0} \cup {n \in 1..Len(launches) : launches[n].id = i}

\* ScheduleTask: the old entry goes first. An enabled schedule is registered
\* and saved, a paused one is only saved. When the save fails the schedule is
\* left without an entry.
ScheduleTask(i, enable, result) ==
    /\ up /\ holder = 0 /\ edits < MaxEdits /\ result \in Readable(i)
    /\ edits' = edits + 1
    /\ scheduleOf' = [scheduleOf EXCEPT ![edits + 1] = i]
    /\ captured' = [captured EXCEPT ![edits + 1] = result]
    /\ \/ /\ rows' = [rows EXCEPT ![i] =
                        [version |-> edits + 1, enabled |-> enable, result |-> result]]
          /\ entryMap' = [entryMap EXCEPT ![i] = IF enable THEN edits + 1 ELSE PausedEntry(i)]
       \/ /\ entryMap' = [entryMap EXCEPT ![i] = 0]
          /\ UNCHANGED rows
    /\ UNCHANGED <<launches, up, waiting, holder>>

\* DeleteTask: the entry is gone even when the DELETE fails.
DeleteTask(i) ==
    /\ up /\ holder = 0 /\ Exists(i)
    /\ entryMap' = [entryMap EXCEPT ![i] = 0]
    /\ rows' = [rows EXCEPT ![i] = NoRow] \/ UNCHANGED rows
    /\ UNCHANGED <<launches, edits, scheduleOf, up, captured, waiting, holder>>

-----------------------------------------------------------------------------
(* Callbacks.                                                              *)

\* Mutant of Dispatchable: a removed entry is dispatched too.
StillIdle(i) == entryMap[i] \notin waiting
\* A live entry; SkipIfStillRunning drops the dispatch while the entry's
\* previous callback has not returned.
Dispatchable(i) == entryMap[i] \notin waiting \cup {0, holder}

\* The cron goroutine dispatches an entry that is due.
Dispatch(i) ==
    /\ up /\ Dispatchable(i)
    /\ waiting' = waiting \cup {entryMap[i]}
    /\ UNCHANGED <<rows, launches, edits, scheduleOf, up, entryMap, captured, holder>>

\* Mutant of Current: the callback does not compare its entry id.
AnyEntry(v) == TRUE
\* currentID, exists := cm.entryMap[task.ID]: this registration is in force.
Current(v) == entryMap[scheduleOf[v]] = v

\* A callback of a removed entry gets the lock and returns.
CallbackReturns(v) ==
    /\ v \in waiting /\ holder = 0 /\ ~Current(v)
    /\ waiting' = waiting \ {v}
    /\ UNCHANGED <<rows, launches, edits, scheduleOf, up, entryMap, captured, holder>>

\* EnqueueScheduled with the captured definition; it may fail.
CallbackEnqueues(v) ==
    /\ v \in waiting /\ holder = 0 /\ Current(v)
    /\ waiting' = waiting \ {v} /\ holder' = v
    /\ \/ /\ CreateScheduledAsyncTask(scheduleOf[v], "cron", v)
          /\ captured' = [captured EXCEPT ![v] = Len(launches) + 1]
       \/ UNCHANGED <<rows, launches, captured>>
    /\ UNCHANGED <<edits, scheduleOf, up, entryMap>>

\* SaveTask writes the captured row over whatever is stored, or inserts it; a
\* failing save is ignored.
CallbackSaves ==
    /\ holder # 0
    /\ \/ rows' = [rows EXCEPT ![scheduleOf[holder]] =
                     [version |-> holder, enabled |-> TRUE, result |-> captured[holder]]]
       \/ UNCHANGED rows
    /\ holder' = 0
    /\ UNCHANGED <<launches, edits, scheduleOf, up, entryMap, captured, waiting>>

-----------------------------------------------------------------------------
(* The process.                                                            *)

\* Start registers every row that is not paused and writes it back.
Start ==
    /\ ~up
    /\ up' = TRUE
    /\ entryMap' = [i \in Ids |-> IF rows[i].enabled THEN rows[i].version ELSE 0]
    /\ captured' = [v \in Versions |-> rows[scheduleOf[v]].result]
    /\ UNCHANGED <<rows, launches, edits, scheduleOf, waiting, holder>>

Crash ==
    /\ up
    /\ up' = FALSE
    /\ entryMap' = [i \in Ids |-> 0] /\ waiting' = {} /\ holder' = 0
    /\ UNCHANGED <<rows, launches, edits, scheduleOf, captured>>

Next ==
    \/ \E i \in Ids : \/ RunTask(i) \/ DeleteTask(i) \/ Dispatch(i)
                      \/ \E enable \in BOOLEAN, result \in 0..MaxLaunches :
                           ScheduleTask(i, enable, result)
    \/ \E n \in 1..MaxLaunches : Retry(n)
    \/ \E v \in Versions : CallbackReturns(v) \/ CallbackEnqueues(v)
    \/ CallbackSaves \/ Start \/ Crash

Spec == Init /\ [][Next]_vars

-----------------------------------------------------------------------------
(* Properties.                                                             *)

\* What cron may fire is what the database says: a registered entry belongs to
\* an enabled row of the same version, whatever saves and deletes failed. (The
\* converse fails after a failed save, until the next restart.)
RegisteredMatchesRow ==
    \A i \in Ids : entryMap[i] # 0 =>
        rows[i].enabled /\ rows[i].version = entryMap[i] /\ scheduleOf[entryMap[i]] = i

\* A cron execution is launched only for an enabled schedule and with its
\* current definition: a callback that waited through a pause, an edit or a
\* deletion launches nothing.
CurrentOnly ==
    [][Len(launches') > Len(launches) /\ launches'[Len(launches')].by = "cron" =>
         LET new == launches'[Len(launches')]
         IN  rows[new.id].enabled /\ rows[new.id].version = new.version]_vars

\* The write-back of a callback never undoes an edit or resurrects a deleted
\* schedule: a row's version changes only by an edit or a deletion.
EditsKept ==
    [][\A i \in Ids : rows'[i].version # rows[i].version =>
         rows'[i] = NoRow \/ (edits' = edits + 1 /\ rows'[i].version = edits')]_vars

\* CreateScheduledAsyncTask: "atomically creates one execution and records it
\* as the schedule's latest launch". So nothing but an edit moves the result
\* column back to an older execution.
LatestLaunchKept ==
    [][\A i \in Ids : rows'[i].version = rows[i].version =>
         rows'[i].result >= rows[i].result]_vars

-----------------------------------------------------------------------------
(* The inductive strengthening the proofs in CronProofs rest on.           *)

\* The callback that holds cm.mu is still registered, and only a live process
\* has registrations and callbacks.
HolderCurrent ==
    /\ holder # 0 => Current(holder)
    /\ ~up => holder = 0 /\ \A i \in Ids : entryMap[i] = 0

\* A stored version belongs to its schedule and was handed out.
VersionsOwned ==
    \A i \in Ids : /\ rows[i].version <= edits
                   /\ rows[i].version # 0 => scheduleOf[rows[i].version] = i
                   /\ rows[i].version = 0 => ~rows[i].enabled

IInv == RegisteredMatchesRow /\ HolderCurrent /\ VersionsOwned
=============================================================================
