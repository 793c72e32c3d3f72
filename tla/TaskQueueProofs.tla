--------------------------- MODULE TaskQueueProofs ---------------------------
(* Theorems about TaskQueue, for every set of tasks and every bound.       *)
EXTENDS TaskQueue, FiniteSetTheorems, SequenceTheorems, TLAPS

\* The rows of async_tasks can be counted at every moment.
LEMMA ExistingFinite == Cardinality(Existing) \in Nat
<1>1. IsFiniteSet(Existing)
  BY FiniteAssumption, FS_Subset DEF Existing
<1> QED
  BY <1>1, FS_CardinalityType

\* The steps that write async_tasks or task_runs.
TaskWrites ==
    \/ \E t \in Uuids, k \in Submitted, s \in Uuids \cup {NoTask} : Enqueue(t, k, s)
    \/ \E t \in Ids, new \in Uuids : Retry(t, new)
    \/ CancelPendingAsyncTask
    \/ \E t \in Ids : BeginAsyncTask(t)
    \/ \E t \in Uuids : EnqueueAutofillQuarkImport(t)
    \/ ImportVerified
    \/ FinishAsyncTask
    \/ Start

\* The steps that write cross_drive_imports or reach the provider.
ImportWrites ==
    \/ RequestCrossDriveCancellation
    \/ RunFails
    \/ RunSucceeds
    \/ ImportCheckpoint
    \/ ImportCancelled
    \/ ReuseRoots
    \/ SaveProviderShare
    \/ SaveCrossDriveRoots
    \/ ImportVerified
    \/ Start

\* The steps that move the worker.
WorkerMoves ==
    \/ SignalRunning
    \/ ListPending
    \/ \E t \in Ids : BeginAsyncTask(t)
    \/ \E t \in Ids : SkipTask(t)
    \/ RegisterRunning
    \/ StartRun
    \/ RunFails
    \/ RunSucceeds
    \/ ImportCheckpoint
    \/ ImportCancelled
    \/ CancelNotRequested
    \/ ReuseRoots
    \/ SaveProviderShare
    \/ SaveCrossDriveRoots
    \/ ImportVerified
    \/ FinishAsyncTask
    \/ Cleanup
    \/ WorkerReturns
    \/ Start
    \/ Exit
    \/ Crash

\* The steps of the process, its locks and its Cancel requests.
ProcessMoves ==
    \/ \E t \in Ids : CancelRead(t)
    \/ BeginMediaMutation
    \/ EndMediaMutation
    \/ CancelPendingAsyncTask
    \/ RequestCrossDriveCancellation
    \/ SignalRunning
    \/ \E t \in Ids : BeginAsyncTask(t)
    \/ \E t \in Ids : SkipTask(t)
    \/ StartRun
    \/ RunFails
    \/ RunSucceeds
    \/ ImportCancelled
    \/ ImportVerified
    \/ FinishAsyncTask
    \/ Cleanup
    \/ Start
    \/ Terminate
    \/ Exit
    \/ Crash

\* No other step touches those variables.
LEMMA TaskWritesFrame == [Next]_vars => TaskWrites \/ UNCHANGED taskVars
BY DEF Next, Request, CancelStep, WorkerStep, RunStep, TaskWrites, vars, taskVars, importVars,
      workerVars, cancelVars, countVars, Return, LoseMemory, CreateAsyncTask,
      RecoverInterruptedAsyncTasks,
      Enqueue, Retry, CancelRead, BeginMediaMutation, EndMediaMutation, CancelPendingAsyncTask,
      RequestCrossDriveCancellation, SignalRunning, ListPending, BeginAsyncTask, SkipTask,
      RegisterRunning, StartRun, RunFails, RunSucceeds, EnqueueAutofillQuarkImport,
      ImportCheckpoint, ImportCancelled, CancelNotRequested, ReuseRoots, SaveProviderShare, SaveCrossDriveRoots,
      ImportVerified, FinishAsyncTask, Cleanup, WorkerReturns, Start, Terminate, Exit, Crash

\* No other step touches those variables.
LEMMA ImportWritesFrame == [Next]_vars => ImportWrites \/ UNCHANGED importVars
BY DEF Next, Request, CancelStep, WorkerStep, RunStep, ImportWrites, vars, taskVars, importVars,
      workerVars, cancelVars, countVars, Return, LoseMemory, CreateAsyncTask,
      RecoverInterruptedAsyncTasks,
      Enqueue, Retry, CancelRead, BeginMediaMutation, EndMediaMutation, CancelPendingAsyncTask,
      RequestCrossDriveCancellation, SignalRunning, ListPending, BeginAsyncTask, SkipTask,
      RegisterRunning, StartRun, RunFails, RunSucceeds, EnqueueAutofillQuarkImport,
      ImportCheckpoint, ImportCancelled, CancelNotRequested, ReuseRoots, SaveProviderShare, SaveCrossDriveRoots,
      ImportVerified, FinishAsyncTask, Cleanup, WorkerReturns, Start, Terminate, Exit, Crash

\* No other step touches those variables.
LEMMA WorkerMovesFrame == [Next]_vars => WorkerMoves \/ UNCHANGED workerVars
BY DEF Next, Request, CancelStep, WorkerStep, RunStep, WorkerMoves, vars, taskVars, importVars,
      workerVars, cancelVars, countVars, Return, LoseMemory, CreateAsyncTask,
      RecoverInterruptedAsyncTasks,
      Enqueue, Retry, CancelRead, BeginMediaMutation, EndMediaMutation, CancelPendingAsyncTask,
      RequestCrossDriveCancellation, SignalRunning, ListPending, BeginAsyncTask, SkipTask,
      RegisterRunning, StartRun, RunFails, RunSucceeds, EnqueueAutofillQuarkImport,
      ImportCheckpoint, ImportCancelled, CancelNotRequested, ReuseRoots, SaveProviderShare, SaveCrossDriveRoots,
      ImportVerified, FinishAsyncTask, Cleanup, WorkerReturns, Start, Terminate, Exit, Crash

\* No other step touches those variables.
LEMMA ProcessMovesFrame == [Next]_vars => ProcessMoves \/ UNCHANGED <<proc, mediaMu, cancelVars, countVars>>
BY DEF Next, Request, CancelStep, WorkerStep, RunStep, ProcessMoves, vars, taskVars, importVars,
      workerVars, cancelVars, countVars, Return, LoseMemory, CreateAsyncTask,
      RecoverInterruptedAsyncTasks,
      Enqueue, Retry, CancelRead, BeginMediaMutation, EndMediaMutation, CancelPendingAsyncTask,
      RequestCrossDriveCancellation, SignalRunning, ListPending, BeginAsyncTask, SkipTask,
      RegisterRunning, StartRun, RunFails, RunSucceeds, EnqueueAutofillQuarkImport,
      ImportCheckpoint, ImportCancelled, CancelNotRequested, ReuseRoots, SaveProviderShare, SaveCrossDriveRoots,
      ImportVerified, FinishAsyncTask, Cleanup, WorkerReturns, Start, Terminate, Exit, Crash

\* An import that queues its ingest has a random identifier.
LEMMA IngestIdTyped ==
    ASSUME TypeOK, NEW t \in Ids, QueuesIngest(t)
    PROVE  t \in Uuids /\ IngestId(t) \in Ids
<1>1. t \in Uuids
  BY DEF TypeOK, TaskTypeOK, QueuesIngest, Ids, Imports
<1> QED
  BY <1>1 DEF Ids, IngestIds

\* A new row is well typed.
LEMMA CreateTyped ==
    ASSUME TypeOK, NEW t \in Ids, NEW k \in Kinds,
           NEW s \in Ids \cup {NoTask}, NEW b \in Ids \cup {NoTask},
           t \in Uuids \/ k \notin Imports,
           CreateAsyncTask(t, k, s, b)
    PROVE  TaskTypeOK'
BY IdAssumption, ExistingFinite DEF TypeOK, TaskTypeOK, CreateAsyncTask

\* Closing the last run of a non-empty history yields a history.
LEMMA CloseRunIsHistory ==
    ASSUME NEW S, NEW q \in Seq(S), q # <<>>, NEW x \in S
    PROVE  /\ CloseRun(q, x) \in Seq(S)
           /\ Len(CloseRun(q, x)) = Len(q)
           /\ \A i \in 1..Len(q) : CloseRun(q, x)[i] = IF i = Len(q) THEN x ELSE q[i]
<1>1. Len(q) \in 1..Len(q)
  OBVIOUS
<1> QED
  BY <1>1, ExceptSeq DEF CloseRun

\* Task rows keep their types.
LEMMA TaskTypeStep ==
    ASSUME TypeOK, [Next]_vars
    PROVE  TaskTypeOK'
<1> USE IdAssumption, KindAssumption
<1> USE DEF TypeOK, TaskTypeOK, Terminal, Kinds, Imports
<1>1. ASSUME NEW t \in Uuids, NEW k \in Submitted, NEW s \in Uuids \cup {NoTask}, Enqueue(t, k, s)
      PROVE  TaskTypeOK'
  BY <1>1, CreateTyped DEF Enqueue, Ids
<1>2. ASSUME NEW t \in Ids, NEW new \in Uuids, Retry(t, new)
      PROVE  TaskTypeOK'
  BY <1>2, CreateTyped DEF Retry, Ids
<1>3. CASE CancelPendingAsyncTask
  BY <1>3 DEF CancelPendingAsyncTask, ProcessTypeOK
<1>4. ASSUME NEW t \in Ids, BeginAsyncTask(t)
      PROVE  TaskTypeOK'
  BY <1>4 DEF BeginAsyncTask
<1>5. ASSUME NEW t \in Uuids, EnqueueAutofillQuarkImport(t)
      PROVE  TaskTypeOK'
  BY <1>5, CreateTyped DEF EnqueueAutofillQuarkImport, WorkerTypeOK, Executing, WorkerPCs, Ids
<1>6. CASE ImportVerified
  <2>1. cur \in Ids
    BY <1>6 DEF ImportVerified, WorkerTypeOK, Executing, WorkerPCs
  <2>2. CASE UNCHANGED taskVars
    BY <2>2 DEF taskVars
  <2>3. CASE QueuesIngest(cur) /\ CreateAsyncTask(IngestId(cur), "ingest", cur, NoTask)
    <3>2. IngestId(cur) \in Ids
      BY <2>1, <2>3, IngestIdTyped
    <3> QED
      BY <2>1, <2>3, <3>2, CreateTyped DEF IngestIds
  <2> QED
    BY <1>6, <2>2, <2>3 DEF ImportVerified
<1>7. CASE FinishAsyncTask
  <2>1. cur \in Ids /\ outcome \in Terminal /\ runs[cur] \in Seq(Terminal \cup {"running"})
    BY <1>7 DEF FinishAsyncTask, WorkerTypeOK, Executing, WorkerPCs
  <2>2. runs[cur] # <<>> => CloseRun(runs[cur], outcome) \in Seq(Terminal \cup {"running"})
    BY <2>1, CloseRunIsHistory
  <2>3. CASE UNCHANGED <<status, runs>>
    BY <1>7, <2>3 DEF FinishAsyncTask
  <2>4. CASE /\ runs[cur] # <<>> /\ status' = [status EXCEPT ![cur] = outcome]
             /\ runs' = [runs EXCEPT ![cur] = CloseRun(@, outcome)]
    BY <1>7, <2>1, <2>2, <2>4 DEF FinishAsyncTask
  <2> QED
    BY <1>7, <2>3, <2>4 DEF FinishAsyncTask
<1>8. CASE Start
  BY <1>8 DEF Start, RecoverInterruptedAsyncTasks, RecoveredStatus, RecoveredMaxAttempts, RecoveredRun, Resumable
<1>9. CASE UNCHANGED taskVars
  BY <1>9 DEF taskVars, importVars, workerVars, cancelVars, countVars
<1> QED
  BY TaskWritesFrame, <1>1, <1>2, <1>3, <1>4, <1>5, <1>6, <1>7, <1>8, <1>9 DEF TaskWrites

\* Import rows keep their types.
LEMMA ImportTypeStep ==
    ASSUME TypeOK, [Next]_vars
    PROVE  ImportTypeOK'
<1> USE DEF TypeOK, ImportTypeOK, WorkerTypeOK, ProcessTypeOK, Executing, WorkerPCs
<1>1. CASE RequestCrossDriveCancellation
  BY <1>1 DEF RequestCrossDriveCancellation
<1>2. CASE RunFails
  BY <1>2 DEF RunFails, Return
<1>3. CASE RunSucceeds
  BY <1>3 DEF RunSucceeds, Return
<1>4. CASE ImportCheckpoint
  BY <1>4 DEF ImportCheckpoint
<1>5. CASE ImportCancelled
  BY <1>5 DEF ImportCancelled, Return
<1>6. CASE ReuseRoots
  BY <1>6 DEF ReuseRoots
<1>7. CASE SaveProviderShare
  BY <1>7 DEF SaveProviderShare
<1>8. CASE SaveCrossDriveRoots
  BY <1>8 DEF SaveCrossDriveRoots
<1>9. CASE ImportVerified
  BY <1>9 DEF ImportVerified, CreateAsyncTask, Return
<1>10. CASE Start
  BY <1>10 DEF Start, RecoverInterruptedAsyncTasks
<1>11. CASE UNCHANGED importVars
  BY <1>11 DEF taskVars, importVars, workerVars, cancelVars, countVars
<1> QED
  BY ImportWritesFrame, <1>1, <1>2, <1>3, <1>4, <1>5, <1>6, <1>7, <1>8, <1>9, <1>10, <1>11 DEF ImportWrites

\* The worker's variables keep their types.
LEMMA WorkerTypeStep ==
    ASSUME TypeOK, [Next]_vars
    PROVE  WorkerTypeOK'
<1> USE IdAssumption
<1> USE DEF TypeOK, WorkerTypeOK, Executing, WorkerPCs, Terminal
<1>1. CASE SignalRunning
  BY <1>1 DEF SignalRunning
<1>2. CASE ListPending
  BY <1>2 DEF ListPending, OldestPending, Pending
<1>3. ASSUME NEW t \in Ids, BeginAsyncTask(t)
      PROVE  WorkerTypeOK'
  BY <1>3 DEF BeginAsyncTask
<1>4. ASSUME NEW t \in Ids, SkipTask(t)
      PROVE  WorkerTypeOK'
  BY <1>4 DEF SkipTask
<1>5. CASE RegisterRunning
  BY <1>5 DEF RegisterRunning
<1>6. CASE StartRun
  BY <1>6 DEF StartRun
<1>7. CASE RunFails
  BY <1>7 DEF RunFails, Return
<1>8. CASE RunSucceeds
  BY <1>8 DEF RunSucceeds, Return
<1>9. CASE ImportCheckpoint
  BY <1>9 DEF ImportCheckpoint
<1>10. CASE ImportCancelled
  BY <1>10 DEF ImportCancelled, Return
<1>11. CASE ReuseRoots
  BY <1>11 DEF ReuseRoots
<1>12. CASE SaveProviderShare
  BY <1>12 DEF SaveProviderShare
<1>13. CASE SaveCrossDriveRoots
  BY <1>13 DEF SaveCrossDriveRoots
<1>14. CASE ImportVerified
  BY <1>14 DEF ImportVerified, CreateAsyncTask, Return
<1>15. CASE FinishAsyncTask
  BY <1>15 DEF FinishAsyncTask
<1>16. CASE Cleanup
  BY <1>16 DEF Cleanup
<1>17. CASE WorkerReturns
  BY <1>17 DEF WorkerReturns
<1>18. CASE Start
  BY <1>18 DEF Start, RecoverInterruptedAsyncTasks
<1>19. CASE Exit
  BY <1>19 DEF Exit, LoseMemory
<1>20. CASE Crash
  BY <1>20 DEF Crash, LoseMemory
<1>21. CASE UNCHANGED workerVars
  BY <1>21 DEF taskVars, importVars, workerVars, cancelVars, countVars
<1>22. CASE CancelNotRequested
  BY <1>22 DEF CancelNotRequested
<1> QED
  BY WorkerMovesFrame, <1>1, <1>2, <1>3, <1>4, <1>5, <1>6, <1>7, <1>8, <1>9, <1>10, <1>11, <1>12, <1>13, <1>14, <1>15, <1>16, <1>17, <1>18, <1>19, <1>20, <1>21, <1>22 DEF WorkerMoves

\* The process variables keep their types and bounds.
LEMMA ProcessTypeStep ==
    ASSUME TypeOK, [Next]_vars
    PROVE  ProcessTypeOK'
<1> USE IdAssumption, BoundAssumption
<1> USE DEF TypeOK, ProcessTypeOK, cancelVars, countVars
<1>1. ASSUME NEW t \in Ids, CancelRead(t)
      PROVE  ProcessTypeOK'
  BY <1>1 DEF CancelRead
<1>2. CASE BeginMediaMutation
  BY <1>2 DEF BeginMediaMutation
<1>3. CASE EndMediaMutation
  BY <1>3 DEF EndMediaMutation
<1>4. CASE CancelPendingAsyncTask
  BY <1>4 DEF CancelPendingAsyncTask
<1>5. CASE RequestCrossDriveCancellation
  BY <1>5 DEF RequestCrossDriveCancellation
<1>6. CASE SignalRunning
  BY <1>6 DEF SignalRunning
<1>7. ASSUME NEW t \in Ids, BeginAsyncTask(t)
      PROVE  ProcessTypeOK'
  BY <1>7 DEF BeginAsyncTask
<1>8. ASSUME NEW t \in Ids, SkipTask(t)
      PROVE  ProcessTypeOK'
  BY <1>8 DEF SkipTask
<1>9. CASE StartRun
  BY <1>9 DEF StartRun
<1>10. CASE RunFails
  BY <1>10 DEF RunFails, Return
<1>11. CASE RunSucceeds
  BY <1>11 DEF RunSucceeds, Return
<1>12. CASE ImportCancelled
  BY <1>12 DEF ImportCancelled, Return
<1>13. CASE ImportVerified
  BY <1>13 DEF ImportVerified, CreateAsyncTask, Return
<1>14. CASE FinishAsyncTask
  BY <1>14 DEF FinishAsyncTask
<1>15. CASE Cleanup
  BY <1>15 DEF Cleanup
<1>16. CASE Start
  BY <1>16 DEF Start, RecoverInterruptedAsyncTasks
<1>17. CASE Terminate
  BY <1>17 DEF Terminate
<1>18. CASE Exit
  BY <1>18 DEF Exit, LoseMemory
<1>19. CASE Crash
  BY <1>19 DEF Crash, LoseMemory
<1>20. CASE UNCHANGED <<proc, mediaMu, cancelVars, countVars>>
  BY <1>20 DEF taskVars, importVars, workerVars, cancelVars, countVars
<1> QED
  BY ProcessMovesFrame, <1>1, <1>2, <1>3, <1>4, <1>5, <1>6, <1>7, <1>8, <1>9, <1>10, <1>11, <1>12, <1>13, <1>14, <1>15, <1>16, <1>17, <1>18, <1>19, <1>20 DEF ProcessMoves

\* The type invariant holds in every reachable state of the queue, whatever the
\* number of tasks, crashes and failing writes.
THEOREM TypeCorrect == Spec => []TypeOK
<1>1. Init => TypeOK
  <2> SUFFICES ASSUME Init PROVE TypeOK
    OBVIOUS
  <2>1. TaskTypeOK
    BY DEF Init, TaskTypeOK, Kinds, Imports, Ids
  <2>2. ImportTypeOK
    BY DEF Init, ImportTypeOK
  <2>3. WorkerTypeOK
    BY DEF Init, WorkerTypeOK, Executing, WorkerPCs, Terminal
  <2>4. ProcessTypeOK
    BY BoundAssumption DEF Init, ProcessTypeOK
  <2> QED
    BY <2>1, <2>2, <2>3, <2>4 DEF TypeOK
<1>2. TypeOK /\ [Next]_vars => TypeOK'
  BY TaskTypeStep, ImportTypeStep, WorkerTypeStep, ProcessTypeStep DEF TypeOK
<1> QED
  BY <1>1, <1>2, PTL DEF Spec

-----------------------------------------------------------------------------
(* Attempts and runs.                                                      *)

\* What recovery does to one row and to its history.
LEMMA RecoverRow ==
    ASSUME TypeOK, RecoverInterruptedAsyncTasks, NEW t \in Ids
    PROVE  /\ status[t] # "running" => status'[t] = status[t] /\ maxAttempts'[t] = maxAttempts[t]
           /\ status[t] = "running" /\ kind[t] \in Imports =>
                /\ status'[t] = "pending"
                /\ maxAttempts'[t] >= maxAttempts[t] /\ maxAttempts'[t] > attempts[t]
           /\ status[t] = "running" /\ kind[t] \notin Imports =>
                status'[t] = "failed" /\ maxAttempts'[t] = maxAttempts[t]
           /\ UNCHANGED <<kind, attempts, link, prior, row, saves>>
<1>1. /\ status'[t] = RecoveredStatus(t) /\ maxAttempts'[t] = RecoveredMaxAttempts(t)
      /\ UNCHANGED <<kind, attempts, link, prior, row, saves>>
  BY DEF RecoverInterruptedAsyncTasks
<1>2. attempts[t] \in Nat /\ maxAttempts[t] \in Nat
  BY DEF TypeOK, TaskTypeOK
<1>3. CASE status[t] # "running"
  <2>1. RecoveredStatus(t) = status[t]
    BY <1>3 DEF RecoveredStatus
  <2>2. RecoveredMaxAttempts(t) = maxAttempts[t]
    BY <1>3 DEF RecoveredMaxAttempts
  <2> QED
    BY <1>1, <1>3, <2>1, <2>2
<1>4. CASE status[t] = "running" /\ kind[t] \in Imports
  BY <1>1, <1>2, <1>4 DEF RecoveredStatus, RecoveredMaxAttempts, Resumable
<1>5. CASE status[t] = "running" /\ kind[t] \notin Imports
  BY <1>1, <1>2, <1>5 DEF RecoveredStatus, RecoveredMaxAttempts, Resumable
<1> QED
  BY <1>3, <1>4, <1>5

\* Recovery rewrites histories run by run and keeps their lengths.
LEMMA RecoverRuns ==
    ASSUME TypeOK, RecoverInterruptedAsyncTasks, NEW t \in Ids
    PROVE  /\ Len(runs'[t]) = Len(runs[t])
           /\ \A i \in 1..Len(runs[t]) : runs'[t][i] = RecoveredRun(runs[t][i])
<1>1. runs'[t] = [i \in 1..Len(runs[t]) |-> RecoveredRun(runs[t][i])]
  BY DEF RecoverInterruptedAsyncTasks
<1>2. Len(runs[t]) \in Nat
  BY DEF TypeOK, TaskTypeOK
<1> QED
  BY <1>1, <1>2

\* A write of FinishAsyncTask closes the open run of the current row.
LEMMA FinishRuns ==
    ASSUME TypeOK, FinishAsyncTask
    PROVE  /\ cur \in Ids /\ outcome \in Terminal
           /\ \/ UNCHANGED <<status, runs>>
              \/ /\ status[cur] = "running" /\ status' = [status EXCEPT ![cur] = outcome]
                 /\ \A t \in Ids \ {cur} : runs'[t] = runs[t]
                 /\ Len(runs'[cur]) = Len(runs[cur])
                 /\ \A i \in 1..Len(runs[cur]) :
                      runs'[cur][i] = IF i = Len(runs[cur]) THEN outcome ELSE runs[cur][i]
           /\ UNCHANGED <<kind, attempts, maxAttempts, link, prior>>
<1>1. /\ cur \in Ids /\ outcome \in Terminal /\ outcome \in Terminal \cup {"running"}
      /\ runs[cur] \in Seq(Terminal \cup {"running"})
  BY DEF FinishAsyncTask, TypeOK, TaskTypeOK, WorkerTypeOK, Executing, WorkerPCs
<1>2. CASE UNCHANGED <<status, runs>>
  BY <1>1, <1>2 DEF FinishAsyncTask
<1>3. CASE /\ status[cur] = "running" /\ runs[cur] # <<>>
           /\ status' = [status EXCEPT ![cur] = outcome]
           /\ runs' = [runs EXCEPT ![cur] = CloseRun(@, outcome)]
  <2>1. /\ runs'[cur] = CloseRun(runs[cur], outcome)
        /\ \A t \in Ids \ {cur} : runs'[t] = runs[t]
    BY <1>1, <1>3 DEF TypeOK, TaskTypeOK
  <2>2. /\ Len(CloseRun(runs[cur], outcome)) = Len(runs[cur])
        /\ \A i \in 1..Len(runs[cur]) :
             CloseRun(runs[cur], outcome)[i] = IF i = Len(runs[cur]) THEN outcome ELSE runs[cur][i]
    <3> DEFINE S == Terminal \cup {"running"}
               q == runs[cur]
    <3>1. q \in Seq(S) /\ q # <<>> /\ outcome \in S
      BY <1>1, <1>3
    <3> HIDE DEF S, q
    <3>2. /\ Len(CloseRun(q, outcome)) = Len(q)
          /\ \A i \in 1..Len(q) : CloseRun(q, outcome)[i] = IF i = Len(q) THEN outcome ELSE q[i]
      BY <3>1, CloseRunIsHistory
    <3> QED
      BY <3>2 DEF q
  <2> QED
    BY <1>1, <1>3, <2>1, <2>2 DEF FinishAsyncTask
<1> QED
  BY <1>2, <1>3 DEF FinishAsyncTask

\* A new row has its one attempt ahead of it.
LEMMA CreateAttempts ==
    ASSUME TypeOK, AttemptsBounded, NEW t \in Ids, NEW k, NEW s, NEW b,
           CreateAsyncTask(t, k, s, b)
    PROVE  AttemptsBounded'
BY DEF TypeOK, TaskTypeOK, AttemptsBounded, CreateAsyncTask

\* No step exceeds the attempts a row allows.
LEMMA AttemptsStep ==
    ASSUME TypeOK, AttemptsBounded, [Next]_vars
    PROVE  AttemptsBounded'
<1> USE DEF TypeOK, TaskTypeOK, AttemptsBounded
<1>1. ASSUME NEW t \in Uuids, NEW k \in Submitted, NEW s \in Uuids \cup {NoTask}, Enqueue(t, k, s)
      PROVE  AttemptsBounded'
  BY <1>1, CreateAttempts DEF Enqueue, Ids
<1>2. ASSUME NEW t \in Ids, NEW new \in Uuids, Retry(t, new)
      PROVE  AttemptsBounded'
  BY <1>2, CreateAttempts DEF Retry, Ids
<1>3. CASE CancelPendingAsyncTask
  BY <1>3 DEF CancelPendingAsyncTask, ProcessTypeOK
<1>4. ASSUME NEW t \in Ids, BeginAsyncTask(t)
      PROVE  AttemptsBounded'
  BY <1>4 DEF BeginAsyncTask, Claimable
<1>5. ASSUME NEW t \in Uuids, EnqueueAutofillQuarkImport(t)
      PROVE  AttemptsBounded'
  BY <1>5, CreateAttempts DEF EnqueueAutofillQuarkImport, Ids
<1>6. CASE ImportVerified
  <2>1. cur \in Ids
    BY <1>6 DEF ImportVerified, WorkerTypeOK, Executing, WorkerPCs
  <2>2. QueuesIngest(cur) => IngestId(cur) \in Ids
    BY <2>1, IngestIdTyped
  <2> QED
    BY <1>6, <2>1, <2>2, CreateAttempts DEF ImportVerified, taskVars
<1>7. CASE FinishAsyncTask
  BY <1>7, FinishRuns DEF Terminal
<1>8. CASE Start
  <2>1. RecoverInterruptedAsyncTasks
    BY <1>8 DEF Start
  <2> SUFFICES ASSUME NEW t \in Ids
               PROVE  /\ Len(runs'[t]) = attempts'[t] /\ attempts'[t] <= maxAttempts'[t]
                      /\ kind'[t] \notin Imports => maxAttempts'[t] <= 1
                      /\ status'[t] = "absent" => attempts'[t] = 0
                      /\ status'[t] = "pending" => attempts'[t] < maxAttempts'[t]
    BY DEF AttemptsBounded
  <2>2. Len(runs'[t]) = attempts'[t]
    BY <2>1, RecoverRuns DEF RecoverInterruptedAsyncTasks
  <2>3. /\ attempts[t] \in Nat /\ attempts'[t] = attempts[t] /\ kind'[t] = kind[t]
        /\ maxAttempts[t] \in Nat /\ maxAttempts'[t] \in Nat
    BY <2>1, RecoverRow, TaskTypeStep
  <2> QED
    BY <2>1, <2>2, <2>3, RecoverRow
<1>9. CASE UNCHANGED taskVars
  BY <1>9 DEF taskVars, importVars, workerVars, cancelVars, countVars
<1> QED
  BY TaskWritesFrame, <1>1, <1>2, <1>3, <1>4, <1>5, <1>6, <1>7, <1>8, <1>9 DEF TaskWrites

\* A new row has an empty history.
LEMMA CreateRuns ==
    ASSUME TypeOK, RunsAgree, NEW t \in Ids, NEW k, NEW s, NEW b,
           CreateAsyncTask(t, k, s, b)
    PROVE  RunsAgree'
BY DEF TypeOK, TaskTypeOK, RunsAgree, CreateAsyncTask

\* Row and history change together.
LEMMA RunsAgreeStep ==
    ASSUME TypeOK, RunsAgree, [Next]_vars
    PROVE  RunsAgree'
<1> USE DEF TypeOK, TaskTypeOK, RunsAgree
<1>1. ASSUME NEW t \in Uuids, NEW k \in Submitted, NEW s \in Uuids \cup {NoTask}, Enqueue(t, k, s)
      PROVE  RunsAgree'
  BY <1>1, CreateRuns DEF Enqueue, Ids
<1>2. ASSUME NEW t \in Ids, NEW new \in Uuids, Retry(t, new)
      PROVE  RunsAgree'
  BY <1>2, CreateRuns DEF Retry, Ids
<1>3. CASE CancelPendingAsyncTask
  BY <1>3 DEF CancelPendingAsyncTask, ProcessTypeOK
<1>4. ASSUME NEW t \in Ids, BeginAsyncTask(t)
      PROVE  RunsAgree'
  <2>1. status[t] = "pending" /\ status' = [status EXCEPT ![t] = "running"]
    BY <1>4 DEF BeginAsyncTask, Claimable
  <2>2. /\ Len(runs'[t]) = Len(runs[t]) + 1 /\ attempts'[t] = attempts[t] + 1
        /\ \A i \in 1..Len(runs'[t]) :
             runs'[t][i] = IF i = Len(runs[t]) + 1 THEN "running" ELSE runs[t][i]
    BY <1>4 DEF BeginAsyncTask
  <2>3. \A u \in Ids \ {t} : /\ runs'[u] = runs[u] /\ attempts'[u] = attempts[u]
                             /\ status'[u] = status[u]
    BY <1>4 DEF BeginAsyncTask
  <2>4. \A i \in 1..Len(runs[t]) : runs[t][i] # "running" /\ runs[t][i] # "completed"
    BY <2>1
  <2>5. status'[t] = "running" /\ Len(runs[t]) \in Nat /\ Len(runs[t]) = attempts[t]
    BY <2>1
  <2> SUFFICES ASSUME NEW u \in Ids
               PROVE  /\ Len(runs'[u]) = attempts'[u]
                      /\ \A i \in 1..Len(runs'[u]) :
                           /\ runs'[u][i] = "running" <=> (i = Len(runs'[u]) /\ status'[u] = "running")
                           /\ runs'[u][i] = "completed" <=> (i = Len(runs'[u]) /\ status'[u] = "completed")
    BY DEF RunsAgree
  <2>6. CASE u = t
    <3>1. Len(runs'[t]) = attempts'[t]
      BY <2>2, <2>5
    <3>2. ASSUME NEW i \in 1..Len(runs'[t])
          PROVE  /\ runs'[t][i] = "running" <=> i = Len(runs'[t])
                 /\ runs'[t][i] # "completed"
      <4>1. CASE i = Len(runs[t]) + 1
        BY <2>2, <4>1
      <4>2. CASE i # Len(runs[t]) + 1
        <5>1. i \in 1..Len(runs[t]) /\ runs'[t][i] = runs[t][i]
          BY <2>2, <2>5, <4>2
        <5> QED
          BY <2>2, <2>4, <4>2, <5>1
      <4> QED
        BY <4>1, <4>2
    <3> QED
      BY <2>5, <2>6, <3>1, <3>2
  <2>7. CASE u # t
    BY <2>3, <2>7
  <2> QED
    BY <2>6, <2>7
<1>5. ASSUME NEW t \in Uuids, EnqueueAutofillQuarkImport(t)
      PROVE  RunsAgree'
  BY <1>5, CreateRuns DEF EnqueueAutofillQuarkImport, Ids
<1>6. CASE ImportVerified
  <2>1. cur \in Ids
    BY <1>6 DEF ImportVerified, WorkerTypeOK, Executing, WorkerPCs
  <2>2. QueuesIngest(cur) => IngestId(cur) \in Ids
    BY <2>1, IngestIdTyped
  <2> QED
    BY <1>6, <2>1, <2>2, CreateRuns DEF ImportVerified, taskVars
<1>7. CASE FinishAsyncTask
  BY <1>7, FinishRuns DEF Terminal
<1>8. CASE Start
  <2>1. RecoverInterruptedAsyncTasks
    BY <1>8 DEF Start
  <2> SUFFICES ASSUME NEW t \in Ids
               PROVE  /\ Len(runs'[t]) = attempts'[t]
                      /\ \A i \in 1..Len(runs'[t]) :
                           /\ runs'[t][i] = "running" <=> (i = Len(runs'[t]) /\ status'[t] = "running")
                           /\ runs'[t][i] = "completed" <=> (i = Len(runs'[t]) /\ status'[t] = "completed")
    BY DEF RunsAgree
  <2>2. /\ Len(runs'[t]) = Len(runs[t]) /\ attempts'[t] = attempts[t]
        /\ \A i \in 1..Len(runs[t]) : runs'[t][i] = RecoveredRun(runs[t][i])
    BY <2>1, RecoverRuns, RecoverRow
  <2>3. status'[t] # "running" /\ (status'[t] = "completed" <=> status[t] = "completed")
    BY <2>1, RecoverRow
  <2> QED
    BY <2>2, <2>3 DEF RecoveredRun
<1>9. CASE UNCHANGED taskVars
  BY <1>9 DEF taskVars, importVars, workerVars, cancelVars, countVars
<1> QED
  BY TaskWritesFrame, <1>1, <1>2, <1>3, <1>4, <1>5, <1>6, <1>7, <1>8, <1>9 DEF TaskWrites

-----------------------------------------------------------------------------
(* The theorems that need only the task rows.                              *)

\* A task that is not an import is executed at most once in its life: no crash,
\* failing write, cancellation or race makes BeginAsyncTask claim it again.
THEOREM AtMostOnce == Spec => []EffectAtMostOnce
<1>1. Init => AttemptsBounded
  BY DEF Init, AttemptsBounded
<1>2. TypeOK /\ AttemptsBounded /\ [Next]_vars => AttemptsBounded'
  BY AttemptsStep
<1>3. TypeOK /\ AttemptsBounded => EffectAtMostOnce
  BY DEF TypeOK, TaskTypeOK, AttemptsBounded, EffectAtMostOnce
<1> QED
  BY <1>1, <1>2, <1>3, TypeCorrect, PTL DEF Spec

\* async_tasks and task_runs agree in every reachable state, in particular
\* at every point where the process may crash.
THEOREM HistoryAgrees == Spec => []RunsAgree
<1>1. Init => RunsAgree
  BY DEF Init, RunsAgree
<1>2. TypeOK /\ RunsAgree /\ [Next]_vars => RunsAgree'
  BY RunsAgreeStep
<1> QED
  BY <1>1, <1>2, TypeCorrect, PTL DEF Spec

\* No step rewrites a terminal status.
LEMMA TerminalStep ==
    ASSUME TypeOK, [Next]_vars
    PROVE  (\A u \in Ids : status[u] \in Terminal => status'[u] = status[u])
<1> USE DEF TypeOK, TaskTypeOK, Terminal
<1>1. ASSUME NEW t \in Uuids, NEW k \in Submitted, NEW s \in Uuids \cup {NoTask}, Enqueue(t, k, s)
      PROVE  (\A u \in Ids : status[u] \in Terminal => status'[u] = status[u])
  BY <1>1 DEF Enqueue, CreateAsyncTask, Ids
<1>2. ASSUME NEW t \in Ids, NEW new \in Uuids, Retry(t, new)
      PROVE  (\A u \in Ids : status[u] \in Terminal => status'[u] = status[u])
  BY <1>2 DEF Retry, CreateAsyncTask, Ids
<1>3. CASE CancelPendingAsyncTask
  BY <1>3 DEF CancelPendingAsyncTask, ProcessTypeOK
<1>4. ASSUME NEW t \in Ids, BeginAsyncTask(t)
      PROVE  (\A u \in Ids : status[u] \in Terminal => status'[u] = status[u])
  BY <1>4 DEF BeginAsyncTask, Claimable
<1>5. ASSUME NEW t \in Uuids, EnqueueAutofillQuarkImport(t)
      PROVE  (\A u \in Ids : status[u] \in Terminal => status'[u] = status[u])
  BY <1>5 DEF EnqueueAutofillQuarkImport, CreateAsyncTask, Ids
<1>6. CASE ImportVerified
  <2>1. cur \in Ids
    BY <1>6 DEF ImportVerified, WorkerTypeOK, Executing, WorkerPCs
  <2>2. QueuesIngest(cur) => IngestId(cur) \in Ids
    BY <2>1, IngestIdTyped
  <2> QED
    BY <1>6, <2>1, <2>2 DEF ImportVerified, CreateAsyncTask, taskVars
<1>7. CASE FinishAsyncTask
  BY <1>7, FinishRuns
<1>8. CASE Start
  <2>1. RecoverInterruptedAsyncTasks
    BY <1>8 DEF Start
  <2> QED
    BY <2>1, RecoverRow
<1>9. CASE UNCHANGED taskVars
  BY <1>9 DEF taskVars, importVars, workerVars, cancelVars, countVars
<1> QED
  BY TaskWritesFrame, <1>1, <1>2, <1>3, <1>4, <1>5, <1>6, <1>7, <1>8, <1>9 DEF TaskWrites

\* A terminal status is final (the action property TerminalStable).
THEOREM TerminalIsFinal == Spec => TerminalStable
<1>1. TypeOK /\ [Next]_vars => [\A t \in Ids : status[t] \in Terminal => status'[t] = status[t]]_vars
  BY TerminalStep
<1> QED
  BY <1>1, TypeCorrect, PTL DEF Spec, TerminalStable

-----------------------------------------------------------------------------
(* The worker and the import rows.                                         *)

\* The row of the current task stays running until its result is recorded.
LEMMA WorkerOwnsRowStep ==
    ASSUME TypeOK, WorkerOwnsRow, [Next]_vars
    PROVE  WorkerOwnsRow'
<1> USE DEF TypeOK, TaskTypeOK, WorkerTypeOK, ProcessTypeOK, WorkerOwnsRow, Executing, WorkerPCs,
        taskVars, importVars, workerVars, cancelVars, countVars
<1>1. ASSUME NEW t \in Uuids, NEW k \in Submitted, NEW s \in Uuids \cup {NoTask}, Enqueue(t, k, s)
      PROVE  WorkerOwnsRow'
  BY <1>1 DEF Enqueue, CreateAsyncTask, Ids
<1>2. ASSUME NEW t \in Ids, NEW new \in Uuids, Retry(t, new)
      PROVE  WorkerOwnsRow'
  BY <1>2 DEF Retry, CreateAsyncTask, Ids
<1>3. ASSUME NEW t \in Ids, CancelRead(t)
      PROVE  WorkerOwnsRow'
  BY <1>3 DEF CancelRead
<1>4. CASE BeginMediaMutation
  BY <1>4 DEF BeginMediaMutation
<1>5. CASE EndMediaMutation
  BY <1>5 DEF EndMediaMutation
<1>6. CASE CancelPendingAsyncTask
  BY <1>6 DEF CancelPendingAsyncTask
<1>7. CASE RequestCrossDriveCancellation
  BY <1>7 DEF RequestCrossDriveCancellation
<1>8. CASE SignalRunning
  BY <1>8 DEF SignalRunning
<1>9. CASE ListPending
  BY <1>9 DEF ListPending
<1>10. ASSUME NEW t \in Ids, BeginAsyncTask(t)
      PROVE  WorkerOwnsRow'
  BY <1>10 DEF BeginAsyncTask, Claimable
<1>11. ASSUME NEW t \in Ids, SkipTask(t)
      PROVE  WorkerOwnsRow'
  BY <1>11 DEF SkipTask
<1>12. CASE RegisterRunning
  BY <1>12 DEF RegisterRunning
<1>13. CASE StartRun
  BY <1>13 DEF StartRun
<1>14. CASE RunFails
  BY <1>14 DEF RunFails, Return
<1>15. CASE RunSucceeds
  BY <1>15 DEF RunSucceeds, Return
<1>16. ASSUME NEW t \in Uuids, EnqueueAutofillQuarkImport(t)
      PROVE  WorkerOwnsRow'
  BY <1>16 DEF EnqueueAutofillQuarkImport, CreateAsyncTask, Ids
<1>17. CASE ImportCheckpoint
  BY <1>17 DEF ImportCheckpoint
<1>18. CASE ImportCancelled
  BY <1>18 DEF ImportCancelled, Return
<1>19. CASE ReuseRoots
  BY <1>19 DEF ReuseRoots
<1>20. CASE SaveProviderShare
  BY <1>20 DEF SaveProviderShare
<1>21. CASE SaveCrossDriveRoots
  BY <1>21 DEF SaveCrossDriveRoots
<1>22. CASE ImportVerified
  <2>1. cur \in Ids
    BY <1>22 DEF ImportVerified, WorkerTypeOK, Executing, WorkerPCs
  <2>2. QueuesIngest(cur) => IngestId(cur) \in Ids
    BY <2>1, IngestIdTyped
  <2> QED
    BY <1>22, <2>1, <2>2 DEF ImportVerified, CreateAsyncTask, Return, taskVars
<1>23. CASE FinishAsyncTask
  BY <1>23 DEF FinishAsyncTask
<1>24. CASE Cleanup
  BY <1>24 DEF Cleanup
<1>25. CASE WorkerReturns
  BY <1>25 DEF WorkerReturns
<1>26. CASE Start
  <2>1. RecoverInterruptedAsyncTasks
    BY <1>26 DEF Start
  <2> QED
    BY <1>26, <2>1, RecoverRow DEF Start
<1>27. CASE Terminate
  BY <1>27 DEF Terminate
<1>28. CASE Exit
  BY <1>28 DEF Exit, LoseMemory
<1>29. CASE Crash
  BY <1>29 DEF Crash, LoseMemory
<1>30. CASE UNCHANGED vars
  BY <1>30 DEF vars, taskVars, importVars, workerVars, cancelVars, countVars
<1>31. CASE CancelNotRequested
  BY <1>31 DEF CancelNotRequested
<1> QED
  BY <1>1, <1>2, <1>3, <1>4, <1>5, <1>6, <1>7, <1>8, <1>9, <1>10, <1>11, <1>12, <1>13, <1>14, <1>15, <1>16, <1>17, <1>18, <1>19, <1>20, <1>21, <1>22, <1>23, <1>24, <1>25, <1>26, <1>27, <1>28, <1>29, <1>30, <1>31
  DEF Next, Request, CancelStep, WorkerStep, RunStep

\* The media lock is held from the claim to the deferred unlock.
LEMMA MediaExclusiveStep ==
    ASSUME TypeOK, MediaExclusive, [Next]_vars
    PROVE  MediaExclusive'
<1> USE DEF MediaExclusive, Executing, WorkerPCs, workerVars, cancelVars, countVars
<1>1. ASSUME NEW t \in Uuids, NEW k \in Submitted, NEW s \in Uuids \cup {NoTask}, Enqueue(t, k, s)
      PROVE  MediaExclusive'
  BY <1>1 DEF Enqueue, CreateAsyncTask
<1>2. ASSUME NEW t \in Ids, NEW new \in Uuids, Retry(t, new)
      PROVE  MediaExclusive'
  BY <1>2 DEF Retry, CreateAsyncTask
<1>3. ASSUME NEW t \in Ids, CancelRead(t)
      PROVE  MediaExclusive'
  BY <1>3 DEF CancelRead
<1>4. CASE BeginMediaMutation
  BY <1>4 DEF BeginMediaMutation
<1>5. CASE EndMediaMutation
  BY <1>5 DEF EndMediaMutation
<1>6. CASE CancelPendingAsyncTask
  BY <1>6 DEF CancelPendingAsyncTask
<1>7. CASE RequestCrossDriveCancellation
  BY <1>7 DEF RequestCrossDriveCancellation
<1>8. CASE SignalRunning
  BY <1>8 DEF SignalRunning
<1>9. CASE ListPending
  BY <1>9 DEF ListPending
<1>10. ASSUME NEW t \in Ids, BeginAsyncTask(t)
      PROVE  MediaExclusive'
  BY <1>10 DEF BeginAsyncTask, MediaLockFree
<1>11. ASSUME NEW t \in Ids, SkipTask(t)
      PROVE  MediaExclusive'
  BY <1>11 DEF SkipTask
<1>12. CASE RegisterRunning
  BY <1>12 DEF RegisterRunning
<1>13. CASE StartRun
  BY <1>13 DEF StartRun
<1>14. CASE RunFails
  BY <1>14 DEF RunFails, Return
<1>15. CASE RunSucceeds
  BY <1>15 DEF RunSucceeds, Return
<1>16. ASSUME NEW t \in Uuids, EnqueueAutofillQuarkImport(t)
      PROVE  MediaExclusive'
  BY <1>16 DEF EnqueueAutofillQuarkImport, CreateAsyncTask
<1>17. CASE ImportCheckpoint
  BY <1>17 DEF ImportCheckpoint
<1>18. CASE ImportCancelled
  BY <1>18 DEF ImportCancelled, Return
<1>19. CASE ReuseRoots
  BY <1>19 DEF ReuseRoots
<1>20. CASE SaveProviderShare
  BY <1>20 DEF SaveProviderShare
<1>21. CASE SaveCrossDriveRoots
  BY <1>21 DEF SaveCrossDriveRoots
<1>22. CASE ImportVerified
  BY <1>22 DEF ImportVerified, CreateAsyncTask, Return
<1>23. CASE FinishAsyncTask
  BY <1>23 DEF FinishAsyncTask
<1>24. CASE Cleanup
  BY <1>24 DEF Cleanup
<1>25. CASE WorkerReturns
  BY <1>25 DEF WorkerReturns
<1>26. CASE Start
  BY <1>26 DEF Start, RecoverInterruptedAsyncTasks
<1>27. CASE Terminate
  BY <1>27 DEF Terminate
<1>28. CASE Exit
  BY <1>28 DEF Exit, LoseMemory
<1>29. CASE Crash
  BY <1>29 DEF Crash, LoseMemory
<1>30. CASE UNCHANGED vars
  BY <1>30 DEF vars, taskVars, importVars, workerVars, cancelVars, countVars
<1>31. CASE CancelNotRequested
  BY <1>31 DEF CancelNotRequested
<1> QED
  BY <1>1, <1>2, <1>3, <1>4, <1>5, <1>6, <1>7, <1>8, <1>9, <1>10, <1>11, <1>12, <1>13, <1>14, <1>15, <1>16, <1>17, <1>18, <1>19, <1>20, <1>21, <1>22, <1>23, <1>24, <1>25, <1>26, <1>27, <1>28, <1>29, <1>30, <1>31
  DEF Next, Request, CancelStep, WorkerStep, RunStep

\* A new row leaves the import history alone.
LEMMA CreateHistory ==
    ASSUME TypeOK, WorkerOwnsRow, AttemptsBounded, ImportHistory,
           NEW t \in Ids, NEW k, NEW s, NEW b \in Ids \cup {NoTask},
           b # NoTask => status[b] \in Terminal,
           CreateAsyncTask(t, k, s, b), UNCHANGED <<importVars, workerVars>>
    PROVE  ImportHistory'
BY DEF TypeOK, TaskTypeOK, WorkerTypeOK, ImportHistory, AttemptsBounded, WorkerOwnsRow, CreateAsyncTask,
       Terminal, Executing, WorkerPCs, importVars, workerVars

\* Saved roots and provider saves keep their history.
LEMMA ImportHistoryStep ==
    ASSUME TypeOK, WorkerOwnsRow, AttemptsBounded, ImportHistory, [Next]_vars
    PROVE  ImportHistory'
<1> USE DEF TypeOK, TaskTypeOK, ImportTypeOK, WorkerTypeOK, ProcessTypeOK, WorkerOwnsRow, ImportHistory,
        Executing, WorkerPCs, Terminal, taskVars, importVars, workerVars, cancelVars, countVars
<1>1. ASSUME NEW t \in Uuids, NEW k \in Submitted, NEW s \in Uuids \cup {NoTask}, Enqueue(t, k, s)
      PROVE  ImportHistory'
  BY <1>1, CreateHistory DEF Enqueue, Ids
<1>2. ASSUME NEW t \in Ids, NEW new \in Uuids, Retry(t, new)
      PROVE  ImportHistory'
  BY <1>2, CreateHistory DEF Retry, Ids
<1>3. ASSUME NEW t \in Ids, CancelRead(t)
      PROVE  ImportHistory'
  BY <1>3 DEF CancelRead
<1>4. CASE BeginMediaMutation
  BY <1>4 DEF BeginMediaMutation
<1>5. CASE EndMediaMutation
  BY <1>5 DEF EndMediaMutation
<1>6. CASE CancelPendingAsyncTask
  BY <1>6 DEF CancelPendingAsyncTask
<1>7. CASE RequestCrossDriveCancellation
  BY <1>7 DEF RequestCrossDriveCancellation
<1>8. CASE SignalRunning
  BY <1>8 DEF SignalRunning
<1>9. CASE ListPending
  BY <1>9 DEF ListPending
<1>10. ASSUME NEW t \in Ids, BeginAsyncTask(t)
      PROVE  ImportHistory'
  <2>1. /\ status[t] = "pending" /\ cur' = t /\ UNCHANGED <<row, owned, saves, prior>>
        /\ \A u \in Ids : attempts'[u] = IF u = t THEN attempts[u] + 1 ELSE attempts[u]
        /\ \A u \in Ids : status[u] \in Terminal => status'[u] = status[u]
    BY <1>10 DEF BeginAsyncTask, Claimable
  <2>2. \A u \in Ids : attempts[u] \in Nat /\ prior[u] \in Ids \cup {NoTask}
    OBVIOUS
  <2>3. \A u \in Ids : attempts'[u] = 0 => attempts[u] = 0
    BY <2>1, <2>2
  <2>4. attempts'[t] = 1 => saves[t] = 0
    BY <2>1, <2>2
  <2>5. \A u \in Ids : prior[u] # NoTask => status'[prior[u]] \in Terminal
    BY <2>1, <2>2
  <2> QED
    BY <2>1, <2>3, <2>4, <2>5
<1>11. ASSUME NEW t \in Ids, SkipTask(t)
      PROVE  ImportHistory'
  BY <1>11 DEF SkipTask
<1>12. CASE RegisterRunning
  BY <1>12 DEF RegisterRunning
<1>13. CASE StartRun
  BY <1>13 DEF StartRun
<1>14. CASE RunFails
  BY <1>14 DEF RunFails, Return
<1>15. CASE RunSucceeds
  BY <1>15 DEF RunSucceeds, Return
<1>16. ASSUME NEW t \in Uuids, EnqueueAutofillQuarkImport(t)
      PROVE  ImportHistory'
  BY <1>16, CreateHistory DEF EnqueueAutofillQuarkImport, Ids
<1>17. CASE ImportCheckpoint
  BY <1>17 DEF ImportCheckpoint
<1>18. CASE ImportCancelled
  BY <1>18 DEF ImportCancelled, Return
<1>19. CASE ReuseRoots
  BY <1>19 DEF ReuseRoots
<1>20. CASE SaveProviderShare
  BY <1>20 DEF SaveProviderShare, MaySaveShare, PriorHas
<1>21. CASE SaveCrossDriveRoots
  BY <1>21 DEF SaveCrossDriveRoots
<1>22. CASE ImportVerified
  <2>1. cur \in Ids
    BY <1>22 DEF ImportVerified
  <2>2. QueuesIngest(cur) => IngestId(cur) \in Ids
    BY <2>1, IngestIdTyped
  <2>3. owned' \subseteq owned /\ wpc' = "finish" /\ UNCHANGED <<row, saves, cur>>
    BY <1>22 DEF ImportVerified, Return
  <2>4. CASE UNCHANGED taskVars
    BY <2>3, <2>4
  <2>5. CASE QueuesIngest(cur) /\ CreateAsyncTask(IngestId(cur), "ingest", cur, NoTask)
    BY <2>1, <2>2, <2>3, <2>5 DEF CreateAsyncTask, AttemptsBounded
  <2> QED
    BY <1>22, <2>4, <2>5 DEF ImportVerified
<1>23. CASE FinishAsyncTask
  <2>1. /\ UNCHANGED <<attempts, row, owned, saves, prior, cur>> /\ wpc' = "cleanup"
        /\ \A u \in Ids : status[u] \in Terminal => status'[u] = status[u]
    BY <1>23, FinishRuns DEF FinishAsyncTask
  <2> QED
    BY <2>1
<1>24. CASE Cleanup
  BY <1>24 DEF Cleanup
<1>25. CASE WorkerReturns
  BY <1>25 DEF WorkerReturns
<1>26. CASE Start
  <2>1. RecoverInterruptedAsyncTasks /\ wpc' = "poll"
    BY <1>26 DEF Start
  <2>2. owned' \subseteq owned /\ UNCHANGED <<attempts, prior, row, saves>>
    BY <2>1 DEF RecoverInterruptedAsyncTasks
  <2>3. \A t \in Ids : status[t] \in Terminal => status'[t] = status[t]
    BY <2>1, RecoverRow
  <2> QED
    BY <2>1, <2>2, <2>3
<1>27. CASE Terminate
  BY <1>27 DEF Terminate
<1>28. CASE Exit
  BY <1>28 DEF Exit, LoseMemory
<1>29. CASE Crash
  BY <1>29 DEF Crash, LoseMemory
<1>30. CASE UNCHANGED vars
  BY <1>30 DEF vars, taskVars, importVars, workerVars, cancelVars, countVars
<1>31. CASE CancelNotRequested
  BY <1>31 DEF CancelNotRequested
<1> QED
  BY <1>1, <1>2, <1>3, <1>4, <1>5, <1>6, <1>7, <1>8, <1>9, <1>10, <1>11, <1>12, <1>13, <1>14, <1>15, <1>16, <1>17, <1>18, <1>19, <1>20, <1>21, <1>22, <1>23, <1>24, <1>25, <1>26, <1>27, <1>28, <1>29, <1>30, <1>31
  DEF Next, Request, CancelStep, WorkerStep, RunStep

\* A new row is not owned.
LEMMA CreateOwned ==
    ASSUME TypeOK, OwnedStarted, NEW t \in Ids, NEW k, NEW s, NEW b,
           CreateAsyncTask(t, k, s, b), owned' \subseteq owned
    PROVE  OwnedStarted'
BY DEF TypeOK, TaskTypeOK, ImportTypeOK, OwnedStarted, CreateAsyncTask

\* Recovery releases what a crashed run owned.
LEMMA OwnedStartedStep ==
    ASSUME TypeOK, WorkerOwnsRow, OwnedStarted, [Next]_vars
    PROVE  OwnedStarted'
<1> USE DEF TypeOK, TaskTypeOK, ImportTypeOK, WorkerTypeOK, ProcessTypeOK, WorkerOwnsRow, OwnedStarted,
        Executing, WorkerPCs, Terminal, taskVars, importVars, workerVars, cancelVars, countVars
<1>1. ASSUME NEW t \in Uuids, NEW k \in Submitted, NEW s \in Uuids \cup {NoTask}, Enqueue(t, k, s)
      PROVE  OwnedStarted'
  BY <1>1, CreateOwned DEF Enqueue, Ids
<1>2. ASSUME NEW t \in Ids, NEW new \in Uuids, Retry(t, new)
      PROVE  OwnedStarted'
  BY <1>2, CreateOwned DEF Retry, Ids
<1>3. ASSUME NEW t \in Ids, CancelRead(t)
      PROVE  OwnedStarted'
  BY <1>3 DEF CancelRead
<1>4. CASE BeginMediaMutation
  BY <1>4 DEF BeginMediaMutation
<1>5. CASE EndMediaMutation
  BY <1>5 DEF EndMediaMutation
<1>6. CASE CancelPendingAsyncTask
  BY <1>6 DEF CancelPendingAsyncTask
<1>7. CASE RequestCrossDriveCancellation
  BY <1>7 DEF RequestCrossDriveCancellation
<1>8. CASE SignalRunning
  BY <1>8 DEF SignalRunning
<1>9. CASE ListPending
  BY <1>9 DEF ListPending
<1>10. ASSUME NEW t \in Ids, BeginAsyncTask(t)
      PROVE  OwnedStarted'
  BY <1>10 DEF BeginAsyncTask, Claimable
<1>11. ASSUME NEW t \in Ids, SkipTask(t)
      PROVE  OwnedStarted'
  BY <1>11 DEF SkipTask
<1>12. CASE RegisterRunning
  BY <1>12 DEF RegisterRunning
<1>13. CASE StartRun
  BY <1>13 DEF StartRun
<1>14. CASE RunFails
  BY <1>14 DEF RunFails, Return
<1>15. CASE RunSucceeds
  BY <1>15 DEF RunSucceeds, Return
<1>16. ASSUME NEW t \in Uuids, EnqueueAutofillQuarkImport(t)
      PROVE  OwnedStarted'
  BY <1>16, CreateOwned DEF EnqueueAutofillQuarkImport, Ids
<1>17. CASE ImportCheckpoint
  BY <1>17 DEF ImportCheckpoint
<1>18. CASE ImportCancelled
  BY <1>18 DEF ImportCancelled, Return
<1>19. CASE ReuseRoots
  BY <1>19 DEF ReuseRoots
<1>20. CASE SaveProviderShare
  BY <1>20 DEF SaveProviderShare
<1>21. CASE SaveCrossDriveRoots
  BY <1>21 DEF SaveCrossDriveRoots
<1>22. CASE ImportVerified
  <2>1. cur \in Ids /\ owned' \subseteq owned
    BY <1>22 DEF ImportVerified, Return
  <2>2. QueuesIngest(cur) => IngestId(cur) \in Ids
    BY <2>1, IngestIdTyped
  <2> QED
    BY <1>22, <2>1, <2>2, CreateOwned DEF ImportVerified
<1>23. CASE FinishAsyncTask
  BY <1>23, FinishRuns DEF FinishAsyncTask
<1>24. CASE Cleanup
  BY <1>24 DEF Cleanup
<1>25. CASE WorkerReturns
  BY <1>25 DEF WorkerReturns
<1>26. CASE Start
  <2>1. RecoverInterruptedAsyncTasks
    BY <1>26 DEF Start
  <2>2. \A t \in owned' : /\ t \in owned /\ t \in Ids /\ status'[t] = RecoveredStatus(t)
                          /\ ~(kind[t] \in Imports /\ RecoveredStatus(t) = "pending")
    BY <2>1 DEF RecoverInterruptedAsyncTasks
  <2> QED
    BY <2>1, <2>2, RecoverRow DEF RecoverInterruptedAsyncTasks
<1>27. CASE Terminate
  BY <1>27 DEF Terminate
<1>28. CASE Exit
  BY <1>28 DEF Exit, LoseMemory
<1>29. CASE Crash
  BY <1>29 DEF Crash, LoseMemory
<1>30. CASE UNCHANGED vars
  BY <1>30 DEF vars, taskVars, importVars, workerVars, cancelVars, countVars
<1>31. CASE CancelNotRequested
  BY <1>31 DEF CancelNotRequested
<1> QED
  BY <1>1, <1>2, <1>3, <1>4, <1>5, <1>6, <1>7, <1>8, <1>9, <1>10, <1>11, <1>12, <1>13, <1>14, <1>15, <1>16, <1>17, <1>18, <1>19, <1>20, <1>21, <1>22, <1>23, <1>24, <1>25, <1>26, <1>27, <1>28, <1>29, <1>30, <1>31
  DEF Next, Request, CancelStep, WorkerStep, RunStep

-----------------------------------------------------------------------------

\* The conjunction that is inductive relative to TypeOK.
IInv == AttemptsBounded /\ WorkerOwnsRow /\ ImportHistory /\ OwnedStarted /\ MediaExclusive

\* The strengthening is an invariant of the queue.
LEMMA InductiveInvariant == Spec => []IInv
<1>1. Init => IInv
  BY DEF Init, IInv, AttemptsBounded, WorkerOwnsRow, ImportHistory, OwnedStarted, MediaExclusive,
         Executing, WorkerPCs
<1>2. TypeOK /\ IInv /\ [Next]_vars => IInv'
  BY AttemptsStep, WorkerOwnsRowStep, ImportHistoryStep, OwnedStartedStep, MediaExclusiveStep DEF IInv
<1> QED
  BY <1>1, <1>2, TypeCorrect, PTL DEF Spec

\* Every pending row can be claimed, and a pending import is unowned: neither
\* a crash nor a failing write strands queued work.
THEOREM PendingCanRun == Spec => []PendingRunnable
<1>1. TypeOK /\ IInv => PendingRunnable
  BY DEF TypeOK, TaskTypeOK, IInv, AttemptsBounded, OwnedStarted, PendingRunnable, Pending
<1> QED
  BY <1>1, TypeCorrect, InductiveInvariant, PTL

\* A share reaches the provider at most once per task, and a retry submits it
\* only when the task it directly retries never had an import row and submitted
\* nothing.
THEOREM ShareOnce == Spec => []ShareSavedOnce
<1>1. TypeOK /\ IInv => ShareSavedOnce
  BY DEF TypeOK, TaskTypeOK, ImportTypeOK, IInv, ImportHistory, ShareSavedOnce
<1> QED
  BY <1>1, TypeCorrect, InductiveInvariant, PTL

\* The worker and the deletion handler never mutate media at the same time.
THEOREM MediaIsExclusive == Spec => []MediaExclusive
<1>1. IInv => MediaExclusive
  BY DEF IInv
<1> QED
  BY <1>1, InductiveInvariant, PTL

-----------------------------------------------------------------------------
(* Parents, continuations and orphans.                                     *)

\* What CreateAsyncTask does to the rows.
LEMMA CreateRows ==
    ASSUME TypeOK, NEW t \in Ids, NEW k, NEW s, NEW b, CreateAsyncTask(t, k, s, b)
    PROVE  /\ status[t] = "absent" /\ status'[t] = "pending" /\ kind'[t] = k
           /\ \A u \in Ids \ {t} : /\ status'[u] = status[u] /\ kind'[u] = kind[u]
                                   /\ link'[u] = link[u]
BY DEF TypeOK, TaskTypeOK, CreateAsyncTask

\* What one step may do to the row u: rows are never deleted, their payloads
\* never rewritten; only the worker's FinishAsyncTask completes one, and only
\* BeginAsyncTask starts one.
RowEvolves(u) ==
    /\ status[u] # "absent" => /\ status'[u] # "absent"
                               /\ kind'[u] = kind[u] /\ link'[u] = link[u]
    /\ status[u] = "absent" => \/ status'[u] = "absent" /\ kind'[u] = kind[u]
                               \/ status'[u] = "pending"
    /\ status'[u] = "completed" /\ status[u] # "completed" =>
         wpc = "finish" /\ outcome = "completed" /\ cur = u
    /\ status'[u] = "running" /\ status[u] # "running" =>
         BeginAsyncTask(u)

\* Every step changes rows in these ways only.
LEMMA RowsEvolve ==
    ASSUME TypeOK, [Next]_vars
    PROVE  \A u \in Ids : RowEvolves(u)
<1> USE DEF TypeOK, TaskTypeOK, RowEvolves
<1>1. ASSUME NEW t \in Uuids, NEW k \in Submitted, NEW s \in Uuids \cup {NoTask}, Enqueue(t, k, s)
      PROVE  \A u \in Ids : RowEvolves(u)
  BY <1>1, CreateRows DEF Enqueue, Ids
<1>2. ASSUME NEW t \in Ids, NEW new \in Uuids, Retry(t, new)
      PROVE  \A u \in Ids : RowEvolves(u)
  BY <1>2, CreateRows DEF Retry, Ids
<1>3. CASE CancelPendingAsyncTask
  BY <1>3 DEF CancelPendingAsyncTask, ProcessTypeOK
<1>4. ASSUME NEW t \in Ids, BeginAsyncTask(t)
      PROVE  \A u \in Ids : RowEvolves(u)
  <2>1. /\ status[t] = "pending" /\ status' = [status EXCEPT ![t] = "running"]
        /\ UNCHANGED <<kind, link>>
    BY <1>4 DEF BeginAsyncTask, Claimable
  <2> QED
    BY <1>4, <2>1
<1>5. ASSUME NEW t \in Uuids, EnqueueAutofillQuarkImport(t)
      PROVE  \A u \in Ids : RowEvolves(u)
  BY <1>5, CreateRows DEF EnqueueAutofillQuarkImport, Ids
<1>6. CASE ImportVerified
  <2>1. cur \in Ids
    BY <1>6 DEF ImportVerified, WorkerTypeOK, Executing, WorkerPCs
  <2>2. QueuesIngest(cur) => IngestId(cur) \in Ids
    BY <2>1, IngestIdTyped
  <2> QED
    BY <1>6, <2>1, <2>2, CreateRows DEF ImportVerified, taskVars
<1>7. CASE FinishAsyncTask
  <2>1. wpc = "finish"
    BY <1>7 DEF FinishAsyncTask
  <2> QED
    BY <1>7, <2>1, FinishRuns DEF Terminal
<1>8. CASE Start
  <2>1. RecoverInterruptedAsyncTasks
    BY <1>8 DEF Start
  <2> QED
    BY <2>1, RecoverRow
<1>9. CASE UNCHANGED taskVars
  BY <1>9 DEF taskVars
<1> QED
  BY TaskWritesFrame, <1>1, <1>2, <1>3, <1>4, <1>5, <1>6, <1>7, <1>8, <1>9 DEF TaskWrites

\* An identifier gets its kind with its row.
LEMMA NoKindYetStep ==
    ASSUME TypeOK, NoKindYet, [Next]_vars
    PROVE  NoKindYet'
BY RowsEvolve DEF RowEvolves, NoKindYet

\* An import that was verified has its ingest before its own row says so.
LEMMA ContinuationStep ==
    ASSUME TypeOK, WorkerOwnsRow, ContinuationQueued, [Next]_vars
    PROVE  ContinuationQueued'
<1>1. \A u \in Ids : RowEvolves(u)
  BY RowsEvolve
<1>2. \A u \in Uuids : u \in Ids /\ IngestId(u) \in Ids
  BY DEF Ids, IngestIds
<1>3. ContinuationExists'
  <2> SUFFICES ASSUME NEW u \in Uuids, kind'[u] = "import", status'[u] = "completed"
               PROVE  status'[IngestId(u)] # "absent"
    BY DEF ContinuationExists
  <2>1. status[u] # "absent" /\ kind[u] = "import"
    BY <1>1, <1>2 DEF RowEvolves
  <2>2. status[IngestId(u)] # "absent"
    BY <1>1, <1>2, <2>1 DEF RowEvolves, ContinuationQueued, ContinuationExists
  <2> QED
    BY <1>1, <1>2, <2>2 DEF RowEvolves
<1>4. ASSUME wpc' = "finish", outcome' = "completed", kind'[cur'] = "import"
      PROVE  status'[IngestId(cur')] # "absent"
  <2>1. /\ cur' = cur /\ wpc \in Executing
        /\ \/ wpc = "finish" /\ outcome = "completed"
           \/ RunSucceeds
           \/ ImportVerified
    <3>1. WorkerMoves \/ UNCHANGED workerVars
      BY WorkerMovesFrame
    <3> QED
      BY <1>4, <3>1 DEF WorkerMoves, workerVars, Executing, WorkerPCs, Return, LoseMemory,
             SignalRunning, ListPending, BeginAsyncTask, SkipTask, RegisterRunning, StartRun,
             RunFails, RunSucceeds, ImportCheckpoint, ImportCancelled, CancelNotRequested,
             ReuseRoots, SaveProviderShare, SaveCrossDriveRoots, ImportVerified,
             FinishAsyncTask, Cleanup, WorkerReturns, Start, Exit, Crash
  <2>2. cur \in Ids
    BY <2>1 DEF TypeOK, WorkerTypeOK
  <2>3. status[cur] # "absent" /\ kind[cur] = "import"
    BY <1>1, <1>4, <2>1, <2>2 DEF RowEvolves, RunSucceeds, ImportVerified, WorkerOwnsRow, Executing, WorkerPCs
  <2>4. cur \in Uuids
    BY <2>2, <2>3 DEF TypeOK, TaskTypeOK, Ids, Imports
  <2>5. CASE wpc = "finish" /\ outcome = "completed"
    BY <1>1, <1>2, <2>1, <2>3, <2>4, <2>5 DEF ContinuationQueued, RowEvolves
  <2>6. CASE RunSucceeds
    BY <2>3, <2>6 DEF RunSucceeds, Imports
  <2>7. CASE ImportVerified
    <3>1. CASE QueuesIngest(cur)
      <4>1. CreateAsyncTask(IngestId(cur), "ingest", cur, NoTask)
        BY <2>7, <3>1 DEF ImportVerified
      <4> QED
        BY <1>2, <2>1, <2>4, <4>1, CreateRows
    <3>2. CASE ~QueuesIngest(cur)
      BY <1>1, <1>2, <2>1, <2>3, <2>4, <3>2 DEF QueuesIngest, RowEvolves
    <3> QED
      BY <3>1, <3>2
  <2> QED
    BY <2>1, <2>5, <2>6, <2>7
<1> QED
  BY <1>3, <1>4 DEF ContinuationQueued

\* A bound import gets its row after its parent completed, for good.
LEMMA ParentDoneStep ==
    ASSUME TypeOK, WorkerOwnsRow, AttemptsBounded, ImportHistory, ParentDone, [Next]_vars
    PROVE  ParentDone'
<1>1. \A u \in Ids : RowEvolves(u)
  BY RowsEvolve
<1>2. \A u \in Ids : status[u] \in Terminal => status'[u] = status[u]
  BY TerminalStep
<1>3. \A u \in Ids : status[u] = "absent" => row[u] = "none"
  BY DEF AttemptsBounded, ImportHistory
<1>4. /\ \A u \in Ids : row'[u] # "none" =>
            \/ row[u] # "none"
            \/ ImportCheckpoint /\ u = cur
      /\ wpc' \in {"owned", "checked", "saving", "transfer"} => row'[cur'] # "none"
  <2>1. ImportWrites \/ UNCHANGED importVars
    BY ImportWritesFrame
  <2>2. WorkerMoves \/ UNCHANGED workerVars
    BY WorkerMovesFrame
  <2>3. row \in [Ids -> {"none", "row", "roots"}] /\ (wpc \in Executing => cur \in Ids)
    BY DEF TypeOK, ImportTypeOK, WorkerTypeOK
  <2>4. \A u \in Ids : row'[u] # "none" => row[u] # "none" \/ (ImportCheckpoint /\ u = cur)
    BY <2>1, <2>3 DEF ImportWrites, importVars, ParentDone, RequestCrossDriveCancellation,
           RunFails, RunSucceeds, ImportCheckpoint, ImportCancelled, ReuseRoots,
           SaveProviderShare, SaveCrossDriveRoots, ImportVerified, Start, Return,
           RecoverInterruptedAsyncTasks, Executing, WorkerPCs
  <2>5. \A u \in Ids : row[u] # "none" => row'[u] # "none"
    BY <2>1, <2>3 DEF ImportWrites, importVars, RequestCrossDriveCancellation,
           RunFails, RunSucceeds, ImportCheckpoint, ImportCancelled, ReuseRoots,
           SaveProviderShare, SaveCrossDriveRoots, ImportVerified, Start, Return,
           RecoverInterruptedAsyncTasks, Executing, WorkerPCs
  <2>6. ASSUME wpc' \in {"owned", "checked", "saving", "transfer"}
        PROVE  /\ cur' = cur /\ wpc \in Executing
               /\ wpc \in {"owned", "checked", "saving", "transfer"} \/ ImportCheckpoint
    BY <2>2, <2>6 DEF WorkerMoves, workerVars, Executing, WorkerPCs, Return, LoseMemory,
           SignalRunning, ListPending, BeginAsyncTask, SkipTask, RegisterRunning, StartRun,
           RunFails, RunSucceeds, ImportCheckpoint, ImportCancelled, CancelNotRequested,
           ReuseRoots, SaveProviderShare, SaveCrossDriveRoots, ImportVerified,
           FinishAsyncTask, Cleanup, WorkerReturns, Start, Exit, Crash
  <2>7. ASSUME wpc' \in {"owned", "checked", "saving", "transfer"}
        PROVE  row'[cur'] # "none"
    BY <2>3, <2>5, <2>6, <2>7 DEF ParentDone, ImportCheckpoint
  <2> QED
    BY <2>4, <2>7
<1>5. ASSUME NEW t \in Ids, kind'[t] = "bound", row'[t] # "none"
      PROVE  link'[t] \in Ids /\ status'[link'[t]] = "completed"
  <2>1. CASE row[t] # "none"
    <3>1. status[t] # "absent" /\ kind[t] = "bound" /\ link'[t] = link[t]
      BY <1>1, <1>3, <1>5, <2>1 DEF RowEvolves
    <3> QED
      BY <1>2, <2>1, <3>1 DEF ParentDone, Terminal
  <2>2. CASE ImportCheckpoint /\ t = cur
    <3>1. UNCHANGED <<status, kind, link>> /\ (kind[cur] = "bound" => ParentCompleted(cur))
      BY <2>2 DEF ImportCheckpoint, taskVars
    <3> QED
      BY <1>5, <2>2, <3>1 DEF ParentCompleted, TypeOK, TaskTypeOK
  <2> QED
    BY <1>4, <1>5, <2>1, <2>2
<1> QED
  BY <1>4, <1>5 DEF ParentDone

\* Without a failing write, whatever runs is what the worker runs.
LEMMA RunningIsCurrentStep ==
    ASSUME TypeOK, WorkerOwnsRow, RunningIsCurrent, [Next]_vars
    PROVE  RunningIsCurrent'
<1> SUFFICES ASSUME faults' = 0, proc' # "down", NEW t \in Ids, status'[t] = "running"
             PROVE  t = cur' /\ wpc' \in Executing \ {"cleanup"}
  BY DEF RunningIsCurrent
<1>1. RowEvolves(t)
  BY RowsEvolve
<1>2. faults = 0
  BY ProcessMovesFrame DEF ProcessMoves, TypeOK, ProcessTypeOK, cancelVars, countVars, Return, LoseMemory,
     CancelRead, BeginMediaMutation, EndMediaMutation, CancelPendingAsyncTask,
     RequestCrossDriveCancellation, SignalRunning, BeginAsyncTask, SkipTask, StartRun,
     RunFails, RunSucceeds, ImportCancelled, ImportVerified, FinishAsyncTask, Cleanup,
     Start, Terminate, Exit, Crash
<1>3. CASE status[t] # "running"
  <2>1. BeginAsyncTask(t)
    BY <1>1, <1>3 DEF RowEvolves
  <2> QED
    BY <2>1 DEF BeginAsyncTask, Executing, WorkerPCs
<1>4. CASE status[t] = "running"
  <2>1. ~Start
    BY <1>4, RecoverRow DEF Start
  <2>2. proc # "down"
    BY <2>1, ProcessMovesFrame DEF ProcessMoves, cancelVars, countVars, Return, LoseMemory,
       CancelRead, BeginMediaMutation, EndMediaMutation, CancelPendingAsyncTask,
       RequestCrossDriveCancellation, SignalRunning, BeginAsyncTask, SkipTask, StartRun,
       RunFails, RunSucceeds, ImportCancelled, ImportVerified, FinishAsyncTask, Cleanup,
       Start, Terminate, Exit, Crash
  <2>3. t = cur /\ wpc \in Executing \ {"cleanup"}
    BY <1>2, <1>4, <2>2 DEF RunningIsCurrent
  <2>4. ~FinishAsyncTask
    <3> SUFFICES ASSUME FinishAsyncTask PROVE FALSE
      OBVIOUS
    <3>1. UNCHANGED status => faults' = faults + 1
      BY <1>4, <2>3, FinishRuns DEF FinishAsyncTask, Terminal, TypeOK, TaskTypeOK
    <3>2. ~UNCHANGED status => status'[cur] = outcome /\ outcome \in Terminal
      BY FinishRuns, <2>3 DEF TypeOK, TaskTypeOK
    <3> QED
      BY <1>2, <2>3, <3>1, <3>2 DEF Terminal
  <2>5. ~Exit /\ ~Crash
    BY DEF Exit, Crash, LoseMemory
  <2> QED
    BY <2>1, <2>3, <2>4, <2>5, WorkerMovesFrame DEF WorkerMoves, workerVars, Executing, WorkerPCs, Return,
       SignalRunning, ListPending, BeginAsyncTask, SkipTask, RegisterRunning, StartRun,
       RunFails, RunSucceeds, ImportCheckpoint, ImportCancelled, CancelNotRequested,
       ReuseRoots, SaveProviderShare, SaveCrossDriveRoots, ImportVerified, Cleanup, WorkerReturns
<1> QED
  BY <1>3, <1>4

\* What the lifecycle, parents and continuations need beside IInv.
QueueInv == NoKindYet /\ ContinuationQueued /\ ParentDone /\ RunningIsCurrent

\* The second part of the strengthening is an invariant as well.
LEMMA QueueInvariant == Spec => []QueueInv
<1>1. Init => QueueInv
  BY DEF Init, QueueInv, NoKindYet, ContinuationQueued, ContinuationExists, ParentDone, RunningIsCurrent, Ids
<1>2. TypeOK /\ IInv /\ QueueInv /\ [Next]_vars => QueueInv'
  BY NoKindYetStep, ContinuationStep, ParentDoneStep, RunningIsCurrentStep DEF IInv, QueueInv
<1> QED
  BY <1>1, <1>2, TypeCorrect, InductiveInvariant, PTL DEF Spec

\* As long as no database write failed, a live process executes every row that
\* says running: neither Cancel nor a restart leaves one behind.
THEOREM NothingOrphaned == Spec => []NoOrphan
<1>1. QueueInv => NoOrphan
  BY DEF QueueInv, RunningIsCurrent, NoOrphan
<1> QED
  BY <1>1, QueueInvariant, PTL

\* A completed plain import has its media_ingest task, whatever crashed between
\* queueing the one and recording the other (enqueueMediaIngest is called
\* before FinishAsyncTask).
THEOREM ImportsContinue == Spec => []ContinuationExists
<1>1. QueueInv => ContinuationExists
  BY DEF QueueInv, ContinuationQueued
<1> QED
  BY <1>1, QueueInvariant, PTL

\* A bound import has a checkpoint only if its series_auto_fill completed.
THEOREM BoundNeedParent == Spec => []BoundAfterParent
<1>1. QueueInv => BoundAfterParent
  BY DEF QueueInv, ParentDone, BoundAfterParent
<1> QED
  BY <1>1, QueueInvariant, PTL

-----------------------------------------------------------------------------
(* The queue implements the lifecycle.                                     *)

\* A row that keeps its status and its worker keeps its phase.
LEMMA SamePhase ==
    ASSUME NEW u \in Ids, status'[u] = status[u],
           (wpc' \in Executing /\ cur' = u) <=> (wpc \in Executing /\ cur = u)
    PROVE  Phase(u)' = Phase(u)
BY DEF Phase, Executing, WorkerPCs

\* While the worker executes nothing, no phase is "taken".
LEMMA NoneTaken ==
    ASSUME wpc \notin Executing, NEW u \in Ids
    PROVE  Phase(u) # "taken"
BY DEF Phase

\* A new row is a submitted task; the worker stays with what it executes.
LEMMA CreateSubmits ==
    ASSUME TypeOK, IInv, QueueInv, NEW t \in Ids, NEW k, NEW s, NEW b, CreateAsyncTask(t, k, s, b),
           cur' = cur, wpc' \in Executing <=> wpc \in Executing
    PROVE  Lifecycle!Next
<1>1. /\ status[t] = "absent" /\ status'[t] = "pending" /\ kind'[t] = k
      /\ \A u \in Ids \ {t} : status'[u] = status[u] /\ kind'[u] = kind[u]
      /\ runs' = runs
  BY CreateRows DEF CreateAsyncTask
<1>2. Phase(t) = "absent" /\ Phase(t)' = "waiting"
  BY <1>1 DEF Phase
<1>3. \A u \in Ids \ {t} : Phase(u)' = Phase(u)
  BY <1>1, SamePhase
<1>4. [u \in Ids |-> Phase(u)]' = [[u \in Ids |-> Phase(u)] EXCEPT ![t] = "waiting"]
  BY <1>2, <1>3
<1>5. t \notin {u \in Ids : kind[u] \in Imports}
  BY <1>1 DEF QueueInv, NoKindYet, Imports
<1>6. {u \in Ids : kind[u] \in Imports}' \in
        {{u \in Ids : kind[u] \in Imports}, {u \in Ids : kind[u] \in Imports} \cup {t}}
  BY <1>1, <1>5
<1>7. [u \in Ids |-> Len(runs[u])]' = [u \in Ids |-> Len(runs[u])]
  BY <1>1
<1> QED
  BY <1>2, <1>4, <1>6, <1>7 DEF Lifecycle!Next, Lifecycle!Submit

\* When phases, kinds and histories stay, the lifecycle stutters.
LEMMA LifecycleStutters ==
    ASSUME \A u \in Ids : Phase(u)' = Phase(u), UNCHANGED <<kind, runs>>
    PROVE  UNCHANGED Lifecycle!vars
BY DEF Lifecycle!vars

\* Every step of the queue is a step of the lifecycle or leaves it as it is.
LEMMA LifecycleStep ==
    ASSUME TypeOK, IInv, QueueInv, [Next]_vars
    PROVE  [Lifecycle!Next]_(Lifecycle!vars)
<1> DEFINE phases == [u \in Ids |-> Phase(u)]
           counts == [u \in Ids |-> Len(runs[u])]
           again == {u \in Ids : kind[u] \in Imports}
<1>0. /\ \A u \in Ids : status[u] \in Terminal \cup {"absent", "pending", "running"}
      /\ \A u \in Ids : runs[u] \in Seq(Terminal \cup {"running"})
      /\ runs \in [Ids -> Seq(Terminal \cup {"running"})]
      /\ status \in [Ids -> Terminal \cup {"absent", "pending", "running"}]
      /\ wpc \in Executing => cur \in Ids
  BY DEF TypeOK, TaskTypeOK, WorkerTypeOK
<1>1. ASSUME NEW t \in Uuids, NEW k \in Submitted, NEW s \in Uuids \cup {NoTask}, Enqueue(t, k, s)
      PROVE  Lifecycle!Next
  BY <1>1, CreateSubmits DEF Enqueue, workerVars, Ids
<1>2. ASSUME NEW t \in Ids, NEW new \in Uuids, Retry(t, new)
      PROVE  Lifecycle!Next
  BY <1>2, CreateSubmits DEF Retry, workerVars, Ids
<1>3. ASSUME NEW t \in Uuids, EnqueueAutofillQuarkImport(t)
      PROVE  Lifecycle!Next
  BY <1>3, CreateSubmits DEF EnqueueAutofillQuarkImport, workerVars, Ids
<1>4. CASE ImportVerified
  <2>1. cur \in Ids /\ cur' = cur /\ wpc \in Executing /\ wpc' \in Executing
    BY <1>0, <1>4 DEF ImportVerified, Return, Executing, WorkerPCs
  <2>2. CASE QueuesIngest(cur)
    BY <1>4, <2>1, <2>2, IngestIdTyped, CreateSubmits DEF ImportVerified
  <2>3. CASE ~QueuesIngest(cur)
    <3>1. UNCHANGED <<status, kind, runs>>
      BY <1>4, <2>3 DEF ImportVerified, taskVars
    <3> QED
      BY <2>1, <3>1, SamePhase, LifecycleStutters
  <2> QED
    BY <2>2, <2>3
\* A pending row is withdrawn.
<1>5. CASE CancelPendingAsyncTask
  <2>1. /\ ctask \in Ids /\ UNCHANGED <<kind, runs, cur, wpc>>
        /\ status' = [status EXCEPT ![ctask] = IF @ = "pending" THEN "cancelled" ELSE @]
    BY <1>5 DEF CancelPendingAsyncTask, TypeOK, ProcessTypeOK, workerVars
  <2>2. PICK c \in Ids : c = ctask
    BY <2>1
  <2>3. /\ status'[c] = IF status[c] = "pending" THEN "cancelled" ELSE status[c]
        /\ \A u \in Ids \ {c} : status'[u] = status[u]
    BY <1>0, <2>1, <2>2
  <2>4. \A u \in Ids \ {c} : Phase(u)' = Phase(u)
    BY <2>1, <2>3, SamePhase
  <2>5. CASE status[c] = "pending"
    <3>1. Phase(c) = "waiting" /\ Phase(c)' = "ended"
      BY <2>3, <2>5 DEF Phase
    <3>2. phases' = [phases EXCEPT ![c] = "ended"]
      BY <2>4, <3>1
    <3>3. counts' = counts /\ again' = again
      BY <2>1
    <3> QED
      BY <3>1, <3>2, <3>3 DEF Lifecycle!Next, Lifecycle!End
  <2>6. CASE status[c] # "pending"
    <3>1. Phase(c)' = Phase(c)
      BY <2>1, <2>3, <2>6, SamePhase
    <3> QED
      BY <2>1, <2>4, <3>1, LifecycleStutters
  <2> QED
    BY <2>5, <2>6
\* The claim takes a waiting task, a second time only if it may be resumed.
<1>6. ASSUME NEW t \in Ids, BeginAsyncTask(t)
      PROVE  Lifecycle!Next
  <2>1. /\ status[t] = "pending" /\ attempts[t] < maxAttempts[t]
        /\ status' = [status EXCEPT ![t] = "running"]
        /\ runs' = [runs EXCEPT ![t] = Append(@, "running")]
        /\ wpc \notin Executing /\ wpc' \in Executing /\ cur' = t /\ kind' = kind
    BY <1>6 DEF BeginAsyncTask, Claimable, Executing, WorkerPCs
  <2>2. Phase(t) = "waiting" /\ Phase(t)' = "taken"
    BY <1>0, <2>1 DEF Phase
  <2>3. \A u \in Ids \ {t} : Phase(u)' = Phase(u)
    BY <1>0, <2>1, SamePhase
  <2>4. phases' = [phases EXCEPT ![t] = "taken"]
    BY <2>2, <2>3
  <2>5. \A u \in Ids : phases[u] # "taken"
    BY <2>1, NoneTaken
  <2>6. t \in again \/ counts[t] = 0
    <3>1. kind[t] \notin Imports => Len(runs[t]) = 0
      BY <2>1 DEF IInv, AttemptsBounded, TypeOK, TaskTypeOK
    <3> QED
      BY <3>1
  <2>7. counts' = [counts EXCEPT ![t] = @ + 1]
    <3>1. Len(runs'[t]) = Len(runs[t]) + 1
      BY <1>0, <2>1
    <3>2. \A u \in Ids \ {t} : runs'[u] = runs[u]
      BY <1>0, <2>1
    <3> QED
      BY <3>1, <3>2
  <2>8. again' = again
    BY <2>1
  <2> QED
    BY <2>2, <2>4, <2>5, <2>6, <2>7, <2>8 DEF Lifecycle!Next, Lifecycle!Take
\* The result is recorded, or its write fails and the task stays taken.
<1>7. CASE FinishAsyncTask
  <2>1. /\ cur \in Ids /\ cur' = cur /\ wpc \in Executing /\ wpc' \in Executing /\ kind' = kind
        /\ wpc = "finish" /\ outcome \in Terminal
    BY <1>7, FinishRuns DEF FinishAsyncTask, Executing, WorkerPCs
  <2>2. CASE UNCHANGED <<status, runs>>
    BY <2>1, <2>2, SamePhase, LifecycleStutters
  <2>3. CASE ~UNCHANGED <<status, runs>>
    <3>1. /\ status[cur] = "running" /\ status' = [status EXCEPT ![cur] = outcome]
          /\ \A u \in Ids \ {cur} : runs'[u] = runs[u]
          /\ Len(runs'[cur]) = Len(runs[cur])
      BY <1>7, <2>3, FinishRuns
    <3>2. Phase(cur) = "taken" /\ Phase(cur)' = "ended"
      BY <1>0, <2>1, <3>1 DEF Phase, Terminal
    <3>3. \A u \in Ids \ {cur} : Phase(u)' = Phase(u)
      BY <1>0, <2>1, <3>1, SamePhase
    <3>4. phases' = [phases EXCEPT ![cur] = "ended"]
      BY <2>1, <3>2, <3>3
    <3>5. counts' = counts /\ again' = again
      BY <2>1, <3>1
    <3> QED
      BY <2>1, <3>2, <3>4, <3>5 DEF Lifecycle!Next, Lifecycle!End
  <2> QED
    BY <2>2, <2>3
\* The worker lets go of its task, recorded or not.
<1>8. CASE wpc \in Executing /\ wpc' \notin Executing /\ UNCHANGED taskVars
  <2>1. cur \in Ids /\ UNCHANGED <<status, kind, runs>>
    BY <1>0, <1>8 DEF taskVars
  <2>2. PICK c \in Ids : c = cur
    BY <2>1
  <2>3. \A u \in Ids \ {c} : Phase(u)' = Phase(u)
    BY <1>8, <2>1, <2>2, SamePhase
  <2>4. CASE status[c] = "running"
    <3>1. Phase(c) = "taken" /\ Phase(c)' = "left"
      BY <1>8, <2>1, <2>2, <2>4 DEF Phase
    <3>2. phases' = [phases EXCEPT ![c] = "left"]
      BY <2>3, <3>1
    <3>3. counts' = counts /\ again' = again
      BY <2>1
    <3> QED
      BY <3>1, <3>2, <3>3 DEF Lifecycle!Next, Lifecycle!Leave
  <2>5. CASE status[c] # "running"
    <3>1. Phase(c)' = Phase(c)
      BY <2>1, <2>5 DEF Phase
    <3> QED
      BY <2>1, <2>3, <3>1, LifecycleStutters
  <2> QED
    BY <2>4, <2>5
\* Recovery settles what was left.
<1>9. CASE Start
  <2>1. RecoverInterruptedAsyncTasks /\ wpc' \notin Executing /\ wpc \notin Executing
    BY <1>9 DEF Start, IInv, WorkerOwnsRow, Executing, WorkerPCs
  <2>2. \A u \in Ids : phases[u] # "taken"
    BY <2>1, NoneTaken
  <2>3. \A u \in Ids : Phase(u)' = IF Phase(u) # "left" THEN Phase(u)
                                   ELSE IF u \in again THEN "waiting" ELSE "ended"
    <3> SUFFICES ASSUME NEW u \in Ids
                 PROVE  Phase(u)' = IF Phase(u) # "left" THEN Phase(u)
                                    ELSE IF u \in again THEN "waiting" ELSE "ended"
      OBVIOUS
    <3>1. Phase(u) = "left" <=> status[u] = "running"
      BY <1>0, <2>1 DEF Phase
    <3>2. CASE status[u] = "running"
      BY <2>1, <3>1, <3>2, RecoverRow DEF Phase
    <3>3. CASE status[u] # "running"
      BY <2>1, <3>1, <3>3, RecoverRow, SamePhase
    <3> QED
      BY <3>2, <3>3
  <2>4. phases' = [u \in Ids |-> IF phases[u] # "left" THEN phases[u]
                                 ELSE IF u \in again THEN "waiting" ELSE "ended"]
    BY <2>3
  <2>5. counts' = counts
    BY <2>1, RecoverRuns
  <2>6. again' = again
    BY <2>1 DEF RecoverInterruptedAsyncTasks
  <2> QED
    BY <2>2, <2>4, <2>5, <2>6 DEF Lifecycle!Next, Lifecycle!Recover
\* All other steps keep the rows and what the worker executes.
<1>10. CASE /\ UNCHANGED taskVars
            /\ (wpc' \in Executing) = (wpc \in Executing)
            /\ wpc \in Executing => cur' = cur
  <2>1. UNCHANGED <<status, kind, runs>>
    BY <1>10 DEF taskVars
  <2>2. \A u \in Ids : Phase(u)' = Phase(u)
    BY <1>10, <2>1, SamePhase
  <2> QED
    BY <2>1, <2>2, LifecycleStutters
<1>11. CASE UNCHANGED taskVars /\ ~\E t \in Ids : BeginAsyncTask(t)
  <2>1. \/ wpc \in Executing /\ wpc' \notin Executing
        \/ /\ (wpc' \in Executing) = (wpc \in Executing)
           /\ wpc \in Executing => cur' = cur
    BY <1>11, WorkerMovesFrame DEF WorkerMoves, workerVars, Executing, WorkerPCs, Return,
       LoseMemory, SignalRunning, ListPending, SkipTask, RegisterRunning, StartRun,
       RunFails, RunSucceeds, ImportCheckpoint, ImportCancelled, CancelNotRequested,
       ReuseRoots, SaveProviderShare, SaveCrossDriveRoots, ImportVerified, FinishAsyncTask,
       Cleanup, WorkerReturns, Start, Exit, Crash
  <2> QED
    BY <1>8, <1>10, <1>11, <2>1
<1> QED
  BY TaskWritesFrame, <1>1, <1>2, <1>3, <1>4, <1>5, <1>6, <1>7, <1>9, <1>11 DEF TaskWrites

\* The queue implements TaskLifecycle under the mapping of Phase: enqueueing,
\* cancelling, crashes, failing writes and recovery included, a task waits, is
\* taken by one worker at a time and ends once; only imports are taken again.
THEOREM ImplementsLifecycle == Spec => RefinesLifecycle
<1>1. Init => Lifecycle!Init
  BY DEF Init, Lifecycle!Init, Phase, Imports
<1>2. TypeOK /\ IInv /\ QueueInv /\ [Next]_vars => [Lifecycle!Next]_(Lifecycle!vars)
  BY LifecycleStep
<1> QED
  BY <1>1, <1>2, TypeCorrect, InductiveInvariant, QueueInvariant, PTL DEF Spec, RefinesLifecycle, Lifecycle!Spec
=============================================================================
