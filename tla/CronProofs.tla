------------------------------ MODULE CronProofs ------------------------------
(* Proofs about Cron, for any schedules and any number of edits, callbacks *)
(* and executions.                                                         *)
EXTENDS Cron, TLAPS

\* A missing row is typed, disabled and has no version.
LEMMA NoRowTyped == NoRow \in Rows /\ NoRow.version = 0 /\ ~NoRow.enabled
BY BoundAssumption DEF NoRow, Rows

\* An execution that was launched is typed.
LEMMA LaunchTyped ==
    ASSUME TypeOK, NEW n \in 1..MaxLaunches, n <= Len(launches)
    PROVE  launches[n].id \in Ids /\ launches[n].version \in Versions
<1>1. launches[n] \in Launches
  BY BoundAssumption DEF TypeOK
<1> QED
  BY <1>1 DEF Launches

\* A created execution keeps the types.
LEMMA CreateTyped ==
    ASSUME TypeOK, NEW i \in Ids, NEW by \in {"cron", "manual", "retry"}, NEW v \in Versions,
           CreateScheduledAsyncTask(i, by, v)
    PROVE  /\ rows' \in [Ids -> Rows]
           /\ launches' \in Seq(Launches)
           /\ Len(launches') <= MaxLaunches /\ Len(launches) + 1 \in 0..MaxLaunches
<1>1. Len(launches) + 1 \in 0..MaxLaunches
  BY BoundAssumption DEF TypeOK, CreateScheduledAsyncTask
<1>2. rows' \in [Ids -> Rows]
  BY <1>1 DEF TypeOK, CreateScheduledAsyncTask, Rows
<1>3. [id |-> i, by |-> by, version |-> v] \in Launches
  BY DEF Launches
<1> QED
  BY <1>1, <1>2, <1>3 DEF TypeOK, CreateScheduledAsyncTask

\* Every step keeps the types.
LEMMA TypeStep ==
    ASSUME TypeOK, [Next]_vars
    PROVE  TypeOK'
<1> USE BoundAssumption
<1>1. ASSUME NEW i \in Ids, RunTask(i)
      PROVE  TypeOK'
  <2>1. rows[i].version \in Versions
    BY <1>1 DEF RunTask, CreateScheduledAsyncTask, Exists, TypeOK, Rows, Versions
  <2>2. CreateScheduledAsyncTask(i, "manual", rows[i].version)
    BY <1>1 DEF RunTask
  <2> QED
    BY <1>1, <2>1, <2>2, CreateTyped DEF TypeOK, RunTask
<1>2. ASSUME NEW i \in Ids, DeleteTask(i)
      PROVE  TypeOK'
  <2>1. rows' \in [Ids -> Rows]
    BY <1>2, NoRowTyped DEF TypeOK, DeleteTask
  <2>2. entryMap' \in [Ids -> 0..MaxEdits]
    BY <1>2 DEF TypeOK, DeleteTask
  <2> QED
    BY <1>2, <2>1, <2>2 DEF TypeOK, DeleteTask
<1>3. ASSUME NEW i \in Ids, Dispatch(i)
      PROVE  TypeOK'
  <2>1. entryMap[i] \in Versions
    BY <1>3 DEF TypeOK, Dispatch, Dispatchable, Versions
  <2> QED
    BY <1>3, <2>1 DEF TypeOK, Dispatch
<1>4. ASSUME NEW i \in Ids, NEW enable \in BOOLEAN, NEW result \in 0..MaxLaunches,
             ScheduleTask(i, enable, result)
      PROVE  TypeOK'
  <2>1. edits + 1 \in Versions /\ edits + 1 \in 0..MaxEdits
    BY <1>4 DEF TypeOK, ScheduleTask, Versions
  <2>2. rows' \in [Ids -> Rows]
    <3>1. [version |-> edits + 1, enabled |-> enable, result |-> result] \in Rows
      BY <2>1 DEF Rows
    <3> QED
      BY <1>4, <3>1 DEF TypeOK, ScheduleTask
  <2>3. entryMap' \in [Ids -> 0..MaxEdits]
    BY <1>4, <2>1 DEF TypeOK, ScheduleTask, PausedEntry
  <2> QED
    BY <1>4, <2>1, <2>2, <2>3 DEF TypeOK, ScheduleTask
<1>5. ASSUME NEW n \in 1..MaxLaunches, Retry(n)
      PROVE  TypeOK'
  <2>1. launches[n].id \in Ids /\ launches[n].version \in Versions
    BY <1>5, LaunchTyped DEF Retry
  <2>2. CreateScheduledAsyncTask(launches[n].id, "retry", launches[n].version)
    BY <1>5 DEF Retry
  <2> QED
    BY <1>5, <2>1, <2>2, CreateTyped DEF TypeOK, Retry
<1>6. ASSUME NEW v \in Versions, CallbackReturns(v)
      PROVE  TypeOK'
  BY <1>6 DEF TypeOK, CallbackReturns
<1>7. ASSUME NEW v \in Versions, CallbackEnqueues(v)
      PROVE  TypeOK'
  <2>1. scheduleOf[v] \in Ids /\ v \in 0..MaxEdits
    BY DEF TypeOK, Versions
  <2>2. CASE CreateScheduledAsyncTask(scheduleOf[v], "cron", v)
             /\ captured' = [captured EXCEPT ![v] = Len(launches) + 1]
    BY <1>7, <2>1, <2>2, CreateTyped DEF TypeOK, CallbackEnqueues
  <2>3. CASE UNCHANGED <<rows, launches, captured>>
    BY <1>7, <2>1, <2>3 DEF TypeOK, CallbackEnqueues
  <2> QED
    BY <1>7, <2>2, <2>3 DEF CallbackEnqueues
<1>8. CASE CallbackSaves
  <2>1. holder \in Versions /\ holder \in 0..MaxEdits
    BY <1>8 DEF TypeOK, CallbackSaves, Versions
  <2>2. rows' \in [Ids -> Rows]
    <3>1. [version |-> holder, enabled |-> TRUE, result |-> captured[holder]] \in Rows
      BY <2>1 DEF TypeOK, Rows
    <3> QED
      BY <1>8, <3>1 DEF TypeOK, CallbackSaves
  <2> QED
    BY <1>8, <2>2 DEF TypeOK, CallbackSaves
<1>9. CASE Start
  BY <1>9 DEF TypeOK, Start, Rows
<1>10. CASE Crash
  <2>1. entryMap' \in [Ids -> 0..MaxEdits] /\ holder' \in 0..MaxEdits /\ waiting' \subseteq Versions
    BY <1>10 DEF Crash
  <2> QED
    BY <1>10, <2>1 DEF TypeOK, Crash
<1>11. CASE UNCHANGED vars
  BY <1>11 DEF TypeOK, vars
<1> QED
  BY <1>1, <1>2, <1>3, <1>4, <1>5, <1>6, <1>7, <1>8, <1>9, <1>10, <1>11 DEF Next

\* The type invariant holds in every reachable state.
THEOREM TypeCorrect == Spec => []TypeOK
<1>1. Init => TypeOK
  <2> SUFFICES ASSUME Init
               PROVE  TypeOK
    OBVIOUS
  <2>1. rows \in [Ids -> Rows] /\ entryMap \in [Ids -> 0..MaxEdits]
    BY NoRowTyped, BoundAssumption DEF Init
  <2>2. launches \in Seq(Launches) /\ Len(launches) <= MaxLaunches
    BY BoundAssumption DEF Init
  <2>3. scheduleOf \in [Versions -> Ids] /\ captured \in [Versions -> 0..MaxLaunches]
    <3>1. (CHOOSE i \in Ids : TRUE) \in Ids
      BY BoundAssumption
    <3> QED
      <4>1. 0 \in 0..MaxLaunches
        BY BoundAssumption
      <4>2. captured \in [Versions -> 0..MaxLaunches]
        BY <4>1 DEF Init
      <4>3. scheduleOf \in [Versions -> Ids]
        BY <3>1, Zenon DEF Init
      <4> QED
        BY <4>2, <4>3
  <2> QED
    BY <2>1, <2>2, <2>3, BoundAssumption DEF Init, TypeOK
<1>2. TypeOK /\ [Next]_vars => TypeOK'
  BY TypeStep
<1> QED
  BY <1>1, <1>2, PTL DEF Spec

-----------------------------------------------------------------------------
(* Registrations.                                                          *)

\* A created execution changes nothing but result columns.
LEMMA CreateKeepsRows ==
    ASSUME TypeOK, NEW i \in Ids, NEW by, NEW v, CreateScheduledAsyncTask(i, by, v)
    PROVE  \A j \in Ids : rows'[j].version = rows[j].version /\ rows'[j].enabled = rows[j].enabled
BY DEF TypeOK, Rows, CreateScheduledAsyncTask

\* A row written back over one of its own version keeps version and state.
LEMMA SavedRow ==
    ASSUME TypeOK, NEW i \in Ids, NEW n, rows[i].enabled, rows[i].version = holder,
           rows' = [rows EXCEPT ![i] = [version |-> holder, enabled |-> TRUE, result |-> n]]
    PROVE  \A j \in Ids : rows'[j].version = rows[j].version /\ rows'[j].enabled = rows[j].enabled
<1>1. rows'[i].version = holder /\ rows'[i].enabled = TRUE
  BY DEF TypeOK
<1>2. rows[i].enabled = TRUE
  BY DEF TypeOK, Rows
<1>3. \A j \in Ids \ {i} : rows'[j] = rows[j]
  BY DEF TypeOK
<1> QED
  BY <1>1, <1>2, <1>3

\* Every step keeps registrations, rows and the callback in flight together.
LEMMA IInvStep ==
    ASSUME TypeOK, IInv, [Next]_vars
    PROVE  IInv'
<1> USE BoundAssumption DEF IInv, RegisteredMatchesRow, HolderCurrent, VersionsOwned, Current
<1>1. ASSUME NEW i \in Ids, RunTask(i)
      PROVE  IInv'
  <2>1. CreateScheduledAsyncTask(i, "manual", rows[i].version)
    BY <1>1 DEF RunTask
  <2> QED
    BY <1>1, <2>1, CreateKeepsRows DEF RunTask
<1>2. ASSUME NEW i \in Ids, DeleteTask(i)
      PROVE  IInv'
  <2>1. \A j \in Ids \ {i} : rows'[j] = rows[j] /\ entryMap'[j] = entryMap[j]
    BY <1>2 DEF TypeOK, DeleteTask
  <2>2. entryMap'[i] = 0 /\ (rows'[i] = NoRow \/ rows'[i] = rows[i])
    BY <1>2 DEF TypeOK, DeleteTask
  <2>3. edits \in Nat /\ edits' = edits /\ scheduleOf' = scheduleOf /\ holder' = 0 /\ up'
    BY <1>2 DEF TypeOK, DeleteTask
  <2>4. RegisteredMatchesRow'
    BY <2>1, <2>2, <2>3
  <2>5. VersionsOwned'
    BY <2>1, <2>2, <2>3, NoRowTyped
  <2>6. HolderCurrent'
    BY <2>3
  <2> QED
    BY <2>4, <2>5, <2>6
<1>3. ASSUME NEW i \in Ids, Dispatch(i)
      PROVE  IInv'
  BY <1>3 DEF Dispatch
<1>4. ASSUME NEW i \in Ids, NEW enable \in BOOLEAN, NEW result \in 0..MaxLaunches,
             ScheduleTask(i, enable, result)
      PROVE  IInv'
  <2>1. edits + 1 \in Versions /\ edits + 1 # 0 /\ scheduleOf'[edits + 1] = i
    BY <1>4 DEF TypeOK, ScheduleTask, Versions
  <2>2. \A v \in 0..edits : v # edits + 1 /\ (v # 0 => scheduleOf'[v] = scheduleOf[v])
    BY <1>4 DEF TypeOK, ScheduleTask, Versions
  <2>3. \A j \in Ids \ {i} : rows'[j] = rows[j] /\ entryMap'[j] = entryMap[j]
    BY <1>4 DEF TypeOK, ScheduleTask
  <2>4. \/ /\ rows'[i] = [version |-> edits + 1, enabled |-> enable, result |-> result]
           /\ entryMap'[i] = IF enable THEN edits + 1 ELSE 0
        \/ rows'[i] = rows[i] /\ entryMap'[i] = 0
    BY <1>4 DEF TypeOK, ScheduleTask, PausedEntry
  <2>5. \A j \in Ids : rows[j].version \in 0..edits
    BY DEF TypeOK, Rows
  <2>6. RegisteredMatchesRow'
    BY <2>1, <2>2, <2>3, <2>4, <2>5
  <2>7. VersionsOwned'
    <3>1. edits' = edits + 1 /\ edits \in Nat
      BY <1>4 DEF TypeOK, ScheduleTask
    <3> QED
      BY <2>1, <2>2, <2>3, <2>4, <2>5, <3>1
  <2>8. HolderCurrent'
    BY <1>4 DEF ScheduleTask
  <2> QED
    BY <2>6, <2>7, <2>8
<1>5. ASSUME NEW n \in 1..MaxLaunches, Retry(n)
      PROVE  IInv'
  <2>1. launches[n].id \in Ids
    BY <1>5, LaunchTyped DEF Retry
  <2>2. CreateScheduledAsyncTask(launches[n].id, "retry", launches[n].version)
    BY <1>5 DEF Retry
  <2> QED
    BY <1>5, <2>1, <2>2, CreateKeepsRows DEF Retry
<1>6. ASSUME NEW v \in Versions, CallbackReturns(v)
      PROVE  IInv'
  BY <1>6 DEF CallbackReturns
<1>7. ASSUME NEW v \in Versions, CallbackEnqueues(v)
      PROVE  IInv'
  <2>1. scheduleOf[v] \in Ids /\ v # 0
    BY DEF TypeOK, Versions
  <2>2. \A j \in Ids : rows'[j].version = rows[j].version /\ rows'[j].enabled = rows[j].enabled
    BY <1>7, <2>1, CreateKeepsRows DEF CallbackEnqueues
  <2>3. up
    BY <1>7, <2>1 DEF CallbackEnqueues
  <2> QED
    BY <1>7, <2>2, <2>3 DEF CallbackEnqueues
<1>8. CASE CallbackSaves
  <2>1. holder # 0 /\ holder \in Versions /\ scheduleOf[holder] \in Ids
    BY <1>8 DEF TypeOK, CallbackSaves, Versions
  <2>2. rows[scheduleOf[holder]].enabled /\ rows[scheduleOf[holder]].version = holder
    BY <2>1
  <2>3. \A j \in Ids : rows'[j].version = rows[j].version /\ rows'[j].enabled = rows[j].enabled
    BY <1>8, <2>1, <2>2, SavedRow DEF CallbackSaves
  <2> QED
    BY <1>8, <2>3 DEF CallbackSaves
<1>9. CASE Start
  BY <1>9 DEF Start, TypeOK, Rows
<1>10. CASE Crash
  BY <1>10 DEF Crash
<1>11. CASE UNCHANGED vars
  BY <1>11 DEF vars
<1> QED
  BY <1>1, <1>2, <1>3, <1>4, <1>5, <1>6, <1>7, <1>8, <1>9, <1>10, <1>11 DEF Next

\* The strengthening is an invariant of the scheduler.
LEMMA InductiveInvariant == Spec => []IInv
<1>1. Init => IInv
  <2> SUFFICES ASSUME Init
               PROVE  IInv
    OBVIOUS
  <2>1. \A i \in Ids : rows[i] = NoRow /\ entryMap[i] = 0
    BY DEF Init
  <2>2. VersionsOwned
    <3>1. \A i \in Ids : rows[i].version = 0 /\ ~rows[i].enabled
      BY <2>1, NoRowTyped
    <3> QED
      <4>1. edits = 0
        BY DEF Init
      <4>2. 0 <= 0
        OBVIOUS
      <4>3. \A i \in Ids : rows[i].version <= edits
        BY <3>1, <4>1, <4>2, Zenon
      <4> QED
        BY <3>1, <4>3, Zenon DEF VersionsOwned
  <2> QED
    BY <2>1, <2>2 DEF Init, IInv, RegisteredMatchesRow, HolderCurrent
<1>2. TypeOK /\ IInv /\ [Next]_vars => IInv'
  BY IInvStep
<1> QED
  BY <1>1, <1>2, TypeCorrect, PTL DEF Spec

\* A registered cron entry always belongs to an enabled row of the same
\* version, after any failing save or delete, crash or restart.
THEOREM RegistrationsMatch == Spec => []RegisteredMatchesRow
BY InductiveInvariant, PTL DEF IInv

\* A callback that waited for cm.mu through an edit, a pause or a deletion
\* launches nothing (the action property CurrentOnly).
THEOREM LaunchesAreCurrent == Spec => CurrentOnly
<1>1. ASSUME TypeOK, IInv, [Next]_vars,
             Len(launches') > Len(launches), launches'[Len(launches')].by = "cron"
      PROVE  LET new == launches'[Len(launches')]
             IN  rows[new.id].enabled /\ rows[new.id].version = new.version
  <2>1. ASSUME NEW i \in Ids, NEW by \in {"manual", "retry"}, NEW v,
               CreateScheduledAsyncTask(i, by, v)
        PROVE  FALSE
    BY <1>1, <2>1 DEF CreateScheduledAsyncTask, TypeOK
  <2>2. launches' # launches
    BY <1>1 DEF TypeOK
  <2>3. ~\E i \in Ids : RunTask(i)
    BY <2>1 DEF RunTask
  <2>4. ~\E n \in 1..MaxLaunches : Retry(n)
    <3>1. ASSUME NEW n \in 1..MaxLaunches, Retry(n)
          PROVE  launches[n].id \in Ids
      BY <1>1, <3>1, LaunchTyped DEF Retry
    <3> QED
      BY <2>1, <3>1 DEF Retry
  <2>5. PICK v \in Versions : CallbackEnqueues(v)
    BY <1>1, <2>2, <2>3, <2>4 DEF Next, DeleteTask, Dispatch, ScheduleTask, CallbackReturns,
       CallbackSaves, Start, Crash, vars
  <2>6. Current(v) /\ scheduleOf[v] \in Ids /\ v # 0
    BY <1>1, <2>5 DEF CallbackEnqueues, TypeOK, Versions
  <2>7. launches' = Append(launches, [id |-> scheduleOf[v], by |-> "cron", version |-> v])
    BY <2>2, <2>5 DEF CallbackEnqueues, CreateScheduledAsyncTask
  <2>8. launches'[Len(launches')] = [id |-> scheduleOf[v], by |-> "cron", version |-> v]
    BY <1>1, <2>7 DEF TypeOK
  <2> QED
    BY <1>1, <2>6, <2>8 DEF Current, IInv, RegisteredMatchesRow
<1>2. TypeOK /\ IInv /\ [Next]_vars =>
        [Len(launches') > Len(launches) /\ launches'[Len(launches')].by = "cron" =>
           LET new == launches'[Len(launches')]
           IN  rows[new.id].enabled /\ rows[new.id].version = new.version]_vars
  BY <1>1
<1> QED
  BY <1>2, TypeCorrect, InductiveInvariant, PTL DEF Spec, CurrentOnly

\* No write-back of a callback undoes an edit or resurrects a deleted schedule
\* (the action property EditsKept).
THEOREM EditsSurvive == Spec => EditsKept
<1>1. ASSUME TypeOK, IInv, [Next]_vars, NEW i \in Ids, rows'[i].version # rows[i].version
      PROVE  rows'[i] = NoRow \/ (edits' = edits + 1 /\ rows'[i].version = edits')
  <2>1. ~\E j \in Ids : RunTask(j)
    BY <1>1, CreateKeepsRows DEF RunTask
  <2>2. ~\E n \in 1..MaxLaunches : Retry(n)
    <3>1. ASSUME NEW n \in 1..MaxLaunches, Retry(n)
          PROVE  launches[n].id \in Ids
      BY <1>1, <3>1, LaunchTyped DEF Retry
    <3> QED
      BY <1>1, <3>1, CreateKeepsRows DEF Retry
  <2>3. ~\E v \in Versions : CallbackEnqueues(v)
    <3>1. ASSUME NEW v \in Versions
          PROVE  scheduleOf[v] \in Ids
      BY <1>1 DEF TypeOK
    <3> QED
      BY <1>1, <3>1, CreateKeepsRows DEF CallbackEnqueues
  <2>4. ~CallbackSaves
    <3>1. CASE CallbackSaves
      <4>1. holder # 0 /\ scheduleOf[holder] \in Ids
        BY <1>1, <3>1 DEF CallbackSaves, TypeOK, Versions
      <4>2. rows[scheduleOf[holder]].enabled /\ rows[scheduleOf[holder]].version = holder
        BY <1>1, <4>1 DEF IInv, HolderCurrent, RegisteredMatchesRow, Current
      <4> QED
        BY <1>1, <3>1, <4>1, <4>2, SavedRow DEF CallbackSaves
    <3> QED
      BY <3>1
  <2>5. rows' # rows
    BY <1>1
  <2>6. \/ \E j \in Ids : DeleteTask(j)
        \/ \E j \in Ids, enable \in BOOLEAN, result \in 0..MaxLaunches : ScheduleTask(j, enable, result)
    BY <1>1, <2>1, <2>2, <2>3, <2>4, <2>5 DEF Next, Dispatch, CallbackReturns, Start, Crash, vars
  <2> QED
    <3>1. ASSUME NEW j \in Ids, DeleteTask(j)
          PROVE  rows'[i] = NoRow
      BY <1>1, <3>1 DEF DeleteTask, TypeOK
    <3>2. ASSUME NEW j \in Ids, NEW enable \in BOOLEAN, NEW result \in 0..MaxLaunches,
                 ScheduleTask(j, enable, result)
          PROVE  edits' = edits + 1 /\ rows'[i].version = edits'
      <4>1. rows' = [rows EXCEPT ![j] = [version |-> edits + 1, enabled |-> enable, result |-> result]]
        BY <2>5, <3>2 DEF ScheduleTask
      <4>2. i = j
        BY <1>1, <4>1 DEF TypeOK
      <4>3. rows'[i].version = edits + 1
        BY <1>1, <4>1, <4>2 DEF TypeOK
      <4> QED
        BY <3>2, <4>3 DEF ScheduleTask
    <3> QED
      BY <2>6, <3>1, <3>2
<1>2. TypeOK /\ IInv /\ [Next]_vars =>
        [\A i \in Ids : rows'[i].version # rows[i].version =>
           rows'[i] = NoRow \/ (edits' = edits + 1 /\ rows'[i].version = edits')]_vars
  BY <1>1
<1> QED
  BY <1>2, TypeCorrect, InductiveInvariant, PTL DEF Spec, EditsKept
=============================================================================
