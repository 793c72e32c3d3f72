------------------------ MODULE SubscriptionsProofs ------------------------
(***************************************************************************)
(* Proofs about Subscriptions, for any number of fills and polls. That two *)
(* fills are never under way rests on the one worker: what runs is what it *)
(* runs (WorkerRuns), so nothing starts while a poll looks around, and the *)
(* pending tasks it saw none of can only come back by a retry              *)
(* (NonePending).                                                          *)
(***************************************************************************)
EXTENDS Subscriptions, TLAPS

\* The worker is busy with a poll, with a fill by name, or with an import.
WorkersDistinct ==
    /\ "poll" \notin Fills /\ "import" \notin Fills /\ NoTask \notin Fills
    /\ NoTask # "poll" /\ NoTask # "import" /\ MaxPolls \in Nat

WorkerRuns ==
    /\ \A t \in Fills : /\ fill[t] = "running" <=> worker = t
                        /\ imports[t] = "running" => worker = "import"
    /\ \A t, u \in Fills : imports[t] = "running" /\ imports[u] = "running" => t = u
NonePending ==
    poll \in {"running", "enqueue"} =>
        \A t \in Fills \ again : fill[t] # "pending" /\ imports[t] # "pending"

IInv == TypeOK /\ WorkerRuns /\ NonePending /\ OneFillUnderWay

\* No task exists at the start.
LEMMA InitIInv ==
    ASSUME WorkersDistinct
    PROVE  Init => IInv
BY DEF Init, IInv, TypeOK, WorkersDistinct, WorkerRuns, NonePending, OneFillUnderWay, UnderWay,
       Active, Statuses

\* Statuses, rows and polls stay within their ranges, and the worker has a poll
\* exactly while one runs.
LEMMA TypeStep ==
    ASSUME WorkersDistinct, TypeOK, WorkerRuns, [Next \/ Crash]_vars
    PROVE  TypeOK'
<1> USE DEF WorkersDistinct, TypeOK, Statuses
<1>1. ASSUME NEW s \in {"absent", "active", "inactive"}, SaveSubscription(s)
      PROVE  TypeOK'
  BY <1>1 DEF SaveSubscription
<1>2. CASE StartPoll
  BY <1>2 DEF StartPoll
<1>3. CASE CheckActive
  BY <1>3 DEF CheckActive, EndPoll
<1>4. CASE EnqueueFill
  BY <1>4 DEF EnqueueFill, EndPoll
<1>5. CASE Crash
  BY <1>5 DEF Crash
<1>6. ASSUME NEW t \in Fills, RunFill(t) \/ QueueImport(t) \/ RunImport(t)
      PROVE  TypeOK'
  BY <1>6 DEF RunFill, QueueImport, RunImport
<1>7. ASSUME NEW t \in Fills, Retry(t)
      PROVE  TypeOK'
  BY <1>7 DEF Retry
<1>8. ASSUME NEW t \in Fills, NEW s \in {"completed", "failed"}, EndFill(t, s)
      PROVE  TypeOK'
  BY <1>8 DEF EndFill
<1>9. ASSUME NEW t \in Fills, NEW s \in {"completed", "failed"}, EndImport(t, s)
      PROVE  TypeOK'
  BY <1>9 DEF EndImport, WorkerRuns
<1>10. CASE UNCHANGED vars
  BY <1>10 DEF vars
<1> QED BY <1>1, <1>2, <1>3, <1>4, <1>5, <1>6, <1>7, <1>8, <1>9, <1>10 DEF Next

\* What runs is what the worker runs, over every step and restart.
LEMMA WorkerStep ==
    ASSUME WorkersDistinct, TypeOK, WorkerRuns, [Next \/ Crash]_vars
    PROVE  WorkerRuns'
<1> USE DEF WorkersDistinct, TypeOK, Statuses, WorkerRuns
<1>1. ASSUME NEW s \in {"absent", "active", "inactive"}, SaveSubscription(s)
      PROVE  WorkerRuns'
  BY <1>1 DEF SaveSubscription
<1>2. CASE StartPoll
  BY <1>2 DEF StartPoll
<1>3. CASE CheckActive
  BY <1>3 DEF CheckActive, EndPoll
<1>4. CASE EnqueueFill
  BY <1>4 DEF EnqueueFill, EndPoll
<1>5. CASE Crash
  BY <1>5 DEF Crash
<1>6. ASSUME NEW t \in Fills, RunFill(t) \/ QueueImport(t) \/ RunImport(t)
      PROVE  WorkerRuns'
  BY <1>6 DEF RunFill, QueueImport, RunImport
<1>7. ASSUME NEW t \in Fills, Retry(t)
      PROVE  WorkerRuns'
  BY <1>7 DEF Retry, Ended
<1>8. ASSUME NEW t \in Fills, NEW s \in {"completed", "failed"}, EndFill(t, s)
      PROVE  WorkerRuns'
  BY <1>8 DEF EndFill
<1>9. ASSUME NEW t \in Fills, NEW s \in {"completed", "failed"}, EndImport(t, s)
      PROVE  WorkerRuns'
  BY <1>9 DEF EndImport
<1>10. CASE UNCHANGED vars
  BY <1>10 DEF vars
<1> QED BY <1>1, <1>2, <1>3, <1>4, <1>5, <1>6, <1>7, <1>8, <1>9, <1>10 DEF Next

\* A poll that saw nothing pending still sees nothing pending, and queues a
\* fill only when none is under way.
LEMMA UnderWayStep ==
    ASSUME WorkersDistinct, IInv, [Next \/ Crash]_vars
    PROVE  NonePending' /\ OneFillUnderWay'
<1> USE DEF WorkersDistinct, IInv, TypeOK, Statuses, WorkerRuns, NonePending, OneFillUnderWay,
            UnderWay, Active
<1>1. ASSUME NEW s \in {"absent", "active", "inactive"}, SaveSubscription(s)
      PROVE  NonePending' /\ OneFillUnderWay'
  BY <1>1 DEF SaveSubscription
<1>2. CASE StartPoll
  BY <1>2 DEF StartPoll
<1>3. CASE CheckActive
  BY <1>3 DEF CheckActive, EndPoll, Busy
<1>4. CASE EnqueueFill
  BY <1>4 DEF EnqueueFill, EndPoll
<1>5. CASE Crash
  BY <1>5 DEF Crash
<1>6. ASSUME NEW t \in Fills, RunFill(t) \/ QueueImport(t) \/ RunImport(t)
      PROVE  NonePending' /\ OneFillUnderWay'
  BY <1>6 DEF RunFill, QueueImport, RunImport
<1>7. ASSUME NEW t \in Fills, Retry(t)
      PROVE  NonePending' /\ OneFillUnderWay'
  BY <1>7 DEF Retry, Ended
<1>8. ASSUME NEW t \in Fills, NEW s \in {"completed", "failed"}, EndFill(t, s)
      PROVE  NonePending' /\ OneFillUnderWay'
  BY <1>8 DEF EndFill
<1>9. ASSUME NEW t \in Fills, NEW s \in {"completed", "failed"}, EndImport(t, s)
      PROVE  NonePending' /\ OneFillUnderWay'
  BY <1>9 DEF EndImport
<1>10. CASE UNCHANGED vars
  BY <1>10 DEF vars
<1> QED BY <1>1, <1>2, <1>3, <1>4, <1>5, <1>6, <1>7, <1>8, <1>9, <1>10 DEF Next

\* The strengthened invariant holds in every reachable state.
LEMMA AlwaysIInv ==
    ASSUME WorkersDistinct
    PROVE  Spec => []IInv
<1>1. Init => IInv BY InitIInv
<1>2. IInv /\ [Next \/ Crash]_vars => IInv'
  BY TypeStep, WorkerStep, UnderWayStep DEF IInv
<1> QED BY <1>1, <1>2, PTL DEF Spec

\* The rows, the statuses and the worker stay within their declared ranges.
THEOREM TypeCorrect ==
    ASSUME WorkersDistinct
    PROVE  Spec => []TypeOK
<1>1. IInv => TypeOK BY DEF IInv
<1> QED BY <1>1, AlwaysIInv, PTL

\* However polls, restarts, edits of the row and ends of tasks interleave, no
\* poll of runShareAutoSync queues a fill beside one that is under way.
THEOREM PollsNeverOverlap ==
    ASSUME WorkersDistinct
    PROVE  Spec => []OneFillUnderWay
<1>1. IInv => OneFillUnderWay BY DEF IInv
<1> QED BY <1>1, AlwaysIInv, PTL
=============================================================================
