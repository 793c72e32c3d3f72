-------------------------- MODULE NasTransferProofs --------------------------
(* Proofs about NasTransfer, for any number of worker processes, runs and  *)
(* faults.                                                                 *)
EXTENDS NasTransfer, TLAPS

\* Every step keeps the types; the lock ends with its holder and a call has a
\* live worker of its operation.
LEMMA TypeStep ==
    ASSUME TypeOK, [Next]_vars
    PROVE  TypeOK'
<1> USE ProcsAssumption, BoundsAssumption DEF TypeOK, Operations
<1>1. CASE BeginItem
  BY <1>1 DEF BeginItem, workerVars, remoteVars
<1>2. ASSUME NEW p \in Procs, CallWorker(p)
      PROVE  TypeOK'
  BY <1>2 DEF CallWorker, remoteVars
<1>3. CASE FindDestination
  BY <1>3 DEF FindDestination, Fail, workerVars, remoteVars
<1>4. CASE ProbePlaceholder
  BY <1>4 DEF ProbePlaceholder, Stale, workerVars, remoteVars
<1>5. CASE WaitForVerified
  BY <1>5 DEF WaitForVerified, Fail, workerVars, remoteVars
<1>6. CASE LookupFails
  BY <1>6 DEF LookupFails, Fail, workerVars, remoteVars
<1>7. CASE MarkVerified
  BY <1>7 DEF MarkVerified, workerVars, remoteVars
<1> DEFINE Ctl == /\ wpc' \in [Procs -> {"none", "start", "fetch", "unlink", "doomed", "hash",
                                         "remove", "stat", "create", "copy"}]
                  /\ op' \in [Procs -> Operations] /\ wreplace' \in [Procs -> BOOLEAN]
                  /\ lock' \in Procs \cup {NoProc} /\ session' \in Procs \cup {NoProc}
                  /\ cpc' \in {"idle", "find", "probe", "verify", "mark"} \cup Operations
                  /\ item' \in {"discovered", "downloaded", "failed", "verified"}
                  /\ why' \in {"none", "error", "conflict", "timeout"}
                  /\ destId' = destId /\ result' = result /\ runs' = runs /\ replace' = replace
                  /\ lock' # NoProc => wpc'[lock'] \notin {"none", "start"}
                  /\ session' # NoProc => wpc'[session'] # "none" /\ op'[session'] = cpc'
<1>8. ASSUME NEW p \in Procs, NEW ok \in BOOLEAN, EndWorker(p, ok)
      PROVE  Ctl
  BY <1>8 DEF EndWorker, Released, Proceed, Fail
<1>9. ASSUME NEW p \in Procs, NEW pc \in {"remove", "stat", "create", "copy"},
             wpc[p] # "none", WorkerGoes(p, pc)
      PROVE  Ctl
  BY <1>9 DEF WorkerGoes, controllerVars
<1>10. ASSUME NEW p \in Procs, TakeLock(p)
       PROVE  TypeOK'
  <2>1. CASE EndWorker(p, FALSE)
    BY <1>8, <1>10, <2>1 DEF TakeLock, remoteVars
  <2>2. CASE lock' = p /\ wpc' = [wpc EXCEPT ![p] = FirstPosition(p)]
             /\ UNCHANGED <<controllerVars, op, wreplace>>
    <3>1. FirstPosition(p) \in {"fetch", "hash", "doomed", "unlink"}
      BY DEF FirstPosition
    <3> QED
      BY <1>10, <2>2, <3>1 DEF TakeLock, controllerVars, remoteVars
  <2> QED
    BY <1>10, <2>1, <2>2 DEF TakeLock
<1>11. ASSUME NEW p \in Procs, DownloadSpool(p) \/ RemoveSpool(p)
       PROVE  TypeOK'
  <2>1. Ctl
    BY <1>8, <1>11 DEF DownloadSpool, RemoveSpool
  <2> QED
    BY <1>11, <2>1 DEF DownloadSpool, RemoveSpool, Fetched
<1>12. ASSUME NEW p \in Procs,
              \/ CheckSpool(p) \/ RemoveStale(p) \/ StatDestination(p)
              \/ CreateDestination(p) \/ CopyToDestination(p)
       PROVE  TypeOK'
  <2>1. Ctl
    BY <1>8, <1>9, <1>12
       DEF CheckSpool, RemoveStale, StatDestination, CreateDestination, CopyToDestination
  <2> QED
    BY <1>12, <2>1 DEF CheckSpool, RemoveStale, StatDestination, CreateDestination,
       CopyToDestination, remoteVars
<1>13. ASSUME NEW p \in Procs, KillWorker(p)
       PROVE  TypeOK'
  <2>1. Ctl
    BY <1>8, <1>13 DEF KillWorker
  <2> QED
    BY <1>13, <2>1 DEF KillWorker, Fault, Fetched
<1>14. CASE LoseSession \/ StopController
  BY <1>14 DEF LoseSession, StopController, Fail, Fault, workerVars, remoteVars
<1>15. CASE CloudStep
  BY <1>15 DEF CloudStep, StartUpload, ListProvisional, FinishUpload, DropUpload,
     ForeignAppears, Closed, Fault, controllerVars, workerVars
<1>16. CASE UNCHANGED vars
  BY <1>16 DEF vars, controllerVars, workerVars, remoteVars
<1> QED
  BY <1>1, <1>2, <1>3, <1>4, <1>5, <1>6, <1>7, <1>10, <1>11, <1>12, <1>13, <1>14, <1>15, <1>16
     DEF Next, ControllerStep, WorkerStep

\* Every reachable state is well typed, the lock is held by a live worker and
\* the controller only waits for a live worker of the operation it called.
THEOREM TypeCorrect == Spec => []TypeOK
<1>1. Init => TypeOK
  <2>1. Init => wreplace \in [Procs -> BOOLEAN] /\ replace \in BOOLEAN
    BY Zenon DEF Init
  <2> QED
    BY <2>1, BoundsAssumption DEF Init, TypeOK, Operations
<1> QED
  BY <1>1, TypeStep, PTL DEF Spec

-----------------------------------------------------------------------------
(* The strengthening, one group of steps at a time.                        *)

\* What the end of a worker does to the others, and to a run that waits for it.
LEMMA WorkerEnds ==
    ASSUME TypeOK, NEW p \in Procs, NEW ok \in BOOLEAN, EndWorker(p, ok)
    PROVE  /\ wpc'[p] = "none" /\ \A q \in Procs \ {p} : wpc'[q] = wpc[q]
           /\ lock' = IF lock = p THEN NoProc ELSE lock
           /\ op' = op /\ wreplace' = wreplace
           /\ replace' = replace /\ result' = result /\ destId' = destId
           /\ session # p => session' = session /\ cpc' = cpc /\ item' = item
           /\ session = p =>
                /\ session' = NoProc /\ cpc \in Operations
                /\ item' \in {item, "downloaded", "failed"}
                /\ ok => cpc' = IF cpc = "download" THEN "find"
                                ELSE IF cpc = "publish" THEN "verify" ELSE "mark"
                /\ ~ok => cpc' = "idle"
BY ProcsAssumption DEF TypeOK, EndWorker, Released, Proceed, Fail, Operations

\* The controller's own steps.
LEMMA ControllerKeeps ==
    ASSUME TypeOK, IInv,
           BeginItem \/ ControllerStep \/ LookupFails \/ LoseSession \/ StopController
    PROVE  IInv'
<1> USE ProcsAssumption DEF TypeOK, Operations, IInv, LockExclusive, PublisherAlone, ResultHeld,
        CloudMatchesFile, ReplaceUncommitted, Replacing, VerifiedHeld, Publishing
<1>1. CASE BeginItem
  BY <1>1 DEF BeginItem, workerVars, remoteVars
<1>2. ASSUME NEW p \in Procs, CallWorker(p)
      PROVE  IInv'
  BY <1>2 DEF CallWorker, remoteVars
<1>3. CASE FindDestination
  BY <1>3 DEF FindDestination, Verified, Listed, Fail, workerVars, remoteVars
<1>4. CASE ProbePlaceholder
  BY <1>4 DEF ProbePlaceholder, Stale, workerVars, remoteVars
<1>5. CASE WaitForVerified
  BY <1>5 DEF WaitForVerified, Verified, Fail, workerVars, remoteVars
<1>6. CASE LookupFails
  BY <1>6 DEF LookupFails, Fail, workerVars, remoteVars
<1>7. CASE MarkVerified
  BY <1>7 DEF MarkVerified, workerVars, remoteVars
<1>8. CASE LoseSession
  BY <1>8 DEF LoseSession, Fail, workerVars, remoteVars
<1>9. CASE StopController
  BY <1>9 DEF StopController, workerVars, remoteVars
<1> QED
  BY <1>1, <1>2, <1>3, <1>4, <1>5, <1>6, <1>7, <1>8, <1>9 DEF ControllerStep

\* CloudDrive and other users of 115.
LEMMA CloudKeeps ==
    ASSUME TypeOK, IInv, CloudStep
    PROVE  IInv'
<1> USE DEF TypeOK, Operations, IInv, LockExclusive, PublisherAlone, ResultHeld,
        CloudMatchesFile, ReplaceUncommitted, Replacing, VerifiedHeld, Publishing, Closed,
        controllerVars, workerVars
<1>1. CASE StartUpload
  BY <1>1 DEF StartUpload
<1>2. CASE ListProvisional
  BY <1>2 DEF ListProvisional
<1>3. CASE FinishUpload
  BY <1>3 DEF FinishUpload
<1>4. CASE DropUpload
  BY <1>4 DEF DropUpload, Fault
<1>5. CASE ForeignAppears
  BY <1>5 DEF ForeignAppears
<1> QED
  BY <1>1, <1>2, <1>3, <1>4, <1>5 DEF CloudStep

\* A worker ends, successfully only with the lock, having touched no more than
\* the file it was copying.
LEMMA EndKeeps ==
    ASSUME TypeOK, IInv, NEW p \in Procs, NEW ok \in BOOLEAN, EndWorker(p, ok),
           ok => wpc[p] \notin {"none", "start"},
           cloud' = cloud, cloudId' = cloudId,
           \/ file' = file
           \/ wpc[p] = "copy" /\ file' \in {"full", "torn", "absent"}
    PROVE  IInv'
<1> USE ProcsAssumption DEF TypeOK, Operations
<1>1. LockExclusive'
  BY WorkerEnds DEF IInv, LockExclusive, Publishing
<1>2. PublisherAlone'
  BY WorkerEnds DEF IInv, LockExclusive, PublisherAlone, Publishing
<1>3. ResultHeld'
  BY WorkerEnds DEF IInv, ResultHeld
<1>4. CloudMatchesFile'
  BY WorkerEnds DEF IInv, LockExclusive, CloudMatchesFile
<1>5. ReplaceUncommitted'
  <2>1. wpc[p] = "copy" => lock = p /\ op[p] = "publish" /\ (session # p => cpc \in {"idle", "download"})
    BY DEF IInv, LockExclusive, PublisherAlone, Publishing
  <2>2. ~(cpc' = "publish" /\ session' = NoProc) \/ (cpc' = cpc /\ session' = session)
    BY WorkerEnds
  <2>3. \A q \in Procs : op'[q] = op[q] /\ wreplace'[q] = wreplace[q] /\ wpc'[q] \in {wpc[q], "none"}
    BY WorkerEnds
  <2>4. CASE file' = file
    BY <2>2, <2>3, <2>4, WorkerEnds DEF IInv, ReplaceUncommitted, Replacing
  <2>5. CASE wpc[p] = "copy"
    BY <2>1, <2>2, <2>3, <2>5, WorkerEnds DEF IInv, LockExclusive, ReplaceUncommitted, Replacing
  <2> QED
    BY <2>4, <2>5
<1>6. VerifiedHeld'
  BY WorkerEnds DEF IInv, VerifiedHeld
<1> QED
  BY <1>1, <1>2, <1>3, <1>4, <1>5, <1>6 DEF IInv

\* A worker goes from one position of a publication to the next.
LEMMA GoKeeps ==
    ASSUME TypeOK, IInv, NEW p \in Procs, NEW pc \in {"remove", "stat", "create", "copy"},
           wpc[p] \in Publishing, WorkerGoes(p, pc),
           pc = "remove" => wpc[p] = "hash" /\ wreplace[p],
           cloudId' = cloudId,
           \/ /\ cloud' = cloud /\ file' = file /\ pc # "copy"
           \/ /\ cloud' = "none" /\ file' = "absent" /\ wpc[p] = "remove" /\ pc # "copy"
           \/ /\ cloud' = cloud /\ file = "absent" /\ file' = "open" /\ pc = "copy"
    PROVE  IInv'
<1> USE ProcsAssumption DEF TypeOK, Operations, WorkerGoes, controllerVars
<1>0. /\ lock = p /\ op[p] = "publish" /\ item # "verified"
      /\ cpc \notin {"commit", "mark"} /\ ~(cpc = "publish" /\ session = NoProc)
      /\ \A q \in Procs \ {p} : wpc[q] \in {"none", "start"}
      /\ \A q \in Procs \ {p} : ~(wreplace[q] /\ wpc[q] = "start" /\ session = q)
  BY DEF IInv, LockExclusive, PublisherAlone, Publishing
<1>1. LockExclusive'
  BY <1>0 DEF IInv, LockExclusive, Publishing
<1>2. PublisherAlone'
  BY <1>0 DEF IInv, PublisherAlone, Publishing
<1>3. ResultHeld'
  <2>1. wpc[p] = "remove" => \A q \in Procs : op[q] = "commit" => wpc[q] = "none"
    BY DEF IInv, LockExclusive, ReplaceUncommitted, Replacing
  <2> QED
    BY <1>0, <2>1 DEF IInv, ResultHeld
<1>4. CloudMatchesFile'
  BY <1>0 DEF IInv, CloudMatchesFile
<1>5. ReplaceUncommitted'
  BY <1>0 DEF IInv, ReplaceUncommitted, Replacing
<1>6. VerifiedHeld'
  BY <1>0 DEF IInv, VerifiedHeld
<1> QED
  BY <1>1, <1>2, <1>3, <1>4, <1>5, <1>6 DEF IInv

\* A worker gets the lock: a publication only with its session.
LEMMA LockKeeps ==
    ASSUME TypeOK, IInv, NEW p \in Procs, wpc[p] = "start", LockFree, lock' = p,
           wpc' = [wpc EXCEPT ![p] = FirstPosition(p)],
           UNCHANGED <<controllerVars, op, wreplace, remoteVars>>
    PROVE  IInv'
<1> USE ProcsAssumption DEF TypeOK, Operations, controllerVars, remoteVars
<1>0. /\ \A q \in Procs : wpc[q] \in {"none", "start"}
      /\ \A q \in Procs \ {p} : wpc'[q] = wpc[q]
      /\ \/ op[p] = "download" /\ wpc'[p] = "fetch"
         \/ op[p] = "commit" /\ wpc'[p] = "unlink"
         \/ op[p] = "publish" /\ session = p /\ wpc'[p] = "hash"
         \/ op[p] = "publish" /\ session # p /\ wpc'[p] = "doomed"
  BY DEF IInv, LockExclusive, LockFree, FirstPosition
<1>1. LockExclusive'
  BY <1>0 DEF IInv, LockExclusive, Publishing
<1>2. PublisherAlone'
  BY <1>0 DEF IInv, PublisherAlone, Publishing
<1>3. ResultHeld' /\ CloudMatchesFile' /\ VerifiedHeld'
  BY <1>0 DEF IInv, ResultHeld, CloudMatchesFile, VerifiedHeld
<1>4. ReplaceUncommitted'
  BY <1>0 DEF IInv, ReplaceUncommitted, Replacing
<1> QED
  BY <1>1, <1>2, <1>3, <1>4 DEF IInv

\* The worker processes.
LEMMA WorkerKeeps ==
    ASSUME TypeOK, IInv, NEW p \in Procs, WorkerStep(p) \/ KillWorker(p)
    PROVE  IInv'
<1>1. CASE TakeLock(p)
  BY <1>1, EndKeeps, LockKeeps DEF TakeLock, remoteVars
<1>2. CASE DownloadSpool(p) \/ RemoveSpool(p)
  BY <1>2, EndKeeps DEF DownloadSpool, RemoveSpool
<1>3. CASE CheckSpool(p)
  BY <1>3, EndKeeps, GoKeeps DEF CheckSpool, remoteVars, Publishing
<1>4. CASE RemoveStale(p)
  BY <1>4, EndKeeps, GoKeeps DEF RemoveStale, Publishing
<1>5. CASE StatDestination(p)
  BY <1>5, EndKeeps, GoKeeps DEF StatDestination, remoteVars, Publishing
<1>6. CASE CreateDestination(p)
  BY <1>6, EndKeeps, GoKeeps DEF CreateDestination, Publishing
<1>7. CASE CopyToDestination(p)
  BY <1>7, EndKeeps DEF CopyToDestination
<1>8. CASE KillWorker(p)
  BY <1>8, EndKeeps DEF KillWorker
<1> QED
  BY <1>1, <1>2, <1>3, <1>4, <1>5, <1>6, <1>7, <1>8 DEF WorkerStep

\* The strengthening is an invariant.
LEMMA InductiveInvariant == Spec => []IInv
<1>1. Init => IInv
  BY ProcsAssumption DEF Init, IInv, LockExclusive, PublisherAlone, ResultHeld, CloudMatchesFile,
     ReplaceUncommitted, Replacing, VerifiedHeld, Publishing
<1>2. TypeOK /\ IInv /\ [Next]_vars => IInv'
  <2>1. IInv /\ UNCHANGED vars => IInv'
    BY DEF vars, controllerVars, workerVars, remoteVars, IInv, LockExclusive, PublisherAlone,
       ResultHeld, CloudMatchesFile, ReplaceUncommitted, Replacing, VerifiedHeld
  <2> QED
    BY <2>1, ControllerKeeps, WorkerKeeps, CloudKeeps DEF Next
<1> QED
  BY <1>1, <1>2, TypeCorrect, PTL DEF Spec

\* A verified item names an object that is on 115 with the source's bytes, for
\* any number of workers, lost sessions, kills, controller stops and retries.
THEOREM VerifiedObjectHeld == Spec => []VerifiedHeld
BY InductiveInvariant, PTL DEF IInv

\* A whole spool is removed only while 115 holds the exact object.
THEOREM SpoolKeptUntilVerified == Spec => SpoolKept
<1>1. TypeOK /\ IInv /\ [Next]_vars => [spool = "full" /\ spool' # "full" => cloud = "good"]_vars
  <2> SUFFICES ASSUME TypeOK, IInv, Next, spool = "full", spool' # "full"
               PROVE  cloud = "good"
    BY DEF vars, remoteVars
  <2>1. PICK p \in Procs : RemoveSpool(p)
    BY DEF Next, ControllerStep, WorkerStep, CloudStep, BeginItem, CallWorker, FindDestination,
       ProbePlaceholder, WaitForVerified, LookupFails, MarkVerified, TakeLock, DownloadSpool,
       CheckSpool, RemoveStale, StatDestination, CreateDestination, CopyToDestination, KillWorker,
       LoseSession, StopController, StartUpload, ListProvisional, FinishUpload, DropUpload,
     ForeignAppears,
       Fetched, remoteVars
  <2> QED
    BY <2>1 DEF RemoveSpool, IInv, LockExclusive, ResultHeld
<1> QED
  BY <1>1, InductiveInvariant, TypeCorrect, PTL DEF Spec, SpoolKept

\* Somebody else's settled object is never touched once no publication is between
\* its look-up and its removal, and nobody's file is written over.
THEOREM ForeignIsKept == Spec => ForeignKept
<1> DEFINE Kept == /\ cloud = "foreign" /\ ~Replacing
                        => cloud' = "foreign" /\ file' = "other" /\ ~Replacing'
                   /\ file = "other" => file' \in {"other", "absent"}
<1>1. TypeOK /\ IInv /\ [Next]_vars => [Kept]_vars
  <2> SUFFICES ASSUME TypeOK, IInv, Next
               PROVE  Kept
    OBVIOUS
  <2> USE DEF BeginItem, CallWorker, FindDestination, ProbePlaceholder, WaitForVerified, LookupFails,
       MarkVerified, LoseSession, StopController, StartUpload, ListProvisional, FinishUpload,
       DropUpload, ForeignAppears, Closed, Fail, Fault, controllerVars, workerVars, remoteVars
  <2>1. file = "other" => file' \in {"other", "absent"}
    <3>1. file = "other" => \A p \in Procs : wpc[p] # "copy"
      BY DEF IInv, CloudMatchesFile
    <3> QED
      BY <3>1 DEF Next, ControllerStep, WorkerStep, CloudStep, TakeLock, DownloadSpool, RemoveSpool,
         CheckSpool, RemoveStale, StatDestination, CreateDestination, CopyToDestination, KillWorker
  <2>2. ASSUME cloud = "foreign", ~Replacing
        PROVE  cloud' = "foreign" /\ file' = "other" /\ ~Replacing'
    <3>0. file = "other" /\ \A p \in Procs : wpc[p] \notin {"copy", "remove"}
      BY <2>2 DEF IInv, LockExclusive, CloudMatchesFile, Replacing
    <3>1. ASSUME NEW p \in Procs, WorkerStep(p) \/ KillWorker(p)
          PROVE  cloud' = "foreign" /\ file' = "other" /\ ~Replacing'
      <4>1. cloud' = "foreign" /\ file' = "other"
        BY <2>2, <3>0, <3>1 DEF WorkerStep, TakeLock, DownloadSpool, RemoveSpool, CheckSpool,
           RemoveStale, StatDestination, CreateDestination, CopyToDestination, KillWorker
      <4>2. ASSUME NEW ok \in BOOLEAN, EndWorker(p, ok)
            PROVE  ~Replacing'
        BY <2>2, <4>2, WorkerEnds, ProcsAssumption DEF Replacing, TypeOK, Operations
      <4>3. ASSUME NEW pc \in {"remove", "stat", "create", "copy"}, WorkerGoes(p, pc),
                   pc = "remove" => wpc[p] = "hash" /\ wreplace[p]
            PROVE  ~Replacing'
        BY <2>2, <4>3 DEF Replacing, TypeOK, WorkerGoes
      <4>4. CASE TakeLock(p) /\ lock' = p /\ wpc' = [wpc EXCEPT ![p] = FirstPosition(p)]
                 /\ UNCHANGED <<controllerVars, op, wreplace>>
        <5>1. wreplace[p] /\ FirstPosition(p) \in {"hash", "remove"} => session = p
          BY DEF FirstPosition, IInv, LockExclusive, TypeOK, Operations
        <5>2. /\ cpc' = cpc /\ replace' = replace /\ session' = session /\ wreplace' = wreplace
              /\ wpc[p] = "start" /\ FirstPosition(p) # "start"
              /\ wpc'[p] = FirstPosition(p) /\ \A q \in Procs \ {p} : wpc'[q] = wpc[q]
          BY <4>4 DEF TakeLock, TypeOK, FirstPosition, Operations
        <5>3. ~Replacing'
          BY <2>2, <5>1, <5>2 DEF Replacing
        <5> QED
          BY <4>1, <5>3
      <4> QED
        BY <3>1, <4>1, <4>2, <4>3, <4>4 DEF WorkerStep, TakeLock, DownloadSpool, RemoveSpool,
           CheckSpool, RemoveStale, StatDestination, CreateDestination, CopyToDestination, KillWorker
    <3>2. ASSUME NEW p \in Procs, CallWorker(p)
          PROVE  cloud' = "foreign" /\ file' = "other" /\ ~Replacing'
      BY <2>2, <3>0, <3>2, ProcsAssumption DEF Replacing, TypeOK
    <3>3. CASE BeginItem \/ FindDestination \/ ProbePlaceholder \/ WaitForVerified
               \/ LookupFails \/ MarkVerified \/ LoseSession \/ StopController \/ CloudStep
      BY <2>2, <3>0, <3>3, ProcsAssumption DEF Replacing, TypeOK, Listed, Verified, CloudStep
    <3> QED
      BY <3>1, <3>2, <3>3 DEF Next, ControllerStep
  <2> QED
    BY <2>1, <2>2
<1> QED
  BY <1>1, InductiveInvariant, TypeCorrect, PTL DEF Spec, ForeignKept
=============================================================================
