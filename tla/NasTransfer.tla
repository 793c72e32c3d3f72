---------------------------- MODULE NasTransfer ----------------------------
(***************************************************************************)
(* The transfer of one Quark object to 115 through the NAS worker: the     *)
(* controller's transferQuarkItemViaNAS (internal/service), the worker     *)
(* process it starts over SSH for each operation (cmd/transfer-worker,     *)
(* internal/transfer/publish.go), the CloudDrive mount the worker writes   *)
(* to and the 115 listing the controller verifies by.                      *)
(*                                                                         *)
(* Three parties fail on their own: the controller may stop, a worker may  *)
(* be killed, and a session may break while its worker goes on: nothing    *)
(* signals it. Until it ends, that worker holds the lock of the source.    *)
(* Only a worker that loses its session before it has the lock is sure to  *)
(* end at its next report, which it writes to a closed pipe.               *)
(*                                                                         *)
(* The bytes of the spool are what Download accepts (module Download). The *)
(* file under the final name and the 115 object are known by what they     *)
(* hold: a whole copy of the spool, a torn one, or somebody else's file.   *)
(***************************************************************************)
EXTENDS Naturals

CONSTANTS
    Procs,          \* the worker processes that can exist at a time
    NoProc,
    MaxRuns,        \* bound on the runs that try the item
    MaxFaults       \* bound on kills, broken sessions, stops, lost uploads

ASSUME ProcsAssumption == NoProc \notin Procs
ASSUME BoundsAssumption == MaxRuns \in Nat /\ MaxFaults \in Nat

VARIABLES
    \* the controller
    item,           \* the item's state column
    destId,         \* its destination_id
    cpc,            \* where the run is
    replace,        \* Request.Replace of the publication
    result,         \* UploadResult.FileID
    why,            \* how the last run failed
    session,        \* the worker serving the call in progress
    runs, faults,
    \* the NAS
    lock,           \* who has the flock of the source
    op, wpc,        \* each worker: operation and position
    wreplace,       \* and its Request.Replace
    spool,          \* the spool file
    \* the mount and 115
    file,           \* the final name on the mount
    cloud, cloudId  \* what 115 lists under that name, and its file ID

controllerVars == <<item, destId, cpc, replace, result, why, session, runs>>
workerVars == <<lock, op, wpc, wreplace>>
remoteVars == <<spool, file, cloud, cloudId>>
vars == <<controllerVars, faults, workerVars, remoteVars>>

Operations == {"download", "publish", "commit"}

TypeOK ==
    /\ item \in {"discovered", "downloaded", "failed", "verified"}
    /\ destId \in Nat /\ result \in Nat /\ cloudId \in Nat
    /\ cpc \in {"idle", "find", "probe", "verify", "mark"} \cup Operations
    /\ replace \in BOOLEAN /\ why \in {"none", "error", "conflict", "timeout"}
    /\ session \in Procs \cup {NoProc} /\ lock \in Procs \cup {NoProc}
    /\ runs \in 0..MaxRuns /\ faults \in 0..MaxFaults
    /\ op \in [Procs -> Operations] /\ wreplace \in [Procs -> BOOLEAN]
    /\ wpc \in [Procs -> {"none", "start", "fetch", "unlink", "doomed", "hash",
                          "remove", "stat", "create", "copy"}]
    /\ spool \in {"none", "partial", "full"}
    /\ file \in {"absent", "open", "torn", "full", "other"}
    /\ cloud \in {"none", "uploading", "provisional", "good", "torn", "foreign"}
    \* the lock dies with its holder, and a call waits for a live worker
    /\ lock # NoProc => wpc[lock] \notin {"none", "start"}
    /\ session # NoProc => wpc[session] # "none" /\ op[session] = cpc

Init ==
    /\ item = "discovered" /\ destId = 0 /\ cpc = "idle" /\ replace = FALSE
    /\ result = 0 /\ why = "none" /\ session = NoProc /\ runs = 0 /\ faults = 0
    /\ lock = NoProc /\ op = [p \in Procs |-> "download"]
    /\ wpc = [p \in Procs |-> "none"] /\ wreplace = [p \in Procs |-> FALSE]
    /\ spool = "none" /\ file = "absent" /\ cloud = "none" /\ cloudId = 0

-----------------------------------------------------------------------------
(* The controller.                                                         *)

\* The run ends with an error: MarkCrossDriveItemFailed.
Fail(reason) == cpc' = "idle" /\ item' = "failed" /\ why' = reason

\* The items loop reaches the item: at first, or on resumption or retry.
BeginItem ==
    /\ cpc = "idle" /\ item # "verified" /\ runs < MaxRuns
    /\ cpc' = "download" /\ runs' = runs + 1
    /\ UNCHANGED <<item, destId, replace, result, why, session, faults>>
    /\ UNCHANGED <<workerVars, remoteVars>>

\* NASWorkerClient.run: ssh starts a worker and hands it the request.
CallWorker(p) ==
    /\ cpc \in Operations /\ session = NoProc /\ wpc[p] = "none"
    /\ session' = p
    /\ op' = [op EXCEPT ![p] = cpc] /\ wpc' = [wpc EXCEPT ![p] = "start"]
    /\ wreplace' = [wreplace EXCEPT ![p] = cpc = "publish" /\ replace]
    /\ UNCHANGED <<item, destId, cpc, replace, result, why, runs, faults, lock, remoteVars>>

\* Mutant of Listed: the look-up asks for the name and the hash, and does not
\* find somebody else's object.
SameHash == cloud \notin {"none", "uploading", "foreign"}
\* findDestinationFile compares whole names, so "<name>**..uploading" is not it.
Listed == cloud \notin {"none", "uploading"}
\* Mutant of Verified: classifyDestination compares the name only.
SameName == Listed
\* classifyDestination = destinationVerified: exact size and SHA-1.
Verified == cloud = "good"

\* The look-up before publishing; without a listed object the import's phase is
\* set to "uploading".
FindDestination ==
    /\ cpc = "find"
    /\ \/ /\ Verified
          /\ result' = cloudId /\ cpc' = "commit" /\ UNCHANGED <<item, why>>
       \/ ~Verified /\ Listed /\ Fail("conflict") /\ UNCHANGED result
       \/ ~Listed /\ cpc' = "probe" /\ UNCHANGED <<item, why, result>>
    /\ UNCHANGED <<destId, replace, session, runs, faults, workerVars, remoteVars>>

\* cloudDriveUploadPlaceholder: the folder has an entry that begins with the name
\* and ends with "..uploading". That is the upload of this name, whoever made it,
\* or the one of a longer name.
Stale(longer) == cloud = "uploading" \/ longer

ProbePlaceholder ==
    /\ cpc = "probe"
    /\ cpc' = "publish" /\ \E longer \in BOOLEAN : replace' = Stale(longer)
    /\ UNCHANGED <<item, destId, result, why, session, runs, faults, workerVars, remoteVars>>

\* Mutant of MayGiveUp: an upload that shows a placeholder is waited for.
IdleOnly == cloud = "none"
\* The idle deadline passes without a placeholder, or the ceiling with one.
MayGiveUp == cloud \in {"none", "uploading"}

\* waitForVerifiedDestination: the poll that decides.
WaitForVerified ==
    /\ cpc = "verify"
    /\ \/ /\ Verified
          /\ result' = cloudId /\ cpc' = "commit" /\ UNCHANGED <<item, why>>
       \/ ~Verified /\ Listed /\ Fail("conflict") /\ UNCHANGED result
       \/ MayGiveUp /\ Fail("timeout") /\ UNCHANGED result
    /\ UNCHANGED <<destId, replace, session, runs, faults, workerVars, remoteVars>>

\* A listing or a write of the import's phase fails.
LookupFails ==
    /\ cpc \in {"find", "probe", "verify"}
    /\ Fail("error")
    /\ UNCHANGED <<destId, replace, result, session, runs, faults, workerVars, remoteVars>>

\* MarkCrossDriveItemVerified; when it fails the item is left as it is.
MarkVerified ==
    /\ cpc = "mark"
    /\ cpc' = "idle"
    /\ \/ item' = "verified" /\ destId' = result
       \/ UNCHANGED <<item, destId>>
    /\ UNCHANGED <<replace, result, why, session, runs, faults, workerVars, remoteVars>>

\* What follows a call that returned its completion event. A download's hashes
\* are recorded; a publication's phase is "verifying".
Proceed ==
    /\ cpc' = CASE cpc = "download" -> "find"
                [] cpc = "publish" -> "verify"
                [] cpc = "commit" -> "mark"
    /\ item' = IF cpc = "download" THEN "downloaded" ELSE item
    /\ UNCHANGED why

-----------------------------------------------------------------------------
(* A worker process.                                                       *)

\* Mutant of Released: a lock file that has to be removed, in place of flock.
LockFileLeft(p) == lock
\* The kernel drops the flock of a process that ends.
Released(p) == IF lock = p THEN NoProc ELSE lock

\* The process p ends with its completion event, or with an error; the call
\* that waits for it returns.
EndWorker(p, ok) ==
    /\ wpc' = [wpc EXCEPT ![p] = "none"] /\ lock' = Released(p)
    /\ \/ /\ session = p /\ session' = NoProc
          /\ IF ok THEN Proceed ELSE Fail("error")
       \/ session # p /\ UNCHANGED <<session, cpc, item, why>>
    /\ UNCHANGED <<destId, replace, result, runs, op, wreplace>>

\* The process p goes on to position pc.
WorkerGoes(p, pc) ==
    /\ wpc' = [wpc EXCEPT ![p] = pc]
    /\ UNCHANGED <<controllerVars, lock, op, wreplace>>

\* Mutant of LockFree: no lock is taken.
NoLock == TRUE
LockFree == lock = NoProc

FirstPosition(p) ==
    CASE op[p] = "download" -> "fetch"
      [] op[p] = "publish" -> IF session = p THEN "hash" ELSE "doomed"
      [] op[p] = "commit" -> "unlink"

\* flock(LOCK_EX | LOCK_NB) on the lock file of the source.
TakeLock(p) ==
    /\ wpc[p] = "start"
    /\ \/ /\ LockFree
          /\ lock' = p /\ wpc' = [wpc EXCEPT ![p] = FirstPosition(p)]
          /\ UNCHANGED <<controllerVars, op, wreplace>>
       \/ ~LockFree /\ EndWorker(p, FALSE)
    /\ UNCHANGED <<faults, remoteVars>>

\* What a download that did not report completion leaves: never less than before.
Fetched == IF spool = "full" THEN {"full"} ELSE {spool, "partial", "full"}

\* transfer.Download: complete, or an error with whatever was fetched.
DownloadSpool(p) ==
    /\ wpc[p] = "fetch"
    /\ \/ spool' = "full" /\ EndWorker(p, TRUE)
       \/ spool' \in Fetched /\ EndWorker(p, FALSE)
    /\ UNCHANGED <<faults, file, cloud, cloudId>>

\* Commit: the spool, then its checkpoint.
RemoveSpool(p) ==
    /\ wpc[p] = "unlink"
    /\ \/ spool' = "none" /\ EndWorker(p, TRUE)
       \/ UNCHANGED spool /\ EndWorker(p, FALSE)
    /\ UNCHANGED <<faults, file, cloud, cloudId>>

\* Access, mount and identity checks, and the report "uploading".
CheckSpool(p) ==
    /\ wpc[p] \in {"hash", "doomed"}
    /\ \/ /\ wpc[p] = "hash" /\ spool = "full"
          /\ WorkerGoes(p, IF wreplace[p] THEN "remove" ELSE "stat")
       \/ EndWorker(p, FALSE)
    /\ UNCHANGED <<faults, remoteVars>>

\* os.Remove of the final name: CloudDrive removes the object with it.
RemoveStale(p) ==
    /\ wpc[p] = "remove"
    /\ \/ file' = "absent" /\ cloud' = "none" /\ WorkerGoes(p, "create")
       \/ UNCHANGED <<file, cloud>> /\ EndWorker(p, FALSE)
    /\ UNCHANGED <<faults, spool, cloudId>>

\* regularFileOfSize: a file of the right size is taken for an earlier
\* publication, whatever it holds.
StatDestination(p) ==
    /\ wpc[p] = "stat"
    /\ \/ file \in {"full", "other"} /\ EndWorker(p, TRUE)
       \/ file \in {"open", "torn", "other"} /\ EndWorker(p, FALSE)
       \/ file = "absent" /\ WorkerGoes(p, "create")
    /\ UNCHANGED <<faults, remoteVars>>

\* os.OpenFile with O_EXCL.
CreateDestination(p) ==
    /\ wpc[p] = "create"
    /\ \/ file = "absent" /\ file' = "open" /\ WorkerGoes(p, "copy")
       \/ UNCHANGED file /\ EndWorker(p, FALSE)
    /\ UNCHANGED <<faults, spool, cloud, cloudId>>

\* copyContext, Sync, Close, Stat; after an error the file is removed again.
CopyToDestination(p) ==
    /\ wpc[p] = "copy"
    /\ \/ file' = "full" /\ EndWorker(p, TRUE)
       \/ file' = "absent" /\ EndWorker(p, FALSE)
    /\ UNCHANGED <<faults, spool, cloud, cloudId>>

-----------------------------------------------------------------------------
(* Failures of the parties, and the cloud.                                 *)

Fault == faults < MaxFaults /\ faults' = faults + 1

\* The session breaks, or the run's context is cancelled and ssh is killed.
\* The worker is not told.
LoseSession ==
    /\ session # NoProc /\ Fault
    /\ session' = NoProc /\ Fail("error")
    /\ UNCHANGED <<destId, replace, result, runs, workerVars, remoteVars>>

\* The controller's process stops; the import is resumed later.
StopController ==
    /\ cpc # "idle" /\ Fault
    /\ cpc' = "idle" /\ session' = NoProc
    /\ UNCHANGED <<item, destId, replace, result, why, runs, workerVars, remoteVars>>

\* A worker is killed. In the middle of the copy it leaves a torn file,
\* at its end a whole one.
KillWorker(p) ==
    /\ wpc[p] # "none" /\ Fault
    /\ EndWorker(p, FALSE)
    /\ file' \in IF wpc[p] = "copy" THEN {"torn", "full"} ELSE {file}
    /\ spool' \in IF wpc[p] = "fetch" THEN Fetched ELSE {spool}
    /\ UNCHANGED <<cloud, cloudId>>

Closed == file \in {"full", "torn", "other"}

\* CloudDrive begins to upload a closed file, whoever wrote it.
StartUpload ==
    /\ Closed /\ cloud = "none"
    /\ cloud' = "uploading"
    /\ UNCHANGED <<controllerVars, faults, workerVars, spool, file, cloudId>>

\* Late in an upload 115 lists the final name "with a provisional size or hash".
ListProvisional ==
    /\ Closed /\ cloud = "uploading"
    /\ cloud' = "provisional" /\ cloudId' = cloudId + 1
    /\ UNCHANGED <<controllerVars, faults, workerVars, spool, file>>

\* The upload is complete.
FinishUpload ==
    /\ Closed /\ cloud \in {"uploading", "provisional"}
    /\ cloud' = CASE file = "full" -> "good"
                  [] file = "torn" -> "torn"
                  [] file = "other" -> "foreign"
    /\ cloudId' = IF cloud = "uploading" THEN cloudId + 1 ELSE cloudId
    /\ UNCHANGED <<controllerVars, faults, workerVars, spool, file>>

\* CloudDrive gives an upload up, or somebody removes the file before it is done.
DropUpload ==
    /\ Closed /\ cloud \in {"none", "uploading", "provisional"} /\ Fault
    /\ file' = "absent" /\ cloud' = "none"
    /\ UNCHANGED <<controllerVars, workerVars, spool, cloudId>>

\* Somebody else uses the free name: writes a file to the mount, which is
\* uploaded like any other, or puts an object on 115 at once.
ForeignAppears ==
    /\ file = "absent" /\ cloud = "none" /\ file' = "other"
    /\ \/ UNCHANGED <<cloud, cloudId>>
       \/ cloud' = "foreign" /\ cloudId' = cloudId + 1
    /\ UNCHANGED <<controllerVars, faults, workerVars, spool>>

-----------------------------------------------------------------------------

ControllerStep ==
    \/ \E p \in Procs : CallWorker(p)
    \/ FindDestination \/ ProbePlaceholder \/ WaitForVerified \/ MarkVerified

WorkerStep(p) ==
    \/ TakeLock(p) \/ DownloadSpool(p) \/ RemoveSpool(p) \/ CheckSpool(p)
    \/ RemoveStale(p) \/ StatDestination(p) \/ CreateDestination(p)
    \/ CopyToDestination(p)

CloudStep ==
    \/ StartUpload \/ ListProvisional \/ FinishUpload \/ DropUpload \/ ForeignAppears

Next ==
    \/ BeginItem \/ ControllerStep \/ LookupFails
    \/ \E p \in Procs : WorkerStep(p) \/ KillWorker(p)
    \/ LoseSession \/ StopController \/ CloudStep

Spec == Init /\ [][Next]_vars

\* The controller's goroutine and the workers keep running: provider calls have
\* timeouts, ssh notices a dead peer (ServerAliveInterval) and the polls end at
\* a deadline. Nothing is assumed of CloudDrive or 115.
FairSpec == Spec /\ WF_vars(ControllerStep) /\ WF_vars(\E p \in Procs : WorkerStep(p))

-----------------------------------------------------------------------------
(* Properties.                                                             *)

\* A whole spool is removed only while 115 holds the exact object, also when a
\* commit outlives its session or runs again, and although a publication may
\* outlive the run that started it (docs/architecture.md: "removes the spool
\* only after Debian verifies the exact 115 object").
SpoolKept == [][spool = "full" /\ spool' # "full" => cloud = "good"]_vars

\* An item recorded as verified names an object that is on 115 with the
\* source's bytes: no worker left over from an earlier run takes it away
\* afterwards. reconcileVerifiedItem fails the import otherwise.
VerifiedHeld == item = "verified" => cloud = "good" /\ destId = cloudId

\* Between its look-up, which found no settled object, and its os.Remove a
\* publication may take the name from whoever has it by then.
Replacing ==
    \/ cpc = "probe" \/ (cpc = "publish" /\ replace /\ session = NoProc)
    \/ \E p \in Procs :
          wreplace[p] /\ ((wpc[p] = "start" /\ session = p) \/ wpc[p] \in {"hash", "remove"})

\* Another object that is settled under the name while no publication is between
\* its look-up and its removal is never touched again, by this run or a later
\* one, by a worker left over or by a retry; and nobody's file is ever written
\* over in place (classifyDestination: "must never be overwritten"). It says
\* nothing of somebody else's upload that is not finished: the code takes it for
\* its own.
ForeignKept ==
    [][/\ cloud = "foreign" /\ ~Replacing
          => cloud' = "foreign" /\ file' = "other" /\ ~Replacing'
       /\ file = "other" => file' \in {"other", "absent"}]_vars

\* A run ends, whatever the upload does: the single task worker is not held for
\* ever by a placeholder that never clears, or by a lock nobody returns.
RunReturns == cpc # "idle" ~> cpc = "idle"

\* "CloudDrive2's asynchronous write-back can leave a same-name entry looking
\* stable with a provisional size or hash for minutes, so a mismatch is waited
\* out rather than failed" (provider_115_upload.go): a run does not report a
\* conflict with its own whole file while that is still being uploaded.
MismatchWaitedOut ==
    [][cpc = "verify" /\ cpc' = "idle" /\ why' = "conflict"
       => ~(file = "full" /\ cloud = "provisional")]_vars

-----------------------------------------------------------------------------
(* The inductive strengthening the proofs in NasTransferProofs rest on.    *)

Publishing == {"hash", "remove", "stat", "create", "copy"}

\* Only the holder of the lock is past it, at positions of its operation.
LockExclusive ==
    \A p \in Procs :
        /\ wpc[p] \notin {"none", "start"} => lock = p
        /\ wpc[p] = "unlink" => op[p] = "commit"
        /\ wpc[p] \in Publishing \/ wreplace[p] => op[p] = "publish"
        /\ wpc[p] = "remove" => wreplace[p]

\* A publication is the call in progress, or nobody's: then no run is past the
\* download, whose call needs the lock. Verified items are not tried again.
PublisherAlone ==
    /\ \A p \in Procs :
          wpc[p] \in Publishing =>
              item # "verified" /\ (session # p => cpc \in {"idle", "download"})
    /\ cpc # "idle" => item # "verified"

\* Once a run has a result the object stays, and a commit follows a result.
ResultHeld ==
    /\ cpc \in {"commit", "mark"} => cloud = "good" /\ result = cloudId
    /\ \A p \in Procs : op[p] = "commit" /\ wpc[p] # "none" => cloud = "good"

\* What 115 lists is the file on the mount, and a copy in progress is not listed.
CloudMatchesFile ==
    /\ cloud = "good" => file = "full"
    /\ cloud = "foreign" => file = "other"
    /\ file = "other" => cloud \notin {"good", "torn"}
    /\ file \in {"absent", "open"} => cloud = "none"
    /\ \A p \in Procs : wpc[p] = "copy" => file = "open"

\* No commit has followed an earlier publication when the name may be replaced.
ReplaceUncommitted ==
    Replacing => \A q \in Procs : op[q] = "commit" => wpc[q] = "none"

IInv == LockExclusive /\ PublisherAlone /\ ResultHeld /\ CloudMatchesFile
        /\ ReplaceUncommitted /\ VerifiedHeld
=============================================================================
