------------------------------- MODULE Download -------------------------------
(***************************************************************************)
(* The resumable segmented download of internal/transfer/download.go, with *)
(* the segment checkpoints of the controller's database and the life of    *)
(* the spool file around it (internal/service/cross_drive_import.go).      *)
(*                                                                         *)
(* One source object is downloaded into one spool file by a pool of        *)
(* connections. A segment is checkpointed once its bytes are flushed, so   *)
(* that a later call of Download, after a failure, a cancellation, a crash *)
(* or a power loss, fetches only the missing segments. The spool is used   *)
(* by one caller at a time: the controller runs one task at a time.        *)
(*                                                                         *)
(* The bytes of a segment are its Blocks reads of BufferSize; the content  *)
(* of the spool is, per segment, how many leading blocks hold the source's *)
(* bytes. Bytes never written are the zeros of Truncate. A SHA-1 is the    *)
(* content it was computed from.                                           *)
(***************************************************************************)
EXTENDS Integers, FiniteSets

CONSTANTS
    Segments,       \* how many segments the object has
    Blocks,         \* buffer-sized reads per segment
    Conns,          \* the connections (worker goroutines) of the pool
    Attempts,       \* tries per segment (4 in the code)
    NoHash          \* an empty SHA-1

Segs == 1..Segments
Contents == [Segs -> 0..Blocks]
Source == [s \in Segs |-> Blocks]
Blank == [s \in Segs |-> 0]

ASSUME SizeAssumption == /\ Segments \in Nat
                         /\ Blocks \in Nat \ {0}
                         /\ Attempts \in Nat \ {0}
ASSUME NoHashAssumption == NoHash \notin Contents

VARIABLES
    checkpoint,     \* cross_drive_download_segments_v2: segments on record
    spool,          \* the spool file exists
    disk, durable,  \* its content as the kernel and as the device has it
    sourceHash,     \* the SHA-1 Quark lists for the object, or NoHash
    item,           \* "open", "hashed" or "verified": the item's state
    expected,       \* the item's sha1 column
    removed,        \* history: the spool was removed at least once
    \* one call of Download
    dpc,            \* "idle", "pool" or "hash"
    queue,          \* pending segments not yet handed to a connection
    ctxDone, failure,
    wpc, wseg, written, attempt

storeVars == <<checkpoint, spool, disk, durable>>
itemVars == <<sourceHash, item, expected, removed>>
workerVars == <<wpc, wseg, written, attempt>>
callVars == <<dpc, queue, ctxDone, failure>>
vars == <<storeVars, itemVars, callVars, workerVars>>

TypeOK ==
    /\ checkpoint \subseteq Segs /\ spool \in BOOLEAN
    /\ disk \in Contents /\ durable \in Contents
    /\ sourceHash \in {Source, NoHash}
    /\ item \in {"open", "hashed", "verified"}
    /\ expected \in Contents \cup {NoHash} /\ removed \in BOOLEAN
    /\ dpc \in {"idle", "pool", "hash"} /\ queue \subseteq Segs
    /\ ctxDone \in BOOLEAN /\ failure \in BOOLEAN
    /\ wpc \in [Conns -> {"idle", "fetch", "save", "exit"}]
    /\ wseg \in [Conns -> Nat] /\ written \in [Conns -> 0..Blocks]
    /\ attempt \in [Conns -> 1..Attempts]
    /\ \A w \in Conns : wpc[w] \in {"fetch", "save"} => wseg[w] \in Segs

IdlePool ==
    /\ wpc = [w \in Conns |-> "idle"] /\ wseg = [w \in Conns |-> 0]
    /\ written = [w \in Conns |-> 0] /\ attempt = [w \in Conns |-> 1]

\* A call starts its own connections; a dead process leaves none.
ResetPool ==
    /\ wpc' = [w \in Conns |-> "idle"] /\ wseg' = [w \in Conns |-> 0]
    /\ written' = [w \in Conns |-> 0] /\ attempt' = [w \in Conns |-> 1]

Init ==
    /\ checkpoint = {} /\ spool = FALSE /\ disk = Blank /\ durable = Blank
    /\ sourceHash \in {Source, NoHash}
    /\ item = "open" /\ expected = sourceHash /\ removed = FALSE
    /\ dpc = "idle" /\ queue = {} /\ ctxDone = FALSE /\ failure = FALSE
    /\ IdlePool

-----------------------------------------------------------------------------
(* Download: opening the spool.                                            *)

\* checkpoint.Load, and the in-memory map emptied when os.Stat finds no spool.
TrustedSegments == IF spool THEN checkpoint ELSE {}

\* Everything up to the worker pool: nothing durable but the created, truncated
\* spool. Without pending segments the pool is skipped.
Open ==
    /\ dpc = "idle" /\ item # "verified"
    /\ spool' = TRUE
    /\ queue' = Segs \ TrustedSegments
    /\ dpc' = IF queue' = {} THEN "hash" ELSE "pool"
    /\ ctxDone' = FALSE /\ failure' = FALSE
    /\ ResetPool
    /\ UNCHANGED <<checkpoint, disk, durable, itemVars>>

-----------------------------------------------------------------------------
(* The worker pool.                                                        *)

\* workerCtx is done: the caller's context, or cancel() after a failure.
Stopped == ctxDone \/ failure

\* An index goes through the unbuffered channel to a waiting connection.
Dispatch(w, s) ==
    /\ dpc = "pool" /\ ~Stopped /\ wpc[w] = "idle"
    /\ s \in queue /\ \A u \in queue : s <= u
    /\ queue' = queue \ {s}
    /\ wpc' = [wpc EXCEPT ![w] = "fetch"] /\ wseg' = [wseg EXCEPT ![w] = s]
    /\ written' = [written EXCEPT ![w] = 0] /\ attempt' = [attempt EXCEPT ![w] = 1]
    /\ UNCHANGED <<storeVars, itemVars, dpc, ctxDone, failure>>

Covered(s, n) == IF disk[s] > n THEN disk[s] ELSE n

\* consumeRange: one buffer is read and written at its offset. A cancellation
\* is noticed only before the next read.
FetchBlock(w) ==
    /\ wpc[w] = "fetch" /\ written[w] < Blocks
    /\ written' = [written EXCEPT ![w] = @ + 1]
    /\ disk' = [disk EXCEPT ![wseg[w]] = Covered(wseg[w], written[w] + 1)]
    /\ UNCHANGED <<checkpoint, spool, durable, itemVars, callVars, wpc, wseg, attempt>>

\* Mutant of LastAttempt: the loop runs once too often.
PastLastAttempt(w) == attempt[w] = Attempts + 1
LastAttempt(w) == attempt[w] = Attempts

\* downloadSegment: a failed try is repeated from the bytes already written;
\* the last try, or a done context, ends the connection and cancels the others.
FetchFails(w) ==
    /\ wpc[w] = "fetch"
    /\ IF Stopped \/ LastAttempt(w)
         THEN /\ wpc' = [wpc EXCEPT ![w] = "exit"] /\ failure' = TRUE
              /\ UNCHANGED attempt
         ELSE /\ attempt' = [attempt EXCEPT ![w] = @ + 1]
              /\ UNCHANGED <<wpc, failure>>
    /\ UNCHANGED <<storeVars, itemVars, dpc, queue, ctxDone, wseg, written>>

\* Mutant of Flushed: consumeRange returns without file.Sync.
NotFlushed == durable
\* file.Sync flushes whatever any connection has written.
Flushed == disk

SyncSegment(w) ==
    /\ wpc[w] = "fetch" /\ written[w] = Blocks
    /\ durable' = Flushed
    /\ wpc' = [wpc EXCEPT ![w] = "save"]
    /\ UNCHANGED <<checkpoint, spool, disk, itemVars, callVars, wseg, written, attempt>>

\* checkpoint.Save, whatever the context says: a durable row, or a failure (a
\* database error, or run_owner is no longer this run).
SaveSegment(w) ==
    /\ wpc[w] = "save"
    /\ \/ /\ checkpoint' = checkpoint \cup {wseg[w]}
          /\ wpc' = [wpc EXCEPT ![w] = "idle"] /\ UNCHANGED failure
       \/ /\ wpc' = [wpc EXCEPT ![w] = "exit"] /\ failure' = TRUE
          /\ UNCHANGED checkpoint
    /\ UNCHANGED <<spool, disk, durable, itemVars, dpc, queue, ctxDone, wseg, written, attempt>>

\* Mutant of Drained: the dispatcher waits for a connection to take each index.
HandedOut == queue = {}
\* The dispatcher has closed the channel: everything is handed out, or
\* workerCtx is done.
Drained == queue = {} \/ Stopped

\* workers.Wait returns and the errors are looked at.
PoolReturns ==
    /\ dpc = "pool" /\ Drained /\ \A w \in Conns : wpc[w] \in {"idle", "exit"}
    /\ dpc' = IF Stopped THEN "idle" ELSE "hash"
    /\ UNCHANGED <<storeVars, itemVars, queue, ctxDone, failure, workerVars>>

-----------------------------------------------------------------------------
(* The result, and the life of the item and its spool.                     *)

\* Mutant of HashMatches: the expected SHA-1 is not compared.
AnyHash == TRUE
HashMatches == expected = NoHash \/ expected = disk

\* The last Sync, Hashes and the comparison with ExpectedSHA1; then
\* downloadQuarkItem records the hash with the item.
Accept ==
    /\ dpc = "hash" /\ HashMatches
    /\ dpc' = "idle" /\ durable' = disk
    /\ item' = "hashed" /\ expected' = disk
    /\ UNCHANGED <<checkpoint, spool, disk, sourceHash, removed>>
    /\ UNCHANGED <<queue, ctxDone, failure, workerVars>>

\* "source SHA-1 changed", or the final Sync or the read back fails.
Reject ==
    /\ dpc = "hash"
    /\ dpc' = "idle"
    /\ UNCHANGED <<storeVars, itemVars, queue, ctxDone, failure, workerVars>>

\* The upload is verified on 115 and the item recorded as such.
MarkVerified ==
    /\ dpc = "idle" /\ item = "hashed"
    /\ item' = "verified"
    /\ UNCHANGED <<storeVars, sourceHash, expected, removed, callVars, workerVars>>

\* os.Remove(spool) of a verified item. The segment rows stay.
RemoveSpool ==
    /\ dpc = "idle" /\ item = "verified" /\ spool
    /\ spool' = FALSE /\ disk' = Blank /\ durable' = Blank /\ removed' = TRUE
    /\ UNCHANGED <<checkpoint, sourceHash, item, expected, callVars, workerVars>>

\* Another import of the same object: a fresh row with the listed SHA-1, for
\* which FindReusableCrossDriveSpool returns the same spool path.
NewItem ==
    /\ dpc = "idle"
    /\ item' = "open" /\ expected' = sourceHash
    /\ UNCHANGED <<storeVars, sourceHash, removed, callVars, workerVars>>

Cancel ==
    /\ dpc = "pool" /\ ~ctxDone
    /\ ctxDone' = TRUE
    /\ UNCHANGED <<storeVars, itemVars, dpc, queue, failure, workerVars>>

\* The process dies: files keep what the kernel has.
ProcessCrash ==
    /\ dpc # "idle"
    /\ dpc' = "idle" /\ queue' = {} /\ ctxDone' = FALSE /\ failure' = FALSE
    /\ ResetPool
    /\ UNCHANGED <<storeVars, itemVars>>

\* The machine dies: of the bytes not flushed, any part may survive.
PowerLoss(survived) ==
    /\ survived \in Contents
    /\ \A s \in Segs : durable[s] <= survived[s] /\ survived[s] <= disk[s]
    /\ disk' = survived /\ durable' = survived
    /\ dpc' = "idle" /\ queue' = {} /\ ctxDone' = FALSE /\ failure' = FALSE
    /\ ResetPool
    /\ UNCHANGED <<checkpoint, spool, itemVars>>

-----------------------------------------------------------------------------

WorkerStep(w) ==
    \/ FetchBlock(w) \/ FetchFails(w) \/ SyncSegment(w) \/ SaveSegment(w)

PoolStep ==
    \/ \E w \in Conns : WorkerStep(w) \/ \E s \in Segs : Dispatch(w, s)
    \/ PoolReturns

Next ==
    \/ Open \/ PoolStep \/ Accept \/ Reject
    \/ MarkVerified \/ RemoveSpool \/ NewItem
    \/ Cancel \/ ProcessCrash \/ \E survived \in Contents : PowerLoss(survived)

Spec == Init /\ [][Next]_vars

\* The goroutines of one call keep running: every read returns (the HTTP client
\* has a timeout) and so do the writes, the hash and the database calls.
FairSpec == Spec /\ WF_vars(PoolStep) /\ WF_vars(Accept \/ Reject)

-----------------------------------------------------------------------------
(* Properties.                                                             *)

\* While the spool was never removed, every checkpointed segment is on the
\* device with all its bytes, after any cancellation, failure or power loss:
\* what SaveCrossDriveDownloadSegment calls "a fully written spool segment".
CheckpointedOnDisk == ~removed => \A s \in checkpoint : spool /\ durable[s] = Blocks

\* Download accepts only the source's bytes, if the spool was never removed or
\* if Quark lists a SHA-1: no mixture of resumed and fresh segments, and no
\* hole that a failed or cancelled call left behind, passes.
AcceptedComplete ==
    item = "hashed" /\ (~removed \/ sourceHash # NoHash) => expected = Source

\* TestQuarkDownloadRedownloadsDeletedSpoolDespiteCheckpoints: "deleted spool
\* reused stale segment checkpoints" is the failure it guards against. So what
\* Download accepts is the source's bytes also after a removal.
AcceptedMatchesSource == item = "hashed" => expected = Source

\* A call of Download returns: a failed connection cannot leave the dispatcher
\* or workers.Wait blocked.
DownloadReturns == dpc # "idle" ~> dpc = "idle"

-----------------------------------------------------------------------------
(* The inductive strengthening the proofs in DownloadProofs rest on.       *)

\* Connections work only inside the pool, and the spool exists during a call.
PoolConfined ==
    /\ dpc # "pool" => \A w \in Conns : wpc[w] \in {"idle", "exit"}
    /\ dpc # "idle" => spool

\* The device lags behind the kernel, the kernel has what the connections
\* wrote, and a segment about to be checkpointed is flushed.
WrittenInOrder ==
    /\ \A s \in Segs : durable[s] <= disk[s]
    /\ \A w \in Conns : wpc[w] = "fetch" => written[w] <= disk[wseg[w]]
    /\ \A w \in Conns : wpc[w] = "save" => durable[wseg[w]] = Blocks

\* Until a connection fails, no segment is forgotten: it is on record, waiting
\* or in the hands of a connection.
PoolCovers ==
    /\ dpc = "pool" /\ ~failure /\ ~removed =>
         \A s \in Segs : \/ s \in checkpoint \cup queue
                         \/ \E w \in Conns : wpc[w] \in {"fetch", "save"} /\ wseg[w] = s
    /\ dpc = "hash" /\ ~removed => Segs \subseteq checkpoint

\* A listed SHA-1 is never replaced by another one.
HashKept == sourceHash # NoHash => expected = Source

IInv == PoolConfined /\ WrittenInOrder /\ PoolCovers /\ HashKept
        /\ CheckpointedOnDisk /\ AcceptedComplete
=============================================================================
