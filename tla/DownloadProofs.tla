---------------------------- MODULE DownloadProofs ----------------------------
(* Proofs about Download, for any number of segments, blocks, connections  *)
(* and attempts.                                                           *)
EXTENDS Download, TLAPS

\* The source's content and the blank content are contents.
LEMMA ContentTypes == Source \in Contents /\ Blank \in Contents
BY SizeAssumption DEF Source, Blank, Contents

\* The variables of a pool at rest.
LEMMA IdlePoolTypes ==
    ASSUME IdlePool
    PROVE  /\ wpc \in [Conns -> {"idle", "fetch", "save", "exit"}]
           /\ wseg \in [Conns -> Nat] /\ written \in [Conns -> 0..Blocks]
           /\ attempt \in [Conns -> 1..Attempts]
           /\ \A w \in Conns : wpc[w] = "idle"
BY SizeAssumption DEF IdlePool

\* The same after a step that puts the pool at rest.
LEMMA ResetPoolTypes ==
    ASSUME ResetPool
    PROVE  /\ wpc' \in [Conns -> {"idle", "fetch", "save", "exit"}]
           /\ wseg' \in [Conns -> Nat] /\ written' \in [Conns -> 0..Blocks]
           /\ attempt' \in [Conns -> 1..Attempts]
           /\ \A w \in Conns : wpc'[w] = "idle"
BY SizeAssumption DEF ResetPool

\* Every step keeps the types.
LEMMA TypeStep ==
    ASSUME TypeOK, [Next]_vars
    PROVE  TypeOK'
<1> USE SizeAssumption, ContentTypes
<1>1. CASE Open
  BY <1>1, ResetPoolTypes DEF TypeOK, Open, TrustedSegments, itemVars
<1>2. ASSUME NEW w \in Conns, NEW s \in Segs, Dispatch(w, s)
      PROVE  TypeOK'
  BY <1>2 DEF TypeOK, Dispatch, storeVars, itemVars, Segs
<1>3. ASSUME NEW w \in Conns, FetchBlock(w)
      PROVE  TypeOK'
  <2>1. wseg[w] \in Segs /\ written[w] + 1 \in 0..Blocks
    BY <1>3 DEF TypeOK, FetchBlock
  <2>2. disk' \in Contents
    BY <1>3, <2>1 DEF TypeOK, FetchBlock, Contents, Covered
  <2> QED
    BY <1>3, <2>1, <2>2 DEF TypeOK, FetchBlock, itemVars, callVars
<1>4. ASSUME NEW w \in Conns, FetchFails(w)
      PROVE  TypeOK'
  <2>1. /\ attempt' \in [Conns -> 1..Attempts] /\ failure' \in BOOLEAN
        /\ wpc' \in [Conns -> {"idle", "fetch", "save", "exit"}]
        /\ \A v \in Conns : wpc'[v] \in {"fetch", "save"} => wpc[v] \in {"fetch", "save"}
    <3>1. CASE Stopped \/ LastAttempt(w)
      BY <1>4, <3>1 DEF TypeOK, FetchFails
    <3>2. CASE ~(Stopped \/ LastAttempt(w))
      <4>1. attempt[w] + 1 \in 1..Attempts
        BY <3>2 DEF TypeOK, LastAttempt
      <4> QED
        BY <1>4, <3>2, <4>1 DEF TypeOK, FetchFails
    <3> QED
      BY <3>1, <3>2
  <2> QED
    BY <1>4, <2>1 DEF TypeOK, FetchFails, storeVars, itemVars
<1>5. ASSUME NEW w \in Conns, SyncSegment(w)
      PROVE  TypeOK'
  BY <1>5 DEF TypeOK, SyncSegment, Flushed, itemVars, callVars
<1>6. ASSUME NEW w \in Conns, SaveSegment(w)
      PROVE  TypeOK'
  BY <1>6 DEF TypeOK, SaveSegment, itemVars
<1>7. CASE PoolReturns
  BY <1>7 DEF TypeOK, PoolReturns, storeVars, itemVars, workerVars
<1>8. CASE Accept
  BY <1>8 DEF TypeOK, Accept, workerVars
<1>9. CASE Reject
  BY <1>9 DEF TypeOK, Reject, storeVars, itemVars, workerVars
<1>10. CASE MarkVerified
  BY <1>10 DEF TypeOK, MarkVerified, storeVars, callVars, workerVars
<1>11. CASE RemoveSpool
  BY <1>11 DEF TypeOK, RemoveSpool, callVars, workerVars
<1>12. CASE NewItem
  BY <1>12 DEF TypeOK, NewItem, storeVars, callVars, workerVars
<1>13. CASE Cancel
  BY <1>13 DEF TypeOK, Cancel, storeVars, itemVars, workerVars
<1>14. CASE ProcessCrash
  BY <1>14, ResetPoolTypes DEF TypeOK, ProcessCrash, storeVars, itemVars
<1>15. ASSUME NEW survived \in Contents, PowerLoss(survived)
       PROVE  TypeOK'
  BY <1>15, ResetPoolTypes DEF TypeOK, PowerLoss, itemVars
<1>16. CASE UNCHANGED vars
  BY <1>16 DEF TypeOK, vars, storeVars, itemVars, callVars, workerVars
<1> QED
  BY <1>1, <1>2, <1>3, <1>4, <1>5, <1>6, <1>7, <1>8, <1>9, <1>10, <1>11, <1>12,
     <1>13, <1>14, <1>15, <1>16 DEF Next, PoolStep, WorkerStep

\* The type invariant holds in every reachable state.
THEOREM TypeCorrect == Spec => []TypeOK
<1>1. Init => TypeOK
  BY SizeAssumption, ContentTypes, IdlePoolTypes DEF Init, TypeOK
<1>2. TypeOK /\ [Next]_vars => TypeOK'
  BY TypeStep
<1> QED
  BY <1>1, <1>2, PTL DEF Spec

-----------------------------------------------------------------------------
(* The inductive invariant, conjunct by conjunct.                          *)

\* Connections stay inside the pool.
LEMMA PoolConfinedStep ==
    ASSUME TypeOK, PoolConfined, [Next]_vars
    PROVE  PoolConfined'
<1> USE DEF PoolConfined, storeVars, itemVars, callVars, workerVars
<1>1. CASE Open
  BY <1>1, ResetPoolTypes DEF Open
<1>2. ASSUME NEW w \in Conns, NEW s \in Segs, Dispatch(w, s)
      PROVE  PoolConfined'
  BY <1>2 DEF Dispatch
<1>3. ASSUME NEW w \in Conns, WorkerStep(w)
      PROVE  PoolConfined'
  <2>1. dpc = "pool" /\ dpc' = "pool" /\ spool' = spool
    BY <1>3 DEF WorkerStep, FetchBlock, FetchFails, SyncSegment, SaveSegment
  <2> QED
    BY <2>1
<1>4. CASE PoolReturns
  BY <1>4 DEF PoolReturns
<1>5. CASE Accept \/ Reject
  BY <1>5 DEF Accept, Reject
<1>6. CASE MarkVerified \/ RemoveSpool \/ NewItem \/ Cancel
  BY <1>6 DEF MarkVerified, RemoveSpool, NewItem, Cancel
<1>7. CASE ProcessCrash
  BY <1>7, ResetPoolTypes DEF ProcessCrash
<1>8. ASSUME NEW survived \in Contents, PowerLoss(survived)
      PROVE  PoolConfined'
  BY <1>8, ResetPoolTypes DEF PowerLoss
<1>9. CASE UNCHANGED vars
  BY <1>9 DEF vars
<1> QED
  BY <1>1, <1>2, <1>3, <1>4, <1>5, <1>6, <1>7, <1>8, <1>9 DEF Next, PoolStep

\* Kernel and device keep up with the connections.
LEMMA WrittenInOrderStep ==
    ASSUME TypeOK, PoolConfined, WrittenInOrder, [Next]_vars
    PROVE  WrittenInOrder'
<1> USE SizeAssumption DEF WrittenInOrder, TypeOK, Contents, storeVars, itemVars, callVars, workerVars
<1>1. CASE Open
  BY <1>1, ResetPoolTypes DEF Open
<1>2. ASSUME NEW w \in Conns, NEW s \in Segs, Dispatch(w, s)
      PROVE  WrittenInOrder'
  BY <1>2 DEF Dispatch
<1>3. ASSUME NEW w \in Conns, FetchBlock(w)
      PROVE  WrittenInOrder'
  <2>1. wseg[w] \in Segs /\ written[w] + 1 \in 0..Blocks
    BY <1>3 DEF FetchBlock
  <2>2. \A s \in Segs : disk[s] <= disk'[s]
    BY <1>3, <2>1 DEF FetchBlock, Covered
  <2>3. written'[w] <= disk'[wseg[w]]
    BY <1>3, <2>1 DEF FetchBlock, Covered
  <2>4. \A s \in Segs : disk[s] \in Nat /\ disk'[s] \in Nat /\ durable[s] \in Nat
    BY <1>3, <2>1 DEF FetchBlock, Covered
  <2>5. \A s \in Segs : durable'[s] <= disk'[s]
    BY <1>3, <2>2, <2>4 DEF FetchBlock
  <2>6. \A v \in Conns : wpc'[v] = "fetch" => written'[v] <= disk'[wseg'[v]]
    BY <1>3, <2>2, <2>3, <2>4 DEF FetchBlock
  <2> QED
    BY <1>3, <2>5, <2>6 DEF FetchBlock
<1>4. ASSUME NEW w \in Conns, FetchFails(w)
      PROVE  WrittenInOrder'
  BY <1>4 DEF FetchFails
<1>5. ASSUME NEW w \in Conns, SyncSegment(w)
      PROVE  WrittenInOrder'
  <2>1. wseg[w] \in Segs /\ disk[wseg[w]] = Blocks
    BY <1>5 DEF SyncSegment
  <2>2. \A s \in Segs : durable'[s] = disk[s] /\ (durable[s] = Blocks => disk[s] = Blocks)
    BY <1>5 DEF SyncSegment, Flushed
  <2> QED
    BY <1>5, <2>1, <2>2 DEF SyncSegment
<1>6. ASSUME NEW w \in Conns, SaveSegment(w)
      PROVE  WrittenInOrder'
  BY <1>6 DEF SaveSegment
<1>7. CASE PoolReturns \/ Reject \/ MarkVerified \/ NewItem \/ Cancel
  BY <1>7 DEF PoolReturns, Reject, MarkVerified, NewItem, Cancel
<1>8. CASE Accept
  BY <1>8 DEF Accept, PoolConfined
<1>9. CASE RemoveSpool
  <2>1. \A w \in Conns : wpc'[w] \in {"idle", "exit"}
    BY <1>9 DEF RemoveSpool, PoolConfined
  <2> QED
    BY <1>9, <2>1 DEF RemoveSpool, Blank
<1>10. CASE ProcessCrash
  BY <1>10, ResetPoolTypes DEF ProcessCrash
<1>11. ASSUME NEW survived \in Contents, PowerLoss(survived)
       PROVE  WrittenInOrder'
  BY <1>11, ResetPoolTypes DEF PowerLoss
<1>12. CASE UNCHANGED vars
  BY <1>12 DEF vars
<1> QED
  BY <1>1, <1>2, <1>3, <1>4, <1>5, <1>6, <1>7, <1>8, <1>9, <1>10, <1>11, <1>12
  DEF Next, PoolStep, WorkerStep

\* No segment is lost between the record, the queue and the connections.
LEMMA PoolCoversStep ==
    ASSUME TypeOK, PoolConfined, PoolCovers, CheckpointedOnDisk, [Next]_vars
    PROVE  PoolCovers'
<1> USE DEF PoolCovers, TypeOK, storeVars, itemVars, callVars, workerVars
<1>1. CASE Open
  BY <1>1 DEF Open, TrustedSegments, CheckpointedOnDisk
<1>2. ASSUME NEW w \in Conns, NEW s \in Segs, Dispatch(w, s)
      PROVE  PoolCovers'
  <2>1. wpc'[w] = "fetch" /\ wseg'[w] = s /\ queue' = queue \ {s}
    BY <1>2 DEF Dispatch
  <2>2. \A v \in Conns : wpc[v] \in {"fetch", "save"} => wpc'[v] = wpc[v] /\ wseg'[v] = wseg[v]
    BY <1>2 DEF Dispatch
  <2> QED
    BY <1>2, <2>1, <2>2 DEF Dispatch
<1>3. ASSUME NEW w \in Conns, FetchBlock(w)
      PROVE  PoolCovers'
  BY <1>3 DEF FetchBlock
<1>4. ASSUME NEW w \in Conns, FetchFails(w)
      PROVE  PoolCovers'
  BY <1>4 DEF FetchFails
<1>5. ASSUME NEW w \in Conns, SyncSegment(w)
      PROVE  PoolCovers'
  <2>1. \A v \in Conns : wpc[v] \in {"fetch", "save"} => wpc'[v] \in {"fetch", "save"} /\ wseg'[v] = wseg[v]
    BY <1>5 DEF SyncSegment
  <2> QED
    BY <1>5, <2>1 DEF SyncSegment
<1>6. ASSUME NEW w \in Conns, SaveSegment(w)
      PROVE  PoolCovers'
  <2>1. \A v \in Conns \ {w} : wpc'[v] = wpc[v] /\ wseg'[v] = wseg[v]
    BY <1>6 DEF SaveSegment
  <2>2. failure' \/ checkpoint' = checkpoint \cup {wseg[w]}
    BY <1>6 DEF SaveSegment
  <2>3. dpc' = dpc /\ dpc = "pool" /\ queue' = queue /\ removed' = removed /\ (failure => failure')
    BY <1>6 DEF SaveSegment, PoolConfined
  <2> QED
    BY <2>1, <2>2, <2>3
<1>7. CASE PoolReturns
  BY <1>7 DEF PoolReturns, Drained, Stopped
<1>8. CASE Accept \/ Reject \/ MarkVerified \/ RemoveSpool \/ NewItem \/ Cancel
  BY <1>8 DEF Accept, Reject, MarkVerified, RemoveSpool, NewItem, Cancel
<1>9. CASE ProcessCrash
  BY <1>9 DEF ProcessCrash
<1>10. ASSUME NEW survived \in Contents, PowerLoss(survived)
       PROVE  PoolCovers'
  BY <1>10 DEF PowerLoss
<1>11. CASE UNCHANGED vars
  BY <1>11 DEF vars
<1> QED
  BY <1>1, <1>2, <1>3, <1>4, <1>5, <1>6, <1>7, <1>8, <1>9, <1>10, <1>11
  DEF Next, PoolStep, WorkerStep

\* What is on record stays on the device.
LEMMA CheckpointedStep ==
    ASSUME TypeOK, PoolConfined, WrittenInOrder, CheckpointedOnDisk, [Next]_vars
    PROVE  CheckpointedOnDisk'
<1> USE SizeAssumption DEF CheckpointedOnDisk, TypeOK, Contents, storeVars, itemVars, callVars, workerVars
<1>1. \A s \in Segs : durable[s] = Blocks => disk[s] = Blocks
  BY DEF WrittenInOrder
<1>2. CASE Open \/ \E w \in Conns, s \in Segs : Dispatch(w, s)
  BY <1>2 DEF Open, Dispatch
<1>3. ASSUME NEW w \in Conns, FetchBlock(w) \/ FetchFails(w)
      PROVE  CheckpointedOnDisk'
  BY <1>3 DEF FetchBlock, FetchFails
<1>4. ASSUME NEW w \in Conns, SyncSegment(w)
      PROVE  CheckpointedOnDisk'
  BY <1>1, <1>4 DEF SyncSegment, Flushed
<1>5. ASSUME NEW w \in Conns, SaveSegment(w)
      PROVE  CheckpointedOnDisk'
  <2>1. spool /\ durable[wseg[w]] = Blocks
    BY <1>5 DEF SaveSegment, WrittenInOrder, PoolConfined
  <2> QED
    BY <1>5, <2>1 DEF SaveSegment
<1>6. CASE PoolReturns \/ Reject \/ MarkVerified \/ NewItem \/ Cancel \/ ProcessCrash
  BY <1>6 DEF PoolReturns, Reject, MarkVerified, NewItem, Cancel, ProcessCrash
<1>7. CASE Accept
  BY <1>1, <1>7 DEF Accept
<1>8. CASE RemoveSpool
  BY <1>8 DEF RemoveSpool
<1>9. ASSUME NEW survived \in Contents, PowerLoss(survived)
      PROVE  CheckpointedOnDisk'
  <2>1. \A s \in Segs : durable[s] = Blocks => survived[s] = Blocks
    BY <1>9 DEF PowerLoss
  <2> QED
    BY <1>9, <2>1 DEF PowerLoss
<1>10. CASE UNCHANGED vars
  BY <1>10 DEF vars
<1> QED
  BY <1>2, <1>3, <1>4, <1>5, <1>6, <1>7, <1>8, <1>9, <1>10 DEF Next, PoolStep, WorkerStep

\* What is hashed at the end of a call is the source, if nothing was removed.
LEMMA HashedContent ==
    ASSUME TypeOK, WrittenInOrder, PoolCovers, CheckpointedOnDisk, dpc = "hash", ~removed
    PROVE  disk = Source
<1>1. \A s \in Segs : durable[s] = Blocks
  BY DEF PoolCovers, CheckpointedOnDisk
<1>2. \A s \in Segs : disk[s] = Blocks
  BY <1>1, SizeAssumption DEF WrittenInOrder, TypeOK, Contents
<1> QED
  BY <1>2 DEF Source, TypeOK, Contents

\* The item's SHA-1 is the source's where one is listed or nothing was removed.
LEMMA AcceptedStep ==
    ASSUME TypeOK, WrittenInOrder, PoolCovers, CheckpointedOnDisk, HashKept, AcceptedComplete,
           [Next]_vars
    PROVE  HashKept' /\ AcceptedComplete'
<1> USE DEF HashKept, AcceptedComplete
<1>1. CASE Accept
  <2>1. sourceHash # NoHash => disk = Source
    BY <1>1, ContentTypes, NoHashAssumption DEF Accept, HashMatches
  <2>2. ~removed => disk = Source
    BY <1>1, HashedContent DEF Accept
  <2> QED
    BY <1>1, <2>1, <2>2 DEF Accept
<1>2. CASE NewItem
  BY <1>2 DEF NewItem, TypeOK
<1>3. CASE RemoveSpool \/ MarkVerified
  BY <1>3 DEF RemoveSpool, MarkVerified
<1>4. CASE UNCHANGED itemVars
  BY <1>4 DEF itemVars
<1>5. Accept \/ NewItem \/ RemoveSpool \/ MarkVerified \/ UNCHANGED itemVars
  BY DEF Next, PoolStep, WorkerStep, Open, Dispatch, FetchBlock, FetchFails, SyncSegment,
     SaveSegment, PoolReturns, Reject, Cancel, ProcessCrash, PowerLoss, vars
<1> QED
  BY <1>1, <1>2, <1>3, <1>4, <1>5

\* The strengthening is an invariant of the download.
LEMMA InductiveInvariant == Spec => []IInv
<1>1. Init => IInv
  <2> SUFFICES ASSUME Init
               PROVE  IInv
    OBVIOUS
  <2>1. \A w \in Conns : wpc[w] = "idle"
    BY IdlePoolTypes DEF Init
  <2>2. \A s \in Segs : durable[s] <= disk[s]
    BY DEF Init, Blank
  <2> QED
    BY <2>1, <2>2 DEF Init, IInv, PoolConfined, WrittenInOrder, PoolCovers, HashKept,
       CheckpointedOnDisk, AcceptedComplete
<1>2. TypeOK /\ IInv /\ [Next]_vars => IInv'
  BY PoolConfinedStep, WrittenInOrderStep, PoolCoversStep, CheckpointedStep, AcceptedStep DEF IInv
<1> QED
  BY <1>1, <1>2, TypeCorrect, PTL DEF Spec

\* A segment on record is on the device with all its bytes as long as the spool
\* was never removed: no order of reads, flushes, failures, cancellations,
\* crashes and power losses records a segment too early.
THEOREM CheckpointsAreDurable == Spec => []CheckpointedOnDisk
BY InductiveInvariant, PTL DEF IInv

\* Download accepts only the source's bytes as long as the spool was never
\* removed or Quark lists the object's SHA-1, for any number of segments and
\* connections.
THEOREM AcceptsOnlySource == Spec => []AcceptedComplete
BY InductiveInvariant, PTL DEF IInv
=============================================================================
