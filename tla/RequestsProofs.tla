--------------------------- MODULE RequestsProofs ---------------------------
(***************************************************************************)
(* Proofs about the composed server of Requests, for any numbers of        *)
(* approvals, calls, objects, items, fills and changes.                    *)
(*                                                                         *)
(* The parts are proved one by one and rely on each other only through the *)
(* 115 account. The subscriptions share nothing with the rest, so a        *)
(* behaviour of the server is one of theirs (SubscriptionsStep) and        *)
(* SubscriptionsProofs applies. The webhook has an invariant of its own    *)
(* (WInv). Approvals and deletions write the same account: each keeps its  *)
(* invariant (IInv, DInv) under any step of the other, of which it only    *)
(* needs that a recycled object never comes back (AccountStep).            *)
(***************************************************************************)
EXTENDS Requests, WellFoundedInduction, TLAPS

-----------------------------------------------------------------------------
(* Approvals by themselves. ApprovalSpentOnce is not inductive: it does    *)
(* not say who still may start a deletion. The strengthening is that a     *)
(* call past its claim is the only one for its approval and the row stays  *)
(* executing until that call writes the result (HolderAlone, Holding),     *)
(* that a claim has not been used before (ClaimUnused), and that the rows  *)
(* which can still be claimed, or became so, were never used (Unused,      *)
(* BrowserDecided).                                                        *)

Held == {"claimed", "deleted", "refused"}
Spent == {"executing", "executed", "failed"}

Holding ==
    \A c \in Calls : call[c].pc \in Held =>
        call[c].id \in ApprovalIDs /\ status[call[c].id] = "executing"
HolderAlone ==
    \A c, d \in Calls :
        call[c].pc \in Held /\ call[d].pc \in Held /\ call[c].id = call[d].id => c = d
ClaimUnused == \A c \in Calls : call[c].pc = "claimed" => deletes[call[c].id] = 0
Unused == \A a \in ApprovalIDs : /\ status[a] \notin Spent => deletes[a] = 0
                                 /\ deletes[a] <= 1
BrowserDecided ==
    \A a \in ApprovalIDs : status[a] \in Spent \cup {"approved"} => decidedBy[a] = "browser"

IInv == TypeOK /\ Holding /\ HolderAlone /\ ClaimUnused /\ Unused /\ BrowserDecided

\* Nothing is claimed and nothing deleted when there are no rows.
LEMMA InitIInv ==
    Init => IInv
<1> SUFFICES ASSUME Init PROVE IInv
  OBVIOUS
<1>1. TypeOK
  <2>1. drive \in [Files -> Paths \cup {Gone}]
    BY DEF Init
  <2>2. call = [c \in Calls |-> [pc |-> "idle", id |-> NoApproval, ids |-> {}]]
    BY DEF Init, Idle
  <2>3. clock \in 0..MaxTime /\ expiresAt \in [ApprovalIDs -> 0 .. MaxTime + Ttl]
    BY ClockAssumption DEF Init
  <2>4. call \in [Calls -> [pc : {"idle", "resolved", "claimed", "deleted",
                                 "refused", "permitted"},
                           id : ApprovalIDs \cup {NoApproval}, ids : SUBSET Files]]
    BY <2>2
  <2>5. status \in [ApprovalIDs -> {"absent", "pending", "approved", "rejected",
                                 "expired", "executing", "executed", "failed"}]
    BY DEF Init
  <2>6. /\ targets \in [ApprovalIDs -> SUBSET Files]
        /\ decidedBy \in [ApprovalIDs -> {"nobody", "browser", "agent"}]
        /\ deletes \in [ApprovalIDs -> Nat]
    BY DEF Init
  <2>7. dangerous \in BOOLEAN
    BY DEF Init
  <2> QED BY <2>1, <2>3, <2>4, <2>5, <2>6, <2>7 DEF TypeOK
<1>2. Holding /\ HolderAlone /\ ClaimUnused
  BY DEF Init, Holding, HolderAlone, ClaimUnused, Idle, Held
<1>3. Unused /\ BrowserDecided
  BY DEF Init, Unused, BrowserDecided, Spent
<1> QED BY <1>1, <1>2, <1>3 DEF IInv

\* Every step of a call, of a browser, of the clock or of the process keeps the
\* state within its ranges.
LEMMA TypeStep ==
    ASSUME TypeOK, Holding, [Next \/ Crash]_vars
    PROVE  TypeOK'
<1> USE DEF rows, Idle
<1>1. ASSUME NEW c \in Calls, NEW ids \in SUBSET Files,
             ResolveDeleteTargets(c, ids) \/ PermitDelete(c, ids)
      PROVE  TypeOK'
  BY <1>1 DEF TypeOK, ResolveDeleteTargets, PermitDelete
<1>2. ASSUME NEW c \in Calls, NEW a \in ApprovalIDs, CreateDestructiveApproval(c, a)
      PROVE  TypeOK'
  BY ClockAssumption, <1>2 DEF TypeOK, CreateDestructiveApproval
<1>3. ASSUME NEW c \in Calls, NEW a \in ApprovalIDs, ClaimDestructiveApproval(c, a)
      PROVE  TypeOK'
  BY <1>3 DEF TypeOK, ClaimDestructiveApproval, Claim
<1>4. ASSUME NEW c \in Calls, DeleteProvider(c)
      PROVE  TypeOK'
  BY <1>4 DEF TypeOK, DeleteProvider, Deletes, Holding, Held
<1>5. ASSUME NEW c \in Calls, FinishDestructiveApproval(c)
      PROVE  TypeOK'
  BY <1>5 DEF TypeOK, FinishDestructiveApproval
<1>6. ASSUME NEW c \in Calls, HandleDelete(c)
      PROVE  TypeOK'
  BY <1>6 DEF TypeOK, HandleDelete, Deletes
<1>7. ASSUME NEW a \in ApprovalIDs, NEW by \in {"browser", "agent"},
             NEW decision \in {"approved", "rejected"},
             DecideDestructiveApproval(a, decision, by)
      PROVE  TypeOK'
  BY <1>7 DEF TypeOK, DecideDestructiveApproval
<1>8. ASSUME NEW value \in BOOLEAN, NEW by \in {"browser", "agent"}, UpdateSettings(value, by)
      PROVE  TypeOK'
  BY <1>8 DEF TypeOK, UpdateSettings
<1>9. ASSUME NEW f \in Files, NEW p \in Paths, MoveProvider(f, p)
      PROVE  TypeOK'
  BY <1>9 DEF TypeOK, MoveProvider
<1>10. CASE ListPendingDestructiveApprovals
  BY <1>10 DEF TypeOK, ListPendingDestructiveApprovals
<1>11. CASE Tick
  BY ClockAssumption, <1>11 DEF TypeOK, Tick
<1>12. CASE Crash
  BY <1>12 DEF TypeOK, Crash
<1>13. CASE UNCHANGED vars
  BY <1>13 DEF TypeOK, vars
<1> QED BY <1>1, <1>2, <1>3, <1>4, <1>5, <1>6, <1>7, <1>8, <1>9, <1>10, <1>11, <1>12,
           <1>13 DEF Next

\* A step that writes neither approval rows nor the calls past their claim
\* leaves the rest of the invariant alone.
LEMMA RowsKept ==
    ASSUME TypeOK, Holding, HolderAlone, ClaimUnused, Unused, BrowserDecided,
           UNCHANGED <<status, decidedBy, deletes>>,
           \A c \in Calls : call'[c].pc \in Held => call'[c] = call[c]
    PROVE  Holding' /\ HolderAlone' /\ ClaimUnused' /\ Unused' /\ BrowserDecided'
<1>1. Holding' BY DEF Holding
<1>2. HolderAlone' BY DEF HolderAlone
<1>3. ClaimUnused' BY DEF ClaimUnused, Held
<1>4. Unused' /\ BrowserDecided' BY DEF Unused, BrowserDecided
<1> QED BY <1>1, <1>2, <1>3, <1>4

\* Overlapping calls, decisions, expiry and crashes keep an approval with the
\* one call that claimed it.
LEMMA HoldersStep ==
    ASSUME TypeOK, Holding, HolderAlone, ClaimUnused, Unused, BrowserDecided,
           [Next \/ Crash]_vars
    PROVE  Holding' /\ HolderAlone' /\ ClaimUnused' /\ Unused' /\ BrowserDecided'
<1> DEFINE Rest == Holding /\ HolderAlone /\ ClaimUnused /\ Unused /\ BrowserDecided
<1> USE DEF rows
<1>1. ASSUME NEW c \in Calls, NEW ids \in SUBSET Files,
             ResolveDeleteTargets(c, ids) \/ PermitDelete(c, ids)
      PROVE  Rest'
  <2>1. \A d \in Calls : call'[d].pc \in Held => call'[d] = call[d]
    BY <1>1 DEF TypeOK, ResolveDeleteTargets, PermitDelete, Held
  <2> QED BY <1>1, <2>1, RowsKept DEF ResolveDeleteTargets, PermitDelete
<1>2. ASSUME NEW c \in Calls, NEW a \in ApprovalIDs, CreateDestructiveApproval(c, a)
      PROVE  Rest'
  BY <1>2 DEF CreateDestructiveApproval, TypeOK, Holding, HolderAlone, ClaimUnused, Unused,
              BrowserDecided, Held, Spent, Idle
<1>3. ASSUME NEW c \in Calls, NEW a \in ApprovalIDs, ClaimDestructiveApproval(c, a)
      PROVE  Rest'
  BY <1>3 DEF ClaimDestructiveApproval, Claim, TypeOK, Holding, HolderAlone, ClaimUnused,
              Unused, BrowserDecided, Held, Spent
<1>4. ASSUME NEW c \in Calls, DeleteProvider(c)
      PROVE  Rest'
  BY <1>4 DEF DeleteProvider, TypeOK, Holding, HolderAlone, ClaimUnused, Unused,
              BrowserDecided, Held, Spent
<1>5. ASSUME NEW c \in Calls, FinishDestructiveApproval(c)
      PROVE  Rest'
  BY <1>5 DEF FinishDestructiveApproval, TypeOK, Holding, HolderAlone, ClaimUnused, Unused,
              BrowserDecided, Held, Spent, Idle
<1>6. ASSUME NEW c \in Calls, HandleDelete(c)
      PROVE  Rest'
  <2>1. \A d \in Calls : call'[d].pc \in Held => call'[d] = call[d]
    BY <1>6 DEF TypeOK, HandleDelete, Idle, Held
  <2> QED BY <1>6, <2>1, RowsKept DEF HandleDelete
<1>7. ASSUME NEW a \in ApprovalIDs, NEW by \in {"browser", "agent"},
             NEW decision \in {"approved", "rejected"},
             DecideDestructiveApproval(a, decision, by)
      PROVE  Rest'
  BY <1>7 DEF DecideDestructiveApproval, requireBrowserDecision, TypeOK, Holding,
              HolderAlone, ClaimUnused, Unused, BrowserDecided, Held, Spent
<1>8. ASSUME NEW value \in BOOLEAN, NEW by \in {"browser", "agent"}, UpdateSettings(value, by)
      PROVE  Rest'
  BY <1>8, RowsKept DEF UpdateSettings
<1>9. ASSUME NEW f \in Files, NEW p \in Paths, MoveProvider(f, p)
      PROVE  Rest'
  BY <1>9, RowsKept DEF MoveProvider
<1>10. CASE ListPendingDestructiveApprovals
  BY <1>10 DEF ListPendingDestructiveApprovals, TypeOK, Holding, HolderAlone, ClaimUnused,
               Unused, BrowserDecided, Held, Spent
<1>11. CASE Tick
  BY <1>11, RowsKept DEF Tick
<1>12. CASE Crash
  <2>1. \A d \in Calls : call'[d].pc \in Held => call'[d] = call[d]
    BY <1>12 DEF Crash, Idle, Held
  <2> QED BY <1>12, <2>1, RowsKept DEF Crash
<1>13. CASE UNCHANGED vars
  BY <1>13, RowsKept DEF vars
<1> QED BY <1>1, <1>2, <1>3, <1>4, <1>5, <1>6, <1>7, <1>8, <1>9, <1>10, <1>11, <1>12,
           <1>13 DEF Next

\* The strengthened invariant holds in every reachable state.
LEMMA AlwaysIInv ==
    Spec => []IInv
<1>1. Init => IInv BY InitIInv
<1>2. IInv /\ [Next \/ Crash]_vars => IInv'
  BY TypeStep, HoldersStep DEF IInv
<1> QED BY <1>1, <1>2, PTL DEF Spec

\* The rows, the calls and the drive stay within their declared ranges.
THEOREM TypeCorrect ==
    Spec => []TypeOK
<1>1. IInv => TypeOK BY DEF IInv
<1> QED BY <1>1, AlwaysIInv, PTL

\* The strengthening says of each row what ApprovalSpentOnce asks.
LEMMA SpentOnceFollows ==
    ASSUME IInv
    PROVE  ApprovalSpentOnce
<1> SUFFICES ASSUME NEW a \in ApprovalIDs
             PROVE  /\ deletes[a] <= 1
                    /\ deletes[a] > 0 => /\ status[a] \in {"executing", "executed", "failed"}
                                         /\ decidedBy[a] = "browser"
  BY DEF ApprovalSpentOnce
<1>1. deletes[a] \in Nat
  BY DEF IInv, TypeOK
<1>2. deletes[a] <= 1 /\ (deletes[a] > 0 => status[a] \in Spent)
  BY <1>1 DEF IInv, Unused
<1> QED BY <1>2 DEF IInv, BrowserDecided, Spent

\* ClaimDestructiveApproval hands an approval to one call, ever, and only after
\* a browser user approved it: for any number of concurrent tool calls and any
\* number of crashes it starts one deletion at most, which its row shows.
THEOREM SpentOnce ==
    Spec => []ApprovalSpentOnce
<1>1. IInv => ApprovalSpentOnce
  BY SpentOnceFollows
<1> QED BY <1>1, AlwaysIInv, PTL

-----------------------------------------------------------------------------
(* The subscriptions share no state with the rest.                         *)

SP == INSTANCE SubscriptionsProofs

\* Requests and SubscriptionsProofs mean the same subscriptions.
LEMMA SameSubscriptions ==
    /\ S!Init => SP!Init
    /\ S!Next => SP!Next
    /\ S!Crash => SP!Crash
    /\ SP!OneFillUnderWay => S!OneFillUnderWay
    /\ SP!TypeOK => S!TypeOK
<1>1. S!Init => SP!Init
  BY DEF S!Init, SP!Init
<1>2. S!Next => SP!Next
  BY DEF S!Active, SP!Active, S!Ended, SP!Ended,
   S!Next, SP!Next, S!SaveSubscription, SP!SaveSubscription,
   S!StartPoll, SP!StartPoll, S!CheckActive, SP!CheckActive, S!Busy, SP!Busy,
   S!EndPoll, SP!EndPoll, S!EnqueueFill, SP!EnqueueFill, S!RunFill, SP!RunFill,
   S!QueueImport, SP!QueueImport, S!RunImport, SP!RunImport, S!Retry, SP!Retry,
   S!EndFill, SP!EndFill, S!EndImport, SP!EndImport
<1>3. S!Crash => SP!Crash
  BY DEF S!Crash, SP!Crash
<1>4. SP!OneFillUnderWay => S!OneFillUnderWay
  BY DEF S!OneFillUnderWay, SP!OneFillUnderWay, S!UnderWay, SP!UnderWay, S!Active, SP!Active
<1>5. SP!TypeOK => S!TypeOK
  BY DEF S!TypeOK, SP!TypeOK, S!Statuses, SP!Statuses
<1> QED BY <1>1, <1>2, <1>3, <1>4, <1>5

\* Every step of the server is a step of the subscriptions or leaves them alone.
LEMMA SubscriptionsStep ==
    [ServerNext]_serverVars => [SP!Next \/ SP!Crash]_(SP!vars)
<1>1. UNCHANGED subscriptionVars => UNCHANGED SP!vars
  BY DEF subscriptionVars, SP!vars
<1> QED
  BY <1>1, SameSubscriptions DEF ServerNext, ApprovalStep, DeletionStep, WebhookStep, SubscriptionStep,
   ServerCrash, serverVars

\* However the requests of the server interleave, no poll of runShareAutoSync
\* queues a fill beside one that is under way.
THEOREM FillsNeverOverlap == ServerSpec => []OneFillUnderWay
<1>1. ServerInit => SP!Init
  BY SameSubscriptions DEF ServerInit
<1>2. SP!WorkersDistinct
  BY WorkerAssumption, BoundAssumption DEF SP!WorkersDistinct
<1>3. SP!OneFillUnderWay => OneFillUnderWay
  BY SameSubscriptions DEF OneFillUnderWay
<1> QED
  BY <1>1, <1>2, <1>3, SubscriptionsStep, SP!PollsNeverOverlap, PTL DEF ServerSpec, SP!Spec

-----------------------------------------------------------------------------
(* The webhook.                                                            *)

WInv == W!TypeOK /\ W!TimersInOrder /\ W!ChangesCountedOnce

\* Each change is in one place at most.
Apart ==
    /\ pending \cap tasks = {} /\ pending \cap lost = {} /\ tasks \cap lost = {}
    /\ \A t \in W!Timers :
         /\ taken[t] \cap (pending \cup tasks \cup lost) = {}
         /\ \A u \in W!Timers \ {t} : taken[t] \cap taken[u] = {}

\* Where a change is.
Placed(n) ==
    n \in pending \/ n \in tasks \/ n \in lost \/ \E t \in W!Timers : n \in taken[t]

\* ChangesCountedOnce, change by change.
LEMMA CountedMeans ==
    ASSUME W!ChangesCountedOnce
    PROVE  Apart /\ \A n : n \in 1..accepted <=> Placed(n)
BY DEF W!ChangesCountedOnce, Apart, Placed

\* Timer.Stop changes armed timers only.
LEMMA StoppedTimers ==
    ASSUME W!TypeOK, NEW t \in W!Timers
    PROVE  /\ W!Stopped(t) \in [W!Timers -> {"none", "armed", "fired", "enqueue", "over"}]
           /\ \A u \in W!Timers :
                /\ W!Stopped(t)[u] = "none" <=> timers[u] = "none"
                /\ W!Stopped(t)[u] = "enqueue" <=> timers[u] = "enqueue"
BY DEF W!TypeOK, W!Stopped

\* The timers once the remembered one, if any, is stopped.
AllStopped == IF timer = W!NoTimer THEN timers ELSE W!Stopped(timer)

\* The same of the remembered timer, if any.
LEMMA StoppedRemembered ==
    ASSUME W!TypeOK
    PROVE  /\ AllStopped \in [W!Timers -> {"none", "armed", "fired", "enqueue", "over"}]
           /\ \A u \in W!Timers :
                /\ AllStopped[u] = "none" <=> timers[u] = "none"
                /\ AllStopped[u] = "enqueue" <=> timers[u] = "enqueue"
<1>1. CASE timer = W!NoTimer
  BY <1>1 DEF W!TypeOK, AllStopped
<1>2. CASE timer # W!NoTimer
  <2>1. timer \in W!Timers
    BY <1>2 DEF W!TypeOK
  <2> QED BY <1>2, <2>1, StoppedTimers DEF AllStopped
<1> QED BY <1>1, <1>2

\* Notices, timers, flushes, Close and crashes keep every accepted change in
\* one place.
LEMMA WebhookKeeps ==
    ASSUME WInv, W!Next \/ W!Crash \/ UNCHANGED webhookVars
    PROVE  WInv'
<1> USE DEF W!Timers
<1>0. /\ W!TypeOK /\ W!TimersInOrder /\ Apart
      /\ \A n : n \in 1..accepted <=> Placed(n)
  BY CountedMeans DEF WInv
<1>1. CASE W!Notify
  <2> DEFINE t == accepted + 1
  <2>1. /\ t \in W!Timers /\ accepted' = t /\ pending' = pending \cup {t} /\ timer' = t
        /\ UNCHANGED <<closed, taken, tasks, lost>>
        /\ timers' = [AllStopped EXCEPT ![t] = "armed"]
    BY <1>0, <1>1, BoundAssumption DEF W!Notify, W!Rearmed, W!TypeOK, AllStopped
  <2>2. W!TypeOK'
    BY <1>0, <2>1, StoppedRemembered, BoundAssumption DEF W!TypeOK
  <2>3. W!TimersInOrder'
    <3> SUFFICES ASSUME NEW u \in W!Timers
                 PROVE  /\ u > accepted' => timers'[u] = "none"
                        /\ taken'[u] # {} => timers'[u] = "enqueue"
      BY <2>1 DEF W!TimersInOrder
    <3>1. timers'[u] = IF u = t THEN "armed" ELSE AllStopped[u]
      BY <1>0, <2>1, StoppedRemembered
    <3>2. timers[t] = "none"
      BY <1>0, <2>1 DEF W!TimersInOrder, W!TypeOK
    <3> QED BY <1>0, <2>1, <3>1, <3>2, StoppedRemembered DEF W!TimersInOrder, W!TypeOK
  <2>4. ~Placed(t)
    BY <1>0 DEF W!TypeOK
  <2>5. Apart'
    BY <1>0, <2>1, <2>4 DEF Apart, Placed
  <2>6. \A n : n \in 1..accepted' <=> Placed(n)'
    BY <1>0, <2>1 DEF Placed, W!TypeOK
  <2> QED BY <2>2, <2>3, <2>5, <2>6 DEF WInv, W!ChangesCountedOnce, Apart, Placed
<1>2. ASSUME NEW t \in W!Timers, W!Fire(t)
      PROVE  WInv'
  BY <1>0, <1>2 DEF WInv, W!Fire, W!TypeOK, W!TimersInOrder, W!ChangesCountedOnce
<1>3. ASSUME NEW t \in W!Timers, W!Flush(t)
      PROVE  WInv'
  <2>1. CASE closed \/ pending = {}
    <3>1. /\ timers[t] = "fired" /\ timers' = [timers EXCEPT ![t] = "over"]
          /\ UNCHANGED <<pending, timer, closed, taken, accepted, tasks, lost>>
      BY <1>3, <2>1 DEF W!Flush
    <3>2. W!TypeOK'
      BY <1>0, <3>1 DEF W!TypeOK
    <3>3. W!TimersInOrder'
      BY <1>0, <3>1 DEF W!TypeOK, W!TimersInOrder
    <3>4. W!ChangesCountedOnce'
      BY <3>1 DEF WInv, W!ChangesCountedOnce
    <3> QED BY <3>2, <3>3, <3>4 DEF WInv
  <2>2. CASE ~(closed \/ pending = {})
    <3>1. /\ timers[t] = "fired" /\ timers' = [timers EXCEPT ![t] = "enqueue"]
          /\ taken' = [taken EXCEPT ![t] = pending] /\ pending' = {} /\ timer' = W!NoTimer
          /\ UNCHANGED <<closed, accepted, tasks, lost>>
      BY <1>3, <2>2 DEF W!Flush, W!LeftPending
    <3>2. W!TypeOK' /\ W!TimersInOrder'
      BY <1>0, <3>1 DEF W!TypeOK, W!TimersInOrder
    <3>3. taken[t] = {} /\ \A u \in W!Timers : taken'[u] = IF u = t THEN pending ELSE taken[u]
      BY <1>0, <3>1 DEF W!TypeOK, W!TimersInOrder
    <3>4. Apart'
      BY <1>0, <3>1, <3>3 DEF Apart
    <3>5. \A n : Placed(n)' <=> Placed(n)
      BY <3>1, <3>3 DEF Placed
    <3>6. W!ChangesCountedOnce'
      BY <1>0, <3>1, <3>4, <3>5 DEF W!ChangesCountedOnce, Apart, Placed
    <3> QED BY <3>2, <3>6 DEF WInv
  <2> QED BY <2>1, <2>2
<1>4. ASSUME NEW t \in W!Timers, W!Enqueue(t)
      PROVE  WInv'
  <2>1. /\ \/ tasks' = tasks \cup taken[t] /\ UNCHANGED lost
           \/ lost' = lost \cup taken[t] /\ UNCHANGED tasks
        /\ timers' = [timers EXCEPT ![t] = "over"] /\ taken' = [taken EXCEPT ![t] = {}]
        /\ UNCHANGED <<pending, timer, closed, accepted>>
    BY <1>4 DEF W!Enqueue
  <2>2. W!TypeOK' /\ W!TimersInOrder'
    <3>1. timers[t] = "enqueue" /\ taken[t] \subseteq W!Timers
      BY <1>0, <1>4 DEF W!Enqueue, W!TypeOK
    <3>2. W!TypeOK'
      BY <1>0, <2>1, <3>1 DEF W!TypeOK
    <3>3. W!TimersInOrder'
      BY <1>0, <2>1, <3>1 DEF W!TypeOK, W!TimersInOrder
    <3> QED BY <3>2, <3>3
  <2>3. \A u \in W!Timers : taken'[u] = IF u = t THEN {} ELSE taken[u]
    BY <1>0, <2>1 DEF W!TypeOK
  <2>4. Apart'
    BY <1>0, <2>1, <2>3 DEF Apart
  <2>5. \A n : Placed(n)' <=> Placed(n)
    BY <2>1, <2>3 DEF Placed
  <2>6. W!ChangesCountedOnce'
    BY <1>0, <2>1, <2>4, <2>5 DEF W!ChangesCountedOnce, Apart, Placed
  <2> QED BY <2>2, <2>6 DEF WInv
<1>5. CASE W!Close
  <2>1. /\ timers' = AllStopped
        /\ closed' = TRUE /\ timer' = W!NoTimer /\ pending' = {} /\ lost' = lost \cup pending
        /\ UNCHANGED <<taken, accepted, tasks>>
    BY <1>5 DEF W!Close, AllStopped
  <2>2. W!TypeOK' /\ W!TimersInOrder'
    BY <1>0, <2>1, StoppedRemembered DEF W!TypeOK, W!TimersInOrder
  <2>3. Apart'
    BY <1>0, <2>1 DEF Apart
  <2>4. \A n : Placed(n)' <=> Placed(n)
    BY <2>1 DEF Placed
  <2>5. W!ChangesCountedOnce'
    BY <1>0, <2>1, <2>3, <2>4 DEF W!ChangesCountedOnce, Apart, Placed
  <2> QED BY <2>2, <2>5 DEF WInv
<1>6. CASE W!Crash
  <2>1. /\ \A n : n \in lost' <=> \/ n \in lost \/ n \in pending
                                  \/ \E t \in W!Timers : n \in taken[t]
        /\ pending' = {} /\ timer' = W!NoTimer /\ closed' = FALSE
        /\ timers' = [t \in W!Timers |-> IF t <= accepted THEN "over" ELSE "none"]
        /\ taken' = [t \in W!Timers |-> {}]
        /\ UNCHANGED <<accepted, tasks>>
    BY <1>6 DEF W!Crash
  <2>2. W!TypeOK' /\ W!TimersInOrder'
    <3>1. lost' \subseteq W!Timers
      BY <1>0, <2>1 DEF W!TypeOK
    <3>2. W!TypeOK'
      BY <1>0, <2>1, <3>1 DEF W!TypeOK
    <3>3. W!TimersInOrder'
      BY <1>0, <2>1 DEF W!TypeOK, W!TimersInOrder
    <3> QED BY <3>2, <3>3
  <2>3. Apart'
    BY <1>0, <2>1 DEF Apart
  <2>4. \A n : Placed(n)' <=> Placed(n)
    BY <2>1 DEF Placed
  <2>5. W!ChangesCountedOnce'
    BY <1>0, <2>1, <2>3, <2>4 DEF W!ChangesCountedOnce, Apart, Placed
  <2> QED BY <2>2, <2>5 DEF WInv
<1>7. CASE UNCHANGED webhookVars
  BY <1>0, <1>7 DEF webhookVars, WInv, W!TypeOK, W!TimersInOrder, W!ChangesCountedOnce
<1> QED BY <1>1, <1>2, <1>3, <1>4, <1>5, <1>6, <1>7 DEF W!Next

\* Every step of the server is a step of the webhook or leaves it alone.
LEMMA WebhookStepOf ==
    [ServerNext]_serverVars => W!Next \/ W!Crash \/ UNCHANGED webhookVars
BY DEF ServerNext, ApprovalStep, DeletionStep, WebhookStep, SubscriptionStep, ServerCrash,
   serverVars

\* At the start nothing was accepted and no timer armed.
LEMMA WebhookInit ==
    ASSUME W!Init
    PROVE  WInv
<1>1. W!TypeOK
  <2>1. closed \in BOOLEAN
    BY DEF W!Init
  <2>2. accepted \in 0..MaxChanges
    BY BoundAssumption DEF W!Init
  <2> QED BY <2>1, <2>2 DEF W!Init, W!TypeOK
<1>2. W!TimersInOrder
  BY DEF W!Init, W!TimersInOrder
<1>3. W!ChangesCountedOnce
  BY DEF W!Init, W!ChangesCountedOnce
<1> QED BY <1>1, <1>2, <1>3 DEF WInv

\* What the webhook counts stays right in every reachable state of the server.
LEMMA WebhookAlways == ServerSpec => []WInv
<1>1. ServerInit => WInv
  BY WebhookInit DEF ServerInit
<1>2. WInv /\ [ServerNext]_serverVars => WInv'
  BY WebhookStepOf, WebhookKeeps
<1> QED BY <1>1, <1>2, PTL DEF ServerSpec

\* However notices, timers that can no longer be stopped, Close, restarts and
\* the other requests interleave, every change accepted by Notify is waiting,
\* carried by one flush, counted by one emby_refresh task, or dropped.
THEOREM CountedOnce == ServerSpec => []ChangesCountedOnce
<1>1. WInv => ChangesCountedOnce
  BY DEF WInv, ChangesCountedOnce
<1> QED BY <1>1, WebhookAlways, PTL

-----------------------------------------------------------------------------
(* The deletion of Emby items.                                             *)

DInv == E!TypeOK /\ E!LockAlone /\ E!EmbyFirst /\ E!TargetSeen /\ E!OriginalsOfDeleted

\* Whoever writes the account, a recycled object is never listed again.
AccountStep ==
    /\ drive' \in [Files -> Paths \cup {Gone}]
    /\ \A f \in Files : drive[f] = Gone => drive'[f] = Gone

\* The target is one that remains, the first by path.
LEMMA TargetRemains ==
    ASSUME E!TypeOK, ~E!Finished
    PROVE  E!Target \in DOMAIN plan \ handled
<1> DEFINE D == DOMAIN plan \ handled
           V == {plan[f] : f \in D}
           R == {r \in Nat \X Nat : r[1] < r[2]}
<1>1. D # {} /\ \A f \in D : plan[f] \in Nat
  BY PathAssumption DEF E!TypeOK, E!Finished
<1>2. IsWellFoundedOn(R, Nat)
  BY NatLessThanWellFounded DEF OpToRel
<1>3. PICK v \in V : \A w \in V : ~(<<w, v>> \in R)
  <2>1. V # {} /\ V \subseteq Nat
    BY <1>1
  <2> HIDE DEF V, R
  <2> QED BY <1>2, <2>1, WFMin
<1>4. \E f \in D : \A g \in D : plan[f] <= plan[g]
  <2>1. PICK f \in D : v = plan[f]
    BY <1>3
  <2>2. \A g \in D : ~(plan[g] < plan[f])
    BY <1>1, <1>3, <2>1
  <2> QED BY <1>1, <2>2
<1> QED BY <1>4 DEF E!Target

Answers == {"none", "denied", "upstream_error", "nothing_deleted", "confirmation",
            "success", "incomplete", "do_not_repeat"}

\* What is said about the library and the account, the handler apart.
LibraryOK ==
    /\ drive \in [Files -> Paths \cup {Gone}]
    /\ media \subseteq Items /\ plays \in [Items -> Paths]
    /\ lastPlayed \in [Items -> Paths \cup {Gone}]
    /\ recycled \subseteq Files \X Paths
    /\ E!OriginalsOfDeleted

\* DInv is about the library and about a handler that is at work.
LEMMA LibraryFirst ==
    ASSUME DInv
    PROVE  LibraryOK
BY DEF DInv, LibraryOK, E!TypeOK

\* A handler that has answered has nothing left to be right or wrong about.
LEMMA AnsweredKeeps ==
    ASSUME DInv, NEW a \in Answers, E!Answered(a), LibraryOK'
    PROVE  DInv'
<1>1. /\ pc' = "idle" /\ mediaMu' = mediaMu \ {"deletion"} /\ answer' = a
      /\ request' = [ids |-> {}, confirmation |-> FALSE, credential |-> "none"]
      /\ DOMAIN plan' = {} /\ handled' = {} /\ strayed' = {} /\ seen' = Gone
      /\ unread' = FALSE /\ deletedItems' = {}
  BY DEF E!Answered, E!Released, E!NoRequest
<1>2. E!TypeOK'
  <2>1. request' \in [ids : SUBSET Items, confirmation : BOOLEAN,
                      credential : E!Credentials \cup {"none"}]
    BY <1>1 DEF E!Credentials
  <2>2. unread' \in BOOLEAN
    BY <1>1
  <2>3. mediaMu' \subseteq {"task", "deletion"} /\ ("deletion" \in mediaMu') = (pc' # "idle")
    BY <1>1 DEF DInv, E!TypeOK
  <2> QED BY <1>1, <2>1, <2>2, <2>3 DEF E!TypeOK, LibraryOK, Answers
<1>3. E!LockAlone' /\ E!EmbyFirst' /\ E!TargetSeen'
  BY <1>1 DEF E!LockAlone, E!EmbyFirst, E!TargetSeen, E!Deleting, E!Recycling
<1> QED BY <1>2, <1>3 DEF DInv, LibraryOK

\* The same when the answer is all that changes.
LEMMA OnlyAnswered ==
    ASSUME DInv, NEW a \in Answers, E!Answered(a),
           UNCHANGED <<drive, media, plays, lastPlayed, recycled>>
    PROVE  DInv'
<1>1. LibraryOK'
  BY LibraryFirst DEF LibraryOK, E!OriginalsOfDeleted
<1> QED BY <1>1, AnsweredKeeps

\* The target stays the same while the plan and what is handled do.
LEMMA SameTarget ==
    ASSUME UNCHANGED <<plan, handled>>
    PROVE  E!Target' = E!Target /\ (E!Finished' <=> E!Finished)
BY DEF E!Target, E!Finished

\* Steps of agents, browsers and the provider on the account.
LEMMA DeletionRely ==
    ASSUME DInv, AccountStep, UNCHANGED deletionVars
    PROVE  DInv'
<1> USE DEF deletionVars
<1>1. E!TypeOK'
  BY DEF DInv, E!TypeOK, AccountStep
<1>2. E!LockAlone' /\ E!EmbyFirst'
  BY DEF DInv, E!LockAlone, E!EmbyFirst
<1>3. E!TargetSeen'
  <2>1. \A f \in handled : f \in Files
    BY DEF DInv, E!TypeOK
  <2> QED BY <2>1, SameTarget DEF DInv, E!TargetSeen, AccountStep
<1>4. E!OriginalsOfDeleted'
  BY DEF DInv, E!OriginalsOfDeleted
<1> QED BY <1>1, <1>2, <1>3, <1>4 DEF DInv

\* A request is parsed and takes the lock.
LEMMA ParseKeeps ==
    ASSUME DInv, NEW ids \in SUBSET Items, NEW confirmation \in BOOLEAN,
           NEW credential \in E!Credentials,
           E!ParseEmbyDeletion(ids, confirmation, credential)
    PROVE  DInv'
<1>1. /\ pc = "idle" /\ mediaMu = {} /\ pc' = "authorization"
      /\ mediaMu' = {"deletion"} /\ answer' = "none"
      /\ request' = [ids |-> ids, confirmation |-> confirmation, credential |-> credential]
      /\ UNCHANGED <<drive, media, plays, plan, handled, strayed, seen, unread, deletedItems,
                     lastPlayed, recycled>>
  BY DEF E!ParseEmbyDeletion, E!LockFree
<1>2. E!TypeOK'
  <2>1. request' \in [ids : SUBSET Items, confirmation : BOOLEAN,
                      credential : E!Credentials \cup {"none"}]
    BY <1>1
  <2> QED BY <1>1, <2>1 DEF DInv, E!TypeOK
<1>3. E!LockAlone' /\ E!EmbyFirst' /\ E!TargetSeen' /\ E!OriginalsOfDeleted'
  BY <1>1 DEF DInv, E!LockAlone, E!EmbyFirst, E!TargetSeen, E!OriginalsOfDeleted,
              E!Deleting, E!Recycling
<1> QED BY <1>2, <1>3 DEF DInv

\* The credential is refused, or accepted.
LEMMA AuthorizeKeeps ==
    ASSUME DInv, E!AuthorizeEmbyDeletion
    PROVE  DInv'
<1>1. CASE E!Answered("denied") \/ E!Answered("upstream_error")
  BY <1>1, OnlyAnswered DEF E!AuthorizeEmbyDeletion, Answers
<1>2. CASE /\ pc = "authorization" /\ pc' = "preflight"
           /\ UNCHANGED <<mediaMu, request, plan, handled, strayed, seen, unread, answer, deletedItems>>
           /\ UNCHANGED <<drive, media, plays, lastPlayed, recycled>>
  <2>1. E!TypeOK'
    BY <1>2 DEF DInv, E!TypeOK
  <2>2. E!LockAlone' /\ E!EmbyFirst' /\ E!TargetSeen' /\ E!OriginalsOfDeleted'
    BY <1>2 DEF DInv, E!LockAlone, E!EmbyFirst, E!TargetSeen, E!OriginalsOfDeleted,
                E!Deleting, E!Recycling
  <2> QED BY <2>1, <2>2 DEF DInv
<1> QED BY <1>1, <1>2 DEF E!AuthorizeEmbyDeletion

\* The plan names an object for every path the items play, and nothing else.
LEMMA PrepareKeeps ==
    ASSUME DInv, E!PrepareEmbyDeletion
    PROVE  DInv'
<1> DEFINE paths == {plays[i] : i \in request.ids}
<1>1. CASE \E a \in Answers : E!Answered(a)
  BY <1>1, OnlyAnswered DEF E!PrepareEmbyDeletion
<1>2. CASE /\ pc = "preflight" /\ pc' = "native_deletion" /\ plan' = E!Prepared(paths)
           /\ request.ids \subseteq media /\ E!Resolved(paths)
           /\ UNCHANGED <<mediaMu, request, handled, strayed, seen, unread, answer, deletedItems>>
           /\ UNCHANGED <<drive, media, plays, lastPlayed, recycled>>
  <2>1. request.ids \subseteq Items
    BY DEF DInv, E!TypeOK
  <2>2. /\ DOMAIN plan' \subseteq Files
        /\ \A f \in DOMAIN plan' : plan'[f] \in paths
    BY <1>2 DEF E!Prepared
  <2>3. paths \subseteq Paths
    BY <2>1 DEF DInv, E!TypeOK
  <2>4. handled = {}
    BY <1>2 DEF DInv, E!EmbyFirst, E!Recycling
  <2>5. DOMAIN plan' # {}
    <3>1. PICK p \in paths : \E f \in Files : E!At(p) = {f}
      BY <1>2 DEF E!Resolved
    <3>2. PICK f \in Files : drive[f] = p
      BY <3>1 DEF E!At
    <3> QED BY <1>2, <3>2 DEF E!Prepared
  <2>6. E!TypeOK'
    BY <1>2, <2>2, <2>3, <2>4 DEF DInv, E!TypeOK
  <2>7. E!LockAlone'
    BY <1>2, <2>2, <2>5 DEF DInv, E!LockAlone
  <2>8. E!EmbyFirst' /\ E!TargetSeen' /\ E!OriginalsOfDeleted'
    BY <1>2, <2>4 DEF DInv, E!EmbyFirst, E!TargetSeen, E!OriginalsOfDeleted, E!Recycling
  <2> QED BY <2>6, <2>7, <2>8 DEF DInv
<1> QED BY <1>1, <1>2 DEF E!PrepareEmbyDeletion, Answers

\* Whatever Emby did, the library is sound: what it deleted is what it had.
LEMMA EmbyDeletesSoundly ==
    ASSUME DInv, pc = "native_deletion",
           \/ E!EmbyDeletes(request.ids)
           \/ UNCHANGED <<media, drive, lastPlayed>>,
           UNCHANGED <<plays, recycled>>
    PROVE  LibraryOK' /\ AccountStep
<1>1. request.ids \subseteq Items /\ request.ids \subseteq media /\ LibraryOK
  BY LibraryFirst DEF DInv, E!TypeOK, E!EmbyFirst
<1>2. CASE UNCHANGED <<media, drive, lastPlayed>>
  BY <1>1, <1>2 DEF LibraryOK, AccountStep, E!OriginalsOfDeleted
<1>3. CASE E!EmbyDeletes(request.ids)
  <2>1. /\ media' = media \ request.ids
        /\ lastPlayed' = [i \in Items |-> IF i \in request.ids THEN plays[i] ELSE lastPlayed[i]]
        /\ \E gone : drive' = [f \in Files |-> IF f \in gone THEN Gone ELSE drive[f]]
    BY <1>3 DEF E!EmbyDeletes
  <2>2. AccountStep
    BY <1>1, <2>1 DEF AccountStep, LibraryOK
  <2>3. \A i \in Items \ media : i \in Items \ media' /\ lastPlayed'[i] = lastPlayed[i]
    BY <1>1, <2>1
  <2>4. E!OriginalsOfDeleted'
    BY <1>1, <2>3 DEF LibraryOK, E!OriginalsOfDeleted
  <2>5. lastPlayed' \in [Items -> Paths \cup {Gone}]
    BY <1>1, <2>1 DEF LibraryOK
  <2> QED BY <1>1, <2>1, <2>2, <2>4, <2>5 DEF LibraryOK, AccountStep
<1> QED BY <1>2, <1>3

\* The forwarded deletion: only an answer of success goes on to the originals.
LEMMA NativeKeeps ==
    ASSUME DInv, NEW reply \in {"success", "unread", "lost", "error"}, E!NativeDelete(reply)
    PROVE  DInv'
<1>1. LibraryOK' /\ AccountStep /\ pc = "native_deletion" /\ UNCHANGED <<plays, recycled>>
  BY EmbyDeletesSoundly DEF E!NativeDelete
<1>2. CASE reply \notin {"success", "unread"}
  BY <1>1, <1>2, AnsweredKeeps DEF E!NativeDelete, E!NativeSucceeded, Answers
<1>3. CASE reply \in {"success", "unread"}
  <2>1. /\ E!EmbyDeletes(request.ids)
        /\ pc' = "inventory" /\ unread' = (reply = "unread") /\ deletedItems' = request.ids
        /\ UNCHANGED <<mediaMu, request, plan, handled, strayed, seen, answer>>
    BY <1>3 DEF E!NativeDelete, E!NativeSucceeded
  <2>2. request.ids \subseteq Items
    BY DEF DInv, E!TypeOK
  <2>3. unread' \in BOOLEAN
    BY <2>1
  <2>4. E!TypeOK'
    BY <1>1, <2>1, <2>2, <2>3 DEF DInv, E!TypeOK, LibraryOK
  <2>5. E!LockAlone'
    BY <1>1, <2>1 DEF DInv, E!LockAlone, E!Deleting
  <2>6. /\ request.ids \cap media' = {}
        /\ \A i \in request.ids : lastPlayed'[i] = plays[i]
    BY <2>1, <2>2 DEF E!EmbyDeletes
  <2>7. E!EmbyFirst'
    BY <1>1, <2>1, <2>6 DEF E!EmbyFirst, E!Recycling
  <2>8. E!TargetSeen'
    BY <1>1, <2>1 DEF DInv, E!EmbyFirst, E!TargetSeen, E!Recycling
  <2> QED BY <1>1, <2>4, <2>5, <2>7, <2>8 DEF DInv, LibraryOK
<1> QED BY <1>2, <1>3

\* While the originals are recycled, a step that keeps the plan and the library
\* keeps what DInv says of them, if what becomes handled is absent and the next
\* state of the handler is right about its target.
LEMMA RecyclingKeeps ==
    ASSUME DInv, pc \in E!Recycling, pc' \in E!Recycling, LibraryOK', E!TargetSeen',
           handled' \subseteq DOMAIN plan, strayed' \subseteq handled', seen' \in Paths \cup {Gone},
           UNCHANGED <<media, plays, lastPlayed, mediaMu, request, plan, unread, answer,
                       deletedItems>>
    PROVE  DInv'
<1>1. E!TypeOK'
  BY DEF DInv, E!TypeOK, LibraryOK, E!Recycling
<1>2. E!LockAlone' /\ E!EmbyFirst'
  BY DEF DInv, E!LockAlone, E!EmbyFirst, E!Recycling, E!Deleting
<1> QED BY <1>1, <1>2 DEF DInv, LibraryOK

\* What is handled while its folder does not list it is gone, or strays.
LEMMA HandledWhenAbsent ==
    ASSUME E!TypeOK, NEW f, E!Absent(f), E!Handle(f), drive' = drive
    PROVE  /\ handled' = handled \cup {f} /\ strayed' \subseteq handled'
           /\ (\A g \in handled : drive[g] = Gone \/ g \in strayed)
                => \A h \in handled' : drive'[h] = Gone \/ h \in strayed'
BY DEF E!TypeOK, E!Absent, E!Astray, E!Handle

\* A target is taken up where it was planned, or passed over when it is absent.
LEMMA InventoryKeeps ==
    ASSUME DInv, E!Inventory
    PROVE  DInv'
<1>0. /\ pc = "inventory" /\ LibraryOK' /\ E!TypeOK /\ E!TargetSeen
      /\ UNCHANGED <<drive, media, plays, lastPlayed, recycled>>
  BY LibraryFirst DEF E!Inventory, LibraryOK, E!OriginalsOfDeleted, DInv
<1>1. CASE \E a \in Answers : E!Answered(a)
  BY <1>0, <1>1, OnlyAnswered
<1>2. CASE /\ ~E!Finished /\ E!Unchanged(E!Target)
           /\ pc' = "recycle" /\ seen' = drive[E!Target]
           /\ UNCHANGED <<mediaMu, request, plan, handled, strayed, unread, answer, deletedItems>>
  <2>1. E!Target \in DOMAIN plan /\ E!Target \in Files
    BY <1>0, <1>2, TargetRemains DEF E!TypeOK
  <2>2. seen' = plan[E!Target] /\ seen' \in Paths
    BY <1>0, <1>2, <2>1 DEF E!Unchanged, E!TypeOK
  <2>3. E!TargetSeen'
    BY <1>0, <1>2, <2>2, SameTarget DEF E!TargetSeen
  <2> QED BY <1>0, <1>2, <2>2, <2>3, RecyclingKeeps DEF E!TypeOK, E!Recycling
<1>3. CASE /\ ~E!Finished /\ E!Absent(E!Target) /\ E!Handle(E!Target)
           /\ UNCHANGED <<pc, mediaMu, request, plan, seen, unread, answer, deletedItems>>
  <2>1. E!Target \in DOMAIN plan
    BY <1>0, <1>3, TargetRemains
  <2>2. E!TargetSeen'
    BY <1>0, <1>3, HandledWhenAbsent DEF E!TargetSeen
  <2> QED BY <1>0, <1>3, <2>1, <2>2, HandledWhenAbsent, RecyclingKeeps DEF E!TypeOK, E!Recycling
<1> QED BY <1>1, <1>2, <1>3 DEF E!Inventory, Answers

\* What is recycled was seen at a path that a deleted item played.
LEMMA RecycleKeeps ==
    ASSUME DInv, E!Recycle
    PROVE  DInv'
<1>0. pc = "recycle" /\ UNCHANGED <<media, plays, lastPlayed>> /\ LibraryOK /\ E!TypeOK
  BY LibraryFirst DEF E!Recycle, DInv
<1>1. /\ E!Target \in DOMAIN plan /\ E!Target \in Files /\ seen = plan[E!Target]
      /\ seen \in Paths
  BY <1>0, TargetRemains DEF DInv, E!TargetSeen, E!TypeOK
<1>2. \E i \in Items \ media : lastPlayed[i] = seen
  BY <1>0, <1>1 DEF DInv, E!TypeOK, E!LockAlone, E!EmbyFirst, E!Deleting, E!Recycling
<1>3. /\ drive' \in {drive, [drive EXCEPT ![E!Target] = Gone]}
      /\ recycled' \in {recycled, recycled \cup {<<E!Target, seen>>}}
  BY DEF E!Recycle
<1>4. AccountStep
  BY <1>0, <1>1, <1>3 DEF AccountStep, LibraryOK
<1>5. LibraryOK'
  <2>1. E!OriginalsOfDeleted'
    BY <1>0, <1>2, <1>3 DEF LibraryOK, E!OriginalsOfDeleted
  <2>2. recycled' \subseteq Files \X Paths
    BY <1>0, <1>1, <1>3 DEF LibraryOK
  <2> QED BY <1>0, <1>4, <2>1, <2>2 DEF LibraryOK, AccountStep
<1>6. CASE E!Answered("incomplete")
  BY <1>5, <1>6, AnsweredKeeps DEF Answers
<1>7. CASE /\ pc' = "verify"
           /\ UNCHANGED <<mediaMu, request, plan, handled, strayed, seen, unread, answer, deletedItems>>
  <2>1. \A f \in handled : f \in Files
    BY DEF DInv, E!TypeOK
  <2>2. E!TargetSeen'
    BY <1>0, <1>4, <1>7, <2>1, SameTarget DEF DInv, E!TargetSeen, AccountStep
  <2> QED BY <1>0, <1>5, <1>7, <2>2, RecyclingKeeps DEF E!TypeOK, E!Recycling
<1> QED BY <1>6, <1>7 DEF E!Recycle

\* A target is handled once a fresh listing of its folder no longer has it.
LEMMA VerifyKeeps ==
    ASSUME DInv, E!VerifyRecycled
    PROVE  DInv'
<1>0. /\ pc = "verify" /\ LibraryOK' /\ E!TypeOK
      /\ UNCHANGED <<drive, media, plays, lastPlayed, recycled>>
  BY LibraryFirst DEF E!VerifyRecycled, LibraryOK, E!OriginalsOfDeleted, DInv
<1>1. CASE E!Answered("incomplete")
  BY <1>0, <1>1, OnlyAnswered DEF Answers
<1>2. CASE /\ E!Absent(E!Target) /\ pc' = "inventory" /\ E!Handle(E!Target)
           /\ UNCHANGED <<mediaMu, request, plan, seen, unread, answer, deletedItems>>
  <2>1. E!Target \in DOMAIN plan
    BY <1>0, TargetRemains DEF DInv, E!TargetSeen
  <2>2. E!TargetSeen'
    BY <1>0, <1>2, HandledWhenAbsent DEF DInv, E!TargetSeen
  <2> QED BY <1>0, <1>2, <2>1, <2>2, HandledWhenAbsent, RecyclingKeeps DEF E!TypeOK, E!Recycling
<1> QED BY <1>1, <1>2 DEF E!VerifyRecycled, E!Verified

\* Media tasks move what items play only while no deletion is at work.
LEMMA TasksKeep ==
    ASSUME DInv, \/ E!TaskLocks \/ E!TaskUnlocks
                 \/ \E i \in Items, p \in Paths : E!TaskRepoints(i, p)
    PROVE  DInv'
<1>0. /\ pc = "idle" /\ mediaMu' \subseteq {"task"} /\ plays' \in [Items -> Paths]
      /\ UNCHANGED <<drive, media, pc, request, plan, handled, strayed, seen, unread, answer,
                     deletedItems, lastPlayed, recycled>>
  <2>1. mediaMu \subseteq {"task"}
    BY DEF DInv, E!LockAlone, E!TypeOK, E!TaskLocks, E!TaskUnlocks, E!TaskRepoints
  <2>2. pc = "idle" /\ plays \in [Items -> Paths]
    BY <2>1 DEF DInv, E!LockAlone, E!TypeOK
  <2>3. CASE E!TaskLocks \/ E!TaskUnlocks
    BY <2>1, <2>2, <2>3 DEF E!TaskLocks, E!TaskUnlocks, E!handler
  <2>4. ASSUME NEW i \in Items, NEW p \in Paths, E!TaskRepoints(i, p)
        PROVE  /\ pc = "idle" /\ mediaMu' \subseteq {"task"} /\ plays' \in [Items -> Paths]
               /\ UNCHANGED <<drive, media, pc, request, plan, handled, strayed, seen, unread, answer,
                              deletedItems, lastPlayed, recycled>>
    BY <2>1, <2>2, <2>4 DEF E!TaskRepoints, E!handler
  <2> QED BY <2>3, <2>4
<1>1. E!TypeOK'
  BY <1>0 DEF DInv, E!TypeOK
<1>2. E!LockAlone' /\ E!EmbyFirst' /\ E!TargetSeen' /\ E!OriginalsOfDeleted'
  BY <1>0 DEF DInv, E!LockAlone, E!EmbyFirst, E!TargetSeen, E!OriginalsOfDeleted,
              E!Deleting, E!Recycling
<1> QED BY <1>1, <1>2 DEF DInv

\* A crash leaves the library and the account as they are.
LEMMA DeletionCrashKeeps ==
    ASSUME DInv, E!Crash
    PROVE  DInv'
<1>1. /\ pc' = "idle" /\ mediaMu' = {} /\ answer' = "none"
      /\ request' = [ids |-> {}, confirmation |-> FALSE, credential |-> "none"]
      /\ DOMAIN plan' = {} /\ handled' = {} /\ strayed' = {} /\ seen' = Gone
      /\ unread' = FALSE /\ deletedItems' = {}
      /\ UNCHANGED <<drive, media, plays, lastPlayed, recycled>>
  BY DEF E!Crash, E!NoRequest
<1>2. E!TypeOK'
  <2>1. request' \in [ids : SUBSET Items, confirmation : BOOLEAN,
                      credential : E!Credentials \cup {"none"}]
    BY <1>1 DEF E!Credentials
  <2>2. unread' \in BOOLEAN
    BY <1>1
  <2> QED BY <1>1, <2>1, <2>2 DEF DInv, E!TypeOK
<1>3. E!LockAlone' /\ E!EmbyFirst' /\ E!TargetSeen' /\ E!OriginalsOfDeleted'
  BY <1>1 DEF DInv, E!LockAlone, E!EmbyFirst, E!TargetSeen, E!OriginalsOfDeleted,
              E!Deleting, E!Recycling
<1> QED BY <1>2, <1>3 DEF DInv

\* Every step of the handler, of Emby and of the media tasks keeps DInv.
LEMMA DeletionKeeps ==
    ASSUME DInv, E!Next
    PROVE  DInv'
BY ParseKeeps, AuthorizeKeeps, PrepareKeeps, NativeKeeps, InventoryKeeps, RecycleKeeps,
   VerifyKeeps, TasksKeep DEF E!Next

-----------------------------------------------------------------------------
(* The approvals and the deletion, which share the account.                *)

\* Agents, browsers and the provider never bring a recycled object back.
LEMMA ApprovalsAccount ==
    ASSUME TypeOK, Next
    PROVE  AccountStep
<1> USE DEF AccountStep, TypeOK
<1>1. ASSUME NEW c \in Calls, NEW ids \in SUBSET Files,
             ResolveDeleteTargets(c, ids) \/ PermitDelete(c, ids)
      PROVE  AccountStep
  BY <1>1 DEF ResolveDeleteTargets, PermitDelete
<1>2. ASSUME NEW c \in Calls, NEW a \in ApprovalIDs,
             CreateDestructiveApproval(c, a) \/ ClaimDestructiveApproval(c, a)
      PROVE  AccountStep
  BY <1>2 DEF CreateDestructiveApproval, ClaimDestructiveApproval
<1>3. ASSUME NEW c \in Calls, Deletes(call[c].ids)
      PROVE  AccountStep
  BY <1>3 DEF Deletes
<1>4. ASSUME NEW c \in Calls, FinishDestructiveApproval(c)
      PROVE  AccountStep
  BY <1>4 DEF FinishDestructiveApproval
<1>5. ASSUME NEW f \in Files, NEW p \in Paths, MoveProvider(f, p)
      PROVE  AccountStep
  BY <1>5 DEF MoveProvider
<1>6. CASE drive' = drive
  BY <1>6
<1> QED
  BY <1>1, <1>2, <1>3, <1>4, <1>5, <1>6
     DEF Next, DeleteProvider, HandleDelete, DecideDestructiveApproval, UpdateSettings,
         ListPendingDestructiveApprovals, Tick

\* The deletion leaves the rows and the calls alone.
LEMMA ApprovalsRely ==
    ASSUME IInv, drive' \in [Files -> Paths \cup {Gone}], UNCHANGED approvalVars
    PROVE  IInv'
<1>1. TypeOK'
  BY DEF IInv, TypeOK, approvalVars
<1>2. \A c \in Calls : call'[c].pc \in Held => call'[c] = call[c]
  BY DEF approvalVars
<1> QED BY <1>1, <1>2, RowsKept DEF IInv, approvalVars

\* Every step of the server keeps both invariants.
LEMMA AccountInvariantStep ==
    ASSUME IInv, DInv, [ServerNext]_serverVars
    PROVE  IInv' /\ DInv'
<1>1. CASE ApprovalStep
  <2>1. IInv'
    BY <1>1, TypeStep, HoldersStep DEF ApprovalStep, IInv
  <2> QED BY <1>1, <2>1, ApprovalsAccount, DeletionRely DEF ApprovalStep, IInv
<1>2. CASE DeletionStep
  <2>1. DInv'
    BY <1>2, DeletionKeeps DEF DeletionStep
  <2>2. drive' \in [Files -> Paths \cup {Gone}]
    BY <2>1 DEF DInv, E!TypeOK
  <2> QED BY <1>2, <2>1, <2>2, ApprovalsRely DEF DeletionStep
<1>3. CASE UNCHANGED <<drive, approvalVars, deletionVars>>
  <2>1. AccountStep
    BY <1>3 DEF IInv, TypeOK, AccountStep
  <2> QED BY <1>3, <2>1, ApprovalsRely, DeletionRely DEF AccountStep
<1>4. CASE ServerCrash
  <2>1. IInv'
    BY <1>4, TypeStep, HoldersStep DEF ServerCrash, IInv
  <2> QED BY <1>4, <2>1, DeletionCrashKeeps DEF ServerCrash
<1> QED
  BY <1>1, <1>2, <1>3, <1>4 DEF ServerNext, WebhookStep, SubscriptionStep, serverVars

\* At the start no request is served.
LEMMA AccountInvariantInit ==
    ASSUME ServerInit
    PROVE  IInv /\ DInv
<1>1. IInv
  BY InitIInv DEF ServerInit
<1>2. E!Init
  BY DEF ServerInit
<1>3. E!TypeOK
  <2>1. request \in [ids : SUBSET Items, confirmation : BOOLEAN,
                     credential : E!Credentials \cup {"none"}]
    BY <1>2 DEF E!Init, E!NoRequest, E!Credentials
  <2>2. unread \in BOOLEAN
    BY <1>2 DEF E!Init
  <2>3. DOMAIN plan = {}
    BY <1>2 DEF E!Init
  <2> QED BY <1>2, <2>1, <2>2, <2>3 DEF E!Init, E!TypeOK
<1>4. E!LockAlone /\ E!EmbyFirst /\ E!TargetSeen /\ E!OriginalsOfDeleted
  BY <1>2 DEF E!Init, E!LockAlone, E!EmbyFirst, E!TargetSeen, E!OriginalsOfDeleted,
              E!Deleting, E!Recycling
<1> QED BY <1>1, <1>3, <1>4 DEF DInv

\* Both invariants hold in every reachable state of the server.
LEMMA AccountInvariant == ServerSpec => [](IInv /\ DInv)
<1>1. ServerInit => IInv /\ DInv
  BY AccountInvariantInit
<1>2. (IInv /\ DInv) /\ [ServerNext]_serverVars => (IInv /\ DInv)'
  BY AccountInvariantStep
<1> QED BY <1>1, <1>2, PTL DEF ServerSpec

-----------------------------------------------------------------------------
\* Approvals, deletions, webhook and subscriptions stay within their declared
\* ranges while their steps interleave and crashes stop them all, and the media
\* lock is the deletion handler's exactly while it runs.
THEOREM ServerTyped == ServerSpec => []PartsTypeOK
<1>1. ServerInit => SP!Init
  BY SameSubscriptions DEF ServerInit
<1>2. SP!WorkersDistinct
  BY WorkerAssumption, BoundAssumption DEF SP!WorkersDistinct
<1>3. IInv /\ DInv /\ WInv /\ SP!TypeOK => PartsTypeOK
  BY SameSubscriptions DEF PartsTypeOK, IInv, DInv, WInv
<1> QED
  BY <1>1, <1>2, <1>3, SubscriptionsStep, SP!TypeCorrect, AccountInvariant, WebhookAlways, PTL
     DEF ServerSpec, SP!Spec

\* Whatever agents move, whichever answers of Emby and of the provider are
\* lost, and wherever the process stops, a deletion recycles an original only
\* where an item that Emby has deleted played it.
THEOREM OnlyDeletedOriginals == ServerSpec => []OriginalsOfDeleted
<1>1. IInv /\ DInv => OriginalsOfDeleted
  BY DEF DInv, OriginalsOfDeleted
<1> QED BY <1>1, AccountInvariant, PTL

\* An approval starts at most one deletion, after a browser's decision, also
\* while Emby deletions change the account under it.
THEOREM ServerSpentOnce == ServerSpec => []ApprovalSpentOnce
<1>1. IInv /\ DInv => ApprovalSpentOnce
  BY SpentOnceFollows
<1> QED BY <1>1, AccountInvariant, PTL

\* Only some steps end a request, and what they answer is so.
LEMMA AnswerStep ==
    ASSUME IInv, DInv, [ServerNext]_serverVars
    PROVE  E!AnswerTrue
<1> SUFFICES ASSUME pc # "idle", pc' = "idle"
             PROVE  E!AnswerTrue
  BY DEF E!AnswerTrue
<1>1. CASE E!AuthorizeEmbyDeletion \/ E!PrepareEmbyDeletion
  BY <1>1 DEF E!AuthorizeEmbyDeletion, E!PrepareEmbyDeletion, E!Answered, E!AnswerTrue, DInv,
              E!EmbyFirst, E!Recycling
<1>2. ASSUME NEW reply \in {"success", "unread", "lost", "error"}, E!NativeDelete(reply)
      PROVE  E!AnswerTrue
  BY <1>2 DEF E!NativeDelete, E!Answered, E!AnswerTrue
<1>3. CASE E!Inventory
  <2>1. CASE E!Answered("incomplete")
    BY <2>1 DEF E!Answered, E!AnswerTrue
  <2>2. CASE /\ pc = "inventory" /\ E!Finished
             /\ E!Answered(IF unread THEN "do_not_repeat" ELSE "success")
    <3>1. DOMAIN plan # {} /\ request.ids \cap media = {}
      BY <2>2 DEF DInv, E!LockAlone, E!EmbyFirst, E!Deleting, E!Recycling
    <3>2. \A f \in DOMAIN plan : drive[f] = Gone \/ f \in strayed
      BY <2>2 DEF DInv, E!TargetSeen, E!Finished
    <3>3. answer' \in {"do_not_repeat", "success"}
      BY <2>2 DEF E!Answered
    <3>4. plan # <<>>
      BY <3>1
    <3> QED BY <3>1, <3>2, <3>3, <3>4 DEF E!AnswerTrue
  <2> QED BY <1>3, <2>1, <2>2 DEF E!Inventory
<1>4. CASE E!Recycle \/ E!VerifyRecycled
  BY <1>4 DEF E!Recycle, E!VerifyRecycled, E!Answered, E!AnswerTrue
<1>5. CASE E!Crash
  BY <1>5 DEF E!Crash, E!AnswerTrue
<1> QED
  BY <1>1, <1>2, <1>3, <1>4, <1>5
     DEF ServerNext, ApprovalStep, DeletionStep, WebhookStep, SubscriptionStep, ServerCrash,
         serverVars, deletionVars, E!Next, E!ParseEmbyDeletion, E!TaskLocks, E!TaskUnlocks,
         E!TaskRepoints, E!handler

\* What handleEmbyDeletion answers is true whatever interleaves: a refusal or a
\* confirmation means that Emby has everything, a success or a warning not to
\* repeat that Emby has none of the items and 115 none of their originals but
\* those that somebody had moved to another folder.
THEOREM AnswersTrue == ServerSpec => AnsweredTruly
<1>1. (IInv /\ DInv) /\ [ServerNext]_serverVars => [E!AnswerTrue]_serverVars
  BY AnswerStep
<1> QED BY <1>1, AccountInvariant, PTL DEF ServerSpec, AnsweredTruly
=============================================================================
