------------------------------ MODULE Requests ------------------------------
(***************************************************************************)
(* The requests that reach the server beside the media tasks, composed:    *)
(* approvals and what agents and browsers do to the 115 account            *)
(* (Approvals), the deletion of Emby items with their originals of that    *)
(* account (EmbyDeletion), the debounced webhook (Webhook) and the polling *)
(* of a subscription (Subscriptions). They are goroutines of one process:  *)
(* their steps interleave, and a crash stops all of them at once. The      *)
(* approvals and the deletion share the account.                           *)
(***************************************************************************)
EXTENDS Approvals

CONSTANTS Items, NativeItems, Folder, MaxChanges, Fills, MaxPolls, NoTask

\* A path of the mount is its position in the order of paths.
ASSUME PathAssumption == Paths \subseteq Nat /\ Gone \notin Paths
\* The worker is busy with a poll, with a fill by name, or with an import.
ASSUME WorkerAssumption ==
    /\ "poll" \notin Fills /\ "import" \notin Fills /\ NoTask \notin Fills
    /\ NoTask # "poll" /\ NoTask # "import"
ASSUME BoundAssumption == MaxChanges \in Nat /\ MaxPolls \in Nat

VARIABLES
    media, plays, mediaMu, pc, request, plan, handled, strayed, seen, unread, answer,
    deletedItems, lastPlayed, recycled,
    pending, timer, closed, timers, taken, accepted, tasks, lost,
    row, target, fill, imports, again, polls, poll, worker

approvalVars == <<status, targets, expiresAt, decidedBy, clock, dangerous, call, deletes>>
deletionVars == <<media, plays, mediaMu, pc, request, plan, handled, strayed, seen,
                  unread, answer, deletedItems, lastPlayed, recycled>>
webhookVars == <<pending, timer, closed, timers, taken, accepted, tasks, lost>>
subscriptionVars == <<row, target, fill, imports, again, polls, poll, worker>>
serverVars == <<drive, approvalVars, deletionVars, webhookVars, subscriptionVars>>

E == INSTANCE EmbyDeletion
W == INSTANCE Webhook
S == INSTANCE Subscriptions

ServerInit == Init /\ E!Init /\ W!Init /\ S!Init

ApprovalStep == Next /\ UNCHANGED <<deletionVars, webhookVars, subscriptionVars>>
DeletionStep == E!Next /\ UNCHANGED <<approvalVars, webhookVars, subscriptionVars>>
WebhookStep == W!Next /\ UNCHANGED <<drive, approvalVars, deletionVars, subscriptionVars>>
SubscriptionStep == S!Next /\ UNCHANGED <<drive, approvalVars, deletionVars, webhookVars>>

\* The process stops and is started again.
ServerCrash == Crash /\ E!Crash /\ W!Crash /\ S!Crash

ServerNext ==
    ApprovalStep \/ DeletionStep \/ WebhookStep \/ SubscriptionStep \/ ServerCrash

ServerSpec == ServerInit /\ [][ServerNext]_serverVars /\ W!Fairness

-----------------------------------------------------------------------------
\* The state of every part stays within its declared ranges, and the media
\* lock is held by the deletion handler exactly while it runs.
PartsTypeOK == TypeOK /\ E!TypeOK /\ W!TypeOK /\ S!TypeOK

\* A deletion recycles only objects found where an item that Emby deleted played
\* them, though agents move objects meanwhile
\* (handleEmbyDeletion, RecycleEmbyDeletionCtx).
OriginalsOfDeleted == E!OriginalsOfDeleted

\* What the deletion handler answers about the outcome is true, as far as the
\* planned folders go: an original that was moved out of its folder counts as
\* deleted.
AnsweredTruly == [][E!AnswerTrue]_serverVars

\* Each CloudDrive change accepted by Notify is counted in one place only.
ChangesCountedOnce == W!ChangesCountedOnce

\* A waiting CloudDrive change is flushed (webhook.go).
ChangesFlushed == W!ChangesFlushed

\* Polls never put two fills of a subscription under way (runShareAutoSync).
OneFillUnderWay == S!OneFillUnderWay
=============================================================================
