---------------------------- MODULE Subscriptions ----------------------------
(***************************************************************************)
(* Share subscriptions: the rows (internal/storage/share_subscription.go,  *)
(* internal/api/share_subscription.go) and the share_auto_sync task that   *)
(* polls one (internal/service/share_auto_sync.go) by queueing a           *)
(* series_auto_fill, which in turn may queue imports of its own. A poll    *)
(* must not queue a fill while an earlier one, or an import it left, may   *)
(* still bring the same episodes. The one queue worker runs all of them;   *)
(* users retry ended tasks at any time.                                    *)
(***************************************************************************)
EXTENDS Naturals

CONSTANTS
    Fills,          \* the series_auto_fill tasks of one subscription
    MaxPolls,       \* bound on the share_auto_sync tasks
    NoTask

VARIABLES
    row,            \* the subscription: absent, active, inactive
    target,         \* its target_cid names one Series of a following library
    fill,           \* the status of each fill
    imports,        \* and of the import it queued
    again,          \* fills a user retried, or whose import was
    polls,          \* share_auto_sync tasks not started yet
    poll,           \* where the running poll is
    worker          \* what the queue worker runs

vars == <<row, target, fill, imports, again, polls, poll, worker>>

Statuses == {"absent", "pending", "running", "completed", "failed", "cancelled"}
Active(s) == s \in {"pending", "running"}
Ended(s) == s \in {"completed", "failed", "cancelled"}

TypeOK ==
    /\ row \in {"absent", "active", "inactive"} /\ target \in BOOLEAN
    /\ fill \in [Fills -> Statuses] /\ imports \in [Fills -> Statuses]
    /\ again \subseteq Fills /\ polls \in 0..MaxPolls
    /\ poll \in {"idle", "pending", "running", "enqueue"}
    /\ worker \in Fills \cup {NoTask, "poll", "import"}
    /\ (worker = "poll") = (poll # "idle")

Init ==
    /\ row \in {"absent", "active"} /\ target \in BOOLEAN
    /\ fill = [t \in Fills |-> "absent"] /\ imports = [t \in Fills |-> "absent"]
    /\ again = {} /\ polls = MaxPolls /\ poll = "idle" /\ worker = NoTask

-----------------------------------------------------------------------------
(* The rows.                                                               *)

\* A row is created, changed, toggled or deleted while tasks run.
SaveSubscription(s) ==
    /\ s # row /\ row' = s /\ target' \in BOOLEAN
    /\ UNCHANGED <<fill, imports, again, polls, poll, worker>>

-----------------------------------------------------------------------------
(* runShareAutoSync, which lists the pending tasks, then the running ones, *)
(* resolves the Series and queues a fill: Retry may come in between.       *)

StartPoll ==
    /\ worker = NoTask /\ polls > 0 /\ polls' = polls - 1
    /\ worker' = "poll" /\ poll' = "pending"
    /\ UNCHANGED <<row, target, fill, imports, again>>

\* Mutant of Busy: only the fills are looked at, not what they left queued.
FillBusy(status) == \E t \in Fills : fill[t] = status
Busy(status) == \E t \in Fills : fill[t] = status \/ imports[t] = status

EndPoll == poll' = "idle" /\ worker' = NoTask

CheckActive ==
    /\ poll \in {"pending", "running"}
    /\ \/ poll = "pending" /\ row # "active" /\ EndPoll
       \/ Busy(poll) /\ EndPoll
       \/ ~Busy(poll) /\ (poll = "pending" => row = "active")
          /\ poll' = (IF poll = "pending" THEN "running" ELSE "enqueue")
          /\ UNCHANGED worker
    /\ UNCHANGED <<row, target, fill, imports, again, polls>>

EnqueueFill ==
    /\ poll = "enqueue" /\ EndPoll
    /\ \/ ~target /\ UNCHANGED fill
       \/ /\ target
          /\ \E t \in Fills : /\ fill[t] = "absent"
                              /\ fill' = [fill EXCEPT ![t] = "pending"]
    /\ UNCHANGED <<row, target, imports, again, polls>>

-----------------------------------------------------------------------------
(* The worker on fills and imports (modules TaskQueue, AutoFill).          *)

RunFill(t) ==
    /\ worker = NoTask /\ fill[t] = "pending"
    /\ fill' = [fill EXCEPT ![t] = "running"] /\ worker' = t
    /\ UNCHANGED <<row, target, imports, again, polls, poll>>

QueueImport(t) ==
    /\ worker = t /\ ~Active(imports[t])
    /\ imports' = [imports EXCEPT ![t] = "pending"]
    /\ UNCHANGED <<row, target, fill, again, polls, poll, worker>>

\* A fill that fails cancels the imports it has queued.
EndFill(t, s) ==
    /\ worker = t /\ fill' = [fill EXCEPT ![t] = s] /\ worker' = NoTask
    /\ imports' = [imports EXCEPT ![t] =
                     IF s = "failed" /\ @ = "pending" THEN "cancelled" ELSE @]
    /\ UNCHANGED <<row, target, again, polls, poll>>

RunImport(t) ==
    /\ worker = NoTask /\ imports[t] = "pending"
    /\ imports' = [imports EXCEPT ![t] = "running"] /\ worker' = "import"
    /\ UNCHANGED <<row, target, fill, again, polls, poll>>

EndImport(t, s) ==
    /\ imports[t] = "running" /\ imports' = [imports EXCEPT ![t] = s] /\ worker' = NoTask
    /\ UNCHANGED <<row, target, fill, again, polls, poll>>

Retry(t) ==
    /\ \/ Ended(fill[t]) /\ fill' = [fill EXCEPT ![t] = "pending"] /\ UNCHANGED imports
       \/ Ended(imports[t]) /\ imports' = [imports EXCEPT ![t] = "pending"] /\ UNCHANGED fill
    /\ again' = again \cup {t}
    /\ UNCHANGED <<row, target, polls, poll, worker>>

\* Restart: an interrupted import is resumed, everything else has failed.
Crash ==
    /\ fill' = [t \in Fills |-> IF fill[t] = "running" THEN "failed" ELSE fill[t]]
    /\ imports' = [t \in Fills |-> IF imports[t] = "running" THEN "pending" ELSE imports[t]]
    /\ poll' = "idle" /\ worker' = NoTask
    /\ UNCHANGED <<row, target, again, polls>>

Next ==
    \/ \E s \in {"absent", "active", "inactive"} : SaveSubscription(s)
    \/ StartPoll \/ CheckActive \/ EnqueueFill
    \/ \E t \in Fills :
         \/ RunFill(t) \/ QueueImport(t) \/ RunImport(t) \/ Retry(t)
         \/ \E s \in {"completed", "failed"} : EndFill(t, s) \/ EndImport(t, s)

Spec == Init /\ [][Next \/ Crash]_vars

-----------------------------------------------------------------------------
\* A fill counts until the import it queued has ended too.
UnderWay(t) == Active(fill[t]) \/ Active(imports[t])

\* Polling, restarts and edits of the row never have two fills of a
\* subscription under way. Only a task that a user retried may run beside
\* another.
OneFillUnderWay ==
    \A t, u \in Fills \ again : UnderWay(t) /\ UnderWay(u) => t = u
=============================================================================
