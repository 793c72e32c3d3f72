------------------------------- MODULE Webhook -------------------------------
(***************************************************************************)
(* The debounce of CloudDrive change notices into emby_refresh tasks       *)
(* (internal/service/webhook.go, handleCloudDriveWebhook in                *)
(* internal/api/routes.go). Every accepted notice stops the timer the      *)
(* service remembers and arms a new one; a timer that has already fired    *)
(* cannot be stopped, so its flush runs beside the new timer. The service  *)
(* counts changes in memory; here each count is the set of the changes it  *)
(* counts, the n-th accepted notice being n, so that a change counted      *)
(* twice or dropped shows.                                                 *)
(***************************************************************************)
EXTENDS Naturals

CONSTANTS MaxChanges    \* bound on the notices

VARIABLES
    pending, timer, closed,         \* CloudDriveWebhookService
    timers,         \* each timer ever armed: armed, fired, over, or its flush
    taken,          \* what a flush carries to Enqueue
    accepted,       \* how many notices were answered with 202
    tasks,          \* changes counted by emby_refresh tasks
    lost            \* changes whose Enqueue failed, or dropped by Close or a crash

vars == <<pending, timer, closed, timers, taken, accepted, tasks, lost>>

Timers == 1..MaxChanges
NoTimer == 0

TypeOK ==
    /\ pending \subseteq Timers /\ timer \in Timers \cup {NoTimer}
    /\ closed \in BOOLEAN
    /\ timers \in [Timers -> {"none", "armed", "fired", "enqueue", "over"}]
    /\ taken \in [Timers -> SUBSET Timers]
    /\ accepted \in 0..MaxChanges /\ tasks \subseteq Timers /\ lost \subseteq Timers

Init ==
    /\ pending = {} /\ timer = NoTimer /\ closed = FALSE
    /\ timers = [t \in Timers |-> "none"] /\ taken = [t \in Timers |-> {}]
    /\ accepted = 0 /\ tasks = {} /\ lost = {}

\* time.Timer.Stop: only a timer that has not fired is stopped.
Stopped(t) == [timers EXCEPT ![t] = IF @ = "armed" THEN "over" ELSE @]

\* Mutant of Rearmed: the notice that opens a window arms its timer, and the
\* ones that follow only stop it.
ArmedOnce(t) ==
    LET stopped == IF timer = NoTimer THEN timers ELSE Stopped(timer)
    IN IF pending = {} THEN [stopped EXCEPT ![t] = "armed"] ELSE stopped
Rearmed(t) ==
    LET stopped == IF timer = NoTimer THEN timers ELSE Stopped(timer)
    IN [stopped EXCEPT ![t] = "armed"]

\* Notify, under the mutex. The t-th notice arms the t-th timer.
Notify ==
    LET t == accepted + 1
    IN /\ ~closed /\ accepted < MaxChanges
       /\ pending' = pending \cup {t} /\ timers' = Rearmed(t) /\ timer' = t
       /\ accepted' = t
       /\ UNCHANGED <<closed, taken, tasks, lost>>

Fire(t) ==
    /\ timers[t] = "armed" /\ timers' = [timers EXCEPT ![t] = "fired"]
    /\ UNCHANGED <<pending, timer, closed, taken, accepted, tasks, lost>>

\* Mutant of LeftPending: the count is only cleared by the next notice.
KeptPending == pending
LeftPending == {}

\* The locked part of flush. It forgets whatever timer is remembered, which
\* may be one that a later notice has armed.
Flush(t) ==
    /\ timers[t] = "fired"
    /\ IF closed \/ pending = {}
       THEN /\ timers' = [timers EXCEPT ![t] = "over"]
            /\ UNCHANGED <<pending, timer, taken>>
       ELSE /\ timers' = [timers EXCEPT ![t] = "enqueue"]
            /\ taken' = [taken EXCEPT ![t] = pending]
            /\ pending' = LeftPending /\ timer' = NoTimer
    /\ UNCHANGED <<closed, accepted, tasks, lost>>

\* Enqueue after the unlock: a failure is only logged.
Enqueue(t) ==
    /\ timers[t] = "enqueue"
    /\ \/ tasks' = tasks \cup taken[t] /\ UNCHANGED lost
       \/ lost' = lost \cup taken[t] /\ UNCHANGED tasks
    /\ timers' = [timers EXCEPT ![t] = "over"] /\ taken' = [taken EXCEPT ![t] = {}]
    /\ UNCHANGED <<pending, timer, closed, accepted>>

Close ==
    /\ ~closed /\ closed' = TRUE
    /\ timers' = (IF timer = NoTimer THEN timers ELSE Stopped(timer))
    /\ timer' = NoTimer /\ pending' = {} /\ lost' = lost \cup pending
    /\ UNCHANGED <<taken, accepted, tasks>>

\* The process stops and is started again: the timers are gone, and with them
\* what waited or was being carried.
Crash ==
    /\ lost' = lost \cup pending \cup UNION {taken[t] : t \in Timers}
    /\ pending' = {} /\ timer' = NoTimer /\ closed' = FALSE
    /\ timers' = [t \in Timers |-> IF t <= accepted THEN "over" ELSE "none"]
    /\ taken' = [t \in Timers |-> {}]
    /\ UNCHANGED <<accepted, tasks>>

Next == Notify \/ Close \/ \E t \in Timers : Fire(t) \/ Flush(t) \/ Enqueue(t)

\* The runtime fires armed timers and runs the flushes it has started.
Fairness == \A t \in Timers : WF_vars(Fire(t)) /\ WF_vars(Flush(t)) /\ WF_vars(Enqueue(t))

Spec == Init /\ [][Next \/ Crash]_vars /\ Fairness

-----------------------------------------------------------------------------
\* However notices, timers that can no longer be stopped, Close and crashes
\* interleave, every accepted change is in exactly one place: waiting, carried
\* by one flush, counted by one emby_refresh task, or dropped by a failed
\* Enqueue, by Close or by a crash. No change is counted by two tasks.
ChangesCountedOnce ==
    /\ 1..accepted = pending \cup tasks \cup lost \cup UNION {taken[t] : t \in Timers}
    /\ pending \cap tasks = {} /\ pending \cap lost = {} /\ tasks \cap lost = {}
    /\ \A t \in Timers :
         /\ taken[t] \cap (pending \cup tasks \cup lost) = {}
         /\ \A u \in Timers \ {t} : taken[t] \cap taken[u] = {}

\* A change that waits is taken by a flush: the service never forgets the
\* last timer that would have done it.
ChangesFlushed == pending # {} ~> pending = {}

-----------------------------------------------------------------------------
\* What ChangesCountedOnce needs to be inductive: a timer is armed by its own
\* notice, and only a flush on its way to Enqueue carries changes.
TimersInOrder ==
    \A t \in Timers :
        /\ t > accepted => timers[t] = "none"
        /\ taken[t] # {} => timers[t] = "enqueue"
=============================================================================
