--------------------------- MODULE TaskLifecycle ---------------------------
(***************************************************************************)
(* What the task queue promises whoever submits a task, without how it is  *)
(* kept: a task waits, is taken, and ends once and for all. One task is    *)
(* taken at a time. Whoever took it may vanish without ending it; it is    *)
(* then left until recovery, which ends it or, if it may be resumed, puts  *)
(* it back. Every other task is taken at most once.                        *)
(***************************************************************************)
EXTENDS Naturals

CONSTANT Tasks

VARIABLES
    phase,      \* absent, waiting, taken, left or ended
    resumable,  \* the tasks that may be taken again
    starts      \* how often each was taken

vars == <<phase, resumable, starts>>

Init ==
    /\ phase = [t \in Tasks |-> "absent"] /\ resumable = {}
    /\ starts = [t \in Tasks |-> 0]

Submit(t) ==
    /\ phase[t] = "absent" /\ phase' = [phase EXCEPT ![t] = "waiting"]
    /\ resumable' \in {resumable, resumable \cup {t}}
    /\ UNCHANGED starts

Take(t) ==
    /\ phase[t] = "waiting" /\ \A u \in Tasks : phase[u] # "taken"
    /\ t \in resumable \/ starts[t] = 0
    /\ phase' = [phase EXCEPT ![t] = "taken"]
    /\ starts' = [starts EXCEPT ![t] = @ + 1]
    /\ UNCHANGED resumable

\* A task ends when its run does, or is withdrawn while it waits.
End(t) ==
    /\ phase[t] \in {"waiting", "taken"} /\ phase' = [phase EXCEPT ![t] = "ended"]
    /\ UNCHANGED <<resumable, starts>>

Leave(t) ==
    /\ phase[t] = "taken" /\ phase' = [phase EXCEPT ![t] = "left"]
    /\ UNCHANGED <<resumable, starts>>

\* Nothing is taken when recovery runs, and it settles all that was left.
Recover ==
    /\ \A t \in Tasks : phase[t] # "taken"
    /\ phase' = [t \in Tasks |->
                   IF phase[t] # "left" THEN phase[t]
                   ELSE IF t \in resumable THEN "waiting" ELSE "ended"]
    /\ UNCHANGED <<resumable, starts>>

Next ==
    \/ \E t \in Tasks : Submit(t) \/ Take(t) \/ End(t) \/ Leave(t)
    \/ Recover

Spec == Init /\ [][Next]_vars
=============================================================================
