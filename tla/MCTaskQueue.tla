---------------------------- MODULE MCTaskQueue ----------------------------
(* TaskQueue on small sets of tasks.                                       *)
EXTENDS TaskQueue, TLC

\* Task identifiers are interchangeable.
TaskSymmetry == Permutations(Uuids)
=============================================================================
