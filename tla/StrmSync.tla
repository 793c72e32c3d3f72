------------------------------ MODULE StrmSync ------------------------------
(***************************************************************************)
(* The synchronisation of the STRM tree with the mounted media             *)
(* (internal/service/media.go, media_series.go): the media are walked, a   *)
(* STRM file that names the source is written for each, stale ones are     *)
(* pruned, and the rest is verified. A source in a legacy season directory *)
(* has its file at a canonical path; the file at the original path is      *)
(* pruned once the canonical one says the same.                            *)
(*                                                                         *)
(* The media live on a mount that may go away and come back at any time:   *)
(* what is seen then is an empty directory, or an error. The canary file   *)
(* on the mount tells the two cases apart. Sources come and go meanwhile,  *)
(* and the process may stop after any single write or removal.             *)
(***************************************************************************)
EXTENDS Naturals, Sequences

CONSTANTS
    Sources,        \* media files
    Excluded,       \* the sources under media_excluded_roots
    Original,       \* the STRM path beside the source's own name
    Output,         \* canonicalSTRMPath
    NoFile, MaxChanges, MaxDrops

VARIABLES
    media,          \* the sources that exist
    mounted,        \* the mount and its canary are there
    tree,           \* the STRM files: the source each one names
    spc, visit,     \* SyncSTRMWithProgress, and what a walk has not yet met
    found,          \* the sources met, in order
    jobs,           \* those whose file is not yet reconciled
    doomed,         \* the file pruneStaleSTRM is about to remove
    steady,         \* sources that existed all the time since the sync began
    lostLate,       \* the mount went away after the canary was looked at
    changes, drops

env == <<media, mounted, changes, drops>>
vars == <<env, tree, spc, visit, found, jobs, doomed, steady, lostLate>>

Paths == {Original[s] : s \in Sources} \cup {Output[s] : s \in Sources}
Normalized(s) == Output[s] # Original[s]
Visible == IF mounted THEN media ELSE {}
Met == {found[i] : i \in DOMAIN found}
Playable(s) == \E p \in Paths : tree[p] = s

\* No other source claims a file this one may have, neither one whose name differs
\* in the extension alone nor one in a legacy directory with this canonical path.
Alone(s) == \A t \in Sources \ {s} : Output[t] \notin {Output[s], Original[s]}

TypeOK ==
    /\ media \subseteq Sources /\ mounted \in BOOLEAN
    /\ tree \in [Paths -> Sources \cup {NoFile}]
    /\ \A p \in Paths : tree[p] # NoFile => p \in {Original[tree[p]], Output[tree[p]]}
    /\ spc \in {"idle", "walk", "write", "prune", "verify"}
    /\ visit \subseteq Sources \cup Paths /\ Met \subseteq Sources
    /\ doomed \in Paths \cup {NoFile} /\ steady \subseteq Sources /\ lostLate \in BOOLEAN
    /\ changes \in 0..MaxChanges /\ drops \in 0..MaxDrops

Init ==
    /\ media \in SUBSET Sources /\ mounted = TRUE
    \* what earlier syncs left
    /\ tree \in {t \in [Paths -> Sources \cup {NoFile}] :
                    \A p \in Paths : t[p] # NoFile => p \in {Original[t[p]], Output[t[p]]}}
    /\ spc = "idle" /\ visit = {} /\ found = <<>> /\ jobs = <<>> /\ doomed = NoFile
    /\ steady = {} /\ lostLate = FALSE /\ changes = 0 /\ drops = 0

-----------------------------------------------------------------------------
StartSync ==
    /\ spc = "idle" /\ spc' = "walk"
    /\ visit' = Sources \ Excluded /\ found' = <<>> /\ jobs' = <<>> /\ doomed' = NoFile
    /\ steady' = media /\ lostLate' = FALSE
    /\ UNCHANGED <<env, tree>>

\* Two sources may claim one file only if neither was rewritten to get there.
Collides(s) == \E t \in Met : Output[t] = Output[s] /\ (Normalized(s) \/ Normalized(t))

WalkEntry(s) ==
    /\ spc = "walk" /\ s \in visit /\ visit' = visit \ {s}
    /\ s \in Visible => ~Collides(s)
    /\ found' = IF s \in Visible THEN Append(found, s) ELSE found
    /\ UNCHANGED <<env, tree, spc, jobs, doomed, steady, lostLate>>

WalkDone ==
    /\ spc = "walk" /\ visit = {} /\ spc' = "write" /\ jobs' = found
    /\ UNCHANGED <<env, tree, visit, found, doomed, steady, lostLate>>

\* processConcurrently: two workers, each with one output at a time. A file
\* that says something else is replaced, unless the path was rewritten.
First(i) == \A j \in 1..i - 1 : Output[jobs[j]] # Output[jobs[i]]

ReconcileOutput(i) ==
    /\ spc = "write" /\ First(i)
    /\ LET s == jobs[i]
       IN /\ Normalized(s) => tree[Output[s]] \in {s, NoFile}
          /\ tree' = [tree EXCEPT ![Output[s]] = s]
    /\ jobs' = SubSeq(jobs, 1, i - 1) \o SubSeq(jobs, i + 1, Len(jobs))
    /\ UNCHANGED <<env, spc, visit, found, doomed, steady, lostLate>>

\* Mutant of CanarySeen: pruning goes ahead without the canary.
CanaryIgnored == TRUE
CanarySeen == mounted

StartPrune ==
    /\ spc = "write" /\ jobs = <<>>
    /\ IF CanarySeen
       THEN spc' = "prune" /\ visit' = {p \in Paths : tree[p] # NoFile}
       ELSE spc' = "verify" /\ visit' = {}
    /\ UNCHANGED <<env, tree, found, jobs, doomed, steady, lostLate>>

Expected == {Output[s] : s \in Met}
Relocates(p, s) == s \in Met /\ Normalized(s) /\ p = Original[s]

\* A file nobody expects goes when its source was given another file, or when
\* what it names is not on the mount.
Stale(p) ==
    /\ p \notin Expected
    /\ IF \E s \in Sources : Relocates(p, s)
       THEN Relocates(p, tree[p]) ELSE tree[p] \notin Visible

\* The other file must say the same, or the sync fails.
PruneFile(p) ==
    /\ spc = "prune" /\ doomed = NoFile /\ p \in visit /\ visit' = visit \ {p}
    /\ Relocates(p, tree[p]) => tree[Output[tree[p]]] = tree[p]
    /\ doomed' = IF Stale(p) THEN p ELSE NoFile
    /\ UNCHANGED <<env, tree, spc, found, jobs, steady, lostLate>>

RemoveFile ==
    /\ spc = "prune" /\ doomed # NoFile
    /\ tree' = [tree EXCEPT ![doomed] = NoFile] /\ doomed' = NoFile
    /\ UNCHANGED <<env, spc, visit, found, jobs, steady, lostLate>>

PruneDone ==
    /\ spc = "prune" /\ doomed = NoFile /\ visit = {} /\ spc' = "verify"
    /\ UNCHANGED <<env, tree, visit, found, jobs, doomed, steady, lostLate>>

\* VerifySTRM only counts.
VerifySTRM ==
    /\ spc = "verify" /\ spc' = "idle"
    /\ UNCHANGED <<env, tree, visit, found, jobs, doomed, steady, lostLate>>

\* Any step may fail, or the process stop, with what was done so far.
SyncFails ==
    /\ spc # "idle" /\ spc' = "idle"
    /\ UNCHANGED <<env, tree, visit, found, jobs, doomed, steady, lostLate>>

-----------------------------------------------------------------------------
SourceAppears(s) ==
    /\ s \notin media /\ changes < MaxChanges /\ changes' = changes + 1
    /\ media' = media \cup {s}
    /\ UNCHANGED <<mounted, drops, tree, spc, visit, found, jobs, doomed, steady, lostLate>>

SourceGoes(s) ==
    /\ s \in media /\ changes < MaxChanges /\ changes' = changes + 1
    /\ media' = media \ {s} /\ steady' = steady \ {s}
    /\ UNCHANGED <<mounted, drops, tree, spc, visit, found, jobs, doomed, lostLate>>

Unmount ==
    /\ mounted /\ drops < MaxDrops /\ drops' = drops + 1 /\ mounted' = FALSE
    /\ lostLate' = (lostLate \/ spc = "prune")
    /\ UNCHANGED <<media, changes, tree, spc, visit, found, jobs, doomed, steady>>

Remount ==
    /\ ~mounted /\ mounted' = TRUE
    /\ UNCHANGED <<media, changes, drops, tree, spc, visit, found, jobs, doomed, steady, lostLate>>

Next ==
    \/ StartSync \/ WalkDone \/ StartPrune \/ RemoveFile \/ PruneDone \/ VerifySTRM
    \/ SyncFails \/ Unmount \/ Remount
    \/ \E s \in Sources : WalkEntry(s) \/ SourceAppears(s) \/ SourceGoes(s)
    \/ \E i \in DOMAIN jobs : ReconcileOutput(i)
    \/ \E p \in Paths : PruneFile(p)

Spec == Init /\ [][Next]_vars

-----------------------------------------------------------------------------
\* A title that could be played stays playable: no single step, so no crash
\* between two steps either, takes away the last STRM file of a source that has
\* existed since the sync began, though the mount comes and goes; the one
\* exception is a mount that goes away after pruning has looked at the canary.
\* (Not claimed of a source whose file another source may claim: their names
\* differ in the extension alone and they take turns, or one of them is in a
\* legacy directory and the other has its canonical path.)
StaysPlayableStep ==
    \A s \in steady \cap steady' :
        Alone(s) /\ Playable(s) /\ ~lostLate' => Playable(s)'
StaysPlayable == [][StaysPlayableStep]_vars
=============================================================================
