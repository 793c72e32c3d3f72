------------------------------ MODULE AutoFill ------------------------------
(***************************************************************************)
(* Filling the gaps of series from shares (internal/service/autofill.go,   *)
(* autofill_identity.go): one run asks Emby which aired episodes are       *)
(* missing, inspects the shares a search finds for each series, decides    *)
(* from their names which leaves are those episodes, receives 115 shares   *)
(* into the series' folder, queues an import for Quark ones, synchronises  *)
(* the STRM tree and scans. Every outside call may fail; some failures end *)
(* the run (cancellation, transport, 401, 405, 429, 5xx), the others only  *)
(* the share. The replacement of a whole series is in Replacement.         *)
(*                                                                         *)
(* A label is what parseAutoFillLabel makes of a name: title, year, season *)
(* and TMDB id, each 0 where the name does not say. A leaf is the file of  *)
(* one work and season; its keys are what episodeKeysFromName makes of its *)
(* name, and it is numbered when that name gives the season ("S02E03").    *)
(***************************************************************************)
EXTENDS Naturals, Sequences, FiniteSets

CONSTANTS
    Works,          \* what Emby knows of each series, and the works that are not in it
    Series,         \* the series of the library, a subset of DOMAIN Works
    Resources,      \* the shares a search may find
    Provider,       \* their provider, "115" or "quark"
    ShareMenu,      \* what a share may hold
    Payloads,       \* the task payloads
    Missing,        \* what Emby misses: a set of functions of the series
    MaxSeries,      \* max_series
    CandidateLimit  \* candidate_limit

VARIABLES
    shares,         \* what each resource holds
    missing,        \* the aired episodes Emby does not own
    folder,         \* what this run received into each series' 115 folder
    linked,         \* the received episodes that have a STRM file
    queued,         \* the Quark imports queued, with the state of their task
    \* runSeriesAutoFill and processAutoFillSeries
    fpc, spec, gaps, todo, cur, candidates,
    inspected,      \* the shares that have something, with what they are selected for
    chosen,
    got,            \* per series, the episodes reported as transferred
    remaining,      \* per series, the episodes reported as remaining
    moved,          \* some transfer was made
    fatal,          \* fatalErr
    stop            \* a failure that ends the run has been met

world == <<shares, missing, folder, linked, queued>>
run == <<spec, gaps, todo, cur, candidates, inspected, chosen, got, remaining, moved, fatal, stop>>
vars == <<world, fpc, run>>

Episodes == UNION {UNION {m[s] : s \in Series} : m \in Missing}

-----------------------------------------------------------------------------
(* Identity.                                                               *)

Named(values) == values \ {0}
OneOf(values) == \A v, w \in Named(values) : v = w
Titles(work) == Named({work.title, work.original})

\* collectAutoFillIdentityEvidence: no label contradicts the series, or another.
Agrees(work, labels, rejectOtherTitles) ==
    /\ \A l \in labels : l.id \in {0, work.id}
    /\ OneOf({l.year : l \in labels} \cup {work.year})
    /\ OneOf({l.season : l \in labels} \cup {work.season})
    /\ rejectOtherTitles =>
          \A l \in labels : l.title = 0 \/ l.title \in Titles(work) \/ l.id # 0

MatchedID(labels) == \E l \in labels : l.id # 0
MatchedTitle(work, labels) == \E l \in labels : l.title \in Titles(work)
MatchedYear(labels) == \E l \in labels : l.year # 0

\* A season directory above the leaf must be the season of its episodes.
LeafSeasonMatches(leaf) ==
    \A l \in leaf.ancestors, i \in DOMAIN leaf.keys : l.season \in {0, leaf.keys[i][1]}

\* Mutant of Corroborated: a title is enough.
TitleEnough(work, labels) == MatchedID(labels) \/ MatchedTitle(work, labels)
\* The series is named by its TMDB id, or its known year is confirmed.
Corroborated(work, labels) == MatchedID(labels) \/ (work.year # 0 /\ MatchedYear(labels))

\* The path inside the share names the series; the titles around it may only
\* corroborate.
EpisodeIdentityMatches(work, share, leaf) ==
    LET live == leaf.ancestors \cup {leaf.name}
        all == live \cup share.titles
    IN /\ Agrees(work, live, TRUE)
       /\ MatchedTitle(work, live) \/ MatchedID(live)
       /\ Agrees(work, all, FALSE) /\ Corroborated(work, all)
       /\ LeafSeasonMatches(leaf)

\* What a share is selected for: the number of a leaf for each missing episode
\* found. Leaves are gone through in order, and each one that matches is
\* selected for the first episode its name gives that is missing and that no
\* earlier leaf was selected for.
FirstOf(keys, wanted) ==
    {keys[j] : j \in {n \in DOMAIN keys : /\ keys[n] \in wanted
                                          /\ \A m \in 1..n - 1 : keys[m] \notin wanted}}
LeafSelections(work, share, needed) ==
    {sel \in UNION {[keys -> DOMAIN share.leaves] : keys \in SUBSET needed} :
        \A i \in DOMAIN share.leaves :
            {k \in DOMAIN sel : sel[k] = i} =
                IF EpisodeIdentityMatches(work, share, share.leaves[i])
                THEN FirstOf(share.leaves[i].keys, needed \ {k \in DOMAIN sel : sel[k] < i})
                ELSE {}}

-----------------------------------------------------------------------------
(* The task.                                                               *)

TypeOK ==
    /\ shares \in [Resources -> ShareMenu] /\ missing \in [Series -> SUBSET Episodes]
    /\ \A s \in Series : /\ gaps[s] \subseteq Episodes /\ linked[s] \subseteq Episodes
                         /\ got[s] \cup remaining[s] \subseteq gaps[s]
                         /\ got[s] \cap remaining[s] = {}
                         /\ \A f \in folder[s] : f.resource \in Resources
    /\ \A q \in queued : q.series \in Series /\ q.state \in {"pending", "cancelled", "kept"}
    /\ fpc \in {"start", "inventory", "library", "probe", "transfer",
                "scan", "verify", "cleanup", "done", "failed"}
    /\ todo \subseteq Series /\ cur \in Series /\ {moved, fatal, stop} \subseteq BOOLEAN
    /\ candidates \subseteq Resources /\ DOMAIN inspected \subseteq Resources
    /\ DOMAIN chosen \subseteq DOMAIN inspected

Init ==
    /\ shares \in [Resources -> ShareMenu] /\ missing \in Missing
    /\ folder = [s \in Series |-> {}] /\ linked = [s \in Series |-> {}] /\ queued = {}
    /\ fpc = "start" /\ spec \in Payloads
    /\ gaps = [s \in Series |-> {}] /\ todo = {} /\ cur = CHOOSE s \in Series : TRUE
    /\ candidates = {} /\ inspected = <<>> /\ chosen = <<>>
    /\ got = [s \in Series |-> {}] /\ remaining = [s \in Series |-> {}]
    /\ moved = FALSE /\ fatal = FALSE /\ stop = FALSE

\* resolveSeriesAutoFillSpec: explicit shares name the series when the payload
\* does not, and no series has both a share and an override.
SeriesIDs(p) == IF p.seriesIDs = {} THEN DOMAIN p.sources ELSE p.seriesIDs
Valid(p) ==
    /\ DOMAIN p.sources \cap DOMAIN p.overrides = {}
    /\ SeriesIDs(p) \cup DOMAIN p.sources \cup DOMAIN p.overrides \subseteq Series
    /\ SeriesIDs(p) # {} => DOMAIN p.sources \cup DOMAIN p.overrides \subseteq SeriesIDs(p)

ResolveSpec ==
    /\ fpc = "start"
    /\ IF Valid(spec) THEN fpc' = "inventory" ELSE fpc' = "failed"
    /\ UNCHANGED <<world, run>>

\* limit members of the set, or the whole set when it is smaller.
UpTo(limit, set) ==
    {t \in SUBSET set : Cardinality(t) = limit \/ (t = set /\ Cardinality(t) < limit)}
UniqueID(s) == \A t \in Series : Works[t].id = Works[s].id => t = s

\* The missing episodes of the selected series, at most MaxSeries of them; a
\* TMDB id that two series share makes the run fail in the end.
ListMissing ==
    /\ fpc = "inventory" /\ fpc' = "library"
    /\ LET selected == IF SeriesIDs(spec) = {} THEN Series ELSE SeriesIDs(spec)
           open == {s \in selected : missing[s] # {}}
       IN /\ gaps' = [s \in Series |-> IF s \in selected THEN missing[s] ELSE {}]
          /\ todo' \in UpTo(MaxSeries, open)
          /\ fatal' = (\E s \in Series : ~UniqueID(s))
    /\ UNCHANGED <<world, spec, cur, candidates, inspected, chosen, got, remaining, moved, stop>>

\* The series has one TMDB id and one folder, and shares were searched for. A
\* Quark search that fails only leaves the 115 shares. At most CandidateLimit
\* shares are inspected.
StartSeries(s) ==
    /\ fpc = "library" /\ ~stop /\ s \in todo /\ UniqueID(s)
    /\ todo' = todo \ {s} /\ cur' = s /\ inspected' = <<>> /\ chosen' = <<>>
    /\ fpc' = "probe"
    /\ \E found \in {Resources, {r \in Resources : Provider[r] = "115"}} :
          LET offered == IF s \in DOMAIN spec.sources THEN {spec.sources[s]} ELSE found
          IN candidates' \in UpTo(CandidateLimit, offered)
    /\ UNCHANGED <<world, spec, gaps, got, remaining, moved, fatal, stop>>

SeriesUnusable(s) ==
    /\ fpc = "library" /\ ~stop /\ s \in todo /\ todo' = todo \ {s}
    /\ fatal' = TRUE /\ remaining' = [remaining EXCEPT ![s] = gaps[s]]
    /\ UNCHANGED <<world, fpc, spec, gaps, cur, candidates, inspected, chosen, got, moved, stop>>

\* scanAutoFillShare, and the leaves it selects.
ScanShare(r) ==
    /\ fpc = "probe" /\ r \in candidates
    /\ candidates' = candidates \ {r}
    /\ \E sel \in LeafSelections(Works[cur], shares[r], gaps[cur]) :
          inspected' = IF DOMAIN sel = {} THEN inspected
                       ELSE [x \in DOMAIN inspected \cup {r} |->
                                IF x = r THEN sel ELSE inspected[x]]
    /\ UNCHANGED <<world, fpc, spec, gaps, todo, cur, chosen, got, remaining, moved, fatal, stop>>

\* A share that cannot be read is rejected; a failure of the provider itself
\* ends the inspection.
ScanFails(r) ==
    /\ fpc = "probe" /\ r \in candidates
    /\ \/ candidates' = candidates \ {r} /\ UNCHANGED stop
       \/ candidates' = {} /\ stop' = TRUE
    /\ UNCHANGED <<world, fpc, spec, gaps, todo, cur, inspected, chosen, got, remaining,
                   moved, fatal>>

\* Mutant of ChosenFor: every share that has the episode gives it.
AllOf(key, refs) == refs
\* The share an episode is taken from: the override, or the only one that has
\* it; more than one is a conflict, left to the user.
ChosenFor(key, refs) ==
    IF cur \in DOMAIN spec.overrides THEN refs \cap {spec.overrides[cur]}
    ELSE IF \A x, y \in refs : x = y THEN refs ELSE {}

Choice(r) ==
    {k \in DOMAIN inspected[r] :
        r \in ChosenFor(k, {x \in DOMAIN inspected : k \in DOMAIN inspected[x]})}

\* A preview transfers nothing.
Choose ==
    /\ fpc = "probe" /\ candidates = {}
    /\ LET picks == {r \in DOMAIN inspected : Choice(r) # {}}
           matched == UNION {Choice(r) : r \in picks}
       IN IF spec.transfer
          THEN /\ fpc' = "transfer" /\ chosen' = [r \in picks |-> Choice(r)]
               /\ remaining' = [remaining EXCEPT ![cur] = gaps[cur]]
          ELSE /\ fpc' = "library" /\ UNCHANGED chosen
               /\ remaining' = [remaining EXCEPT ![cur] = gaps[cur] \ matched]
    /\ UNCHANGED <<world, spec, gaps, todo, cur, candidates, inspected, got, moved, fatal, stop>>

Files(r) == {[resource |-> r, key |-> k, leaf |-> shares[r].leaves[inspected[r][k]]] :
                k \in chosen[r]}
Handled(r) == chosen' = [x \in DOMAIN chosen \ {r} |-> chosen[x]]

QueueImport(r) ==
    /\ fpc = "transfer" /\ r \in DOMAIN chosen /\ Provider[r] = "quark" /\ Handled(r)
    /\ \/ /\ queued' = queued \cup {[series |-> cur, files |-> Files(r), state |-> "pending"]}
          /\ remaining' = [remaining EXCEPT ![cur] = @ \ chosen[r]]
          /\ UNCHANGED fatal
       \/ fatal' = TRUE /\ UNCHANGED <<queued, remaining>>
    /\ UNCHANGED <<shares, missing, folder, linked, fpc, spec, gaps, todo, cur, candidates,
                   inspected, got, moved, stop>>

\* receiveShareEntriesCtx answers, refuses this share (a missing account is
\* fatal in the end), or fails in a way that ends the run, with the files
\* received or not.
ReceiveShare(r) ==
    /\ fpc = "transfer" /\ r \in DOMAIN chosen /\ Provider[r] = "115"
    /\ \/ /\ Handled(r) /\ folder' = [folder EXCEPT ![cur] = @ \cup Files(r)]
          /\ got' = [got EXCEPT ![cur] = @ \cup chosen[r]]
          /\ remaining' = [remaining EXCEPT ![cur] = @ \ chosen[r]]
          /\ moved' = TRUE /\ UNCHANGED <<fatal, stop>>
       \/ /\ Handled(r) /\ fatal' \in {fatal, TRUE}
          /\ UNCHANGED <<folder, got, remaining, moved, stop>>
       \/ /\ chosen' = <<>> /\ fatal' = TRUE /\ stop' = TRUE
          /\ folder' \in {folder, [folder EXCEPT ![cur] = @ \cup Files(r)]}
          /\ UNCHANGED <<got, remaining, moved>>
    /\ UNCHANGED <<shares, missing, linked, queued, fpc, spec, gaps, todo, cur, candidates, inspected>>

\* Mutant of NotSeen: what did not appear still counts as transferred.
StillCounted == got[cur]
\* What counts as transferred when the mount does not show it.
NotSeen == {}

\* waitForAutoFillFiles: what does not appear on the mount was not transferred.
WaitForFiles ==
    /\ fpc = "transfer" /\ DOMAIN chosen = {} /\ fpc' = "library"
    /\ \/ UNCHANGED <<got, remaining, fatal>>
       \/ /\ got[cur] # {} /\ fatal' = TRUE
          /\ remaining' = [remaining EXCEPT ![cur] = @ \cup got[cur]]
          /\ got' = [got EXCEPT ![cur] = NotSeen]
    /\ UNCHANGED <<world, spec, gaps, todo, cur, candidates, inspected, chosen, moved, stop>>

\* The library is done: what was transferred gets its STRM files, and so does
\* what was received and has appeared since.
SyncSTRM(late) ==
    /\ fpc = "library" /\ ~stop /\ todo = {}
    /\ fpc' = IF moved THEN "scan" ELSE "verify"
    /\ linked' = IF \E s \in Series : got[s] # {}
               THEN [s \in Series |-> got[s] \cup {f.key : f \in late \cap folder[s]}] ELSE linked
    /\ UNCHANGED <<shares, missing, folder, queued, run>>

RunLibraryScan ==
    /\ fpc = "scan" /\ fpc' = "verify"
    /\ missing' = [s \in Series |-> missing[s] \ linked[s]]
    /\ UNCHANGED <<shares, folder, linked, queued, run>>

\* The gaps are listed again; a series whose path or identity changed is fatal.
VerifyRun ==
    /\ fpc = "verify"
    /\ remaining' = [s \in Series |-> missing[s] \cap gaps[s]]
    /\ fatal' \in {fatal, TRUE}
    /\ fpc' = IF fatal' THEN "cleanup" ELSE "done"
    /\ UNCHANGED <<world, spec, gaps, todo, cur, candidates, inspected, chosen, got, moved, stop>>

\* An outside call of the run itself fails, it is cancelled, or a failure that
\* ends it was met.
RunFails ==
    /\ fpc \in {"inventory", "library", "scan", "verify"} /\ fpc' = "cleanup"
    /\ UNCHANGED <<world, run>>

\* cancelQueuedAutoFillImports: one import after the other. A cancellation that
\* fails is reported, and the import stays as it is.
CancelImport(q) ==
    /\ fpc = "cleanup" /\ q.state = "pending"
    /\ \E outcome \in {"cancelled", "kept"} :
          queued' = (queued \ {q}) \cup {[q EXCEPT !.state = outcome]}
    /\ UNCHANGED <<shares, missing, folder, linked, fpc, run>>

\* Mutant of AllTried: the first failure ends the clean-up.
FirstFailure ==
    (\E q \in queued : q.state = "kept") \/ \A q \in queued : q.state # "pending"
AllTried == \A q \in queued : q.state # "pending"

Cleanup ==
    /\ fpc = "cleanup" /\ AllTried /\ fpc' = "failed"
    /\ UNCHANGED <<world, run>>

Next ==
    \/ ResolveSpec \/ ListMissing \/ Choose \/ WaitForFiles
    \/ \E late \in {{}, UNION {folder[s] : s \in Series}} : SyncSTRM(late)
    \/ RunLibraryScan \/ VerifyRun \/ RunFails \/ Cleanup
    \/ \E q \in queued : CancelImport(q)
    \/ \E s \in Series : StartSeries(s) \/ SeriesUnusable(s)
    \/ \E r \in Resources : ScanShare(r) \/ ScanFails(r) \/ QueueImport(r) \/ ReceiveShare(r)

Spec == Init /\ [][Next]_vars

-----------------------------------------------------------------------------
\* Whatever shares turn up, as long as their names tell the truth: a series
\* gets only files of its own work, for episodes that were missing, though a work
\* outside the library has the same title; and of its own season, when the name
\* of the file or of a directory above it gives the season
\* (autoFillEpisodeIdentityMatches). Where only the share's title does, or none,
\* the code takes the file for one of season 1.
OnlyOwnEpisodes ==
    \A s \in Series :
        \A f \in folder[s] \cup UNION {q.files : q \in {x \in queued : x.series = s}} :
            /\ f.leaf.work = s /\ f.key \in gaps[s]
            /\ f.leaf.numbered \/ (\E l \in f.leaf.ancestors : l.season # 0)
                  => f.leaf.season = f.key[1]

\* An episode is taken from one share at most and never both received and
\* queued; what is reported as transferred has its STRM file once the run is
\* done; and a run that fails has cancelled every import it queued, except for
\* those whose own cancellation failed (the queue runs them only after a parent
\* that completed).
RunAccounted ==
    /\ \A s \in Series :
          LET taken == folder[s] \cup UNION {q.files : q \in {x \in queued : x.series = s}}
          IN \A f, g \in taken : f.key = g.key => f = g
    /\ fpc = "done" => \A s \in Series : got[s] \subseteq linked[s]
    /\ fpc = "failed" => \A q \in queued : q.state \in {"cancelled", "kept"}
=============================================================================
