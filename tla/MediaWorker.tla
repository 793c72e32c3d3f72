----------------------------- MODULE MediaWorker -----------------------------
(***************************************************************************)
(* What the media worker does inside one task: the replacement of a series *)
(* (Replacement), the filling of gaps (AutoFill), an ingest (Ingest), an   *)
(* STRM synchronisation (StrmSync) or the saving of a Quark share          *)
(* (ShareSave). The media lock keeps these apart in the program, so one    *)
(* procedure runs at a time; what meddles with it is in its own module.    *)
(***************************************************************************)
EXTENDS Replacement, Sequences, FiniteSets

CONSTANTS
    Works, Series, Resources, Provider, ShareMenu, Payloads, Missing,
    MaxSeries, CandidateLimit,
    Catalogue,      \* of every work, in the library or not: its titles, year and TMDB id
    Items, Movable, Others, Bytes, Canonical, NoItem, MaxRuns,
    Sources, Excluded, Original, Output, NoFile, MaxChanges, MaxDrops,
    Entries, Names, Sizes, Selections, MaxEdits, MaxAdds

\* A label is true of a work: it gives titles, the year and the id of that work
\* or says nothing of them.
TrueOf(label, w) ==
    /\ label.title # 0 => label.title \in Catalogue[w].titles
    /\ label.year \in {0, Catalogue[w].year} /\ label.id \in {0, Catalogue[w].id}

\* Works with a title and the year in common have one TMDB id, and only series
\* of the library may share an id. What Emby knows of a series is true.
ASSUME CatalogueAssumption ==
    /\ Series \subseteq DOMAIN Works /\ Series \subseteq DOMAIN Catalogue
    /\ \A v, w \in DOMAIN Catalogue :
          /\ Catalogue[v].year = Catalogue[w].year /\ Catalogue[v].titles \cap Catalogue[w].titles # {}
                => Catalogue[v].id = Catalogue[w].id
          /\ Catalogue[v].id = Catalogue[w].id => v = w \/ {v, w} \subseteq Series
    /\ \A s \in Series :
          /\ {Works[s].title, Works[s].original} \ {0} \subseteq Catalogue[s].titles
          /\ Works[s].year \in {0, Catalogue[s].year} /\ Works[s].id = Catalogue[s].id

\* The names in and around a share are true of the work in each leaf; so is the
\* season of a directory and of a leaf's name, where they give one.
ASSUME ShareAssumption ==
    \A share \in ShareMenu : \A i \in DOMAIN share.leaves :
        LET leaf == share.leaves[i]
        IN /\ leaf.work \in DOMAIN Catalogue
           /\ \A l \in share.titles \cup leaf.ancestors \cup {leaf.name} : TrueOf(l, leaf.work)
           /\ \A l \in leaf.ancestors : l.season \in {0, leaf.season}
           /\ leaf.numbered => \A j \in DOMAIN leaf.keys : leaf.keys[j][1] = leaf.season

\* Emby answers for each series what is missing; a payload that names a share
\* names one that exists.
ASSUME AnswerAssumption == \A m \in Missing : m = [s \in Series |-> m[s]]
ASSUME PayloadAssumption ==
    \A p \in Payloads : \A s \in DOMAIN p.sources : p.sources[s] \in Resources

ASSUME WorkerAssumption ==
    /\ Series # {} /\ Movable \subseteq Items
    /\ NoFile \notin Sources
    /\ 0 \notin Entries
    /\ MaxRuns \in Nat /\ MaxChanges \in Nat /\ MaxDrops \in Nat
    /\ MaxEdits \in Nat /\ MaxAdds \in Nat
    /\ Selections \subseteq Seq(Entries)

VARIABLES
    scene,          \* the procedure that runs
    shares, missing, folder, linked, queued, fpc, spec, gaps, todo, cur, candidates,
    inspected, chosen, got, remaining, moved, fatal, stop,
    where, name, gpc, left, item, unmet, goal, current, report, runs, outsiders,
    media, mounted, tree, spc, visit, found, jobs, doomed, steady, lostLate, changes, drops,
    share, target, arriving, manifest, exact, qpc, fresh, before, answered, roots, edits, adds

F == INSTANCE AutoFill
I == INSTANCE Ingest
S == INSTANCE StrmSync
Q == INSTANCE ShareSave

fillVars == <<shares, missing, folder, linked, queued, fpc, spec, gaps, todo, cur,
              candidates, inspected, chosen, got, remaining, moved, fatal, stop>>
ingestVars == <<where, name, gpc, left, item, unmet, goal, current, report, runs, outsiders>>
syncVars == <<media, mounted, tree, spc, visit, found, jobs, doomed, steady, lostLate,
              changes, drops>>
saveVars == <<share, target, arriving, manifest, exact, qpc, fresh, before, answered,
              roots, edits, adds>>
workerVars == <<scene, vars, fillVars, ingestVars, syncVars, saveVars>>

WorkerInit ==
    /\ scene \in {"replacement", "fill", "ingest", "sync", "save"}
    /\ Init /\ F!Init /\ I!Init /\ S!Init /\ Q!Init

ReplacementStep ==
    /\ scene = "replacement" /\ Next
    /\ UNCHANGED <<scene, fillVars, ingestVars, syncVars, saveVars>>
FillStep ==
    /\ scene = "fill" /\ F!Next
    /\ UNCHANGED <<scene, vars, ingestVars, syncVars, saveVars>>
IngestStep ==
    /\ scene = "ingest" /\ I!Next
    /\ UNCHANGED <<scene, vars, fillVars, syncVars, saveVars>>
SyncStep ==
    /\ scene = "sync" /\ S!Next
    /\ UNCHANGED <<scene, vars, fillVars, ingestVars, saveVars>>
SaveStep ==
    /\ scene = "save" /\ Q!Next
    /\ UNCHANGED <<scene, vars, fillVars, ingestVars, syncVars>>

WorkerNext == ReplacementStep \/ FillStep \/ IngestStep \/ SyncStep \/ SaveStep

WorkerSpec == WorkerInit /\ [][WorkerNext]_workerVars

-----------------------------------------------------------------------------
\* The state of every procedure stays within its declared ranges.
PartsTypeOK == TypeOK /\ F!TypeOK /\ I!TypeOK /\ S!TypeOK /\ Q!TypeOK

\* A series gets only files of its own work for its missing episodes, and of the
\* right season where the path gives one (autoFillEpisodeIdentityMatches).
OnlyOwnEpisodes == F!OnlyOwnEpisodes

\* A fill takes an episode once and tries to cancel all it queued when it fails
\* (processAutoFillSeries, runSeriesAutoFill).
RunAccounted == F!RunAccounted

\* What a finished ingest reports is where it says (moveIngestItem).
IngestedTruly == I!IngestedTruly

\* No step of a sync takes away the last STRM file of a lasting source
\* (SyncSTRMWithProgress, pruneStaleSTRM).
StaysPlayable == [][S!StaysPlayableStep]_workerVars

\* The roots a share save reports are different objects with the names and sizes
\* of the selected files, none of another selected one (saveShareSelections).
SavedAsSelected == Q!SavedAsSelected
=============================================================================
