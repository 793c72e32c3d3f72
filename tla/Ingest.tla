------------------------------- MODULE Ingest -------------------------------
(***************************************************************************)
(* The media ingest task (internal/service/media_ingest.go): the files a   *)
(* verified import left in the staging folder of 115 move into the folder  *)
(* of the one series they belong to, each under its canonical name, or     *)
(* under that name with its SHA-1 when another file has it; a file whose   *)
(* bytes are already there stays in staging. Then STRM files are written,  *)
(* Emby scans, and must own every episode.                                 *)
(*                                                                         *)
(* 115 may answer a call with an error after it took effect, or with       *)
(* success before (or without) it. The task may fail or the process stop   *)
(* anywhere; it is then run again from the start. A user may move a file   *)
(* of the import away.                                                     *)
(***************************************************************************)
EXTENDS Naturals, Sequences

CONSTANTS
    Items,          \* the files of the import
    Movable,        \* those that are verified, numbered media of the series
    Others,         \* files already in the series' folder
    Bytes,          \* what each file holds
    Canonical,      \* canonicalIngestName of an item, and the name of an other
    NoItem, MaxRuns, MaxMeddles

VARIABLES
    where,          \* the folder of each item
    name,           \* the name of each item: staged, canonical or with its SHA-1
    gpc, left, item,
    unmet,          \* files of the target listed and not yet compared with the item
    goal, current, report, runs, outsiders

files == <<where, name>>
vars == <<files, gpc, left, item, unmet, goal, current, report, runs, outsiders>>

Staged(i) == <<"staged", i>>
Suffixed(n, bytes) == n \o <<bytes>>
NameOf(f) == IF f \in Items THEN name[f] ELSE Canonical[f]
Target == Others \cup {i \in Items : where[i] = "target"}

TypeOK ==
    /\ where \in [Items -> {"staging", "target", "elsewhere"}]
    /\ DOMAIN name = Items
    /\ gpc \in {"idle", "resolve", "list", "meet", "move", "rename", "wait", "scan",
                "failed", "review", "done"}
    /\ left \subseteq Movable /\ item \in Items \cup {NoItem} /\ unmet \subseteq Items \cup Others
    /\ DOMAIN report = Items
    /\ \A i \in Items : report[i].status \in {"none", "organized", "duplicate"}
    /\ runs \in 0..MaxRuns /\ outsiders \in 0..MaxMeddles

Unreported == [i \in Items |-> [status |-> "none", name |-> <<>>]]

Init ==
    /\ where = [i \in Items |-> "staging"] /\ name = [i \in Items |-> Staged(i)]
    /\ gpc = "idle" /\ left = {} /\ item = NoItem /\ unmet = {} /\ goal = <<>> /\ current = <<>>
    /\ report = Unreported /\ runs = 0 /\ outsiders = 0

\* A provider call with its effect: success, an error that may hide it, or a
\* success that is not true (yet).
ProviderCall(to, effect, none) ==
    \/ gpc' = to /\ (effect \/ none)
    \/ gpc' = "failed" /\ (effect \/ none)

StartIngest ==
    /\ gpc = "idle" /\ runs < MaxRuns /\ runs' = runs + 1
    /\ gpc' = "resolve" /\ report' = Unreported /\ item' = NoItem
    /\ UNCHANGED <<files, left, unmet, goal, current, outsiders>>

\* One existing series must match every video, or a user has to look.
ResolveCandidate ==
    /\ gpc = "resolve"
    /\ \/ gpc' = "list" /\ left' = Movable
       \/ gpc' = "review" /\ UNCHANGED left
    /\ UNCHANGED <<files, item, unmet, goal, current, report, runs, outsiders>>

\* The item is looked for in the target, and then in staging as it was left.
ListItem(i) ==
    /\ gpc = "list" /\ i \in left /\ left' = left \ {i} /\ item' = i
    /\ current' = name[i] /\ goal' = Canonical[i] /\ unmet' = Target
    /\ gpc' = IF where[i] = "target" THEN "rename"
              ELSE IF where[i] = "staging" /\ name[i] = Staged(i) THEN "meet" ELSE "failed"
    /\ UNCHANGED <<files, report, runs, outsiders>>

\* The listing of the target is gone through once, in the order 115 gave it:
\* each file that has the wanted name makes the item a duplicate or lengthens
\* the name.
MeetFile(f) ==
    /\ gpc = "meet" /\ f \in unmet /\ unmet' = unmet \ {f}
    /\ \/ NameOf(f) # goal /\ UNCHANGED <<gpc, goal, report>>
       \/ /\ NameOf(f) = goal /\ Bytes[f] = Bytes[item] /\ gpc' = "list"
          /\ report' = [report EXCEPT ![item] = [status |-> "duplicate", name |-> goal]]
          /\ UNCHANGED goal
       \/ /\ NameOf(f) = goal /\ Bytes[f] # Bytes[item] /\ goal' = Suffixed(goal, Bytes[item])
          /\ UNCHANGED <<gpc, report>>
    /\ UNCHANGED <<files, left, item, current, runs, outsiders>>

NameFree ==
    /\ gpc = "meet" /\ unmet = {} /\ gpc' = "move"
    /\ UNCHANGED <<files, left, item, unmet, goal, current, report, runs, outsiders>>

MoveItem ==
    /\ gpc = "move"
    /\ ProviderCall("rename", where' = [where EXCEPT ![item] = "target"], UNCHANGED where)
    /\ UNCHANGED <<name, left, item, unmet, goal, current, report, runs, outsiders>>

\* An object that was listed under the wanted name is not renamed.
RenameItem ==
    /\ gpc = "rename"
    /\ IF current = goal
       THEN gpc' = "wait" /\ UNCHANGED name
       ELSE ProviderCall("wait", name' = [name EXCEPT ![item] = goal], UNCHANGED name)
    /\ UNCHANGED <<where, left, item, unmet, goal, current, report, runs, outsiders>>

\* Mutant of Exposed: what 115 answered is believed.
Believed == TRUE
\* The item is listed in the series' folder under the wanted name.
Exposed == where[item] = "target" /\ name[item] = goal

WaitForItem ==
    /\ gpc = "wait"
    /\ IF Exposed
       THEN gpc' = "list" /\ report' = [report EXCEPT ![item] = [status |-> "organized", name |-> goal]]
       ELSE gpc' = "failed" /\ UNCHANGED report
    /\ UNCHANGED <<files, left, item, unmet, goal, current, runs, outsiders>>

\* Nothing left to move: without any file the user has to look.
Organized ==
    /\ gpc = "list" /\ left = {}
    /\ gpc' = IF \E i \in Items : report[i].status # "none" THEN "scan" ELSE "review"
    /\ UNCHANGED <<files, left, item, unmet, goal, current, report, runs, outsiders>>

\* SyncSTRM, the library scan, and the episodes Emby owns afterwards.
VerifyIngest ==
    /\ gpc = "scan" /\ gpc' = "done"
    /\ UNCHANGED <<files, left, item, unmet, goal, current, report, runs, outsiders>>

IngestFails ==
    /\ gpc \in {"resolve", "list", "meet", "move", "rename", "wait", "scan"} /\ gpc' = "failed"
    /\ UNCHANGED <<files, left, item, unmet, goal, current, report, runs, outsiders>>

\* A user retries the task.
RetryIngest ==
    /\ gpc = "failed" /\ gpc' = "idle"
    /\ UNCHANGED <<files, left, item, unmet, goal, current, report, runs, outsiders>>

UserMoves(i) ==
    /\ outsiders < MaxMeddles /\ outsiders' = outsiders + 1 /\ gpc # "done"
    /\ where[i] # "elsewhere" /\ where' = [where EXCEPT ![i] = "elsewhere"]
    /\ UNCHANGED <<name, gpc, left, item, unmet, goal, current, report, runs>>

Next ==
    \/ StartIngest \/ ResolveCandidate \/ MoveItem \/ RenameItem \/ WaitForItem
    \/ NameFree \/ Organized \/ VerifyIngest \/ IngestFails \/ RetryIngest
    \/ \E i \in Items : ListItem(i) \/ UserMoves(i)
    \/ \E f \in Items \cup Others : MeetFile(f)

Spec == Init /\ [][Next]_vars

-----------------------------------------------------------------------------
\* When the task reports success, after however many failed runs: every file it
\* calls organized is in the series' folder under the name it reports, every
\* duplicate still is in staging with its bytes in the folder, and none was
\* forgotten, unless a user moved one.
IngestedTruly ==
    gpc = "done" /\ outsiders = 0 =>
        \A i \in Movable :
            \/ report[i].status = "organized" /\ where[i] = "target" /\ name[i] = report[i].name
            \/ /\ report[i].status = "duplicate" /\ where[i] = "staging"
               /\ \E f \in Target : Bytes[f] = Bytes[i]
=============================================================================
