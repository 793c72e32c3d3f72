----------------------------- MODULE ShareSave -----------------------------
(***************************************************************************)
(* Saving selected files of a Quark share into the account                 *)
(* (internal/service/provider_quark.go, drive_provider.go): the share is   *)
(* read afresh, the selection is compared with what was previewed, the     *)
(* target is listed, Quark is asked to save, and the saved objects are     *)
(* identified in the target by the IDs Quark answers or, when these do not *)
(* fit, as the only new objects of that name and size.                     *)
(*                                                                         *)
(* The share's owner may edit it at any time. Quark saves what the share   *)
(* holds then, or nothing, and lets the objects appear one by one. It      *)
(* answers IDs, theirs or not, none at all, or an error although it saves. *)
(* Anybody else may add files of any name and size to the target at any    *)
(* time: another client, or the program's own share-save route, which does *)
(* not take the media lock.                                                *)
(***************************************************************************)
EXTENDS Naturals, Sequences

CONSTANTS
    Entries,        \* the files of the share
    Names, Sizes,
    Selections,     \* sequences of entries a user may select
    MaxEdits, MaxAdds

VARIABLES
    share,          \* name, size and revision of each entry
    target,         \* the objects in the target folder
    arriving,       \* saved objects that are not yet listed
    manifest,       \* the selection, as it was previewed
    exact,          \* SaveShareSelections, not SaveShareEntries
    qpc, fresh, before, answered, roots, edits, adds

vars == <<share, target, arriving, manifest, exact, qpc, fresh, before, answered,
          roots, edits, adds>>

Foreign == 0
Object(id, from, e) == [id |-> id, from |-> from, name |-> e.name, size |-> e.size]
IDs(objects) == {o.id : o \in objects}
ToSet(seq) == {seq[i] : i \in DOMAIN seq}

TypeOK ==
    /\ share \in [Entries -> [name : Names, size : Sizes, rev : 0..MaxEdits]]
    /\ \A o \in target \cup arriving : o.from \in Entries \cup {Foreign}
    /\ IDs(target) \cap IDs(arriving) = {}
    /\ \A o, p \in target \cup arriving : o.id = p.id => o = p
    /\ qpc \in {"preview", "snapshot", "before", "save", "task", "resolve", "done", "failed"}
    /\ exact \in BOOLEAN /\ edits \in 0..MaxEdits /\ adds \in 0..MaxAdds

Init ==
    /\ share \in [Entries -> [name : Names, size : Sizes, rev : {0}]]
    /\ target = {} /\ arriving = {} /\ manifest = <<>> /\ exact \in BOOLEAN
    /\ qpc = "preview" /\ fresh = share /\ before = {} /\ answered = <<>> /\ roots = <<>>
    /\ edits = 0 /\ adds = 0

-----------------------------------------------------------------------------
PreviewShare(selection) ==
    /\ qpc = "preview" /\ qpc' = "snapshot"
    /\ manifest' = [i \in DOMAIN selection |->
                    [entry |-> selection[i], name |-> share[selection[i]].name,
                     size |-> share[selection[i]].size, rev |-> share[selection[i]].rev]]
    /\ UNCHANGED <<share, target, arriving, exact, fresh, before, answered, roots, edits, adds>>

\* selectShareEntries: distinct files with distinct names.
Selectable(entries) ==
    \A i, j \in DOMAIN manifest : i # j =>
        /\ manifest[i].entry # manifest[j].entry
        /\ entries[manifest[i].entry].name # entries[manifest[j].entry].name

\* Mutant of SameAsPreviewed: the IDs are enough.
IDsEnough(entries) == TRUE
\* selectShareSelections: name, size and revision are as previewed.
SameAsPreviewed(entries) ==
    \A i \in DOMAIN manifest :
        LET e == entries[manifest[i].entry]
        IN e.name = manifest[i].name /\ e.size = manifest[i].size /\ e.rev = manifest[i].rev

\* snapshotShareTree, and the selection made from it.
SnapshotShareTree ==
    /\ qpc = "snapshot" /\ fresh' = share
    /\ qpc' = IF Selectable(share) /\ (exact => SameAsPreviewed(share)) THEN "before" ELSE "failed"
    /\ UNCHANGED <<share, target, arriving, manifest, exact, before, answered, roots, edits, adds>>

ListBefore ==
    /\ qpc = "before" /\ qpc' = "save" /\ before' = IDs(target)
    /\ UNCHANGED <<share, target, arriving, manifest, exact, fresh, answered, roots, edits, adds>>

\* Quark copies what the share holds now, under new IDs.
Saved == [i \in DOMAIN manifest |-> Object(<<"saved", i>>, manifest[i].entry, share[manifest[i].entry])]
\* The IDs Quark may answer: of saved objects, of others in the target, or of
\* none there, such as the share's own IDs. Longer answers are as good as short
\* ones: neither has one ID for each selected file.
AnswerIDs == IDs(target) \cup {<<"saved", i>> : i \in DOMAIN manifest} \cup {<<"source", 0>>}
Answers == UNION {[1..n -> AnswerIDs] : n \in 0..Len(manifest)}

\* With neither IDs nor a task the save goes on to look for the objects.
RequestSave ==
    /\ qpc = "save" /\ arriving' \in {{}, ToSet(Saved)}
    /\ \/ qpc' = "resolve" /\ answered' \in Answers
       \/ qpc' \in {"task", "failed"} /\ UNCHANGED answered
    /\ UNCHANGED <<share, target, manifest, exact, fresh, before, roots, edits, adds>>

\* waitTask: the save is over, failed, or took too long. Without IDs it failed.
WaitTask ==
    /\ qpc = "task"
    /\ \/ qpc' = "resolve" /\ answered' \in Answers \ {<<>>}
       \/ qpc' = "failed" /\ UNCHANGED answered
    /\ UNCHANGED <<share, target, arriving, manifest, exact, fresh, before, roots, edits, adds>>

SavedAppears(o) ==
    /\ o \in arriving /\ qpc \notin {"done", "failed"}
    /\ arriving' = arriving \ {o} /\ target' = target \cup {o}
    /\ UNCHANGED <<share, manifest, exact, qpc, fresh, before, answered, roots, edits, adds>>

\* resolveQuarkSavedRoots.
Fits(o, i) == LET e == fresh[manifest[i].entry] IN o.name = e.name /\ o.size = e.size

AnswersFit ==
    /\ DOMAIN answered = DOMAIN manifest
    /\ \A i \in DOMAIN manifest : \E o \in target : o.id = answered[i] /\ Fits(o, i)

NewOnes(i) == {o \in target : o.id \notin before /\ Fits(o, i)}

ResolveSavedRoots ==
    /\ qpc = "resolve"
    /\ \/ AnswersFit /\ roots' = answered
       \/ /\ ~AnswersFit /\ \A i \in DOMAIN manifest : \E o \in target : NewOnes(i) = {o}
          /\ roots' = [i \in DOMAIN manifest |-> (CHOOSE o \in NewOnes(i) : TRUE).id]
    /\ qpc' = "done"
    /\ UNCHANGED <<share, target, arriving, manifest, exact, fresh, before, answered, edits, adds>>

\* Any request may fail; the objects may not be identified in time.
SaveFails ==
    /\ qpc \in {"snapshot", "before", "resolve"} /\ qpc' = "failed"
    /\ UNCHANGED <<share, target, arriving, manifest, exact, fresh, before, answered, roots, edits, adds>>

-----------------------------------------------------------------------------
OwnerEdits(e, n, z) ==
    /\ edits < MaxEdits /\ edits' = edits + 1 /\ qpc \notin {"done", "failed"}
    /\ <<n, z>> # <<share[e].name, share[e].size>>
    /\ share' = [share EXCEPT ![e] = [name |-> n, size |-> z, rev |-> edits + 1]]
    /\ UNCHANGED <<target, arriving, manifest, exact, qpc, fresh, before, answered, roots, adds>>

AnotherAdds(n, z) ==
    /\ adds < MaxAdds /\ adds' = adds + 1 /\ qpc \notin {"done", "failed"}
    /\ target' = target \cup {Object(<<"added", adds>>, Foreign, [name |-> n, size |-> z])}
    /\ UNCHANGED <<share, arriving, manifest, exact, qpc, fresh, before, answered, roots, edits>>

Next ==
    \/ \E s \in Selections : PreviewShare(s)
    \/ SnapshotShareTree \/ ListBefore \/ RequestSave \/ WaitTask \/ ResolveSavedRoots \/ SaveFails
    \/ \E o \in arriving : SavedAppears(o)
    \/ \E n \in Names, z \in Sizes : AnotherAdds(n, z) \/ \E e \in Entries : OwnerEdits(e, n, z)

Spec == Init /\ [][Next]_vars

-----------------------------------------------------------------------------
\* When a save reports its roots, each is a different object that has the name
\* and size of the snapshot, in exact mode those that were previewed, whatever
\* the owner edited meanwhile. One that was there before the save is reported
\* only if Quark answered its ID. What the save made is reported for the entry
\* it was made from, unless the owner has since the snapshot given another
\* selected entry the name and size of this one; an object of somebody else only
\* because it has this very name and size.
SavedAsSelected ==
    qpc = "done" =>
        \A i \in DOMAIN manifest :
            /\ \E o \in target :
                  /\ o.id = roots[i] /\ Fits(o, i)
                  /\ exact => o.name = manifest[i].name /\ o.size = manifest[i].size
                  /\ o.id \in before => o.id \in ToSet(answered)
                  /\ \/ o.from \in {manifest[i].entry, Foreign}
                     \/ share[o.from].rev > fresh[o.from].rev
            /\ \A j \in DOMAIN manifest : i # j => roots[i] # roots[j]
=============================================================================
