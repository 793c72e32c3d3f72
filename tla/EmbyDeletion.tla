---------------------------- MODULE EmbyDeletion ----------------------------
(***************************************************************************)
(* The deletion of Emby items together with their 115 originals:           *)
(* handleEmbyDeletion (internal/api/emby_deletion.go), which stands in for *)
(* Emby's own delete endpoints, and the plan it prepares and carries out   *)
(* (internal/service/emby_deletion_sources.go).                            *)
(*                                                                         *)
(* An item plays one path of the media mount. In a STRM library Emby only  *)
(* deletes the pointer, and the original stays on 115 until the plan       *)
(* recycles it; in a native library Emby deletes the file through the      *)
(* mount, which 115 may or may not show yet. The handler holds the media   *)
(* lock, so no media task re-points an item under it, but agents and       *)
(* browser users rename, move and delete 115 objects at any time.          *)
(* Nothing of a deletion is stored before its audit row at the end.        *)
(***************************************************************************)
EXTENDS Naturals, FiniteSets

CONSTANTS
    Items,          \* Emby items
    NativeItems,    \* those of native libraries
    Files,          \* 115 objects, by file ID
    Paths,          \* paths of the media mount, in their order (numbers)
    Folder,         \* the folder each path is in
    Gone            \* where a recycled object is

VARIABLES
    drive,          \* the 115 account: where each object is
    media,          \* the items Emby has
    plays,          \* the path each item plays: its pointer, or its own file
    mediaMu,        \* the holder of the media mutation lock, if any
    pc,             \* where the handler is
    request,        \* the request: items, confirmation, credential
    plan,           \* the targets: file ID -> planned path
    handled,        \* the targets recycled or found absent
    strayed,        \* those of them that were in another folder by then
    seen,           \* where the last inventory found the target
    unread,         \* the body of Emby's successful answer was not read
    answer,         \* what the last request was answered
    deletedItems,   \* items Emby deleted for this request
    lastPlayed,     \* the path an item played when Emby deleted it
    recycled        \* what deletions recycled so far, and where it was seen

handler == <<pc, request, plan, handled, strayed, seen, unread, answer, deletedItems>>
vars == <<drive, media, plays, mediaMu, handler, lastPlayed, recycled>>

NoRequest == [ids |-> {}, confirmation |-> FALSE, credential |-> "none"]
Credentials == {"administrator", "user", "application_key"}

TypeOK ==
    /\ drive \in [Files -> Paths \cup {Gone}]
    /\ media \subseteq Items /\ deletedItems \subseteq Items
    /\ plays \in [Items -> Paths] /\ lastPlayed \in [Items -> Paths \cup {Gone}]
    /\ mediaMu \subseteq {"task", "deletion"}
    /\ pc \in {"idle", "authorization", "preflight", "native_deletion",
               "inventory", "recycle", "verify"}
    /\ request \in [ids : SUBSET Items, confirmation : BOOLEAN,
                    credential : Credentials \cup {"none"}]
    /\ DOMAIN plan \subseteq Files /\ \A f \in DOMAIN plan : plan[f] \in Paths
    /\ handled \subseteq DOMAIN plan /\ strayed \subseteq handled /\ seen \in Paths \cup {Gone}
    /\ unread \in BOOLEAN /\ recycled \subseteq Files \X Paths
    /\ answer \in {"none", "denied", "upstream_error",
                   "nothing_deleted", "confirmation", "success",
                   "incomplete", "do_not_repeat"}
    \* the lock is the handler's exactly while it runs past its parsing
    /\ ("deletion" \in mediaMu) = (pc # "idle")

Init ==
    /\ drive \in [Files -> Paths]
    /\ \A f, g \in Files : drive[f] = drive[g] => f = g
    /\ media = Items /\ plays \in [Items -> Paths] /\ mediaMu = {}
    /\ pc = "idle" /\ request = NoRequest /\ plan = <<>> /\ handled = {}
    /\ strayed = {} /\ seen = Gone /\ unread = FALSE /\ answer = "none" /\ deletedItems = {}
    /\ lastPlayed = [i \in Items |-> Gone] /\ recycled = {}

\* The object a path names on 115: one, none, or several of the same name.
At(p) == {f \in Files : drive[f] = p}

-----------------------------------------------------------------------------
\* Mutant of Released: a return forgets the lock.
NotReleased == mediaMu
Released == mediaMu \ {"deletion"}

\* The handler returns: the lock is released and the audit row written.
Answered(a) ==
    /\ pc' = "idle" /\ mediaMu' = Released /\ answer' = a
    /\ request' = NoRequest /\ plan' = <<>> /\ handled' = {} /\ strayed' = {}
    /\ seen' = Gone /\ unread' = FALSE /\ deletedItems' = {}

LockFree == mediaMu = {}

\* parseEmbyDeletion: the path, the query and the body name one and the same
\* set of items, there is one credential, and the lock is free. A request that
\* is refused here changes nothing.
ParseEmbyDeletion(ids, confirmation, credential) ==
    /\ pc = "idle" /\ ids # {} /\ LockFree
    /\ confirmation => Cardinality(ids) = 1
    /\ pc' = "authorization" /\ mediaMu' = mediaMu \cup {"deletion"}
    /\ request' = [ids |-> ids, confirmation |-> confirmation, credential |-> credential]
    /\ answer' = "none"
    /\ UNCHANGED <<drive, media, plays, plan, handled, strayed, seen, unread, deletedItems,
                   lastPlayed, recycled>>

\* authorizeEmbyDeletion: the credential is no application key, and belongs to
\* the one session of the device, of an enabled administrator. Any of the
\* calls to Emby may fail.
AuthorizeEmbyDeletion ==
    /\ pc = "authorization"
    /\ \/ request.credential = "administrator" /\ pc' = "preflight"
          /\ UNCHANGED <<mediaMu, request, plan, handled, strayed, seen, unread, answer, deletedItems>>
       \/ request.credential # "administrator" /\ Answered("denied")
       \/ Answered("upstream_error")
    /\ UNCHANGED <<drive, media, plays, lastPlayed, recycled>>

\* PrepareEmbyDeletionCtx on the paths Emby reports for the items: each names
\* one 115 object by a complete listing, and each object has one path. Items
\* that play the same path share a target.
Resolved(paths) ==
    /\ paths # {} /\ \A p \in paths : \E f \in Files : At(p) = {f}

Prepared(paths) ==
    [f \in {g \in Files : drive[g] \in paths} |-> drive[f]]

\* Every item must be one Emby lets the user delete and has paths for; then
\* either the plan is answered as a confirmation or the deletion goes on.
PrepareEmbyDeletion ==
    LET paths == {plays[i] : i \in request.ids}
        usable == request.ids \subseteq media /\ Resolved(paths)
    IN /\ pc = "preflight"
       /\ \/ Answered("upstream_error")
          \/ ~(request.ids \subseteq media) /\ Answered("denied")
          \/ Answered("nothing_deleted")
          \/ usable /\ request.confirmation /\ Answered("confirmation")
          \/ usable /\ ~request.confirmation
             /\ pc' = "native_deletion" /\ plan' = Prepared(paths)
             /\ UNCHANGED <<mediaMu, request, handled, strayed, seen, unread, answer, deletedItems>>
       /\ UNCHANGED <<drive, media, plays, lastPlayed, recycled>>

\* What Emby's deletion of the items does: they are gone from the library,
\* and the files of native ones may be gone from 115 already.
EmbyDeletes(ids) ==
    /\ media' = media \ ids
    /\ lastPlayed' = [i \in Items |-> IF i \in ids THEN plays[i] ELSE lastPlayed[i]]
    /\ \E gone \in SUBSET UNION {At(plays[i]) : i \in ids \cap NativeItems} :
         drive' = [f \in Files |-> IF f \in gone THEN Gone ELSE drive[f]]

NativeSucceeded(reply) == reply \in {"success", "unread"}

\* The forwarded deletion. A lost answer or an error of Emby ends the request
\* whatever Emby did; a success whose body was cut still counts.
NativeDelete(reply) ==
    /\ pc = "native_deletion"
    /\ \/ EmbyDeletes(request.ids)
       \/ /\ reply \in {"lost", "error"}
          /\ UNCHANGED <<media, drive, lastPlayed>>
    /\ IF NativeSucceeded(reply)
       THEN /\ pc' = "inventory" /\ unread' = (reply = "unread")
            /\ deletedItems' = request.ids
            /\ UNCHANGED <<mediaMu, request, plan, handled, strayed, seen, answer>>
       ELSE Answered("upstream_error")
    /\ UNCHANGED <<plays, recycled>>

-----------------------------------------------------------------------------
(* RecycleEmbyDeletionCtx: the targets in the order of their paths, each   *)
(* listed afresh, recycled by its ID and listed again. It runs under its   *)
(* own five minutes, so a browser that goes away does not stop it; when    *)
(* they are over, or a call fails, the rest stays.                         *)

Target ==
    CHOOSE f \in DOMAIN plan \ handled :
        \A g \in DOMAIN plan \ handled : plan[f] <= plan[g]

IsNative(f) == \E i \in request.ids \cap NativeItems : plays[i] = plan[f]

\* Mutant of Unchanged: the ID alone is taken for the object that was planned.
SameID(f) == drive[f] # Gone
Unchanged(f) == drive[f] = plan[f]

\* embyDeletionInventory lists the planned folder alone: an object that is in
\* another one is as absent as one that is gone.
Astray(f) == drive[f] # Gone /\ Folder[drive[f]] # Folder[plan[f]]
Absent(f) == drive[f] = Gone \/ Astray(f)

Handle(f) ==
    /\ handled' = handled \cup {f}
    /\ strayed' = IF Astray(f) THEN strayed \cup {f} ELSE strayed

Finished == handled = DOMAIN plan

Inventory ==
    /\ pc = "inventory"
    /\ \/ Finished /\ Answered(IF unread THEN "do_not_repeat" ELSE "success")
       \/ ~Finished /\ Answered("incomplete")    \* listing failed, or time is up
       \/ /\ ~Finished /\ Unchanged(Target)
          /\ pc' = "recycle" /\ seen' = drive[Target]
          /\ UNCHANGED <<mediaMu, request, plan, handled, strayed, unread, answer, deletedItems>>
       \/ /\ ~Finished /\ Absent(Target) /\ IsNative(Target) /\ Handle(Target)
          /\ UNCHANGED <<pc, mediaMu, request, plan, seen, unread, answer, deletedItems>>
    /\ UNCHANGED <<drive, media, plays, lastPlayed, recycled>>

\* DeleteCtx: an error may hide a deletion, a success may be only an answer.
Recycle ==
    /\ pc = "recycle"
    /\ \E done \in BOOLEAN :
         /\ drive' = IF done THEN [drive EXCEPT ![Target] = Gone] ELSE drive
         /\ recycled' = IF done THEN recycled \cup {<<Target, seen>>} ELSE recycled
    /\ \/ pc' = "verify"
          /\ UNCHANGED <<mediaMu, request, plan, handled, strayed, seen, unread, answer, deletedItems>>
       \/ Answered("incomplete")
    /\ UNCHANGED <<media, plays, lastPlayed>>

\* Mutant of Verified: the provider's word is enough.
Trusted(f) == TRUE
Verified(f) == Absent(f)

VerifyRecycled ==
    /\ pc = "verify"
    /\ \/ /\ Verified(Target) /\ pc' = "inventory" /\ Handle(Target)
          /\ UNCHANGED <<mediaMu, request, plan, seen, unread, answer, deletedItems>>
       \/ Answered("incomplete")
    /\ UNCHANGED <<drive, media, plays, lastPlayed, recycled>>

-----------------------------------------------------------------------------
(* A media task holds the lock while it moves files and rewrites pointers. *)

TaskLocks ==
    /\ mediaMu = {} /\ mediaMu' = {"task"}
    /\ UNCHANGED <<drive, media, plays, handler, lastPlayed, recycled>>

TaskRepoints(i, p) ==
    /\ "task" \in mediaMu /\ i \in media /\ plays' = [plays EXCEPT ![i] = p]
    /\ UNCHANGED <<drive, media, mediaMu, handler, lastPlayed, recycled>>

TaskUnlocks ==
    /\ "task" \in mediaMu /\ mediaMu' = mediaMu \ {"task"}
    /\ UNCHANGED <<drive, media, plays, handler, lastPlayed, recycled>>

Crash ==
    /\ pc' = "idle" /\ mediaMu' = {} /\ request' = NoRequest /\ plan' = <<>>
    /\ handled' = {} /\ strayed' = {} /\ seen' = Gone /\ unread' = FALSE
    /\ answer' = "none" /\ deletedItems' = {}
    /\ UNCHANGED <<drive, media, plays, lastPlayed, recycled>>

Next ==
    \/ \E ids \in SUBSET Items, confirmation \in BOOLEAN, credential \in Credentials :
          ParseEmbyDeletion(ids, confirmation, credential)
    \/ AuthorizeEmbyDeletion \/ PrepareEmbyDeletion
    \/ \E reply \in {"success", "unread", "lost", "error"} : NativeDelete(reply)
    \/ Inventory \/ Recycle \/ VerifyRecycled
    \/ TaskLocks \/ TaskUnlocks
    \/ \E i \in Items, p \in Paths : TaskRepoints(i, p)

Spec == Init /\ [][Next \/ Crash]_vars

-----------------------------------------------------------------------------
\* Whatever agents move and whatever fails, the deletion recycles only objects
\* that its last look found at a path which an item played at the moment Emby
\* deleted that item: not what a media task pointed the item to before or after,
\* nor an object whose path had changed by that look. Another item may play the
\* same path and be still there: the code does not ask.
OriginalsOfDeleted ==
    \A r \in recycled :
        \E i \in Items \ media : lastPlayed[i] = r[2]

\* The answers mean what they say: a refusal, a confirmation or "no media was
\* deleted" is given while Emby has every item of the request that it had at
\* the start, and a success, or a warning not to repeat, only when Emby has
\* none of them and each planned original is gone from 115, except for those that
\* were in another folder than planned when their turn came: the planned folder
\* is all the code looks at.
AnswerTrue ==
    pc # "idle" /\ pc' = "idle" =>
        /\ answer' \in {"denied", "confirmation", "nothing_deleted"} =>
              deletedItems = {} /\ media' = media
        /\ answer' \in {"success", "do_not_repeat"} =>
              /\ plan # <<>> /\ request.ids \cap media = {}
              /\ \A f \in DOMAIN plan : drive[f] = Gone \/ f \in strayed

-----------------------------------------------------------------------------
(* The inductive strengthening the proofs rest on.                         *)

Deleting == {"native_deletion", "inventory", "recycle", "verify"}
Recycling == {"inventory", "recycle", "verify"}

\* The handler is alone with the library while it holds the lock, so its plan
\* stays what its items play.
LockAlone ==
    /\ pc # "idle" => mediaMu = {"deletion"}
    /\ pc \in Deleting =>
          /\ DOMAIN plan # {}
          /\ \A f \in DOMAIN plan : \E i \in request.ids : plays[i] = plan[f]

\* Until Emby has answered it has every item; from then on it has none, and
\* remembers what they played.
EmbyFirst ==
    /\ pc \notin Recycling => deletedItems = {} /\ handled = {}
    /\ pc = "native_deletion" => request.ids \subseteq media
    /\ pc \in Recycling =>
          /\ request.ids \cap media = {}
          /\ \A i \in request.ids : lastPlayed[i] = plays[i]

\* What is handled is gone for good or strayed, and what is about to be recycled is a
\* target that was seen where it was planned.
TargetSeen ==
    /\ \A f \in handled : drive[f] = Gone \/ f \in strayed
    /\ pc \in {"recycle", "verify"} => ~Finished
    /\ pc = "recycle" => seen = plan[Target]
=============================================================================
