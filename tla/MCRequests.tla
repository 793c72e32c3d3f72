----------------------------- MODULE MCRequests -----------------------------
(***************************************************************************)
(* Requests for TLC, one part of it at a time: the scene chosen at the     *)
(* start says which requests come. Approvals with two calls at a time; an  *)
(* Emby deletion while an agent moves and, once approved, deletes objects  *)
(* of the same 115 account; the debounced webhook; the polling of a        *)
(* subscription. Each behaviour is one of ServerSpec, in which the         *)
(* requests of the other scenes do not come.                               *)
(***************************************************************************)
EXTENDS Requests

\* Paths 1 and 2 are two names in one folder. No item plays 3, in another folder:
\* an agent moves objects there, and only during a deletion.
MCFolder == [p \in Paths |-> IF p < 3 THEN "series" ELSE "elsewhere"]

VARIABLE scene

allVars == <<scene, serverVars>>

MCInit ==
    /\ scene \in {"approvals", "deletion", "webhook", "subscription"}
    /\ ServerInit
    \* files are interchangeable, and the parts a scene does not run start in
    \* one state
    /\ drive = CHOOSE d \in [Files -> Paths \ {3}] : \A f, g \in Files : f # g => d[f] # d[g]
    /\ \A i \in Items : plays[i] # 3
    /\ scene # "deletion" => \A i \in Items : plays[i] = 1
    /\ scene # "subscription" => row = "active" /\ target

\* An agent at work during a deletion: it moves objects, and asks for,
\* is granted and uses approvals.
Agent ==
    \/ \E f \in Files, p \in Paths : MoveProvider(f, p)
    \/ \E c \in Calls, a \in ApprovalIDs :
          CreateDestructiveApproval(c, a) \/ ClaimDestructiveApproval(c, a)
    \/ \E c \in Calls, f \in Files : ResolveDeleteTargets(c, {f})
    \/ \E a \in ApprovalIDs : DecideDestructiveApproval(a, "approved", "browser")
    \/ \E c \in Calls : DeleteProvider(c) \/ FinishDestructiveApproval(c)

OneCall == \A c \in Calls \ {CHOOSE d \in Calls : TRUE} : call'[c].pc = "idle"

MCNext ==
    /\ UNCHANGED scene
    /\ \/ scene = "approvals" /\ ApprovalStep /\ \A f \in Files : drive'[f] # 3
       \/ scene = "deletion" /\ DeletionStep /\ \A i \in Items : plays'[i] # 3
       \/ /\ scene = "deletion" /\ Agent /\ OneCall
          /\ UNCHANGED <<deletionVars, webhookVars, subscriptionVars>>
       \/ scene = "webhook" /\ WebhookStep
       \/ scene = "subscription" /\ SubscriptionStep
       \/ ServerCrash

MCSpec == MCInit /\ [][MCNext]_allVars /\ W!Fairness
=============================================================================
