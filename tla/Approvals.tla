----------------------------- MODULE Approvals -----------------------------
(***************************************************************************)
(* What agents and browser users may do to the objects of the 115 drive:   *)
(* the deletion requests of the MCP tools (internal/mcp/server.go), the    *)
(* approvals they are bound to (internal/storage/sqlite.go), the browser's *)
(* decisions, its own delete route and the switch that guards it           *)
(* (internal/api/routes.go), and the rename and move routes anyone with    *)
(* write scope may call.                                                   *)
(*                                                                         *)
(* Every call is a goroutine of its own: a tool call reads the drive, asks *)
(* the provider and writes the database in separate steps, and the process *)
(* may stop between any two. Only the approvals, the switch and the drive  *)
(* outlive it. The provider may lose an answer after it has acted, and may *)
(* answer that it deleted an object it still lists.                        *)
(***************************************************************************)
EXTENDS Naturals

CONSTANTS
    ApprovalIDs,    \* the uuids of approvals
    Calls,          \* the requests served at a time
    Files,          \* 115 objects, by file ID
    Paths,          \* where an object can be: its parent and name
    Gone,           \* not listed any more (recycled)
    NoApproval,
    Ttl,            \* the fifteen minutes of an approval, in clock ticks
    MaxTime         \* bound on the clock

ASSUME ClockAssumption == Ttl \in Nat /\ MaxTime \in Nat

VARIABLES
    drive,          \* the 115 account: where each object is
    status, targets, expiresAt, decidedBy,      \* the approval rows
    clock,
    dangerous,      \* dangerous_actions_enabled
    call,           \* each call: where it is, its approval and its objects
    deletes         \* provider deletions started for each approval

rows == <<status, targets, expiresAt, decidedBy>>
vars == <<drive, rows, clock, dangerous, call, deletes>>

Idle == [pc |-> "idle", id |-> NoApproval, ids |-> {}]

TypeOK ==
    /\ drive \in [Files -> Paths \cup {Gone}]
    /\ status \in [ApprovalIDs -> {"absent", "pending", "approved", "rejected",
                                 "expired", "executing", "executed", "failed"}]
    /\ targets \in [ApprovalIDs -> SUBSET Files]
    /\ expiresAt \in [ApprovalIDs -> 0 .. MaxTime + Ttl]
    /\ decidedBy \in [ApprovalIDs -> {"nobody", "browser", "agent"}]
    /\ clock \in 0..MaxTime /\ dangerous \in BOOLEAN
    /\ call \in [Calls -> [pc : {"idle", "resolved", "claimed", "deleted",
                                 "refused", "permitted"},
                           id : ApprovalIDs \cup {NoApproval}, ids : SUBSET Files]]
    /\ deletes \in [ApprovalIDs -> Nat]

Init ==
    /\ drive \in [Files -> Paths]
    /\ status = [a \in ApprovalIDs |-> "absent"]
    /\ targets = [a \in ApprovalIDs |-> {}]
    /\ expiresAt = [a \in ApprovalIDs |-> 0]
    /\ decidedBy = [a \in ApprovalIDs |-> "nobody"]
    /\ clock = 0 /\ dangerous = FALSE /\ call = [c \in Calls |-> Idle]
    /\ deletes = [a \in ApprovalIDs |-> 0]

Listed == {f \in Files : drive[f] # Gone}

-----------------------------------------------------------------------------
(* c115_request_delete: every object must be in a fresh listing of the     *)
(* parent; the row is written after the listing was read.                  *)

ResolveDeleteTargets(c, ids) ==
    /\ call[c].pc = "idle" /\ ids # {} /\ ids \subseteq Listed
    /\ call' = [call EXCEPT ![c] = [pc |-> "resolved", id |-> NoApproval, ids |-> ids]]
    /\ UNCHANGED <<drive, rows, clock, dangerous, deletes>>

CreateDestructiveApproval(c, a) ==
    /\ call[c].pc = "resolved" /\ status[a] = "absent"
    /\ status' = [status EXCEPT ![a] = "pending"]
    /\ targets' = [targets EXCEPT ![a] = call[c].ids]
    /\ expiresAt' = [expiresAt EXCEPT ![a] = clock + Ttl]
    /\ call' = [call EXCEPT ![c] = Idle]
    /\ UNCHANGED <<drive, decidedBy, clock, dangerous, deletes>>

-----------------------------------------------------------------------------
(* The browser's side: listing expires what is overdue, a decision is      *)
(* taken once and in time. An agent's request is refused first.            *)

Unexpired(a) == clock < expiresAt[a]

ListPendingDestructiveApprovals ==
    /\ status' = [a \in ApprovalIDs |->
                    IF status[a] = "pending" /\ ~Unexpired(a) THEN "expired"
                    ELSE status[a]]
    /\ UNCHANGED <<drive, targets, expiresAt, decidedBy, clock, dangerous, call, deletes>>

requireBrowserDecision(by) == by = "browser"

DecideDestructiveApproval(a, decision, by) ==
    /\ requireBrowserDecision(by)
    /\ status[a] = "pending" /\ Unexpired(a)
    /\ status' = [status EXCEPT ![a] = decision]
    /\ decidedBy' = [decidedBy EXCEPT ![a] = by]
    /\ UNCHANGED <<drive, targets, expiresAt, clock, dangerous, call, deletes>>

-----------------------------------------------------------------------------
(* c115_execute_delete: claim, delete at the provider, record the result.  *)

\* Mutant of Claim: a call that finds the approval executing takes it over.
TakeOver(c, a) ==
    /\ status[a] \in {"approved", "executing"} /\ Unexpired(a)
    /\ status' = [status EXCEPT ![a] = "executing"]
    /\ call' = [call EXCEPT ![c] = [pc |-> "claimed", id |-> a, ids |-> targets[a]]]

Claim(c, a) ==
    /\ status[a] = "approved" /\ Unexpired(a)
    /\ status' = [status EXCEPT ![a] = "executing"]
    /\ call' = [call EXCEPT ![c] = [pc |-> "claimed", id |-> a, ids |-> targets[a]]]

ClaimDestructiveApproval(c, a) ==
    /\ call[c].pc = "idle" /\ Claim(c, a)
    /\ UNCHANGED <<drive, targets, expiresAt, decidedBy, clock, dangerous, deletes>>

\* What a deletion of ids at the provider may do: an answer of success leaves
\* the objects deleted or, at times, listed; an error may follow any part of it.
Deletes(ids) ==
    \E gone \in SUBSET ids :
        drive' = [f \in Files |-> IF f \in gone THEN Gone ELSE drive[f]]

DeleteProvider(c) ==
    /\ call[c].pc = "claimed" /\ Deletes(call[c].ids)
    /\ \E answer \in {"deleted", "refused"} :
         call' = [call EXCEPT ![c].pc = answer]
    /\ deletes' = [deletes EXCEPT ![call[c].id] = @ + 1]
    /\ UNCHANGED <<rows, clock, dangerous>>

\* The row moves on only from executing. A write that fails is only reported,
\* and leaves the approval executing.
FinishDestructiveApproval(c) ==
    /\ call[c].pc \in {"deleted", "refused"}
    /\ LET result == IF call[c].pc = "deleted" THEN "executed" ELSE "failed"
       IN \/ status[call[c].id] = "executing"
             /\ status' = [status EXCEPT ![call[c].id] = result]
          \/ UNCHANGED status
    /\ call' = [call EXCEPT ![c] = Idle]
    /\ UNCHANGED <<drive, targets, expiresAt, decidedBy, clock, dangerous, deletes>>

-----------------------------------------------------------------------------
(* The browser's delete route reads the switch once, before it asks the    *)
(* provider; agents are refused. The settings route lets only a browser    *)
(* change the switch; the MCP tool refuses to.                             *)

PermitDelete(c, ids) ==
    /\ call[c].pc = "idle" /\ dangerous /\ ids # {}
    /\ call' = [call EXCEPT ![c] = [pc |-> "permitted", id |-> NoApproval, ids |-> ids]]
    /\ UNCHANGED <<drive, rows, clock, dangerous, deletes>>

HandleDelete(c) ==
    /\ call[c].pc = "permitted" /\ Deletes(call[c].ids)
    /\ call' = [call EXCEPT ![c] = Idle]
    /\ UNCHANGED <<rows, clock, dangerous, deletes>>

UpdateSettings(value, by) ==
    /\ by = "browser"
    /\ dangerous' = value
    /\ UNCHANGED <<drive, rows, clock, call, deletes>>

\* Rename and move, by a browser or an agent with write scope, at any time.
MoveProvider(f, p) ==
    /\ drive[f] # Gone /\ drive' = [drive EXCEPT ![f] = p]
    /\ UNCHANGED <<rows, clock, dangerous, call, deletes>>

-----------------------------------------------------------------------------
Tick ==
    /\ clock < MaxTime /\ clock' = clock + 1
    /\ UNCHANGED <<drive, rows, dangerous, call, deletes>>

\* The process stops and is started again: the calls are gone.
Crash ==
    /\ call' = [c \in Calls |-> Idle]
    /\ UNCHANGED <<drive, rows, clock, dangerous, deletes>>

Next ==
    \/ \E c \in Calls, ids \in SUBSET Files :
          ResolveDeleteTargets(c, ids) \/ PermitDelete(c, ids)
    \/ \E c \in Calls, a \in ApprovalIDs :
          CreateDestructiveApproval(c, a) \/ ClaimDestructiveApproval(c, a)
    \/ \E c \in Calls :
          DeleteProvider(c) \/ FinishDestructiveApproval(c) \/ HandleDelete(c)
    \/ \E a \in ApprovalIDs, by \in {"browser", "agent"} :
          \E decision \in {"approved", "rejected"} :
             DecideDestructiveApproval(a, decision, by)
    \/ \E value \in BOOLEAN, by \in {"browser", "agent"} : UpdateSettings(value, by)
    \/ \E f \in Files, p \in Paths : MoveProvider(f, p)
    \/ ListPendingDestructiveApprovals \/ Tick

Spec == Init /\ [][Next \/ Crash]_vars

-----------------------------------------------------------------------------
\* Across retries, overlapping tool calls and restarts, an approval starts at
\* most one deletion at the provider, and only if a browser user approved it.
\* From the moment the deletion may start the row shows it, whatever stops:
\* SAFETY.md promises one browser approval that is consumed once.
ApprovalSpentOnce ==
    \A a \in ApprovalIDs :
        /\ deletes[a] <= 1
        /\ deletes[a] > 0 => /\ status[a] \in {"executing", "executed", "failed"}
                             /\ decidedBy[a] = "browser"
=============================================================================
