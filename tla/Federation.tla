----------------------------- MODULE Federation -----------------------------
(***************************************************************************)
(* What two linked Workspaces of the control plane agree on: the link, the  *)
(* grant of a project, its assignments, and the transfer of a record, which *)
(* the target completes by importing it into its memory Core.               *)
(*                                                                         *)
(* One link, one project and one record are enough: rows of different links *)
(* never meet.  Transactions are as in Membership.  Requests are those of   *)
(* administrators of either side; others are refused with no effect.  The   *)
(* Core is the external one that keeps what it did for an Idempotency-Key.  *)
(***************************************************************************)
EXTENDS Naturals, FiniteSets

CONSTANTS
    Requests,   \* requests under way at the same time
    Reviews,    \* contents a target administrator may approve
    Snapshot,   \* the source content, which an approval without a review takes
    MaxFailures \* bound: answers of the Core that are lost

FederationAssumption ==
    /\ Snapshot \notin Reviews \cup {"none", "worker"}
    /\ Reviews \cap {"none", "worker"} = {}
    /\ MaxFailures \in Nat

Sides    == {"source", "target"}
Contents == Reviews \cup {Snapshot}
NoRow    == [status |-> "none"]

VARIABLES
    link,       \* the row of workspace_links
    grant,      \* the row of federated_project_grants
    assigned,   \* the statuses there are among the assignments of the grant
    transfer,   \* the row of transfer_requests
    core,       \* content the Core has stored under transfer-message:<id>
    failures,   \* lost answers of the Core
    req         \* the requests: where they are and what they have loaded

vars == <<link, grant, assigned, transfer, core, failures, req>>

Link     == [status : {"pending", "active", "revoked"}, approved : SUBSET Sides]
Grant    == [status : {"pending", "active", "revoked"}, accepted : BOOLEAN]
Transfer == [status : {"pending_source", "pending_target", "approved", "completed", "rejected"},
             approved : SUBSET Sides, review : Contents \cup {"none"},
             imported : Contents \cup {"none", "worker"}]

Idle == [at |-> "idle"]

Init ==
    /\ link = NoRow /\ grant = NoRow /\ transfer = NoRow
    /\ assigned = {}
    /\ core = "none"
    /\ failures = 0
    /\ req = [r \in Requests |-> Idle]

-----------------------------------------------------------------------------
Become(r, state) == req' = [req EXCEPT ![r] = state]
Finish(r) == Become(r, Idle)

\* A request that has passed its checks on the row it has loaded: its writing
\* step, which may come after other commits, keeps of the row what it uses.
Load(r, step, side, seen) ==
    /\ req[r] = Idle
    /\ Become(r, [at |-> step, by |-> side, seen |-> seen])
    /\ UNCHANGED <<link, grant, assigned, transfer, core, failures>>

Writes(r, step) == req[r].at = step /\ Finish(r)

-----------------------------------------------------------------------------
\* create_workspace_link: pending, approved by the side that proposes it; 409
\* by uq_workspace_link where there is one already, revoked ones included.
ProposeLink(r) ==
    /\ req[r] = Idle
    /\ link = NoRow
    /\ \E side \in Sides : link' = [status |-> "pending", approved |-> {side}]
    /\ Finish(r)
    /\ UNCHANGED <<grant, assigned, transfer, core, failures>>

LoadLinkToApprove(r) ==
    /\ link.status = "pending"
    /\ \E side \in Sides : Load(r, "approve link", side, [approved |-> link.approved])

OneSideIsEnough(approved) == approved # {}

BothSides(approved) == approved = Sides

\* approve_workspace_link decides on the approvals of the row it loaded.
ApproveLink(r) ==
    /\ Writes(r, "approve link")
    /\ LET q == req[r] IN
       link' = [status   |-> IF BothSides(q.seen.approved \cup {q.by}) THEN "active" ELSE link.status,
                approved |-> link.approved \cup {q.by}]
    /\ UNCHANGED <<grant, assigned, transfer, core, failures>>

LoadLinkToRevoke(r) ==
    /\ link # NoRow
    /\ \E side \in Sides : Load(r, "revoke link", side, [status |-> link.status])

Revoked(row) == [row EXCEPT !.status = "revoked"]

\* The status is written only where it differs from the one loaded.
RevokedFrom(row, seen) == IF seen.status = "revoked" THEN row ELSE Revoked(row)

\* delete_workspace_link: the grants it finds then, but not their assignments.
RevokeLink(r) ==
    /\ Writes(r, "revoke link")
    /\ link' = RevokedFrom(link, req[r].seen)
    /\ grant' = IF grant.status \in {"pending", "active"} THEN Revoked(grant) ELSE grant
    /\ UNCHANGED <<assigned, transfer, core, failures>>

-----------------------------------------------------------------------------
LoadLinkToGrant(r) ==
    /\ link.status = "active"
    /\ Load(r, "grant", "source", NoRow)

\* create_federated_grant: the INSERT, or 409 by uq_federated_project.
ProposeGrant(r) ==
    /\ Writes(r, "grant")
    /\ grant' = IF grant = NoRow THEN [status |-> "pending", accepted |-> FALSE] ELSE grant
    /\ UNCHANGED <<link, assigned, transfer, core, failures>>

LoadGrantToAccept(r) ==
    /\ grant.status = "pending"
    /\ Load(r, "accept grant", "target", NoRow)

AcceptGrant(r) ==
    /\ Writes(r, "accept grant")
    /\ grant' = [status |-> "active", accepted |-> TRUE]
    /\ UNCHANGED <<link, assigned, transfer, core, failures>>

LoadGrantToRevoke(r) ==
    /\ grant # NoRow
    /\ \E side \in Sides : Load(r, "revoke grant", side, [status |-> grant.status])

\* revoke_federated_grant, with the assignments that are active then.
RevokeGrant(r) ==
    /\ Writes(r, "revoke grant")
    /\ grant' = RevokedFrom(grant, req[r].seen)
    /\ assigned' = IF assigned = {} THEN {} ELSE {"revoked"}
    /\ UNCHANGED <<link, transfer, core, failures>>

Assignable(row) == row.status = "active"

LoadGrantToAssign(r) ==
    /\ Assignable(grant)
    /\ Load(r, "assign", "target", NoRow)

AssignGrant(r) ==
    /\ Writes(r, "assign")
    /\ assigned' = assigned \cup {"active"}
    /\ UNCHANGED <<link, grant, transfer, core, failures>>

-----------------------------------------------------------------------------
LoadLinkToTransfer(r) ==
    /\ link.status = "active"
    /\ Load(r, "transfer", "source", NoRow)

\* create_transfer: the INSERT, or 409 by uq_transfer_record_target.
RequestTransfer(r) ==
    /\ Writes(r, "transfer")
    /\ transfer' = IF transfer # NoRow THEN transfer
                   ELSE [status |-> "pending_source", approved |-> {}, review |-> "none",
                         imported |-> "none"]
    /\ UNCHANGED <<link, grant, assigned, core, failures>>

AnyStageOf(side, status) == status \in {"pending_source", "pending_target"}

\* The stage at which a side approves or rejects.
StageOf(side, status) ==
    status = IF side = "source" THEN "pending_source" ELSE "pending_target"

LoadTransferToApprove(r) ==
    \E side \in Sides :
        /\ StageOf(side, transfer.status)
        /\ Load(r, "approve transfer", side, [status |-> transfer.status])

\* approve_transfer, by the stage that was loaded.
ApproveTransfer(r) ==
    /\ Writes(r, "approve transfer")
    /\ IF req[r].seen.status = "pending_source"
       THEN transfer' = [transfer EXCEPT !.status = "pending_target", !.approved = @ \cup {req[r].by}]
       ELSE \E review \in Contents :
            transfer' = [transfer EXCEPT !.status = "approved", !.approved = @ \cup {req[r].by},
                                         !.review = review]
    /\ UNCHANGED <<link, grant, assigned, core, failures>>

LoadTransferToReject(r) ==
    \E side \in Sides :
        /\ StageOf(side, transfer.status)
        /\ Load(r, "reject transfer", side, NoRow)

RejectTransfer(r) ==
    /\ Writes(r, "reject transfer")
    /\ transfer' = [transfer EXCEPT !.status = "rejected"]
    /\ UNCHANGED <<link, grant, assigned, core, failures>>

Completable(row) == row.status = "approved"

\* post_complete_transfer, to be imported here or by a trusted worker already.
LoadTransferToComplete(r) ==
    /\ Completable(transfer)
    /\ \E step \in {"import", "complete"} : Load(r, step, "target", [review |-> transfer.review])

\* The request goes on with the answer, or fails for want of one.
Answered(r) ==
    /\ req[r].at = "import"
    /\ \/ Become(r, [req[r] EXCEPT !.at = "imported"]) /\ UNCHANGED failures
       \/ failures < MaxFailures /\ failures' = failures + 1 /\ Finish(r)
    /\ UNCHANGED <<link, grant, assigned, transfer>>

ImportUnkeyed(r) == Answered(r) /\ core' = req[r].seen.review

\* The Core stores the content, or answers with what it stored for the key.
Import(r) ==
    /\ Answered(r)
    /\ core' = IF core = "none" THEN req[r].seen.review ELSE core

\* complete_transfer: the message the Core or the worker has named.
CompleteTransfer(r) ==
    /\ req[r].at \in {"imported", "complete"}
    /\ Finish(r)
    /\ transfer' = [transfer EXCEPT !.status = "completed",
                        !.imported = IF req[r].at = "imported" THEN core ELSE "worker"]
    /\ UNCHANGED <<link, grant, assigned, core, failures>>

-----------------------------------------------------------------------------
LinkStep(r) ==
    \/ ProposeLink(r) \/ LoadLinkToApprove(r) \/ ApproveLink(r)
    \/ LoadLinkToRevoke(r) \/ RevokeLink(r)

GrantStep(r) ==
    \/ LoadLinkToGrant(r) \/ ProposeGrant(r) \/ LoadGrantToAccept(r) \/ AcceptGrant(r)
    \/ LoadGrantToRevoke(r) \/ RevokeGrant(r) \/ LoadGrantToAssign(r) \/ AssignGrant(r)

TransferStep(r) ==
    \/ LoadLinkToTransfer(r) \/ RequestTransfer(r)
    \/ LoadTransferToApprove(r) \/ ApproveTransfer(r)
    \/ LoadTransferToReject(r) \/ RejectTransfer(r)
    \/ LoadTransferToComplete(r) \/ Import(r) \/ CompleteTransfer(r)

Next == \E r \in Requests : LinkStep(r) \/ GrantStep(r) \/ TransferStep(r)

Spec == Init /\ [][Next]_vars

-----------------------------------------------------------------------------
\* The rows keep their CHECK constraints.
TypeOK ==
    /\ link \in Link \cup {NoRow}
    /\ grant \in Grant \cup {NoRow}
    /\ assigned \subseteq {"active", "revoked"}
    /\ transfer \in Transfer \cup {NoRow}
    /\ core \in Contents \cup {"none"}
    /\ failures \in 0..MaxFailures
    /\ \A r \in Requests : req[r].at = "import" => req[r].seen.review # "none"

\* "Workspace links grant no access by themselves; Project grants require both
\* sides": an active grant, and an assignment of it, was proposed under a link
\* that both sides approved, and accepted by the target.
GrantsNeedBothSides ==
    grant.status = "active" \/ "active" \in assigned =>
        grant.accepted /\ link.approved = Sides

\* "A transfer requires source approval, target approval, and a separate
\* import result": nothing is imported or completed before both sides have
\* approved, whoever writes last.
TransfersNeedBothSides ==
    /\ core # "none" => transfer.approved = Sides
    /\ transfer # NoRow /\ transfer.status = "completed" =>
            transfer.approved = Sides /\ transfer.imported # "none"

\* What two administrators' completions import is one message: the content
\* the Core stored first is what a completed transfer names, unless a worker
\* brought its own.
ImportedOnce ==
    transfer # NoRow => transfer.imported \in {"none", "worker", core}

=============================================================================
