-------------------------- MODULE GovernanceProofs --------------------------
(***************************************************************************)
(* Proofs about Governance, one side after the other: Federation, Sharing,  *)
(* Membership.  Each side has an inductive invariant of its own (LinkInv,   *)
(* ShareInv, MemberInv) that says of a request under way what it may rely    *)
(* on when it writes; a step of another side leaves its rows alone.          *)
(*                                                                         *)
(* What the documentation says of memberships does not hold of every        *)
(* behaviour of the code, because a request decides by a row that others     *)
(* may change before it commits.  The theorems on memberships name the      *)
(* race that breaks it as a hypothesis on the behaviour (NoLateRise,         *)
(* StatusIsSettled) and show that nothing else does.                        *)
(***************************************************************************)
EXTENDS Governance, FiniteSetTheorems, TLAPS

LEMMA LinkAssumption == Links!FederationAssumption
  BY GovernanceAssumption

LinkSteps == {"idle", "approve link", "revoke link", "grant", "accept grant", "revoke grant",
          "assign", "transfer", "approve transfer", "reject transfer", "import",
          "imported", "complete"}

Completing == {"import", "imported", "complete"}

LinkApproved     == link # Links!NoRow /\ link.approved = Links!Sides
GrantAccepted    == grant # Links!NoRow /\ grant.accepted
TransferApproved == transfer # Links!NoRow /\ transfer.approved = Links!Sides

\* What a request q may rely on until it writes.
HeldBy(q) ==
    /\ q.at \in LinkSteps
    /\ q.at = "approve link" =>
           link # Links!NoRow /\ q.by \in Links!Sides /\ q.seen.approved \subseteq link.approved
    /\ q.at = "revoke link" => link # Links!NoRow
    /\ q.at = "grant" => LinkApproved
    /\ q.at \in {"accept grant", "revoke grant"} => grant # Links!NoRow
    /\ q.at = "assign" => GrantAccepted
    /\ q.at = "approve transfer" =>
           /\ transfer # Links!NoRow
           /\ \/ q.seen.status = "pending_source" /\ q.by = "source"
              \/ /\ q.seen.status = "pending_target" /\ q.by = "target"
                 /\ "source" \in transfer.approved
    /\ q.at = "reject transfer" => transfer # Links!NoRow
    /\ q.at \in Completing => TransferApproved /\ q.seen.review \in Links!Contents
    /\ q.at = "imported" => core # "none"

\* The rows have their types.
LinkTyped ==
    /\ link \in Links!Link \cup {Links!NoRow}
    /\ grant \in Links!Grant \cup {Links!NoRow}
    /\ assigned \subseteq {"active", "revoked"}
    /\ transfer \in Links!Transfer \cup {Links!NoRow}
    /\ core \in Links!Contents \cup {"none"}
    /\ failures \in 0..MaxFailures

\* What the rows say of one another.
LinkSound ==
    link.status = "active" => link.approved = Links!Sides

GrantSound ==
    /\ grant # Links!NoRow => LinkApproved
    /\ grant.status = "active" => grant.accepted
    /\ "active" \in assigned => GrantAccepted

TransferSound ==
    /\ transfer.status = "pending_target" => "source" \in transfer.approved
    /\ transfer.status = "approved" => transfer.approved = Links!Sides /\ transfer.review # "none"
    /\ transfer.status = "completed" => transfer.approved = Links!Sides /\ transfer.imported # "none"
    /\ core # "none" => TransferApproved

LinkRequestsSound ==
    /\ DOMAIN linkReq = LinkRequests
    /\ \A r \in LinkRequests : HeldBy(linkReq[r])

LinkInv ==
    /\ LinkTyped
    /\ LinkSound
    /\ GrantSound
    /\ TransferSound
    /\ LinkRequestsSound

\* Rows stay, and so do their approvals.
Grows ==
    /\ link # Links!NoRow => link' # Links!NoRow /\ link.approved \subseteq link'.approved
    /\ grant # Links!NoRow => grant' # Links!NoRow /\ (grant.accepted => grant'.accepted)
    /\ transfer # Links!NoRow =>
           transfer' # Links!NoRow /\ transfer.approved \subseteq transfer'.approved
    /\ core # "none" => core' # "none"

-----------------------------------------------------------------------------
\* A row that has any of the statuses of its table is there.
LEMMA NoRowStatus == Links!NoRow.status = "none"
  BY DEF Links!NoRow

\* What a request relies on is not taken from it by a step that only adds.
LEMMA HeldIsKept ==
  ASSUME NEW r \in LinkRequests, HeldBy(linkReq[r]), linkReq'[r] = linkReq[r],
         Grows, LinkTyped, LinkTyped'
  PROVE  HeldBy(linkReq[r])'
  BY DEF HeldBy, Grows, LinkTyped, LinkApproved, GrantAccepted, TransferApproved,
         Links!Link, Links!Grant, Links!Transfer, Links!Sides, Links!NoRow, Completing

\* A step of request r disturbs nothing but the rows it writes and itself.
LEMMA OthersAreKept ==
  ASSUME LinkInv, NEW r \in LinkRequests, NEW STATE state, Links!Become(r, state), Grows,
         LinkTyped', LinkSound', GrantSound', TransferSound', HeldBy(linkReq[r])'
  PROVE  LinkInv'
  <1>1. DOMAIN linkReq' = LinkRequests
    BY DEF Links!Become, LinkInv, LinkRequestsSound
  <1>2. ASSUME NEW other \in LinkRequests PROVE HeldBy(linkReq[other])'
    <2>1. CASE other = r
      BY <2>1
    <2>2. CASE other # r
      <3>1. linkReq'[other] = linkReq[other]
        BY <2>2 DEF Links!Become, LinkInv, LinkRequestsSound
      <3>2. QED
        BY <3>1, HeldIsKept DEF LinkInv, LinkRequestsSound
    <2>3. QED
      BY <2>1, <2>2
  <1>3. QED
    BY <1>1, <1>2 DEF LinkInv, LinkRequestsSound

\* A request that ends keeps nothing it could be wrong about.
LEMMA FinishPreserves ==
  ASSUME LinkInv, NEW r \in LinkRequests, Links!Finish(r), Grows,
         LinkTyped', LinkSound', GrantSound', TransferSound'
  PROVE  LinkInv'
  <1>1. Links!Become(r, Links!Idle)
    BY DEF Links!Finish
  <1>2. linkReq'[r] = Links!Idle
    BY <1>1 DEF Links!Become, LinkInv, LinkRequestsSound
  <1>3. HeldBy(linkReq[r])'
    BY <1>2 DEF HeldBy, Links!Idle, LinkSteps, Completing
  <1>4. QED
    BY <1>1, <1>3, OthersAreKept

\* A request that has loaded a row may rely on what it has found there.
LEMMA LoadPreserves ==
  ASSUME LinkInv, NEW r \in LinkRequests, NEW STATE step, NEW STATE by, NEW STATE seen,
         Links!Load(r, step, by, seen), HeldBy([at |-> step, by |-> by, seen |-> seen])
  PROVE  LinkInv'
  <1> DEFINE loaded == [at |-> step, by |-> by, seen |-> seen]
  <1>1. /\ Links!Become(r, loaded)
        /\ UNCHANGED <<link, grant, assigned, transfer, core, failures>>
    BY DEF Links!Load
  <1>2. linkReq'[r] = loaded
    BY <1>1 DEF Links!Become, LinkInv, LinkRequestsSound
  <1>3. HeldBy(linkReq[r])'
    BY <1>1, <1>2 DEF HeldBy, LinkApproved, GrantAccepted, TransferApproved
  <1>4. Grows
    BY <1>1 DEF Grows
  <1>5. LinkTyped' /\ LinkSound' /\ GrantSound' /\ TransferSound'
    BY <1>1 DEF LinkInv, LinkTyped, LinkSound, GrantSound, TransferSound, LinkApproved,
                GrantAccepted, TransferApproved
  <1>6. QED
    BY <1>1, <1>3, <1>4, <1>5, OthersAreKept

-----------------------------------------------------------------------------
\* The link: a row becomes active by a writer that has seen one approval and
\* adds the other.
LEMMA LinkStepPreserves ==
  ASSUME LinkInv, NEW r \in LinkRequests, Links!LinkStep(r)
  PROVE  LinkInv'
  <1> USE DEF LinkInv
  <1>1. CASE Links!ProposeLink(r)
    <2>1. /\ Links!Finish(r)
          /\ \E by \in Links!Sides : link' = [status |-> "pending", approved |-> {by}]
          /\ link = Links!NoRow
          /\ UNCHANGED <<grant, assigned, transfer, core, failures>>
      BY <1>1 DEF Links!ProposeLink
    <2>2. LinkTyped' /\ Grows
      BY <2>1 DEF LinkTyped, Grows, Links!Link
    <2>3. LinkSound' /\ GrantSound' /\ TransferSound'
      BY <2>1
         DEF LinkSound, GrantSound, TransferSound, LinkApproved, GrantAccepted,
             TransferApproved
    <2>4. QED
      BY <2>1, <2>2, <2>3, FinishPreserves
  <1>2. CASE Links!LoadLinkToApprove(r)
    <2>1. PICK by \in Links!Sides : Links!Load(r, "approve link", by, [approved |-> link.approved])
      BY <1>2 DEF Links!LoadLinkToApprove
    <2>2. link # Links!NoRow
      BY <1>2, NoRowStatus DEF Links!LoadLinkToApprove
    <2>3. HeldBy([at |-> "approve link", by |-> by, seen |-> [approved |-> link.approved]])
      BY <2>2 DEF HeldBy, LinkSteps, Completing
    <2>4. QED
      BY <2>1, <2>3, LoadPreserves
  <1>3. CASE Links!ApproveLink(r)
    <2> DEFINE q == linkReq[r]
    <2>1. /\ Links!Finish(r)
          /\ link # Links!NoRow /\ q.by \in Links!Sides /\ q.seen.approved \subseteq link.approved
          /\ link'.status \in {"active", link.status}
          /\ link'.status = "active" =>
                 link.status = "active" \/ q.seen.approved \cup {q.by} = Links!Sides
          /\ link'.approved = link.approved \cup {q.by}
          /\ link' = [status |-> link'.status, approved |-> link'.approved]
          /\ UNCHANGED <<grant, assigned, transfer, core, failures>>
      BY <1>3 DEF Links!ApproveLink, Links!Writes, Links!BothSides, LinkRequestsSound, HeldBy
    <2>2. link \in Links!Link
      BY <2>1 DEF LinkTyped
    <2>3. link' \in Links!Link
      BY <2>1, <2>2 DEF Links!Link
    <2>4. LinkTyped'
      BY <2>1, <2>3 DEF LinkTyped
    <2>5. Grows
      BY <2>1, <2>3 DEF Grows, Links!Link, Links!NoRow
    <2>6. LinkApproved => LinkApproved'
      BY <2>1, <2>3 DEF LinkApproved, Links!Link, Links!NoRow
    <2>7. LinkSound'
      BY <2>1, <2>2, <2>3 DEF LinkSound, Links!Link
    <2>8. GrantSound' /\ TransferSound'
      BY <2>1, <2>6 DEF GrantSound, TransferSound, GrantAccepted, TransferApproved
    <2>9. QED
      BY <2>1, <2>4, <2>5, <2>7, <2>8, FinishPreserves
  <1>4. CASE Links!LoadLinkToRevoke(r)
    <2>1. PICK by \in Links!Sides : Links!Load(r, "revoke link", by, [status |-> link.status])
      BY <1>4 DEF Links!LoadLinkToRevoke
    <2>2. HeldBy([at |-> "revoke link", by |-> by, seen |-> [status |-> link.status]])
      BY <1>4 DEF Links!LoadLinkToRevoke, HeldBy, LinkSteps, Completing
    <2>3. QED
      BY <2>1, <2>2, LoadPreserves
  <1>5. CASE Links!RevokeLink(r)
    <2>1. /\ Links!Finish(r)
          /\ link # Links!NoRow
          /\ link' \in {link, Links!Revoked(link)}
          /\ grant' \in {grant, Links!Revoked(grant)}
          /\ UNCHANGED <<assigned, transfer, core, failures>>
      BY <1>5 DEF Links!RevokeLink, Links!RevokedFrom, Links!Writes, LinkRequestsSound, HeldBy
    <2>2. grant = Links!NoRow => grant' = Links!NoRow
      BY <1>5, NoRowStatus DEF Links!RevokeLink
    <2>3. /\ link' \in Links!Link
          /\ link'.approved = link.approved
          /\ link'.status \in {link.status, "revoked"}
      BY <2>1 DEF LinkTyped, Links!Link, Links!NoRow, Links!Revoked
    <2>4. grant # Links!NoRow => /\ grant' \in Links!Grant
                           /\ grant'.accepted = grant.accepted
                           /\ grant'.status \in {grant.status, "revoked"}
      BY <2>1 DEF LinkTyped, Links!Grant, Links!NoRow, Links!Revoked
    <2>5. LinkTyped'
      BY <2>1, <2>2, <2>3, <2>4 DEF LinkTyped
    <2>6. Grows
      BY <2>1, <2>2, <2>3, <2>4 DEF Grows, Links!Link, Links!Grant, Links!NoRow
    <2>7. LinkSound'
      BY <2>3 DEF LinkSound
    <2>8. GrantSound'
      BY <2>1, <2>2, <2>3, <2>4, <2>6
         DEF GrantSound, LinkApproved, GrantAccepted, Links!NoRow, Grows
    <2>9. TransferSound'
      BY <2>1 DEF TransferSound, TransferApproved
    <2>10. QED
      BY <2>1, <2>5, <2>6, <2>7, <2>8, <2>9, FinishPreserves
  <1>6. QED
    BY <1>1, <1>2, <1>3, <1>4, <1>5 DEF Links!LinkStep

\* The grant: it is proposed under a link both sides have approved, and only
\* an acceptance makes it active.
LEMMA GrantStepPreserves ==
  ASSUME LinkInv, NEW r \in LinkRequests, Links!GrantStep(r)
  PROVE  LinkInv'
  <1> USE DEF LinkInv
  <1>1. CASE Links!LoadLinkToGrant(r)
    <2>1. LinkApproved
      BY <1>1, NoRowStatus DEF Links!LoadLinkToGrant, LinkSound, LinkApproved
    <2>2. HeldBy([at |-> "grant", by |-> "source", seen |-> Links!NoRow])
      BY <2>1 DEF HeldBy, LinkSteps, Completing
    <2>3. QED
      BY <1>1, <2>2, LoadPreserves DEF Links!LoadLinkToGrant
  <1>2. CASE Links!ProposeGrant(r)
    <2>1. /\ Links!Finish(r)
          /\ LinkApproved
          /\ grant' = IF grant = Links!NoRow THEN [status |-> "pending", accepted |-> FALSE] ELSE grant
          /\ UNCHANGED <<link, assigned, transfer, core, failures>>
      BY <1>2 DEF Links!ProposeGrant, Links!Writes, LinkRequestsSound, HeldBy
    <2>2. grant' \in Links!Grant /\ (grant # Links!NoRow => grant' = grant)
      BY <2>1 DEF LinkTyped, Links!Grant
    <2>3. grant' # Links!NoRow
      BY <2>2, NoRowStatus DEF Links!Grant
    <2>4. LinkTyped' /\ Grows
      BY <2>1, <2>2, <2>3 DEF LinkTyped, Grows
    <2>5. GrantSound'
      BY <2>1, <2>2, <2>3 DEF GrantSound, LinkApproved, GrantAccepted, Links!Grant
    <2>6. LinkSound' /\ TransferSound'
      BY <2>1 DEF LinkSound, TransferSound, TransferApproved
    <2>7. QED
      BY <2>1, <2>4, <2>5, <2>6, FinishPreserves
  <1>3. CASE Links!LoadGrantToAccept(r)
    <2>1. grant # Links!NoRow
      BY <1>3, NoRowStatus DEF Links!LoadGrantToAccept
    <2>2. HeldBy([at |-> "accept grant", by |-> "target", seen |-> Links!NoRow])
      BY <2>1 DEF HeldBy, LinkSteps, Completing
    <2>3. QED
      BY <1>3, <2>2, LoadPreserves DEF Links!LoadGrantToAccept
  <1>4. CASE Links!AcceptGrant(r)
    <2>1. /\ Links!Finish(r)
          /\ grant # Links!NoRow
          /\ grant' = [status |-> "active", accepted |-> TRUE]
          /\ UNCHANGED <<link, assigned, transfer, core, failures>>
      BY <1>4 DEF Links!AcceptGrant, Links!Writes, LinkRequestsSound, HeldBy
    <2>2. grant' \in Links!Grant /\ grant'.accepted
      BY <2>1 DEF Links!Grant
    <2>3. grant' # Links!NoRow
      BY <2>2, NoRowStatus DEF Links!Grant
    <2>4. LinkTyped' /\ Grows
      BY <2>1, <2>2, <2>3 DEF LinkTyped, Grows
    <2>5. GrantSound'
      BY <2>1, <2>2, <2>3 DEF GrantSound, LinkApproved, GrantAccepted
    <2>6. LinkSound' /\ TransferSound'
      BY <2>1 DEF LinkSound, TransferSound, TransferApproved
    <2>7. QED
      BY <2>1, <2>4, <2>5, <2>6, FinishPreserves
  <1>5. CASE Links!LoadGrantToRevoke(r)
    <2>1. PICK by \in Links!Sides : Links!Load(r, "revoke grant", by, [status |-> grant.status])
      BY <1>5 DEF Links!LoadGrantToRevoke
    <2>2. HeldBy([at |-> "revoke grant", by |-> by, seen |-> [status |-> grant.status]])
      BY <1>5 DEF Links!LoadGrantToRevoke, HeldBy, LinkSteps, Completing
    <2>3. QED
      BY <2>1, <2>2, LoadPreserves
  <1>6. CASE Links!RevokeGrant(r)
    <2>1. /\ Links!Finish(r)
          /\ grant # Links!NoRow
          /\ grant' \in {grant, Links!Revoked(grant)}
          /\ assigned' \subseteq {"revoked"}
          /\ UNCHANGED <<link, transfer, core, failures>>
      BY <1>6 DEF Links!RevokeGrant, Links!RevokedFrom, Links!Writes, LinkRequestsSound, HeldBy
    <2>2. /\ grant' \in Links!Grant
          /\ grant'.accepted = grant.accepted
          /\ grant'.status \in {grant.status, "revoked"}
      BY <2>1 DEF LinkTyped, Links!Grant, Links!Revoked
    <2>3. grant' # Links!NoRow
      BY <2>2, NoRowStatus DEF Links!Grant
    <2>4. LinkTyped' /\ Grows
      BY <2>1, <2>2, <2>3 DEF LinkTyped, Grows
    <2>5. GrantSound'
      BY <2>1, <2>2, <2>3 DEF GrantSound, LinkApproved, GrantAccepted
    <2>6. LinkSound' /\ TransferSound'
      BY <2>1 DEF LinkSound, TransferSound, TransferApproved
    <2>7. QED
      BY <2>1, <2>4, <2>5, <2>6, FinishPreserves
  <1>7. CASE Links!LoadGrantToAssign(r)
    <2>1. GrantAccepted
      BY <1>7, NoRowStatus DEF Links!LoadGrantToAssign, Links!Assignable, GrantSound, GrantAccepted
    <2>2. HeldBy([at |-> "assign", by |-> "target", seen |-> Links!NoRow])
      BY <2>1 DEF HeldBy, LinkSteps, Completing
    <2>3. QED
      BY <1>7, <2>2, LoadPreserves DEF Links!LoadGrantToAssign
  <1>8. CASE Links!AssignGrant(r)
    <2>1. /\ Links!Finish(r)
          /\ GrantAccepted
          /\ assigned' = assigned \cup {"active"}
          /\ UNCHANGED <<link, grant, transfer, core, failures>>
      BY <1>8 DEF Links!AssignGrant, Links!Writes, LinkRequestsSound, HeldBy
    <2>2. LinkTyped' /\ Grows
      BY <2>1 DEF LinkTyped, Grows
    <2>3. LinkSound' /\ GrantSound' /\ TransferSound'
      BY <2>1
         DEF LinkSound, GrantSound, TransferSound, LinkApproved, GrantAccepted,
             TransferApproved
    <2>4. QED
      BY <2>1, <2>2, <2>3, FinishPreserves
  <1>9. QED
    BY <1>1, <1>2, <1>3, <1>4, <1>5, <1>6, <1>7, <1>8 DEF Links!GrantStep

\* The transfer: each stage adds the approval of its side, the target's after
\* the source's, and only an approved transfer is imported or completed.
LEMMA TransferStepPreserves ==
  ASSUME LinkInv, NEW r \in LinkRequests, Links!TransferStep(r)
  PROVE  LinkInv'
  <1> USE DEF LinkInv
  <1>1. CASE Links!LoadLinkToTransfer(r)
    <2>1. HeldBy([at |-> "transfer", by |-> "source", seen |-> Links!NoRow])
      BY DEF HeldBy, LinkSteps, Completing
    <2>2. QED
      BY <1>1, <2>1, LoadPreserves DEF Links!LoadLinkToTransfer
  <1>2. CASE Links!RequestTransfer(r)
    <2> DEFINE proposed == [status |-> "pending_source", approved |-> {}, review |-> "none",
                            imported |-> "none"]
    <2>1. /\ Links!Finish(r)
          /\ transfer' = IF transfer # Links!NoRow THEN transfer ELSE proposed
          /\ UNCHANGED <<link, grant, assigned, core, failures>>
      BY <1>2 DEF Links!RequestTransfer, Links!Writes
    <2>2. proposed \in Links!Transfer
      BY DEF Links!Transfer
    <2>3. proposed # Links!NoRow /\ proposed.status = "pending_source"
      BY <2>2, NoRowStatus DEF Links!Transfer
    <2>4. LinkTyped' /\ Grows
      BY <2>1, <2>2, <2>3 DEF LinkTyped, Grows
    <2>5. LinkSound' /\ GrantSound'
      BY <2>1 DEF LinkSound, GrantSound, LinkApproved, GrantAccepted
    <2>6. TransferSound'
      BY <2>1, <2>3 DEF TransferSound, TransferApproved
    <2>7. QED
      BY <2>1, <2>4, <2>5, <2>6, FinishPreserves
  <1>3. CASE Links!LoadTransferToApprove(r)
    <2>1. PICK by \in Links!Sides :
            /\ Links!StageOf(by, transfer.status)
            /\ Links!Load(r, "approve transfer", by, [status |-> transfer.status])
      BY <1>3 DEF Links!LoadTransferToApprove
    <2>2. /\ transfer # Links!NoRow
          /\ \/ transfer.status = "pending_source" /\ by = "source"
             \/ transfer.status = "pending_target" /\ by = "target" /\ "source" \in transfer.approved
      BY <2>1, NoRowStatus DEF Links!StageOf, Links!Sides, TransferSound
    <2>3. HeldBy([at |-> "approve transfer", by |-> by, seen |-> [status |-> transfer.status]])
      BY <2>2 DEF HeldBy, LinkSteps, Completing
    <2>4. QED
      BY <2>1, <2>3, LoadPreserves
  <1>4. CASE Links!ApproveTransfer(r)
    <2> DEFINE q == linkReq[r]
    <2>1. /\ Links!Finish(r)
          /\ transfer \in Links!Transfer
          /\ UNCHANGED <<link, grant, assigned, core, failures>>
      BY <1>4 DEF Links!ApproveTransfer, Links!Writes, LinkRequestsSound, HeldBy, LinkTyped
    <2>2. \/ /\ q.by = "source"
             /\ transfer' = [transfer EXCEPT !.status = "pending_target", !.approved = @ \cup {q.by}]
          \/ /\ q.by = "target" /\ "source" \in transfer.approved
             /\ \E review \in Links!Contents :
                    transfer' = [transfer EXCEPT !.status = "approved", !.approved = @ \cup {q.by},
                                                 !.review = review]
      BY <1>4 DEF Links!ApproveTransfer, Links!Writes, LinkRequestsSound, HeldBy
    <2>3. /\ transfer' \in Links!Transfer
          /\ \/ /\ transfer'.status = "pending_target"
                /\ transfer'.approved = transfer.approved \cup {"source"}
             \/ /\ transfer'.status = "approved"
                /\ "source" \in transfer.approved
                /\ transfer'.approved = transfer.approved \cup {"target"}
                /\ transfer'.review \in Links!Contents
      <3>1. CASE q.by = "source"
        <4>1. transfer' = [transfer EXCEPT !.status = "pending_target", !.approved = @ \cup {"source"}]
          BY <2>2, <3>1
        <4>2. QED
          BY <2>1, <4>1 DEF Links!Transfer, Links!Sides
      <3>2. CASE q.by = "target"
        <4>1. PICK review \in Links!Contents :
                transfer' = [transfer EXCEPT !.status = "approved", !.approved = @ \cup {"target"},
                                             !.review = review]
          BY <2>2, <3>2
        <4>2. "source" \in transfer.approved
          BY <2>2, <3>2
        <4>3. QED
          BY <2>1, <4>1, <4>2 DEF Links!Transfer, Links!Sides
      <3>3. QED
        BY <2>2, <3>1, <3>2
    <2>4. transfer' # Links!NoRow
      BY <2>3, NoRowStatus
    <2>5. LinkTyped' /\ Grows
      BY <2>1, <2>3, <2>4 DEF LinkTyped, Grows
    <2>6. LinkSound' /\ GrantSound'
      BY <2>1 DEF LinkSound, GrantSound, LinkApproved, GrantAccepted
    <2>7. /\ transfer'.status = "pending_target" => "source" \in transfer'.approved
          /\ transfer'.status = "approved" =>
                 transfer'.approved = Links!Sides /\ transfer'.review \in Links!Contents
          /\ transfer'.status # "completed"
      BY <2>1, <2>3 DEF Links!Transfer, Links!Sides
    <2>8. TransferApproved => TransferApproved'
      BY <2>3, <2>4 DEF TransferApproved, Links!Transfer
    <2>9. "none" \notin Links!Contents
      BY LinkAssumption DEF Links!FederationAssumption, Links!Contents
    <2>10. TransferSound'
      BY <2>1, <2>7, <2>8, <2>9 DEF TransferSound
    <2>11. QED
      BY <2>1, <2>5, <2>6, <2>10, FinishPreserves
  <1>5. CASE Links!LoadTransferToReject(r)
    <2>1. PICK by \in Links!Sides :
            /\ Links!StageOf(by, transfer.status)
            /\ Links!Load(r, "reject transfer", by, Links!NoRow)
      BY <1>5 DEF Links!LoadTransferToReject
    <2>2. transfer # Links!NoRow
      BY <2>1, NoRowStatus DEF Links!StageOf
    <2>3. HeldBy([at |-> "reject transfer", by |-> by, seen |-> Links!NoRow])
      BY <2>2 DEF HeldBy, LinkSteps, Completing
    <2>4. QED
      BY <2>1, <2>3, LoadPreserves
  <1>6. CASE Links!RejectTransfer(r)
    <2>1. /\ Links!Finish(r)
          /\ transfer \in Links!Transfer
          /\ transfer' = [transfer EXCEPT !.status = "rejected"]
          /\ UNCHANGED <<link, grant, assigned, core, failures>>
      BY <1>6 DEF Links!RejectTransfer, Links!Writes, LinkRequestsSound, HeldBy, LinkTyped
    <2>2. /\ transfer' \in Links!Transfer
          /\ transfer'.status = "rejected"
          /\ transfer'.approved = transfer.approved
      BY <2>1 DEF Links!Transfer
    <2>3. transfer' # Links!NoRow
      BY <2>2, NoRowStatus
    <2>4. LinkTyped' /\ Grows
      BY <2>1, <2>2, <2>3 DEF LinkTyped, Grows
    <2>5. LinkSound' /\ GrantSound'
      BY <2>1 DEF LinkSound, GrantSound, LinkApproved, GrantAccepted
    <2>6. TransferSound'
      BY <2>1, <2>2, <2>3 DEF TransferSound, TransferApproved
    <2>7. QED
      BY <2>1, <2>4, <2>5, <2>6, FinishPreserves
  <1>7. CASE Links!LoadTransferToComplete(r)
    <2>1. PICK step \in {"import", "complete"} :
            Links!Load(r, step, "target", [review |-> transfer.review])
      BY <1>7 DEF Links!LoadTransferToComplete
    <2>2. transfer.status = "approved"
      BY <1>7 DEF Links!LoadTransferToComplete, Links!Completable
    <2>3. TransferApproved
      BY <2>2, NoRowStatus DEF TransferSound, TransferApproved
    <2>4. transfer.review \in Links!Contents
      BY <2>2, <2>3 DEF TransferSound, TransferApproved, LinkTyped, Links!Transfer
    <2>5. HeldBy([at |-> step, by |-> "target", seen |-> [review |-> transfer.review]])
      BY <2>3, <2>4 DEF HeldBy, LinkSteps, Completing
    <2>6. QED
      BY <2>1, <2>5, LoadPreserves
  <1>8. CASE Links!Import(r)
    <2>1. /\ linkReq[r].at = "import"
          /\ TransferApproved
          /\ linkReq[r].seen.review \in Links!Contents
          /\ core' = IF core = "none" THEN linkReq[r].seen.review ELSE core
          /\ UNCHANGED <<link, grant, assigned, transfer>>
      BY <1>8 DEF Links!Import, Links!Answered, LinkRequestsSound, HeldBy, Completing
    <2>2. failures' \in 0..MaxFailures
      BY <1>8, LinkAssumption
         DEF Links!Import, Links!Answered, LinkTyped, Links!FederationAssumption
    <2>3. core' \in Links!Contents /\ core' # "none"
      BY <2>1, LinkAssumption DEF LinkTyped, Links!Contents, Links!FederationAssumption
    <2>4. LinkTyped' /\ Grows
      BY <2>1, <2>2, <2>3 DEF LinkTyped, Grows
    <2>5. LinkSound' /\ GrantSound' /\ TransferSound'
      BY <2>1
         DEF LinkSound, GrantSound, TransferSound, LinkApproved, GrantAccepted,
             TransferApproved
    <2>6. CASE Links!Finish(r)
      BY <2>4, <2>5, <2>6, FinishPreserves
    <2>7. CASE Links!Become(r, [linkReq[r] EXCEPT !.at = "imported"])
      <3>1. linkReq'[r] = [linkReq[r] EXCEPT !.at = "imported"]
        BY <2>7 DEF Links!Become, LinkRequestsSound
      <3>2. linkReq'[r].seen = linkReq[r].seen /\ linkReq'[r].at = "imported"
        BY <3>1, <2>1
      <3>3. HeldBy(linkReq[r])'
        BY <2>1, <2>3, <3>2 DEF HeldBy, LinkSteps, Completing, TransferApproved
      <3>4. QED
        BY <2>4, <2>5, <2>7, <3>3, OthersAreKept
    <2>8. QED
      BY <1>8, <2>6, <2>7 DEF Links!Import, Links!Answered
  <1>9. CASE Links!CompleteTransfer(r)
    <2>1. PICK message \in Links!Contents \cup {"worker"} :
            transfer' = [transfer EXCEPT !.status = "completed", !.imported = message]
      BY <1>9 DEF Links!CompleteTransfer, LinkRequestsSound, HeldBy, LinkTyped
    <2>2. /\ Links!Finish(r)
          /\ TransferApproved
          /\ transfer \in Links!Transfer
          /\ UNCHANGED <<link, grant, assigned, core, failures>>
      BY <1>9
         DEF Links!CompleteTransfer, LinkRequestsSound, HeldBy, Completing,
             TransferApproved, LinkTyped
    <2>3. /\ transfer' \in Links!Transfer
          /\ transfer'.status = "completed"
          /\ transfer'.approved = transfer.approved
          /\ transfer'.imported = message
      BY <2>1, <2>2 DEF Links!Transfer
    <2>4. transfer' # Links!NoRow /\ message # "none"
      BY <2>3, NoRowStatus, LinkAssumption DEF Links!Contents, Links!FederationAssumption
    <2>5. LinkTyped' /\ Grows
      BY <2>2, <2>3, <2>4 DEF LinkTyped, Grows
    <2>6. LinkSound' /\ GrantSound'
      BY <2>2 DEF LinkSound, GrantSound, LinkApproved, GrantAccepted
    <2>7. TransferSound'
      BY <2>2, <2>3, <2>4 DEF TransferSound, TransferApproved
    <2>8. QED
      BY <2>2, <2>5, <2>6, <2>7, FinishPreserves
  <1>10. QED
    BY <1>1, <1>2, <1>3, <1>4, <1>5, <1>6, <1>7, <1>8, <1>9 DEF Links!TransferStep

-----------------------------------------------------------------------------
\* Nothing is there at first.
LEMMA LinkInit == Links!Init => LinkInv
  <1> SUFFICES ASSUME Links!Init PROVE LinkInv
    OBVIOUS
  <1>1. LinkTyped
    BY LinkAssumption DEF Links!Init, LinkTyped, Links!FederationAssumption
  <1>2. LinkSound /\ GrantSound /\ TransferSound
    BY NoRowStatus DEF Links!Init, LinkSound, GrantSound, TransferSound
  <1>3. LinkRequestsSound
    BY DEF Links!Init, LinkRequestsSound, HeldBy, Links!Idle, LinkSteps, Completing
  <1>4. QED
    BY <1>1, <1>2, <1>3 DEF LinkInv

\* The invariant holds of every commit, in whatever order requests write.
LEMMA LinkNext == LinkInv /\ [Links!Next]_linkVars => LinkInv'
  <1> SUFFICES ASSUME LinkInv, [Links!Next]_linkVars PROVE LinkInv'
    OBVIOUS
  <1>1. CASE Links!Next
    BY <1>1, LinkStepPreserves, GrantStepPreserves, TransferStepPreserves DEF Links!Next
  <1>2. CASE UNCHANGED linkVars
    <2>1. LinkTyped'
      BY <1>2 DEF linkVars, LinkInv, LinkTyped
    <2>2. LinkSound' /\ GrantSound' /\ TransferSound'
      BY <1>2
         DEF linkVars, LinkInv, LinkSound, GrantSound, TransferSound, LinkApproved,
             GrantAccepted,
                  TransferApproved
    <2>3. ASSUME NEW r \in LinkRequests PROVE HeldBy(linkReq[r])'
      <3>1. HeldBy(linkReq[r]) /\ UNCHANGED <<link, grant, transfer, core, linkReq>>
        BY <1>2 DEF linkVars, LinkInv, LinkRequestsSound
      <3>2. QED
        BY <3>1 DEF HeldBy, LinkApproved, GrantAccepted, TransferApproved
    <2>4. LinkRequestsSound'
      BY <1>2, <2>3 DEF linkVars, LinkInv, LinkRequestsSound
    <2>5. QED
      BY <2>1, <2>2, <2>4 DEF LinkInv
  <1>3. QED
    BY <1>1, <1>2

\* It gives what the runs check.
LEMMA LinkInvGives == LinkInv => Links!TypeOK /\ GrantsNeedBothSides /\ TransfersNeedBothSides
  <1> SUFFICES ASSUME LinkInv PROVE Links!TypeOK /\ GrantsNeedBothSides /\ TransfersNeedBothSides
    OBVIOUS
  <1>1. \A r \in LinkRequests : linkReq[r].at = "import" => linkReq[r].seen.review # "none"
    BY LinkAssumption
    DEF LinkInv, LinkRequestsSound, HeldBy, Completing, Links!Contents, Links!FederationAssumption
  <1>2. Links!TypeOK
    BY <1>1 DEF LinkInv, LinkTyped, Links!TypeOK
  <1>3. GrantsNeedBothSides
    BY NoRowStatus
       DEF LinkInv, GrantSound, GrantsNeedBothSides, Links!GrantsNeedBothSides,
           LinkApproved, GrantAccepted
  <1>4. TransfersNeedBothSides
    BY
       DEF LinkInv, TransferSound, TransfersNeedBothSides, Links!TransfersNeedBothSides,
           TransferApproved
  <1>5. QED
    BY <1>2, <1>3, <1>4

\* A step of the sum is one of Federation or leaves its rows alone.
LEMMA LinkSteppings ==
  [GovernanceNext]_<<vars, sharingVars, linkVars, side>> => [Links!Next]_linkVars
  BY DEF GovernanceNext

LEMMA LinkInvHolds == GovernanceSpec => []LinkInv
  <1>1. GovernanceInit => LinkInv
    BY LinkInit DEF GovernanceInit
  <1>2. QED
    BY <1>1, LinkSteppings, LinkNext, PTL DEF GovernanceSpec

\* The rows keep their CHECK constraints, and what is imported is a content.
THEOREM LinksTypeCorrect == GovernanceSpec => []Links!TypeOK
  BY LinkInvHolds, LinkInvGives, PTL

\* No active grant or assignment without the link's two approvals and the
\* target's acceptance, however many administrators act on stale rows.
THEOREM ProjectsAreGrantedByBoth == GovernanceSpec => []GrantsNeedBothSides
  BY LinkInvHolds, LinkInvGives, PTL

\* No import and no completion of a transfer without the approval of both.
THEOREM RecordsAreTransferredByBoth == GovernanceSpec => []TransfersNeedBothSides
  BY LinkInvHolds, LinkInvGives, PTL

\* What the rows and the Core name stays: a completion names what the Core has.
LEMMA ImportedOnceStep ==
  LinkInv /\ Links!ImportedOnce /\ [Links!Next]_linkVars => Links!ImportedOnce'
  <1> SUFFICES ASSUME LinkInv, Links!ImportedOnce, [Links!Next]_linkVars PROVE Links!ImportedOnce'
    OBVIOUS
  <1>1. transfer \in Links!Transfer \cup {Links!NoRow}
    BY DEF LinkInv, LinkTyped
  <1>2. ASSUME UNCHANGED <<transfer, core>> PROVE Links!ImportedOnce'
    BY <1>2 DEF Links!ImportedOnce
  <1>3. CASE UNCHANGED linkVars
    BY <1>2, <1>3 DEF linkVars
  <1>4. ASSUME NEW r \in LinkRequests, Links!LinkStep(r) \/ Links!GrantStep(r)
        PROVE  Links!ImportedOnce'
    <2>1. UNCHANGED <<transfer, core>>
      BY <1>4
         DEF Links!LinkStep, Links!GrantStep, Links!ProposeLink, Links!LoadLinkToApprove,
             Links!ApproveLink, Links!LoadLinkToRevoke, Links!RevokeLink, Links!LoadLinkToGrant,
             Links!ProposeGrant, Links!LoadGrantToAccept, Links!AcceptGrant,
             Links!LoadGrantToRevoke, Links!RevokeGrant, Links!LoadGrantToAssign,
             Links!AssignGrant, Links!Load
    <2>2. QED
      BY <1>2, <2>1
  <1>5. ASSUME NEW r \in LinkRequests,
               \/ Links!LoadLinkToTransfer(r) \/ Links!LoadTransferToApprove(r)
               \/ Links!LoadTransferToReject(r) \/ Links!LoadTransferToComplete(r)
        PROVE  Links!ImportedOnce'
    <2>1. UNCHANGED <<transfer, core>>
      BY <1>5 DEF Links!LoadLinkToTransfer, Links!LoadTransferToApprove, Links!LoadTransferToReject,
                  Links!LoadTransferToComplete, Links!Load
    <2>2. QED
      BY <1>2, <2>1
  <1>6. ASSUME NEW r \in LinkRequests, Links!RequestTransfer(r) PROVE Links!ImportedOnce'
    BY <1>6 DEF Links!RequestTransfer, Links!ImportedOnce
  <1>7. ASSUME NEW r \in LinkRequests, Links!ApproveTransfer(r) \/ Links!RejectTransfer(r)
        PROVE  Links!ImportedOnce'
    <2>1. transfer # Links!NoRow
      BY <1>7
         DEF Links!ApproveTransfer, Links!RejectTransfer, Links!Writes, LinkInv,
             LinkRequestsSound, HeldBy
    <2>2. transfer'.imported = transfer.imported /\ core' = core
      BY <1>1, <1>7, <2>1 DEF Links!ApproveTransfer, Links!RejectTransfer, Links!Transfer
    <2>3. QED
      BY <2>1, <2>2 DEF Links!ImportedOnce
  <1>8. ASSUME NEW r \in LinkRequests, Links!Import(r) PROVE Links!ImportedOnce'
    BY <1>8 DEF Links!Import, Links!Answered, Links!ImportedOnce
  <1>9. ASSUME NEW r \in LinkRequests, Links!CompleteTransfer(r) PROVE Links!ImportedOnce'
    <2>1. transfer # Links!NoRow
      BY <1>9
         DEF Links!CompleteTransfer, LinkInv, LinkRequestsSound, HeldBy, Completing,
             TransferApproved
    <2>2. transfer'.imported \in {core, "worker"} /\ core' = core
      BY <1>1, <1>9, <2>1 DEF Links!CompleteTransfer, Links!Transfer
    <2>3. QED
      BY <2>2 DEF Links!ImportedOnce
  <1>10. QED
    BY <1>3, <1>4, <1>5, <1>6, <1>7, <1>8, <1>9 DEF Links!Next, Links!TransferStep

\* However many completions of one transfer run at once, and however many answers
\* of the Core are lost, a completed transfer names the content the Core stored
\* first, or what a worker brought (post_complete_transfer, complete_transfer).
THEOREM ImportIsIdempotent == GovernanceSpec => []ImportedOnce
  <1>1. GovernanceInit => Links!ImportedOnce
    BY DEF GovernanceInit, Links!Init, Links!ImportedOnce
  <1>2. Links!ImportedOnce => ImportedOnce
    BY DEF ImportedOnce
  <1>3. QED
    BY <1>1, <1>2, LinkInvHolds, LinkSteppings, ImportedOnceStep, PTL DEF GovernanceSpec

-----------------------------------------------------------------------------
\* What a row of workspace_shares allows to be read.
Consented(x) ==
    /\ x \in Shares \X Projects
    /\ LET row == share[x[1]] IN
       /\ row # SharingSide!Unused
       /\ row.consent
       /\ x[2] \in project[row.owner]
       /\ row.display.mode = "workspace" \/ x[2] \in row.display.only

\* What a request q on a share may rely on until it writes: the row is there,
\* and its approval is the recipient's.
DecidedBy(q) ==
    /\ q.at \in {"idle", "done", "insert", "write"}
    /\ q.at = "insert" =>
           q.owner \in Workspaces /\ q.recipient \in Workspaces /\ q.display \in SharingSide!Displays
    /\ q.at = "write" =>
           /\ q.share \in Shares
           /\ share[q.share] # SharingSide!Unused
           /\ q.verdict \in SharingSide!Verdicts
           /\ q.verdict = "active" => q.by = share[q.share].recipient

ShareTyped ==
    /\ project \in [Workspaces -> SUBSET Projects]
    /\ share \in [Shares -> SharingSide!Share \cup {SharingSide!Unused}]

ActiveIsApproved == \A s \in Shares : share[s].status = "active" => share[s].consent

ShareRequestsSound ==
    /\ DOMAIN shareReq = ShareRequests
    /\ \A r \in ShareRequests : DecidedBy(shareReq[r])

SearchesSound ==
    /\ DOMAIN search = Searches
    /\ \A q \in Searches : \A x \in search[q].todo \cup search[q].found : Consented(x)

ShareInv ==
    /\ ShareTyped
    /\ ActiveIsApproved
    /\ ShareRequestsSound
    /\ SearchesSound

\* A row stays with the parties and the display it was made with, and so does
\* an approval; a Workspace loses no project.
SharesGrow ==
    /\ \A s \in Shares : share[s] # SharingSide!Unused =>
           /\ share'[s] # SharingSide!Unused
           /\ share'[s].owner = share[s].owner
           /\ share'[s].recipient = share[s].recipient
           /\ share'[s].display = share[s].display
           /\ share[s].consent => share'[s].consent
    /\ \A w \in Workspaces : project[w] \subseteq project'[w]

-----------------------------------------------------------------------------
LEMMA ConsentIsKept ==
  ASSUME ShareTyped, SharesGrow, NEW x, Consented(x)
  PROVE  Consented(x)'
  <1>1. x[1] \in Shares /\ share[x[1]] # SharingSide!Unused
    BY DEF Consented
  <1>2. share[x[1]].owner \in Workspaces
    BY <1>1 DEF ShareTyped, SharingSide!Share
  <1>3. QED
    BY <1>1, <1>2 DEF Consented, SharesGrow

LEMMA DecisionIsKept ==
  ASSUME SharesGrow, NEW r \in ShareRequests, DecidedBy(shareReq[r]), shareReq'[r] = shareReq[r]
  PROVE  DecidedBy(shareReq[r])'
  BY DEF SharesGrow, DecidedBy

\* Searches and requests that do not step keep what they rely on.
LEMMA SearchesAreKept ==
  ASSUME ShareInv, SharesGrow, UNCHANGED search
  PROVE  SearchesSound'
  BY ConsentIsKept DEF ShareInv, SearchesSound

LEMMA RequestsAreKept ==
  ASSUME ShareInv, SharesGrow, UNCHANGED shareReq
  PROVE  ShareRequestsSound'
  BY DecisionIsKept DEF ShareInv, ShareRequestsSound

LEMMA OtherRequestsAreKept ==
  ASSUME ShareInv, SharesGrow, NEW r \in ShareRequests, NEW STATE state,
         SharingSide!Become(r, state), DecidedBy(shareReq[r])'
  PROVE  ShareRequestsSound'
  <1>1. shareReq' = [shareReq EXCEPT ![r] = state] /\ DOMAIN shareReq = ShareRequests
    BY DEF SharingSide!Become, ShareInv, ShareRequestsSound
  <1>2. DOMAIN shareReq' = ShareRequests
    BY <1>1
  <1>3. ASSUME NEW other \in ShareRequests PROVE DecidedBy(shareReq[other])'
    <2>1. CASE other = r
      BY <2>1
    <2>2. CASE other # r
      BY <1>1, <2>2, DecisionIsKept DEF ShareInv, ShareRequestsSound
    <2>3. QED
      BY <2>1, <2>2
  <1>4. QED
    BY <1>2, <1>3 DEF ShareRequestsSound

LEMMA ShareInit == SharingSide!Init => ShareInv
  BY DEF SharingSide!Init, ShareInv, ShareTyped, ActiveIsApproved, ShareRequestsSound, SearchesSound,
         DecidedBy, SharingSide!Idle, SharingSide!Quiet, SharingSide!Unused

LEMMA NothingSharedChanges ==
  ASSUME ShareInv, UNCHANGED <<project, share>>
  PROVE  SharesGrow /\ ShareTyped' /\ ActiveIsApproved'
  BY DEF ShareInv, SharesGrow, ShareTyped, ActiveIsApproved

LEMMA CreateProjectPreserves ==
  ASSUME ShareInv, NEW w \in Workspaces, NEW p \in Projects, SharingSide!CreateProject(w, p)
  PROVE  ShareInv'
  <1>1. project' = [project EXCEPT ![w] = @ \cup {p}] /\ UNCHANGED <<share, shareReq, search>>
    BY DEF SharingSide!CreateProject
  <1>2. ShareTyped' /\ SharesGrow /\ ActiveIsApproved'
    BY <1>1 DEF ShareInv, ShareTyped, SharesGrow, ActiveIsApproved
  <1>3. QED
    BY <1>1, <1>2, SearchesAreKept, RequestsAreKept DEF ShareInv

LEMMA CheckProposalPreserves ==
  ASSUME ShareInv, NEW r \in ShareRequests, SharingSide!CheckProposal(r)
  PROVE  ShareInv'
  <1>1. PICK o \in Workspaces, w \in Workspaces, display \in SharingSide!Displays :
          SharingSide!Become(r, [at |-> "insert", owner |-> o, recipient |-> w, display |-> display])
    BY DEF SharingSide!CheckProposal
  <1>2. UNCHANGED <<project, share, search>>
    BY DEF SharingSide!CheckProposal
  <1>3. DecidedBy(shareReq[r])'
    BY <1>1 DEF SharingSide!Become, ShareInv, ShareRequestsSound, DecidedBy
  <1>4. QED
    BY <1>1, <1>2, <1>3, NothingSharedChanges, OtherRequestsAreKept, SearchesAreKept DEF ShareInv

LEMMA LoadSharePreserves ==
  ASSUME ShareInv, NEW r \in ShareRequests, SharingSide!LoadShare(r)
  PROVE  ShareInv'
  <1>1. PICK s \in Shares, w \in Workspaces, verdict \in SharingSide!Verdicts :
          /\ share[s] # SharingSide!Unused
          /\ SharingSide!MayDecide(share[s], w, verdict)
          /\ SharingSide!Become(r, [at |-> "write", share |-> s, by |-> w, verdict |-> verdict])
    BY DEF SharingSide!LoadShare
  <1>2. UNCHANGED <<project, share, search>>
    BY DEF SharingSide!LoadShare
  <1>3. DecidedBy(shareReq[r])'
    BY <1>1, <1>2
       DEF SharingSide!Become, ShareInv, ShareRequestsSound, DecidedBy, SharingSide!MayDecide
  <1>4. QED
    BY <1>1, <1>2, <1>3, NothingSharedChanges, OtherRequestsAreKept, SearchesAreKept DEF ShareInv

LEMMA DoneDecides ==
  ASSUME ShareInv, NEW r \in ShareRequests, SharingSide!Become(r, SharingSide!Done)
  PROVE  DecidedBy(shareReq[r])'
  BY DEF SharingSide!Become, ShareInv, ShareRequestsSound, DecidedBy, SharingSide!Done

\* A proposal takes an id that no row has, and carries no approval.
LEMMA InsertSharePreserves ==
  ASSUME ShareInv, NEW r \in ShareRequests, SharingSide!InsertShare(r)
  PROVE  ShareInv'
  <1>1. SharingSide!Become(r, SharingSide!Done) /\ UNCHANGED <<project, search>>
    BY DEF SharingSide!InsertShare
  <1>2. SharesGrow /\ ShareTyped' /\ ActiveIsApproved'
    <2>1. CASE UNCHANGED share
      BY <1>1, <2>1, NothingSharedChanges
    <2>2. CASE share' # share
      <3>1. PICK s \in Shares :
              /\ share[s] = SharingSide!Unused
              /\ share' = [share EXCEPT ![s] =
                    [status |-> "proposed", owner |-> shareReq[r].owner,
                     recipient |-> shareReq[r].recipient, display |-> shareReq[r].display,
                     consent |-> FALSE]]
        BY <2>2 DEF SharingSide!InsertShare
      <3>2. /\ shareReq[r].owner \in Workspaces
            /\ shareReq[r].recipient \in Workspaces
            /\ shareReq[r].display \in SharingSide!Displays
        BY DEF SharingSide!InsertShare, ShareInv, ShareRequestsSound, DecidedBy
      <3>3. ShareTyped'
        BY <1>1, <3>1, <3>2
           DEF ShareInv, ShareTyped, SharingSide!Share, SharingSide!Statuses, SharingSide!Live
      <3>4. SharesGrow
        BY <1>1, <3>1 DEF ShareInv, ShareTyped, SharesGrow
      <3>5. ActiveIsApproved'
        BY <3>1 DEF ShareInv, ShareTyped, ActiveIsApproved
      <3>6. QED
        BY <3>3, <3>4, <3>5
    <2>3. QED
      BY <2>1, <2>2
  <1>3. QED
    BY <1>1, <1>2, DoneDecides, OtherRequestsAreKept, SearchesAreKept DEF ShareInv

\* A verdict writes the status, and an approval only the recipient's.
LEMMA WriteSharePreserves ==
  ASSUME ShareInv, NEW r \in ShareRequests, SharingSide!WriteShare(r)
  PROVE  ShareInv'
  <1>1. SharingSide!Become(r, SharingSide!Done) /\ UNCHANGED <<project, search>>
    BY DEF SharingSide!WriteShare
  <1>2. SharesGrow /\ ShareTyped' /\ ActiveIsApproved'
    <2>1. CASE UNCHANGED share
      BY <1>1, <2>1, NothingSharedChanges
    <2>2. CASE share' # share
      <3> DEFINE q == shareReq[r]
                 s == q.share
                 row == share[s]
      <3>1. /\ s \in Shares /\ row # SharingSide!Unused
            /\ q.verdict \in SharingSide!Verdicts
            /\ q.verdict = "active" => q.by = row.recipient
        BY DEF SharingSide!WriteShare, ShareInv, ShareRequestsSound, DecidedBy
      <3>2. row \in SharingSide!Share
        BY <3>1 DEF ShareInv, ShareTyped
      <3>3. share' = [share EXCEPT ![s].status = q.verdict,
                         ![s].consent = @ \/ (q.verdict = "active" /\ q.by = row.recipient)]
        BY <2>2 DEF SharingSide!WriteShare
      <3>4. /\ DOMAIN share = Shares
            /\ row = [status |-> row.status, owner |-> row.owner, recipient |-> row.recipient,
                      display |-> row.display, consent |-> row.consent]
        BY <3>2 DEF ShareInv, ShareTyped, SharingSide!Share
      <3>5. /\ DOMAIN share' = Shares
            /\ \A other \in Shares \ {s} : share'[other] = share[other]
            /\ share'[s] = [status |-> q.verdict, owner |-> row.owner, recipient |-> row.recipient,
                            display |-> row.display,
                            consent |-> row.consent \/ (q.verdict = "active" /\ q.by = row.recipient)]
        BY <3>1, <3>3, <3>4
      <3>6. share'[s] \in SharingSide!Share
        BY <3>1, <3>2, <3>5
           DEF SharingSide!Share, SharingSide!Verdicts, SharingSide!Statuses, SharingSide!Live
      <3>7. ShareTyped'
        <4>1. share' = [x \in Shares |-> share'[x]]
          BY <3>3, <3>5
        <4>2. QED
          BY <1>1, <3>5, <3>6, <4>1 DEF ShareInv, ShareTyped
      <3>8. SharesGrow
        <4>1. share'[s] # SharingSide!Unused
          BY <3>6 DEF SharingSide!Share, SharingSide!Statuses, SharingSide!Unused
        <4>2. share'[s].consent = (row.consent \/ (q.verdict = "active" /\ q.by = row.recipient))
          BY <3>5
        <4>3. row.consent => share'[s].consent
          BY <4>2, Zenon
        <4>4. QED
          BY <1>1, <3>5, <4>1, <4>3 DEF SharesGrow
      <3>9. ActiveIsApproved'
        <4>1. share'[s].consent = (row.consent \/ (q.verdict = "active" /\ q.by = row.recipient))
          BY <3>5
        <4>2. share'[s].status = "active" => q.verdict = "active"
          BY <3>5
        <4>3. share'[s].status = "active" => share'[s].consent
          BY <3>1, <4>1, <4>2, Zenon
        <4>4. QED
          BY <3>5, <4>3 DEF ShareInv, ActiveIsApproved
      <3>10. QED
        BY <3>7, <3>8, <3>9
    <2>3. QED
      BY <2>1, <2>2
  <1>3. QED
    BY <1>1, <1>2, DoneDecides, OtherRequestsAreKept, SearchesAreKept DEF ShareInv

\* A search of which everything it is to read and has read is consented to.
LEMMA SearchStepPreserves ==
  ASSUME ShareInv, NEW q \in Searches, UNCHANGED <<project, share, shareReq>>,
         NEW next, search' = [search EXCEPT ![q] = next],
         \A x \in next.todo \cup next.found : Consented(x)
  PROVE  ShareInv'
  <1>1. SharesGrow /\ ShareTyped' /\ ActiveIsApproved'
    BY NothingSharedChanges
  <1>2. ShareRequestsSound'
    BY <1>1, RequestsAreKept
  <1>3. ASSUME NEW other \in Searches, NEW x \in search'[other].todo \cup search'[other].found
        PROVE  Consented(x)
    <2>1. CASE other = q
      BY <2>1, <1>3 DEF ShareInv, SearchesSound
    <2>2. CASE other # q
      BY <2>2, <1>3 DEF ShareInv, SearchesSound
    <2>3. QED
      BY <2>1, <2>2
  <1>4. \A x : Consented(x) <=> Consented(x)'
    BY DEF Consented
  <1>5. SearchesSound'
    BY <1>3, <1>4 DEF ShareInv, SearchesSound
  <1>6. QED
    BY <1>1, <1>2, <1>5 DEF ShareInv

\* What a search sets out to read is in shares that are active as it begins.
LEMMA BeginSearchPreserves ==
  ASSUME ShareInv, NEW q \in Searches, SharingSide!BeginSearch(q)
  PROVE  ShareInv'
  <1>1. PICK w \in Workspaces :
          search' = [search EXCEPT ![q] =
            [on |-> TRUE, found |-> {},
             todo |-> UNION {{<<s, p>> : p \in SharingSide!SharedProjects(share[s])} :
                  s \in {s \in Shares : share[s].status = "active" /\ share[s].recipient = w}}]]
    BY DEF SharingSide!BeginSearch
  <1> DEFINE todo == UNION {{<<s, p>> : p \in SharingSide!SharedProjects(share[s])} :
                  s \in {s \in Shares : share[s].status = "active" /\ share[s].recipient = w}}
             next == [on |-> TRUE, found |-> {}, todo |-> todo]
  <1>2. ASSUME NEW x \in todo PROVE Consented(x)
    <2>1. PICK s \in Shares :
            /\ share[s].status = "active"
            /\ x \in {<<s, p>> : p \in SharingSide!SharedProjects(share[s])}
      BY <1>2
    <2>2. PICK p \in SharingSide!SharedProjects(share[s]) : x = <<s, p>>
      BY <2>1
    <2>3. share[s] # SharingSide!Unused /\ share[s].consent
      BY <2>1 DEF SharingSide!Unused, ShareInv, ActiveIsApproved
    <2>4. share[s] \in SharingSide!Share
      BY <2>3 DEF ShareInv, ShareTyped
    <2>5. share[s].owner \in Workspaces
      BY <2>4 DEF SharingSide!Share
    <2>6. /\ p \in project[share[s].owner]
          /\ share[s].display.mode = "workspace" \/ p \in share[s].display.only
      BY <2>2 DEF SharingSide!SharedProjects
    <2>7. p \in Projects
      BY <2>5, <2>6 DEF ShareInv, ShareTyped
    <2>8. QED
      BY <2>2, <2>3, <2>6, <2>7 DEF Consented
  <1>3. search' = [search EXCEPT ![q] = next] /\ next.todo \cup next.found = todo
    BY <1>1
  <1>4. UNCHANGED <<project, share, shareReq>>
    BY DEF SharingSide!BeginSearch
  <1> HIDE DEF todo, next
  <1>5. QED
    BY <1>2, <1>3, <1>4, SearchStepPreserves

LEMMA SearchProjectPreserves ==
  ASSUME ShareInv, NEW q \in Searches, SharingSide!SearchProject(q)
  PROVE  ShareInv'
  <1>1. PICK x \in search[q].todo :
          search' = [search EXCEPT ![q].todo = @ \ {x}, ![q].found = @ \cup {x}]
    BY DEF SharingSide!SearchProject
  <1>2. UNCHANGED <<project, share, shareReq>>
    BY DEF SharingSide!SearchProject
  <1> DEFINE next == [search[q] EXCEPT !.todo = @ \ {x}, !.found = @ \cup {x}]
  <1>3. search' = [search EXCEPT ![q] = next]
    BY <1>1
  <1>4. next.todo \cup next.found \subseteq search[q].todo \cup search[q].found
    OBVIOUS
  <1>5. \A y \in next.todo \cup next.found : Consented(y)
    BY <1>4 DEF ShareInv, SearchesSound
  <1> HIDE DEF next
  <1>6. QED
    BY <1>2, <1>3, <1>5, SearchStepPreserves

LEMMA EndSearchPreserves ==
  ASSUME ShareInv, NEW q \in Searches, SharingSide!EndSearch(q)
  PROVE  ShareInv'
  <1>1. /\ search' = [search EXCEPT ![q] = SharingSide!Quiet]
        /\ UNCHANGED <<project, share, shareReq>>
    BY DEF SharingSide!EndSearch
  <1>2. SharingSide!Quiet.todo \cup SharingSide!Quiet.found = {}
    BY DEF SharingSide!Quiet
  <1>3. QED
    BY <1>1, <1>2, SearchStepPreserves

LEMMA ShareNext == ShareInv /\ [SharingSide!Next]_sharingVars => ShareInv'
  <1> SUFFICES ASSUME ShareInv, [SharingSide!Next]_sharingVars PROVE ShareInv'
    OBVIOUS
  <1>1. CASE UNCHANGED sharingVars
    <2>1. UNCHANGED <<project, share, shareReq, search>>
      BY <1>1 DEF sharingVars
    <2>2. QED
      BY <2>1, NothingSharedChanges, SearchesAreKept, RequestsAreKept DEF ShareInv
  <1>2. CASE \E w \in Workspaces, p \in Projects : SharingSide!CreateProject(w, p)
    BY <1>2, CreateProjectPreserves
  <1>3. CASE \E r \in ShareRequests :
               \/ SharingSide!CheckProposal(r) \/ SharingSide!InsertShare(r)
               \/ SharingSide!LoadShare(r) \/ SharingSide!WriteShare(r)
    BY <1>3, CheckProposalPreserves, InsertSharePreserves, LoadSharePreserves, WriteSharePreserves
  <1>4. CASE \E q \in Searches :
               \/ SharingSide!BeginSearch(q) \/ SharingSide!SearchProject(q)
               \/ SharingSide!EndSearch(q)
    BY <1>4, BeginSearchPreserves, SearchProjectPreserves, EndSearchPreserves
  <1>5. QED
    BY <1>1, <1>2, <1>3, <1>4 DEF SharingSide!Next

\* A step of the sum is one of Sharing or leaves its rows alone.
LEMMA ShareSteppings ==
  [GovernanceNext]_<<vars, sharingVars, linkVars, side>> => [SharingSide!Next]_sharingVars
  BY DEF GovernanceNext

LEMMA ShareInvHolds == GovernanceSpec => []ShareInv
  <1>1. GovernanceInit => ShareInv
    BY ShareInit DEF GovernanceInit
  <1>2. QED
    BY <1>1, ShareSteppings, ShareNext, PTL DEF GovernanceSpec

LEMMA ShareInvGives == ShareInv => SharingSide!TypeOK /\ SearchesHaveConsent
  <1> SUFFICES ASSUME ShareInv PROVE SharingSide!TypeOK /\ SearchesHaveConsent
    OBVIOUS
  <1>1. \A r \in ShareRequests : shareReq[r].at = "write" =>
            /\ share[shareReq[r].share] # SharingSide!Unused
            /\ shareReq[r].verdict \in SharingSide!Verdicts
    BY DEF ShareInv, ShareRequestsSound, DecidedBy
  <1>2. \A q \in Searches : search[q].todo \cup search[q].found \subseteq Shares \X Projects
    BY DEF ShareInv, SearchesSound, Consented
  <1>3. SharingSide!TypeOK
    BY <1>1, <1>2 DEF ShareInv, ShareTyped, ActiveIsApproved, SharingSide!TypeOK
  <1>4. SearchesHaveConsent
    BY DEF ShareInv, SearchesSound, Consented, SearchesHaveConsent, SharingSide!SearchesHaveConsent
  <1>5. QED
    BY <1>3, <1>4

\* The rows of workspace_shares keep their CHECK constraints, an active one its
\* approval, whatever approvals and revocations have loaded.
THEOREM SharesTypeCorrect == GovernanceSpec => []SharingSide!TypeOK
  BY ShareInvHolds, ShareInvGives, PTL

\* Whatever has happened to a share since a search began (_shared_projects,
\* _search_federated), all it reads was approved by the recipient's owner and is
\* within the project list of the proposal.
THEOREM SearchesAlwaysHaveConsent == GovernanceSpec => []SearchesHaveConsent
  BY ShareInvHolds, ShareInvGives, PTL

-----------------------------------------------------------------------------
\* The three kinds of request that are under way.
Patching ==
    [at : {"load", "check", "lock", "write"}, actor : Principals, target : Principals,
     patch : Patches, seen : Row \cup {NoRow}, asOwner : BOOLEAN]

Inviting == [at : {"invite"}, actor : Principals, invite : Invitations, role : InvitedRoles]

Accepting == [at : {"verify", "join"}, invite : Invitations, seen : Row \cup {NoRow}]

\* The rows and the lock have their types.
RowsTyped ==
    /\ member \in [Principals -> Row \cup {NoRow}]
    /\ peer \in [Principals -> Statuses \cup {"none"}]
    /\ invitation \in [Invitations ->
            [role : Roles \cup {"none"}, state : {"unsent", "open", "expired", "accepted"}]]
    /\ uses \in [Invitations -> SUBSET Requests]
    /\ locked \in Requests \cup {Free}

\* An invitation that was sent has a role, a member a peer.
RowsSound ==
    /\ \A i \in Invitations : invitation[i].state # "unsent" => invitation[i].role \in Roles
    /\ \A p \in Principals : member[p] # NoRow => peer[p] # "none"

\* What request r has established and nothing takes from it.
Established(r) ==
    LET q == req[r] IN
    /\ q.at \in {"check", "lock", "write"} => q.seen # NoRow /\ member[q.target] # NoRow
    /\ q.at = "lock" => RemovesOwner(q)
    /\ q.at = "write" /\ RemovesOwner(q) => locked = r
    /\ q.at \in {"verify", "join"} => invitation[q.invite].state # "unsent"
    /\ q.at = "join" /\ q.seen # NoRow =>
           q.seen.status # "active" /\ member[Invitee[q.invite]] # NoRow

\* The lock is held by a request that is about to write.
LockHeld == locked # Free => req[locked].at = "write" /\ RemovesOwner(req[locked])

MemberInv ==
    /\ RowsTyped
    /\ RowsSound
    /\ req \in [Requests -> Request]
    /\ \A r \in Requests : Established(r)
    /\ LockHeld

\* What a step of request r leaves to the others: rows stay, an invitation is
\* not unsent again, and a lock is its holder's to release.
LeavesToOthers(r) ==
    /\ \A p \in Principals : member[p] # NoRow => member'[p] # NoRow
    /\ \A i \in Invitations : invitation[i].state # "unsent" => invitation'[i].state # "unsent"
    /\ \A other \in Requests \ {r} : locked' = other <=> locked = other

-----------------------------------------------------------------------------
\* The step a request is at tells its kind.
LEMMA KindOfRequest ==
  ASSUME NEW q \in Request
  PROVE  /\ q.at \in {"load", "check", "lock", "write"} => q \in Patching
         /\ q.at = "invite" => q \in Inviting
         /\ q.at \in {"verify", "join"} => q \in Accepting
  BY DEF Request, Patching, Inviting, Accepting, Idle, Done

LEMMA KindsAreRequests ==
  /\ Patching \subseteq Request /\ Inviting \subseteq Request /\ Accepting \subseteq Request
  /\ Idle \in Request /\ Done \in Request
  BY DEF Request, Patching, Inviting, Accepting

LEMMA NotARow == NoRow \notin Row /\ NoRow.status # "active" /\ NoRow.role # "owner"
  BY DEF NoRow, Row, Roles, Statuses

LEMMA BecomeMeans ==
  ASSUME req \in [Requests -> Request], NEW r \in Requests, NEW STATE state, Become(r, state)
  PROVE  /\ req'[r] = state
         /\ \A other \in Requests \ {r} : req'[other] = req[other]
         /\ state \in Request => req' \in [Requests -> Request]
  BY DEF Become

LEMMA OthersStayEstablished ==
  ASSUME MemberInv, NEW r \in Requests, LeavesToOthers(r),
         NEW other \in Requests \ {r}, req'[other] = req[other]
  PROVE  Established(other)'
  <1> DEFINE q == req[other]
  <1>1. q \in Request /\ Established(other)
    BY DEF MemberInv
  <1>2. q.at \in {"check", "lock", "write"} => q.target \in Principals
    BY <1>1, KindOfRequest DEF Patching
  <1>3. q.at \in {"verify", "join"} => q.invite \in Invitations /\ Invitee[q.invite] \in Principals
    BY <1>1, KindOfRequest, MembershipAssumption DEF Accepting
  <1>4. RemovesOwner(q)' = RemovesOwner(q)
    BY DEF RemovesOwner
  <1>5. QED
    BY <1>1, <1>2, <1>3, <1>4 DEF Established, LeavesToOthers, RemovesOwner

\* A step of request r is accounted for by the rows and by what r has established.
LEMMA RequestStepPreserves ==
  ASSUME MemberInv, NEW r \in Requests, NEW STATE state, state \in Request, Become(r, state),
         LeavesToOthers(r), RowsTyped', RowsSound', Established(r)',
         locked' = r => state.at = "write" /\ RemovesOwner(state)
  PROVE  MemberInv'
  <1>1. /\ req'[r] = state
        /\ \A other \in Requests \ {r} : req'[other] = req[other]
        /\ req' \in [Requests -> Request]
    BY BecomeMeans DEF MemberInv
  <1>2. \A other \in Requests : Established(other)'
    BY <1>1, OthersStayEstablished
  <1>3. LockHeld'
    <2>1. CASE locked' = r
      BY <1>1, <2>1 DEF LockHeld, RemovesOwner
    <2>2. CASE locked' \in Requests \ {r}
      BY <1>1, <2>2, MembershipAssumption DEF MemberInv, LockHeld, LeavesToOthers, RemovesOwner
    <2>3. QED
      BY <2>1, <2>2 DEF RowsTyped, LockHeld
  <1>4. QED
    BY <1>1, <1>2, <1>3 DEF MemberInv

\* Most steps read: they change no row.
LEMMA NoRowChanges ==
  ASSUME MemberInv, UNCHANGED <<member, peer, invitation, uses>>,
         NEW r \in Requests, \A other \in Requests \ {r} : locked' = other <=> locked = other,
         locked' \in Requests \cup {Free}
  PROVE  LeavesToOthers(r) /\ RowsTyped' /\ RowsSound'
  BY DEF MemberInv, LeavesToOthers, RowsTyped, RowsSound

\* A request that is not at "write" does not hold the lock.
LEMMA LockIsAnothers ==
  ASSUME MemberInv, NEW r \in Requests, req[r].at # "write"
  PROVE  locked # r
  BY MembershipAssumption DEF MemberInv, LockHeld

LEMMA ReadingPreserves ==
  ASSUME MemberInv, NEW r \in Requests, req[r].at # "write", NEW STATE state, state \in Request,
         Become(r, state), Established(r)', UNCHANGED <<member, peer, invitation, uses, locked>>
  PROVE  MemberInv'
  <1>1. locked \in Requests \cup {Free} /\ locked # r
    BY LockIsAnothers DEF MemberInv, RowsTyped
  <1>2. QED
    BY <1>1, NoRowChanges, RequestStepPreserves

LEMMA DoneIsEstablished ==
  ASSUME MemberInv, NEW r \in Requests, Become(r, Done)
  PROVE  Established(r)'
  BY BecomeMeans DEF MemberInv, Established, Done

LEMMA MemberInit == Init => MemberInv
  <1> SUFFICES ASSUME Init PROVE MemberInv
    OBVIOUS
  <1>1. Founders \in [Principals -> Row \cup {NoRow}]
    BY MembershipAssumption
  <1>2. \A p \in Principals :
          /\ Founders[p].status \in Statuses \cup {"none"}
          /\ Founders[p] # NoRow => Founders[p].status # "none"
    BY <1>1 DEF Row, NoRow, Statuses
  <1>3. RowsTyped
    BY <1>1, <1>2 DEF Init, RowsTyped
  <1>4. RowsSound
    BY <1>2 DEF Init, RowsSound
  <1>5. /\ req \in [Requests -> Request]
        /\ \A r \in Requests : Established(r)
    BY KindsAreRequests DEF Init, Established, Idle
  <1>6. LockHeld
    BY DEF Init, LockHeld
  <1>7. QED
    BY <1>3, <1>4, <1>5, <1>6 DEF MemberInv

LEMMA BeginPatchPreserves ==
  ASSUME MemberInv, NEW r \in Requests, BeginPatch(r)
  PROVE  MemberInv'
  <1>1. PICK a \in Principals, p \in Principals, patch \in Patches :
          Become(r, [at |-> "load", actor |-> a, target |-> p, patch |-> patch,
                     seen |-> NoRow, asOwner |-> FALSE])
    BY DEF BeginPatch
  <1> DEFINE state == [at |-> "load", actor |-> a, target |-> p, patch |-> patch,
                       seen |-> NoRow, asOwner |-> FALSE]
  <1>2. state \in Request
    BY KindsAreRequests DEF Patching
  <1>3. Established(r)'
    BY <1>1, <1>2, BecomeMeans DEF MemberInv, Established
  <1>4. req[r].at # "write" /\ UNCHANGED <<member, peer, invitation, uses, locked>>
    BY DEF BeginPatch, Idle
  <1> HIDE DEF state
  <1>5. QED
    BY <1>1, <1>2, <1>3, <1>4, ReadingPreserves DEF state

LEMMA LoadMemberPreserves ==
  ASSUME MemberInv, NEW r \in Requests, LoadMember(r)
  PROVE  MemberInv'
  <1> DEFINE q == req[r]
             row == member[q.target]
  <1>1. q \in Patching /\ q.at = "load" /\ UNCHANGED <<member, peer, invitation, uses, locked>>
    BY KindOfRequest DEF LoadMember, MemberInv
  <1>2. row \in Row \cup {NoRow}
    BY <1>1 DEF Patching, MemberInv, RowsTyped
  <1>3. CASE row = NoRow
    BY <1>1, <1>3, KindsAreRequests, DoneIsEstablished, ReadingPreserves DEF LoadMember
  <1>4. CASE row # NoRow
    <2> DEFINE state == [q EXCEPT !.at = "check", !.seen = row]
    <2>1. Become(r, state)
      BY <1>4 DEF LoadMember
    <2>2. state \in Patching /\ state.at = "check" /\ state.seen = row /\ state.target = q.target
      BY <1>1, <1>2 DEF Patching
    <2>3. req'[r] = state
      BY <2>1, BecomeMeans DEF MemberInv
    <2> HIDE DEF state
    <2>4. Established(r)'
      BY <1>1, <1>4, <2>2, <2>3 DEF Established
    <2>5. QED
      BY <1>1, <2>1, <2>2, <2>4, KindsAreRequests, ReadingPreserves
  <1>5. QED
    BY <1>3, <1>4

LEMMA CheckActorPreserves ==
  ASSUME MemberInv, NEW r \in Requests, CheckActor(r)
  PROVE  MemberInv'
  <1> DEFINE q == req[r]
             asOwner == ActorRole(q) = "owner"
             refused == ~Active(q.actor) \/ (ConcernsOwner(q) /\ ~asOwner)
  <1>1. /\ q \in Patching /\ q.at = "check" /\ Established(r)
        /\ UNCHANGED <<member, peer, invitation, uses, locked>>
    BY KindOfRequest DEF CheckActor, MemberInv
  <1>2. CASE refused
    BY <1>1, <1>2, KindsAreRequests, DoneIsEstablished, ReadingPreserves DEF CheckActor
  <1>3. CASE ~refused
    <2> DEFINE step == IF RemovesOwner(q) THEN "lock" ELSE "write"
               state == [q EXCEPT !.asOwner = asOwner, !.at = step]
    <2>1. Become(r, state)
      BY <1>3 DEF CheckActor
    <2>2. /\ state \in Patching /\ state.at = step
          /\ state.seen = q.seen /\ state.patch = q.patch /\ state.target = q.target
      BY <1>1 DEF Patching
    <2>3. RemovesOwner(state) = RemovesOwner(q)
      BY <2>2 DEF RemovesOwner
    <2>4. req'[r] = state
      BY <2>1, BecomeMeans DEF MemberInv
    <2> HIDE DEF state
    <2>5. Established(r)'
      BY <1>1, <2>2, <2>3, <2>4 DEF Established, RemovesOwner
    <2>6. QED
      BY <1>1, <2>1, <2>2, <2>5, KindsAreRequests, ReadingPreserves
  <1>4. QED
    BY <1>2, <1>3
\* Whoever is about to remove an owner has locked the Workspace.
LEMMA LockAndCountPreserves ==
  ASSUME MemberInv, NEW r \in Requests, LockAndCount(r)
  PROVE  MemberInv'
  <1> DEFINE q == req[r]
             state == [q EXCEPT !.at = "write"]
  <1>1. /\ q \in Patching /\ q.at = "lock" /\ Established(r) /\ locked = Free
        /\ UNCHANGED <<member, peer, invitation, uses>>
    BY KindOfRequest DEF LockAndCount, MemberInv
  <1>2. CASE Become(r, Done) /\ UNCHANGED locked
    BY <1>1, <1>2, KindsAreRequests, DoneIsEstablished, ReadingPreserves
  <1>3. CASE Advance(r, "write") /\ locked' = r
    <2>1. Become(r, state)
      BY <1>3 DEF Advance
    <2>2. /\ state \in Patching /\ state.at = "write"
          /\ state.seen = q.seen /\ state.patch = q.patch /\ state.target = q.target
      BY <1>1 DEF Patching
    <2>3. req'[r] = state
      BY <2>1, BecomeMeans DEF MemberInv
    <2> HIDE DEF state
    <2>4. Established(r)'
      BY <1>1, <1>3, <2>2, <2>3 DEF Established, RemovesOwner
    <2>5. RemovesOwner(state)
      BY <1>1, <2>2 DEF Established, RemovesOwner
    <2>6. LeavesToOthers(r) /\ RowsTyped' /\ RowsSound'
      BY <1>1, <1>3, NoRowChanges, MembershipAssumption
    <2>7. QED
      BY <2>1, <2>2, <2>4, <2>5, <2>6, KindsAreRequests, RequestStepPreserves
  <1>4. QED
    BY <1>2, <1>3 DEF LockAndCount

\* The UPDATE of a patch leaves a row where there was one.
LEMMA WriteMemberPreserves ==
  ASSUME MemberInv, NEW r \in Requests, WriteMember(r)
  PROVE  MemberInv'
  <1> DEFINE q == req[r]
             p == q.target
             now == member[p]
             role == Column(q.patch.role, q.seen.role, now.role)
             status == Column(q.patch.status, q.seen.status, now.status)
  <1>1. q \in Patching /\ q.at = "write" /\ Established(r)
    BY KindOfRequest DEF WriteMember, MemberInv
  <1>2. /\ Become(r, Done)
        /\ member' = [member EXCEPT ![p] = [role |-> role, status |-> status]]
        /\ peer' = [peer EXCEPT ![p] = PeerAfter(p, q.patch.status)]
        /\ locked' = IF locked = r THEN Free ELSE locked
        /\ UNCHANGED <<invitation, uses>>
    BY DEF WriteMember
  <1>3. p \in Principals /\ q.patch \in Patch
    BY <1>1, MembershipAssumption DEF Patching
  <1>4. now \in Row
    BY <1>1, <1>3 DEF Established, MemberInv, RowsTyped
  <1>5. role \in Roles /\ status \in Statuses
    BY <1>3, <1>4 DEF Column, Patch, Row
  <1>6. PeerAfter(p, q.patch.status) \in Statuses
    BY <1>1, <1>3 DEF PeerAfter, Patch, Established, MemberInv, RowsTyped, RowsSound
  <1> HIDE DEF role, status
  <1>7. [role |-> role, status |-> status] \in Row /\ [role |-> role, status |-> status] # NoRow
    BY <1>5 DEF Row, NoRow, Roles
  <1>8. RowsTyped'
    BY <1>2, <1>3, <1>6, <1>7 DEF MemberInv, RowsTyped
  <1>9. RowsSound'
    BY <1>2, <1>3, <1>6 DEF MemberInv, RowsTyped, RowsSound, Statuses
  <1>10. LeavesToOthers(r)
    BY <1>2, <1>3, <1>7, MembershipAssumption DEF LeavesToOthers, MemberInv, RowsTyped
  <1>11. locked' # r
    BY <1>2, MembershipAssumption
  <1>12. QED
    BY <1>2, <1>8, <1>9, <1>10, <1>11, KindsAreRequests, DoneIsEstablished, RequestStepPreserves

LEMMA BeginInvitePreserves ==
  ASSUME MemberInv, NEW r \in Requests, BeginInvite(r)
  PROVE  MemberInv'
  <1>1. PICK a \in Principals, i \in Invitations, role \in InvitedRoles :
          Become(r, [at |-> "invite", actor |-> a, invite |-> i, role |-> role])
    BY DEF BeginInvite
  <1> DEFINE state == [at |-> "invite", actor |-> a, invite |-> i, role |-> role]
  <1>2. state \in Request
    BY KindsAreRequests DEF Inviting
  <1>3. Established(r)'
    BY <1>1, <1>2, BecomeMeans DEF MemberInv, Established
  <1>4. req[r].at # "write" /\ UNCHANGED <<member, peer, invitation, uses, locked>>
    BY DEF BeginInvite, Idle
  <1> HIDE DEF state
  <1>5. QED
    BY <1>1, <1>2, <1>3, <1>4, ReadingPreserves DEF state

LEMMA CreateInvitationPreserves ==
  ASSUME MemberInv, NEW r \in Requests, CreateInvitation(r)
  PROVE  MemberInv'
  <1> DEFINE q == req[r]
  <1>1. /\ q \in Inviting /\ q.at = "invite" /\ Become(r, Done)
        /\ UNCHANGED <<member, peer, uses, locked>>
    BY KindOfRequest DEF CreateInvitation, MemberInv
  <1>2. CASE UNCHANGED invitation
    BY <1>1, <1>2, KindsAreRequests, DoneIsEstablished, ReadingPreserves
  <1>3. CASE invitation' = [invitation EXCEPT ![q.invite] = [role |-> q.role, state |-> "open"]]
    <2>1. q.invite \in Invitations /\ q.role \in Roles
      BY <1>1, MembershipAssumption DEF Inviting
    <2>2. RowsTyped' /\ RowsSound' /\ LeavesToOthers(r)
      BY <1>1, <1>3, <2>1 DEF MemberInv, RowsTyped, RowsSound, LeavesToOthers
    <2>3. locked' # r
      BY <1>1, LockIsAnothers
    <2>4. QED
      BY <1>1, <2>2, <2>3, KindsAreRequests, DoneIsEstablished, RequestStepPreserves
  <1>4. QED
    BY <1>2, <1>3 DEF CreateInvitation

LEMMA ExpirePreserves ==
  ASSUME MemberInv, NEW i \in Invitations, Expire(i)
  PROVE  MemberInv'
  <1>1. /\ invitation[i].state = "open"
        /\ invitation' = [invitation EXCEPT ![i].state = "expired"]
        /\ UNCHANGED <<member, peer, uses, locked, req>>
    BY DEF Expire
  <1>2. RowsTyped' /\ RowsSound'
    BY <1>1 DEF MemberInv, RowsTyped, RowsSound
  <1>3. \A j : j \in Invitations /\ invitation[j].state # "unsent" => invitation'[j].state # "unsent"
    BY <1>1 DEF MemberInv, RowsTyped
  <1>4. ASSUME NEW r \in Requests PROVE Established(r)'
    <2>1. Established(r) /\ req[r] \in Request
      BY DEF MemberInv
    <2>2. req[r].at \in {"verify", "join"} => req[r].invite \in Invitations
      BY <2>1, KindOfRequest DEF Accepting
    <2>3. QED
      BY <1>1, <1>3, <2>1, <2>2 DEF Established, RemovesOwner
  <1>5. QED
    BY <1>1, <1>2, <1>4 DEF MemberInv, LockHeld, RemovesOwner

LEMMA ReadInvitationPreserves ==
  ASSUME MemberInv, NEW r \in Requests, ReadInvitation(r)
  PROVE  MemberInv'
  <1>1. PICK i \in Invitations :
          /\ invitation[i].state = "open"
          /\ Become(r, [at |-> "verify", invite |-> i, seen |-> NoRow])
    BY DEF ReadInvitation
  <1> DEFINE state == [at |-> "verify", invite |-> i, seen |-> NoRow]
  <1>2. state \in Request
    BY KindsAreRequests DEF Accepting
  <1>3. req[r].at # "write" /\ UNCHANGED <<member, peer, invitation, uses, locked>>
    BY DEF ReadInvitation, Idle
  <1>4. Established(r)'
    BY <1>1, <1>2, <1>3, BecomeMeans DEF MemberInv, Established
  <1> HIDE DEF state
  <1>5. QED
    BY <1>1, <1>2, <1>3, <1>4, ReadingPreserves DEF state

LEMMA ReadMembershipPreserves ==
  ASSUME MemberInv, NEW r \in Requests, ReadMembership(r)
  PROVE  MemberInv'
  <1> DEFINE q == req[r]
             p == Invitee[q.invite]
  <1>1. /\ q \in Accepting /\ q.at = "verify" /\ Established(r)
        /\ UNCHANGED <<member, peer, invitation, uses, locked>>
    BY KindOfRequest DEF ReadMembership, MemberInv
  <1>2. p \in Principals
    BY <1>1, MembershipAssumption DEF Accepting
  <1>3. CASE Active(p)
    BY <1>1, <1>3, KindsAreRequests, DoneIsEstablished, ReadingPreserves DEF ReadMembership
  <1>4. CASE ~Active(p)
    <2> DEFINE state == [q EXCEPT !.at = "join", !.seen = member[p]]
    <2>1. Become(r, state)
      BY <1>4 DEF ReadMembership
    <2>2. /\ state \in Accepting /\ state.at = "join"
          /\ state.seen = member[p] /\ state.invite = q.invite
      BY <1>1, <1>2 DEF Accepting, MemberInv, RowsTyped
    <2>3. req'[r] = state
      BY <2>1, BecomeMeans DEF MemberInv
    <2> HIDE DEF state
    <2>4. Established(r)'
      BY <1>1, <1>4, <2>2, <2>3 DEF Established, Active
    <2>5. QED
      BY <1>1, <2>1, <2>2, <2>4, KindsAreRequests, ReadingPreserves
  <1>5. QED
    BY <1>3, <1>4

\* An acceptance that commits makes the row active, with the role it had or the
\* invitation's.
LEMMA JoinPreserves ==
  ASSUME MemberInv, NEW r \in Requests, Join(r)
  PROVE  MemberInv'
  <1> DEFINE q == req[r]
             i == q.invite
             p == Invitee[i]
             role == Column(invitation[i].role, q.seen.role, member[p].role)
  <1>1. q \in Accepting /\ q.at = "join" /\ Established(r) /\ Become(r, Done) /\ UNCHANGED locked
    BY KindOfRequest DEF Join, MemberInv
  <1>2. i \in Invitations /\ p \in Principals
    BY <1>1, MembershipAssumption DEF Accepting
  <1>3. CASE UNCHANGED <<member, peer, invitation, uses>>
    BY <1>1, <1>3, KindsAreRequests, DoneIsEstablished, ReadingPreserves
  <1>4. CASE /\ ~(q.seen = NoRow /\ ~Insertable(p))
             /\ member' = [member EXCEPT ![p] = [role |-> role, status |-> "active"]]
             /\ peer' = [peer EXCEPT ![p] = "active"]
             /\ invitation' = [invitation EXCEPT ![i].state = "accepted"]
             /\ uses' = [uses EXCEPT ![i] = @ \cup {r}]
    <2>1. invitation[i].role \in Roles
      BY <1>1, <1>2 DEF Established, MemberInv, RowsSound
    <2>2. role \in Roles
      <3>1. CASE q.seen = NoRow
        BY <2>1, <3>1 DEF Column, NoRow, Roles, Keep
      <3>2. CASE q.seen # NoRow
        <4>1. member[p] \in Row
          BY <1>1, <1>2, <3>2 DEF Established, MemberInv, RowsTyped
        <4>2. QED
          BY <2>1, <4>1 DEF Column, Row
      <3>3. QED
        BY <3>1, <3>2
    <2> HIDE DEF role
    <2>3. /\ [role |-> role, status |-> "active"] \in Row
          /\ [role |-> role, status |-> "active"] # NoRow
      BY <2>2 DEF Row, NoRow, Roles, Statuses
    <2>4. RowsTyped'
      BY <1>1, <1>2, <1>4, <2>3 DEF MemberInv, RowsTyped, Statuses
    <2>5. RowsSound'
      BY <1>2, <1>4, <2>1 DEF MemberInv, RowsTyped, RowsSound
    <2>6. LeavesToOthers(r)
      BY <1>1, <1>2, <1>4, <2>3 DEF LeavesToOthers, MemberInv, RowsTyped
    <2>7. locked' # r
      BY <1>1, LockIsAnothers
    <2>8. QED
      BY <1>1, <2>4, <2>5, <2>6, <2>7, KindsAreRequests, DoneIsEstablished, RequestStepPreserves
  <1>5. QED
    BY <1>3, <1>4 DEF Join

LEMMA MemberNext == MemberInv /\ [Next]_vars => MemberInv'
  <1> SUFFICES ASSUME MemberInv, [Next]_vars PROVE MemberInv'
    OBVIOUS
  <1>1. CASE UNCHANGED vars
    <2>1. UNCHANGED <<member, peer, invitation, uses, locked, req>>
      BY <1>1 DEF vars
    <2>2. ASSUME NEW r \in Requests PROVE Established(r)'
      BY <2>1 DEF MemberInv, Established, RemovesOwner
    <2>3. QED
      BY <2>1, <2>2 DEF MemberInv, RowsTyped, RowsSound, LockHeld, RemovesOwner
  <1>2. ASSUME NEW r \in Requests, Step(r) PROVE MemberInv'
    BY <1>2, BeginPatchPreserves, LoadMemberPreserves, CheckActorPreserves, LockAndCountPreserves,
       WriteMemberPreserves, BeginInvitePreserves, CreateInvitationPreserves,
       ReadInvitationPreserves, ReadMembershipPreserves, JoinPreserves
       DEF Step
  <1>3. ASSUME NEW i \in Invitations, Expire(i) PROVE MemberInv'
    BY <1>3, ExpirePreserves
  <1>4. QED
    BY <1>1, <1>2, <1>3 DEF Next

\* A step of the sum is one of Membership or leaves its rows alone.
LEMMA MemberSteppings ==
  [GovernanceNext]_<<vars, sharingVars, linkVars, side>> => [Next]_vars
  BY DEF GovernanceNext

LEMMA MemberInvHolds == GovernanceSpec => []MemberInv
  <1>1. GovernanceInit => MemberInv
    BY MemberInit DEF GovernanceInit
  <1>2. QED
    BY <1>1, MemberSteppings, MemberNext, PTL DEF GovernanceSpec

LEMMA MemberInvGives == MemberInv => TypeOK
  BY DEF MemberInv, RowsTyped, LockHeld, TypeOK

\* Memberships and invitations keep the CHECK constraints of their tables, and
\* the row lock of the Workspace is held by a request that is about to write.
THEOREM MembershipsTypeCorrect == GovernanceSpec => []TypeOK
  BY MemberInvHolds, MemberInvGives, PTL

-----------------------------------------------------------------------------
\* Request r has loaded the row of p and decides, or will write, by it.
HasLoaded(r, p) ==
    \/ req[r].at \in {"check", "lock", "write"} /\ req[r].target = p
    \/ req[r].at = "join" /\ req[r].seen # NoRow /\ Invitee[req[r].invite] = p

\* While a request that has loaded a row goes on, no commit of another makes that
\* row an owner's or active.  Nothing in the code sees to this: it is the case
\* left out by the theorems that have it for a hypothesis.
NoLateRise ==
    \A r \in Requests, p \in Principals : HasLoaded(r, p) /\ req'[r] # Done =>
        /\ member'[p].role = "owner" => member[p].role = "owner"
        /\ member'[p].status = "active" => member[p].status = "active"

\* The row that r has loaded is no more an owner's, and no more active, than r saw.
AsRead(r) ==
    LET q == req[r] IN
    /\ q.at \in {"check", "lock", "write"} =>
           /\ q.seen.role # "owner" => member[q.target].role # "owner"
           /\ q.seen.status # "active" => ~Active(q.target)
    /\ q.at = "join" /\ q.seen # NoRow => ~Active(Invitee[q.invite])

AllAsRead == \A r \in Requests : AsRead(r)

\* A request that does not step keeps what it read, if the row does not rise.
LEMMA UnchangedIsAsRead ==
  ASSUME MemberInv, NEW r \in Requests, AsRead(r), req'[r] = req[r],
         NoLateRise \/ UNCHANGED member
  PROVE  AsRead(r)'
  <1> DEFINE q == req[r]
  <1>1. q \in Request
    BY DEF MemberInv
  <1>2. CASE UNCHANGED member
    BY <1>2 DEF AsRead, Active
  <1>3. CASE NoLateRise /\ q.at \in {"check", "lock", "write"}
    <2>1. q.target \in Principals /\ q # Done
      BY <1>1, <1>3, KindOfRequest DEF Patching, Done
    <2>2. HasLoaded(r, q.target)
      BY <1>3 DEF HasLoaded
    <2>3. /\ member'[q.target].role = "owner" => member[q.target].role = "owner"
          /\ member'[q.target].status = "active" => member[q.target].status = "active"
      BY <1>3, <2>1, <2>2 DEF NoLateRise
    <2>4. QED
      BY <1>3, <2>3 DEF AsRead, Active
  <1>4. CASE NoLateRise /\ q.at = "join" /\ q.seen # NoRow
    <2>1. Invitee[q.invite] \in Principals /\ q # Done
      BY <1>1, <1>4, KindOfRequest, MembershipAssumption DEF Accepting, Done
    <2>2. HasLoaded(r, Invitee[q.invite])
      BY <1>4 DEF HasLoaded
    <2>3. member'[Invitee[q.invite]].status = "active" => member[Invitee[q.invite]].status = "active"
      BY <1>4, <2>1, <2>2 DEF NoLateRise
    <2>4. QED
      BY <1>4, <2>3 DEF AsRead, Active
  <1>5. QED
    BY <1>2, <1>3, <1>4 DEF AsRead

\* A step of a request changes no other.
LEMMA StepIsOfOne ==
  ASSUME NEW r \in Requests, Step(r), MemberInv, NEW other \in Requests \ {r}
  PROVE  req'[other] = req[other]
  BY DEF Step, BeginPatch, LoadMember, CheckActor, LockAndCount, WriteMember, BeginInvite,
         CreateInvitation, ReadInvitation, ReadMembership, Join, Advance, Become, MemberInv

\* What a request has just read, nobody has changed yet.
LEMMA SteppingIsAsRead ==
  ASSUME MemberInv, NEW r \in Requests, AsRead(r), Step(r)
  PROVE  AsRead(r)'
  <1> DEFINE q == req[r]
  <1>1. q \in Request /\ req \in [Requests -> Request]
    BY DEF MemberInv
  <1>2. CASE BeginPatch(r) \/ BeginInvite(r) \/ ReadInvitation(r)
    <2>1. req'[r].at \in {"load", "invite", "verify"}
      BY <1>1, <1>2 DEF BeginPatch, BeginInvite, ReadInvitation, Become
    <2>2. QED
      BY <2>1 DEF AsRead
  <1>3. CASE LoadMember(r)
    <2>1. q \in Patching /\ UNCHANGED member
      BY <1>1, <1>3, KindOfRequest DEF LoadMember
    <2>2. \/ req'[r].at = "done"
          \/ /\ req'[r].at = "check"
             /\ req'[r].seen = member[q.target] /\ req'[r].target = q.target
      BY <1>1, <1>3, <2>1 DEF LoadMember, Become, Done, Patching
    <2>3. QED
      BY <2>1, <2>2 DEF AsRead, Active
  <1>4. CASE CheckActor(r)
    <2>1. q \in Patching /\ q.at = "check" /\ UNCHANGED member
      BY <1>1, <1>4, KindOfRequest DEF CheckActor
    <2>2. \/ req'[r].at = "done"
          \/ /\ req'[r].at \in {"lock", "write"}
             /\ req'[r].seen = q.seen /\ req'[r].target = q.target
      BY <1>1, <1>4, <2>1 DEF CheckActor, Become, Done, Patching
    <2>3. QED
      BY <2>1, <2>2 DEF AsRead, Active
  <1>5. CASE LockAndCount(r)
    <2>1. q \in Patching /\ q.at = "lock" /\ UNCHANGED member
      BY <1>1, <1>5, KindOfRequest DEF LockAndCount
    <2>2. \/ req'[r].at = "done"
          \/ /\ req'[r].at = "write"
             /\ req'[r].seen = q.seen /\ req'[r].target = q.target
      BY <1>1, <1>5, <2>1 DEF LockAndCount, Advance, Become, Done, Patching
    <2>3. QED
      BY <2>1, <2>2 DEF AsRead, Active
  <1>6. CASE ReadMembership(r)
    <2>1. q \in Accepting /\ q.at = "verify" /\ UNCHANGED member
      BY <1>1, <1>6, KindOfRequest DEF ReadMembership
    <2>2. \/ req'[r].at = "done"
          \/ ~Active(Invitee[q.invite]) /\ req'[r].at = "join" /\ req'[r].invite = q.invite
      BY <1>1, <1>6, <2>1 DEF ReadMembership, Become, Done, Accepting
    <2>3. QED
      BY <2>1, <2>2 DEF AsRead, Active
  <1>7. CASE WriteMember(r) \/ CreateInvitation(r) \/ Join(r)
    <2>1. req'[r].at = "done"
      BY <1>1, <1>7 DEF WriteMember, CreateInvitation, Join, Become, Done
    <2>2. QED
      BY <2>1 DEF AsRead
  <1>8. QED
    BY <1>2, <1>3, <1>4, <1>5, <1>6, <1>7 DEF Step

LEMMA AllAsReadNext ==
  MemberInv /\ AllAsRead /\ [Next]_vars /\ [NoLateRise]_vars => AllAsRead'
  <1> SUFFICES ASSUME MemberInv, AllAsRead, [Next]_vars, [NoLateRise]_vars, NEW r \in Requests
      PROVE AsRead(r)'
    BY DEF AllAsRead
  <1>1. AsRead(r) /\ (NoLateRise \/ UNCHANGED member)
    BY DEF AllAsRead, vars
  <1>2. CASE UNCHANGED req
    BY <1>1, <1>2, UnchangedIsAsRead
  <1>3. ASSUME NEW i \in Invitations, Expire(i) PROVE AsRead(r)'
    BY <1>1, <1>2, <1>3 DEF Expire
  <1>4. ASSUME NEW other \in Requests \ {r}, Step(other) PROVE AsRead(r)'
    BY <1>1, <1>4, StepIsOfOne, UnchangedIsAsRead
  <1>5. CASE Step(r)
    BY <1>1, <1>5, SteppingIsAsRead
  <1>6. QED
    BY <1>2, <1>3, <1>4, <1>5 DEF Next, vars

LEMMA AllAsReadHolds == GovernanceSpec /\ [][NoLateRise]_vars => []AllAsRead
  <1>1. GovernanceInit => AllAsRead
    BY DEF GovernanceInit, Init, AllAsRead, AsRead, Idle
  <1>2. QED
    BY <1>1, MemberSteppings, AllAsReadNext, MemberInvHolds, PTL DEF GovernanceSpec

-----------------------------------------------------------------------------
\* Another owner is left when the holder of the lock commits; peers follow.
OwnersInv ==
    /\ ActiveOwners # {}
    /\ locked # Free => \E a, b \in ActiveOwners : a # b
    /\ \A p \in Principals : Active(p) => peer[p] = "active"

\* What the count of the active owners tells.
LEMMA MoreThanOne ==
  ASSUME NEW S, IsFiniteSet(S), ~(Cardinality(S) <= 1)
  PROVE  \E a, b \in S : a # b
  <1>1. Cardinality(S) \in Nat
    BY FS_CardinalityType
  <1>2. S # {}
    BY <1>1, FS_EmptySet
  <1>3. PICK a \in S : TRUE
    BY <1>2
  <1>4. S # {a}
    BY FS_Singleton
  <1>5. QED
    BY <1>3, <1>4

LEMMA OwnersFinite == IsFiniteSet(ActiveOwners)
  BY MembershipAssumption, FS_Subset DEF ActiveOwners

\* Owners are only added, nobody's peer is left behind.
LEMMA OwnersGrow ==
  ASSUME OwnersInv, ActiveOwners \subseteq ActiveOwners', locked' \in {locked, Free},
         \A p \in Principals : Active(p)' => peer'[p] = "active"
  PROVE  OwnersInv'
  BY DEF OwnersInv

LEMMA ReadingKeepsOwners ==
  ASSUME OwnersInv, UNCHANGED <<member, peer>>, locked' \in {locked, Free}
  PROVE  OwnersInv'
  <1>1. ActiveOwners' = ActiveOwners /\ \A p : Active(p)' <=> Active(p)
    BY DEF ActiveOwners, Active
  <1>2. QED
    BY <1>1 DEF OwnersInv

LEMMA LockKeepsOwners ==
  ASSUME OwnersInv, NEW r \in Requests, LockAndCount(r)
  PROVE  OwnersInv'
  <1>1. UNCHANGED <<member, peer>>
    BY DEF LockAndCount
  <1>2. CASE UNCHANGED locked
    BY <1>1, <1>2, ReadingKeepsOwners
  <1>3. CASE ~(Cardinality(ActiveOwners) <= 1)
    <2>1. \E a, b \in ActiveOwners : a # b
      BY <1>3, MoreThanOne, OwnersFinite
    <2>2. ActiveOwners' = ActiveOwners /\ \A p : Active(p)' <=> Active(p)
      BY <1>1 DEF ActiveOwners, Active
    <2>3. QED
      BY <1>1, <2>1, <2>2 DEF OwnersInv
  <1>4. QED
    BY <1>2, <1>3 DEF LockAndCount

LEMMA WriteKeepsOwners ==
  ASSUME MemberInv, AllAsRead, OwnersInv, NEW r \in Requests, WriteMember(r)
  PROVE  OwnersInv'
  <1> DEFINE q == req[r]
             p == q.target
             now == member[p]
             role == Column(q.patch.role, q.seen.role, now.role)
             status == Column(q.patch.status, q.seen.status, now.status)
  <1>1. q \in Patching /\ q.at = "write" /\ Established(r) /\ AsRead(r)
    BY KindOfRequest DEF WriteMember, MemberInv, AllAsRead
  <1>2. /\ member' = [member EXCEPT ![p] = [role |-> role, status |-> status]]
        /\ peer' = [peer EXCEPT ![p] = PeerAfter(p, q.patch.status)]
        /\ locked' = IF locked = r THEN Free ELSE locked
    BY DEF WriteMember
  <1>3. p \in Principals /\ q.patch \in Patch
    BY <1>1, MembershipAssumption DEF Patching
  <1>4. now # NoRow /\ now \in Row /\ q.seen \in Row
    BY <1>1, <1>3 DEF Established, MemberInv, RowsTyped, Patching
  <1>5. /\ member'[p].role = role /\ member'[p].status = status
        /\ peer'[p] = PeerAfter(p, q.patch.status)
        /\ \A other \in Principals \ {p} :
               member'[other] = member[other] /\ peer'[other] = peer[other]
    BY <1>2, <1>3 DEF MemberInv, RowsTyped
  <1>6. status = "active" => PeerAfter(p, q.patch.status) = "active"
    <2>1. peer[p] # "none"
      BY <1>3, <1>4 DEF MemberInv, RowsSound
    <2>2. CASE q.patch.status = Keep
      BY <1>3, <2>2 DEF Column, PeerAfter, OwnersInv, Active
    <2>3. CASE q.patch.status = "active"
      BY <2>1, <2>3 DEF PeerAfter, Keep
    <2>4. CASE q.patch.status = "inactive"
      BY <1>1, <1>4, <2>4 DEF Column, AsRead, Active, Row, Statuses, Keep
    <2>5. QED
      BY <1>3, <2>2, <2>3, <2>4 DEF Patch, Statuses
  <1>7. \A other \in Principals : Active(other)' => peer'[other] = "active"
    BY <1>5, <1>6 DEF OwnersInv, Active
  <1>8. CASE RemovesOwner(q)
    <2>1. locked = r /\ locked' = Free
      BY <1>1, <1>2, <1>8 DEF Established
    <2>2. PICK a \in ActiveOwners : a # p
      BY <2>1, MembershipAssumption DEF OwnersInv
    <2>3. a \in ActiveOwners'
      BY <1>5, <2>2 DEF ActiveOwners, Active
    <2>4. QED
      BY <1>7, <2>1, <2>3 DEF OwnersInv
  <1>9. CASE ~RemovesOwner(q)
    <2>1. ASSUME p \in ActiveOwners PROVE role = "owner" /\ status = "active"
      <3>1. q.seen.role = "owner" /\ now.role = "owner" /\ now.status = "active"
        BY <1>1, <2>1 DEF AsRead, ActiveOwners, Active
      <3>2. q.patch.role \in {Keep, "owner"} /\ q.patch.status \in {Keep, "active"}
        BY <1>9, <3>1 DEF RemovesOwner
      <3>3. QED
        BY <3>1, <3>2 DEF Column
    <2> HIDE DEF role, status
    <2>2. ActiveOwners \subseteq ActiveOwners'
      BY <1>5, <2>1 DEF ActiveOwners, Active
    <2>3. locked' \in {locked, Free}
      BY <1>2
    <2>4. QED
      BY <1>7, <2>2, <2>3, OwnersGrow
  <1>10. QED
    BY <1>8, <1>9

LEMMA JoinKeepsOwners ==
  ASSUME MemberInv, AllAsRead, OwnersInv, NEW r \in Requests, Join(r)
  PROVE  OwnersInv'
  <1> DEFINE q == req[r]
             i == q.invite
             p == Invitee[i]
  <1>1. q \in Accepting /\ q.at = "join" /\ UNCHANGED locked /\ AsRead(r)
    BY KindOfRequest DEF Join, MemberInv, AllAsRead
  <1>2. p \in Principals
    BY <1>1, MembershipAssumption DEF Accepting
  <1>3. CASE UNCHANGED <<member, peer>>
    BY <1>1, <1>3, ReadingKeepsOwners
  <1>4. CASE ~(q.seen = NoRow /\ ~Insertable(p))
    <2>1. ~Active(p)
      BY <1>1, <1>4, NotARow DEF AsRead, Insertable, Active
    <2>2. /\ \A other \in Principals \ {p} :
                 member'[other] = member[other] /\ peer'[other] = peer[other]
          /\ peer'[p] = "active"
      BY <1>2, <1>4 DEF Join, MemberInv, RowsTyped
    <2>3. ActiveOwners \subseteq ActiveOwners'
      BY <2>1, <2>2 DEF ActiveOwners, Active
    <2>4. \A other \in Principals : Active(other)' => peer'[other] = "active"
      BY <2>2 DEF OwnersInv, Active
    <2>5. QED
      BY <1>1, <2>3, <2>4, OwnersGrow
  <1>5. QED
    BY <1>3, <1>4 DEF Join

LEMMA OwnersNext == MemberInv /\ AllAsRead /\ OwnersInv /\ [Next]_vars => OwnersInv'
  <1> SUFFICES ASSUME MemberInv, AllAsRead, OwnersInv, [Next]_vars PROVE OwnersInv'
    OBVIOUS
  <1>1. CASE UNCHANGED <<member, peer, locked>>
    BY <1>1, ReadingKeepsOwners
  <1>2. ASSUME NEW r \in Requests, LockAndCount(r) \/ WriteMember(r) \/ Join(r) PROVE OwnersInv'
    BY <1>2, LockKeepsOwners, WriteKeepsOwners, JoinKeepsOwners
  <1>3. ASSUME NEW r \in Requests, Step(r), ~(LockAndCount(r) \/ WriteMember(r) \/ Join(r))
        PROVE  UNCHANGED <<member, peer, locked>>
    BY <1>3 DEF Step, BeginPatch, LoadMember, CheckActor, BeginInvite, CreateInvitation,
                ReadInvitation, ReadMembership
  <1>4. ASSUME NEW i \in Invitations, Expire(i) PROVE UNCHANGED <<member, peer, locked>>
    BY <1>4 DEF Expire
  <1>5. CASE UNCHANGED vars
    BY <1>1, <1>5 DEF vars
  <1>6. QED
    BY <1>1, <1>2, <1>3, <1>4, <1>5 DEF Next

LEMMA OwnersInit == Init => OwnersInv
  <1> SUFFICES ASSUME Init PROVE OwnersInv
    OBVIOUS
  <1>1. PICK p \in Principals : Founders[p] = [role |-> "owner", status |-> "active"]
    BY MembershipAssumption
  <1>2. p \in ActiveOwners
    BY <1>1 DEF Init, ActiveOwners, Active
  <1>3. \A other \in Principals : Active(other) => peer[other] = "active"
    BY DEF Init, Active
  <1>4. QED
    BY <1>2, <1>3 DEF OwnersInv, Init

\* "The last active Workspace Owner cannot be removed or demoted" and "every
\* Workspace membership has its own canonical Human Peer", of any number of
\* concurrent patches and acceptances (update_membership, accept_invitation),
\* unless a row rises between a request's load of it and its commit.
THEOREM AnOwnerIsLeft ==
  GovernanceSpec /\ [][NoLateRise]_vars => []MembershipHolds
  <1>1. GovernanceInit => OwnersInv
    BY OwnersInit DEF GovernanceInit
  <1>2. OwnersInv => MembershipHolds
    BY DEF OwnersInv, MembershipHolds
  <1>3. QED
    BY <1>1, <1>2, MemberSteppings, OwnersNext, MemberInvHolds, AllAsReadHolds, PTL DEF GovernanceSpec

-----------------------------------------------------------------------------
\* While somebody accepts an invitation, no commit of another suspends or
\* reinstates the membership that they may have.  Nothing in the code sees to
\* this: it is the case left out by the theorem that has it for a hypothesis.
StatusIsSettled ==
    \A r \in Requests :
        LET p == Invitee[req[r].invite] IN
        req[r].at \in {"verify", "join"} /\ req'[r] # Done /\ member[p] # NoRow =>
            member'[p].status = member[p].status

\* An acceptance has found no active membership, and after the invitation was
\* used there is one to be found.
Accepts(r) ==
    LET q == req[r]
        p == Invitee[q.invite]
    IN /\ q.at = "join" /\ q.seen # NoRow => ~Active(p)
       /\ q.at = "verify" /\ uses[q.invite] # {} => Active(p)
       /\ q.at = "join" /\ uses[q.invite] # {} => q.seen = NoRow

Used(i) ==
    /\ uses[i] = {} \/ \E r \in Requests : uses[i] = {r}
    /\ uses[i] # {} => invitation[i].state = "accepted" /\ member[Invitee[i]] # NoRow

InviteInv ==
    /\ \A i \in Invitations : Used(i)
    /\ \A r \in Requests : Accepts(r)

\* What others do to a row under StatusIsSettled leaves an acceptance right.
LEMMA UnchangedAccepts ==
  ASSUME MemberInv, NEW r \in Requests, Accepts(r), req'[r] = req[r],
         StatusIsSettled \/ UNCHANGED member, UNCHANGED uses
  PROVE  Accepts(r)'
  <1> DEFINE q == req[r]
             p == Invitee[q.invite]
  <1>1. CASE q.at \in {"verify", "join"}
    <2>1. Established(r) /\ q # Done
      BY <1>1 DEF MemberInv, Done
    <2>2. member[p] # NoRow => member'[p].status = member[p].status
      BY <1>1, <2>1 DEF StatusIsSettled
    <2>3. Active(p) => member[p] # NoRow
      BY NotARow DEF Active
    <2>4. q.at = "join" /\ q.seen # NoRow => member[p] # NoRow
      BY <2>1 DEF Established
    <2>5. QED
      BY <2>2, <2>3, <2>4 DEF Accepts, Active
  <1>2. CASE q.at \notin {"verify", "join"}
    BY <1>2 DEF Accepts
  <1>3. QED
    BY <1>1, <1>2

\* A commit of a patch, or of an invitation, uses none.
LEMMA UsesUnchanged ==
  ASSUME MemberInv, InviteInv, NEW r \in Requests, Step(r), ~Join(r)
  PROVE  UNCHANGED uses /\ \A i \in Invitations : Used(i)'
  <1>1. UNCHANGED uses
    BY DEF Step, BeginPatch, LoadMember, CheckActor, LockAndCount, WriteMember, BeginInvite,
           CreateInvitation, ReadInvitation, ReadMembership
  <1>2. ASSUME NEW i \in Invitations, uses[i] # {} PROVE member'[Invitee[i]] # NoRow
    <2>1. member[Invitee[i]] # NoRow /\ Invitee[i] \in Principals
      BY <1>2, MembershipAssumption DEF InviteInv, Used
    <2>2. CASE WriteMember(r)
      <3>1. req[r] \in Patching /\ Established(r)
        BY <2>2, KindOfRequest DEF WriteMember, MemberInv
      <3>2. MemberInv'
        BY <2>2, WriteMemberPreserves
      <3>3. member' \in [Principals -> Row \cup {NoRow}]
        BY <3>2 DEF MemberInv, RowsTyped
      <3>4. CASE Invitee[i] # req[r].target
        BY <2>1, <2>2, <3>4 DEF WriteMember, MemberInv, RowsTyped
      <3>5. CASE Invitee[i] = req[r].target
        <4>1. member[Invitee[i]] \in Row /\ req[r].patch \in Patch
          BY <2>1, <3>1, MembershipAssumption DEF MemberInv, RowsTyped, Patching
        <4>2. member'[Invitee[i]].role =
                Column(req[r].patch.role, req[r].seen.role, member[Invitee[i]].role)
          BY <2>1, <2>2, <3>5 DEF WriteMember, MemberInv, RowsTyped
        <4>3. member'[Invitee[i]].role \in Roles
          BY <4>1, <4>2 DEF Column, Patch, Row
        <4>4. QED
          BY <4>3 DEF NoRow, Roles
      <3>6. QED
        BY <3>4, <3>5
    <2>3. CASE ~WriteMember(r)
      <3>1. UNCHANGED member
        BY <2>3 DEF Step, BeginPatch, LoadMember, CheckActor, LockAndCount, BeginInvite,
                    CreateInvitation, ReadInvitation, ReadMembership
      <3>2. QED
        BY <2>1, <3>1
    <2>4. QED
      BY <2>2, <2>3
  <1>3. ASSUME NEW i \in Invitations, invitation[i].state = "accepted"
        PROVE  invitation'[i].state = "accepted"
    <2>1. CASE UNCHANGED invitation
      BY <1>3, <2>1
    <2>2. CASE CreateInvitation(r)
      BY <1>3, <2>2 DEF CreateInvitation, MemberInv, RowsTyped
    <2>3. QED
      BY <2>1, <2>2 DEF Step, BeginPatch, LoadMember, CheckActor, LockAndCount, WriteMember, BeginInvite,
                        ReadInvitation, ReadMembership
  <1>4. QED
    BY <1>1, <1>2, <1>3 DEF InviteInv, Used

\* A request that steps, but does not commit an acceptance.
LEMMA SteppingAccepts ==
  ASSUME MemberInv, InviteInv, NEW r \in Requests, Step(r), ~Join(r)
  PROVE  Accepts(r)'
  <1> DEFINE q == req[r]
  <1>1. q \in Request /\ req \in [Requests -> Request] /\ Accepts(r) /\ UNCHANGED uses
    BY UsesUnchanged DEF MemberInv, InviteInv
  <1>2. CASE ReadInvitation(r)
    <2>1. PICK i \in Invitations :
            /\ invitation[i].state = "open"
            /\ Become(r, [at |-> "verify", invite |-> i, seen |-> NoRow])
      BY <1>2 DEF ReadInvitation
    <2>2. uses[i] = {}
      BY <2>1 DEF InviteInv, Used
    <2>3. req'[r].at = "verify" /\ req'[r].invite = i
      BY <1>1, <2>1 DEF Become
    <2>4. QED
      BY <1>1, <2>2, <2>3 DEF Accepts
  <1>3. CASE ReadMembership(r)
    <2>1. q \in Accepting /\ q.at = "verify" /\ UNCHANGED member
      BY <1>1, <1>3, KindOfRequest DEF ReadMembership
    <2>2. \/ req'[r].at = "done"
          \/ ~Active(Invitee[q.invite]) /\ req'[r].at = "join" /\ req'[r].invite = q.invite
      BY <1>1, <1>3, <2>1 DEF ReadMembership, Become, Done, Accepting
    <2>3. QED
      BY <1>1, <2>1, <2>2 DEF Accepts, Active
  <1>4. CASE ~ReadInvitation(r) /\ ~ReadMembership(r)
    <2>1. CASE BeginPatch(r) \/ BeginInvite(r) \/ WriteMember(r) \/ CreateInvitation(r)
      BY <1>1, <2>1 DEF BeginPatch, BeginInvite, WriteMember, CreateInvitation, Become, Done, Accepts
    <2>2. CASE LoadMember(r) \/ CheckActor(r) \/ LockAndCount(r)
      <3>1. q \in Patching
        BY <1>1, <2>2, KindOfRequest DEF LoadMember, CheckActor, LockAndCount
      <3>2. CASE LoadMember(r)
        <4>1. req'[r].at \in {"done", "check"}
          BY <1>1, <3>1, <3>2 DEF LoadMember, Become, Done, Patching
        <4>2. QED
          BY <4>1 DEF Accepts
      <3>3. CASE CheckActor(r)
        <4>1. req'[r].at \in {"done", "lock", "write"}
          BY <1>1, <3>1, <3>3 DEF CheckActor, Become, Done, Patching
        <4>2. QED
          BY <4>1 DEF Accepts
      <3>4. CASE LockAndCount(r)
        <4>1. req'[r].at \in {"done", "write"}
          BY <1>1, <3>1, <3>4 DEF LockAndCount, Advance, Become, Done, Patching
        <4>2. QED
          BY <4>1 DEF Accepts
      <3>5. QED
        BY <2>2, <3>2, <3>3, <3>4
    <2>3. QED
      BY <1>4, <2>1, <2>2 DEF Step
  <1>5. QED
    BY <1>2, <1>3, <1>4

\* The first acceptance to commit leaves a row that every other one meets.
LEMMA JoinAccepts ==
  ASSUME MemberInv, InviteInv, NEW r \in Requests, Join(r), StatusIsSettled \/ UNCHANGED member
  PROVE  InviteInv'
  <1> DEFINE q == req[r]
             i == q.invite
             p == Invitee[i]
  <1>1. /\ q \in Accepting /\ q.at = "join" /\ Established(r) /\ Accepts(r) /\ Become(r, Done)
        /\ req \in [Requests -> Request]
    BY KindOfRequest DEF Join, MemberInv, InviteInv
  <1>2. i \in Invitations /\ p \in Principals
    BY <1>1, MembershipAssumption DEF Accepting
  <1>3. Accepts(r)'
    BY <1>1, BecomeMeans DEF Accepts, Done
  <1>4. CASE UNCHANGED <<member, peer, invitation, uses>>
    <2>1. \A j \in Invitations : Used(j)'
      BY <1>4 DEF InviteInv, Used
    <2>2. ASSUME NEW other \in Requests \ {r} PROVE Accepts(other)'
      BY <1>1, <1>4, BecomeMeans, UnchangedAccepts DEF InviteInv
    <2>3. QED
      BY <1>3, <2>1, <2>2 DEF InviteInv
  <1>5. CASE /\ ~(q.seen = NoRow /\ ~Insertable(p))
             /\ \E role : member' = [member EXCEPT ![p] = [role |-> role, status |-> "active"]]
             /\ invitation' = [invitation EXCEPT ![i].state = "accepted"]
             /\ uses' = [uses EXCEPT ![i] = @ \cup {r}]
    <2>1. uses[i] = {}
      BY <1>1, <1>2, <1>5 DEF InviteInv, Used, Accepts, Insertable
    <2>2. /\ uses'[i] = {r} /\ \A j \in Invitations \ {i} : uses'[j] = uses[j]
          /\ \A j \in Invitations \ {i} : invitation'[j] = invitation[j]
          /\ invitation'[i].state = "accepted"
      BY <1>2, <1>5, <2>1 DEF MemberInv, RowsTyped
    <2>3. /\ member'[p].status = "active"
          /\ \A other \in Principals \ {p} : member'[other] = member[other]
      BY <1>2, <1>5 DEF MemberInv, RowsTyped
    <2>4. member'[p] # NoRow
      BY <2>3, NotARow
    <2>5. ASSUME NEW j \in Invitations PROVE Used(j)'
      <3>1. Used(j) /\ Invitee[j] \in Principals
        BY MembershipAssumption DEF InviteInv
      <3>2. QED
        BY <2>2, <2>3, <2>4, <3>1 DEF Used
    <2>6. ASSUME NEW other \in Requests \ {r} PROVE Accepts(other)'
      <3> DEFINE o == req[other]
                 his == Invitee[o.invite]
      <3>1. /\ req'[other] = o /\ Accepts(other) /\ Established(other) /\ o \in Request
        BY <1>1, BecomeMeans DEF InviteInv, MemberInv
      <3>2. CASE o.at \notin {"verify", "join"}
        BY <3>1, <3>2 DEF Accepts
      <3>3. CASE o.at \in {"verify", "join"} /\ his # p
        <4>1. o.invite \in Invitations /\ o.invite # i /\ his \in Principals
          BY <3>1, <3>3, KindOfRequest, MembershipAssumption DEF Accepting
        <4>2. QED
          BY <2>2, <2>3, <3>1, <3>3, <4>1 DEF Accepts, Active
      <3>4. CASE o.at \in {"verify", "join"} /\ his = p
        <4>1. o # Done
          BY <3>4 DEF Done
        <4>2. member[p] # NoRow => member[p].status = "active"
          BY <2>3, <3>1, <3>4, <4>1 DEF StatusIsSettled
        <4>3. o.at = "join" => o.seen = NoRow
          BY <3>1, <3>4, <4>2 DEF Established, Accepts, Active
        <4>4. QED
          BY <2>3, <3>1, <3>4, <4>3 DEF Accepts, Active
      <3>5. QED
        BY <3>2, <3>3, <3>4
    <2>7. QED
      BY <1>3, <2>5, <2>6 DEF InviteInv
  <1>6. QED
    BY <1>4, <1>5 DEF Join

LEMMA InviteNext ==
  MemberInv /\ InviteInv /\ [Next]_vars /\ [StatusIsSettled]_vars => InviteInv'
  <1> SUFFICES ASSUME MemberInv, InviteInv, [Next]_vars, [StatusIsSettled]_vars PROVE InviteInv'
    OBVIOUS
  <1>1. StatusIsSettled \/ UNCHANGED member
    BY DEF vars
  <1>2. CASE UNCHANGED vars
    <2>1. UNCHANGED <<member, invitation, uses, req>>
      BY <1>2 DEF vars
    <2>2. \A i \in Invitations : Used(i)'
      BY <2>1 DEF InviteInv, Used
    <2>3. \A r \in Requests : Accepts(r)'
      BY <2>1, UnchangedAccepts DEF InviteInv
    <2>4. QED
      BY <2>2, <2>3 DEF InviteInv
  <1>3. ASSUME NEW i \in Invitations, Expire(i) PROVE InviteInv'
    <2>1. /\ UNCHANGED <<member, uses, req>>
          /\ \A j \in Invitations :
                 invitation[j].state = "accepted" => invitation'[j].state = "accepted"
      BY <1>3 DEF Expire, MemberInv, RowsTyped
    <2>2. \A j \in Invitations : Used(j)'
      BY <2>1 DEF InviteInv, Used
    <2>3. \A r \in Requests : Accepts(r)'
      BY <2>1, UnchangedAccepts DEF InviteInv
    <2>4. QED
      BY <2>2, <2>3 DEF InviteInv
  <1>4. ASSUME NEW r \in Requests, Step(r), ~Join(r) PROVE InviteInv'
    <2>1. UNCHANGED uses /\ \A i \in Invitations : Used(i)'
      BY <1>4, UsesUnchanged
    <2>2. Accepts(r)'
      BY <1>4, SteppingAccepts
    <2>3. \A other \in Requests \ {r} : Accepts(other)'
      BY <1>1, <1>4, <2>1, StepIsOfOne, UnchangedAccepts DEF InviteInv
    <2>4. QED
      BY <2>1, <2>2, <2>3 DEF InviteInv
  <1>5. ASSUME NEW r \in Requests, Join(r) PROVE InviteInv'
    BY <1>1, <1>5, JoinAccepts
  <1>6. QED
    BY <1>2, <1>3, <1>4, <1>5 DEF Next

LEMMA InviteInvGives == InviteInv => InvitationOnce
  <1>1. ASSUME InviteInv, NEW i \in Invitations PROVE Cardinality(uses[i]) <= 1
    <2>1. CASE uses[i] = {}
      <3>1. Cardinality({}) = 0
        BY FS_EmptySet
      <3>2. QED
        BY <2>1, <3>1
    <2>2. CASE \E r \in Requests : uses[i] = {r}
      <3>1. PICK r \in Requests : uses[i] = {r}
        BY <2>2
      <3>2. Cardinality({r}) = 1
        BY FS_Singleton
      <3>3. QED
        BY <3>1, <3>2
    <2>3. QED
      BY <1>1, <2>1, <2>2 DEF InviteInv, Used
  <1>2. QED
    BY <1>1 DEF InvitationOnce

\* An invitation admits one request (accept_invitation), of any number that
\* verify passwords at the same time, unless the invitee's membership is suspended
\* or reinstated meanwhile.
THEOREM InvitationAdmitsOne ==
  GovernanceSpec /\ [][StatusIsSettled]_vars => []InvitationOnce
  <1>1. GovernanceInit => InviteInv
    BY DEF GovernanceInit, Init, InviteInv, Used, Accepts, Idle
  <1>2. QED
    BY <1>1, MemberSteppings, InviteNext, InviteInvGives, MemberInvHolds, PTL DEF GovernanceSpec

-----------------------------------------------------------------------------
\* Governance lets one side act in each behaviour.  In the control plane all act,
\* in any order.
AnySideActs ==
    \/ Next /\ UNCHANGED <<sharingVars, linkVars, side>>
    \/ SharingSide!Next /\ UNCHANGED <<vars, linkVars, side>>
    \/ Links!Next /\ UNCHANGED <<vars, sharingVars, side>>

AllSidesSpec == GovernanceInit /\ [][AnySideActs]_<<vars, sharingVars, linkVars, side>>

LEMMA SidesAreApart ==
  [AnySideActs]_<<vars, sharingVars, linkVars, side>> =>
    [Next]_vars /\ [SharingSide!Next]_sharingVars /\ [Links!Next]_linkVars
  BY DEF AnySideActs

\* However the requests on memberships, shares and links interleave, each side
\* keeps what it promises: the sum, which lets one side act, leaves nothing out.
THEOREM SidesHoldTogether ==
  /\ AllSidesSpec =>
       [](SearchesHaveConsent /\ GrantsNeedBothSides /\ TransfersNeedBothSides /\ ImportedOnce)
  /\ AllSidesSpec /\ [][NoLateRise]_vars => []MembershipHolds
  /\ AllSidesSpec /\ [][StatusIsSettled]_vars => []InvitationOnce
  <1>1. GovernanceInit => LinkInv /\ ImportedOnce /\ ShareInv /\ MemberInv /\ AllAsRead /\ OwnersInv
    BY LinkInit, ShareInit, MemberInit, OwnersInit
       DEF GovernanceInit, Links!Init, ImportedOnce, Links!ImportedOnce, Init, AllAsRead, AsRead, Idle
  <1>2. GovernanceInit => InviteInv
    BY DEF GovernanceInit, Init, InviteInv, Used, Accepts, Idle
  <1>3. LinkInv /\ ImportedOnce /\ [Links!Next]_linkVars => ImportedOnce'
    BY ImportedOnceStep DEF ImportedOnce
  <1>4. OwnersInv => MembershipHolds
    BY DEF OwnersInv, MembershipHolds
  <1>5. AllSidesSpec =>
          [](SearchesHaveConsent /\ GrantsNeedBothSides /\ TransfersNeedBothSides /\ ImportedOnce)
    BY <1>1, <1>3, SidesAreApart, LinkNext, LinkInvGives, ShareNext, ShareInvGives, PTL
       DEF AllSidesSpec
  <1>6. AllSidesSpec /\ [][NoLateRise]_vars => []MembershipHolds
    BY <1>1, <1>4, SidesAreApart, MemberNext, AllAsReadNext, OwnersNext, PTL DEF AllSidesSpec
  <1>7. AllSidesSpec /\ [][StatusIsSettled]_vars => []InvitationOnce
    BY <1>1, <1>2, SidesAreApart, MemberNext, InviteNext, InviteInvGives, PTL DEF AllSidesSpec
  <1>8. QED
    BY <1>5, <1>6, <1>7

=============================================================================
