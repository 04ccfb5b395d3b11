----------------------------- MODULE Governance -----------------------------
(***************************************************************************)
(* The three sides of a Workspace's governance: who belongs to it            *)
(* (Membership), what it shares (Sharing) and what it agrees on with a       *)
(* linked Workspace (Federation).  Their requests touch no row in common, so *)
(* that any behaviour of all is, seen from one of them, a behaviour of that  *)
(* one with the others at rest: each behaviour here lets one side act, and   *)
(* its properties are about that side alone.                                 *)
(***************************************************************************)
EXTENDS Membership

CONSTANTS
    Workspaces, Projects, Selections, Shares, ShareRequests, Searches,
    LinkRequests, Reviews, Snapshot, MaxFailures

VARIABLES
    project, share, shareReq, search,   \* the variables of Sharing
    link, grant, assigned, transfer, core, failures, linkReq,   \* those of Federation
    side                                \* the side that acts

Sides == {"members", "shares", "links"}

sharingVars == <<project, share, shareReq, search>>
linkVars == <<link, grant, assigned, transfer, core, failures, linkReq>>

SharingSide == INSTANCE Sharing WITH Requests <- ShareRequests, req <- shareReq
Links == INSTANCE Federation WITH Requests <- LinkRequests, req <- linkReq

ASSUME GovernanceAssumption == SharingSide!SharingAssumption /\ Links!FederationAssumption

GovernanceInit == Init /\ SharingSide!Init /\ Links!Init /\ side \in Sides

GovernanceNext ==
    \/ side = "members" /\ Next /\ UNCHANGED <<sharingVars, linkVars, side>>
    \/ side = "shares" /\ SharingSide!Next /\ UNCHANGED <<vars, linkVars, side>>
    \/ side = "links" /\ Links!Next /\ UNCHANGED <<vars, sharingVars, side>>

GovernanceSpec == GovernanceInit /\ [][GovernanceNext]_<<vars, sharingVars, linkVars, side>>

-----------------------------------------------------------------------------
\* "Workspaces share no memory until both Workspace Owners approve a share":
\* what a search finds was approved by the recipient's owner and named by the
\* owner's proposal.
SearchesHaveConsent == SharingSide!SearchesHaveConsent

\* "Workspace links grant no access by themselves; Project grants require both
\* sides": of what create_federated_grant and its successors wrote.
GrantsNeedBothSides == Links!GrantsNeedBothSides

\* "A transfer requires source approval, target approval, and a separate
\* import result", whoever of approve_transfer and complete_transfer writes last.
TransfersNeedBothSides == Links!TransfersNeedBothSides

\* Completions of one transfer (post_complete_transfer) import one message.
ImportedOnce == Links!ImportedOnce
=============================================================================
