----------------------------- MODULE Membership -----------------------------
(***************************************************************************)
(* Who belongs to a Workspace of the control plane: patch_member with       *)
(* update_membership, create_invitation and accept_invitation.              *)
(*                                                                         *)
(* Requests run concurrently, each in a READ COMMITTED transaction of its   *)
(* own: a statement sees what was committed when it runs, an ORM object     *)
(* keeps the values it was loaded with, and a commit writes the columns     *)
(* that were changed from the loaded values.  Authentication commits before *)
(* the handler starts.  "viewer" stands for "contributor" too.              *)
(***************************************************************************)
EXTENDS Naturals, FiniteSets

CONSTANTS
    Principals,
    Requests,       \* each is made once at most
    Invitations,
    Invitee,        \* whom an invitation is for
    InvitedRoles,   \* roles that invitations are made out for
    Patches,        \* bodies of PATCH members/{id}
    Founders,       \* the memberships to start from
    Free            \* nobody has the row of the Workspace locked

Roles    == {"owner", "admin", "viewer"}
Statuses == {"active", "inactive"}
Keep     == "keep"      \* a field that a patch leaves out

NoRow   == [role |-> "none", status |-> "none"]
Row     == [role : Roles, status : Statuses]
Patch   == [role : Roles \cup {Keep}, status : Statuses \cup {Keep}]

\* A Workspace is made with an active owner.
ASSUME MembershipAssumption ==
    /\ IsFiniteSet(Principals)
    /\ Invitee \in [Invitations -> Principals]
    /\ InvitedRoles \subseteq Roles
    /\ Patches \subseteq Patch
    /\ Founders \in [Principals -> Row \cup {NoRow}]
    /\ \E p \in Principals : Founders[p] = [role |-> "owner", status |-> "active"]
    /\ Free \notin Requests

VARIABLES
    member,         \* workspace_memberships, one row a principal at most
    peer,           \* status of the principal's Human Peer and of its link
    invitation,     \* role and state of each invitation
    uses,           \* the requests an invitation has admitted
    locked,         \* the request that holds SELECT ... FOR UPDATE
    req             \* the requests: where they are and what they have read

vars == <<member, peer, invitation, uses, locked, req>>

Idle == [at |-> "idle"]
Done == [at |-> "done"]

Request ==
    {Idle, Done}
    \cup [at : {"load", "check", "lock", "write"}, actor : Principals,
          target : Principals, patch : Patches, seen : Row \cup {NoRow}, asOwner : BOOLEAN]
    \cup [at : {"invite"}, actor : Principals, invite : Invitations, role : InvitedRoles]
    \cup [at : {"verify", "join"}, invite : Invitations, seen : Row \cup {NoRow}]

Init ==
    /\ member = Founders
    /\ peer = [p \in Principals |-> Founders[p].status]
    /\ invitation = [i \in Invitations |-> [role |-> "none", state |-> "unsent"]]
    /\ uses = [i \in Invitations |-> {}]
    /\ locked = Free
    /\ req = [r \in Requests |-> Idle]

-----------------------------------------------------------------------------
Active(p)       == member[p].status = "active"
ActiveOwners    == {p \in Principals : Active(p) /\ member[p].role = "owner"}

\* workspace.admin and invitation.manage, as the authentication finds them.
Administers(p)  == Active(p) /\ member[p].role \in {"owner", "admin"}

Become(r, state) == req' = [req EXCEPT ![r] = state]

Advance(r, step) == Become(r, [req[r] EXCEPT !.at = step])

\* authenticate_request of PATCH /workspaces/{w}/members/{m}.
BeginPatch(r) ==
    /\ req[r] = Idle
    /\ \E a, p \in Principals, patch \in Patches :
        /\ Administers(a)
        /\ Become(r, [at |-> "load", actor |-> a, target |-> p, patch |-> patch,
                      seen |-> NoRow, asOwner |-> FALSE])
    /\ UNCHANGED <<member, peer, invitation, uses, locked>>

\* patch_member loads the row; 404 without one.
LoadMember(r) ==
    /\ req[r].at = "load"
    /\ LET row == member[req[r].target] IN
       Become(r, IF row = NoRow THEN Done ELSE [req[r] EXCEPT !.at = "check", !.seen = row])
    /\ UNCHANGED <<member, peer, invitation, uses, locked>>

\* An actor that patches its own row gets the object already loaded.
ActorRole(q) == IF q.actor = q.target THEN q.seen.role ELSE member[q.actor].role

RemovesOwner(q) ==
    /\ q.seen.role = "owner"
    /\ \/ q.patch.role \notin {Keep, "owner"}
       \/ q.patch.status \notin {Keep, "active"}

ConcernsOwner(q) == "owner" \in {q.seen.role, q.patch.role}

\* update_membership up to the branch on removes_owner.
CheckActor(r) ==
    /\ req[r].at = "check"
    /\ LET q == req[r]
           asOwner == ActorRole(q) = "owner"
       IN Become(r, IF ~Active(q.actor) \/ (ConcernsOwner(q) /\ ~asOwner) THEN Done
                    ELSE [q EXCEPT !.asOwner = asOwner,
                                   !.at = IF RemovesOwner(q) THEN "lock" ELSE "write"])
    /\ UNCHANGED <<member, peer, invitation, uses, locked>>

CountWithoutLock(r) ==
    /\ req[r].at = "lock"
    /\ IF Cardinality(ActiveOwners) <= 1 THEN Become(r, Done) ELSE Advance(r, "write")
    /\ UNCHANGED <<member, peer, invitation, uses, locked>>

\* The row of the Workspace is locked, then the active owners are counted.
LockAndCount(r) ==
    /\ req[r].at = "lock"
    /\ locked = Free
    /\ IF Cardinality(ActiveOwners) <= 1
       THEN Become(r, Done) /\ UNCHANGED locked
       ELSE Advance(r, "write") /\ locked' = r
    /\ UNCHANGED <<member, peer, invitation, uses>>

\* What the UPDATE leaves in a column now worth now.
Column(new, seen, now) == IF new \in {Keep, seen} THEN now ELSE new

PeerAfter(p, status) == IF status = Keep \/ peer[p] = "none" THEN peer[p] ELSE status

\* UPDATE of the membership, then of link and peer as they are now; commit.
WriteMember(r) ==
    /\ req[r].at = "write"
    /\ LET q == req[r]
           now == member[q.target]
       IN /\ member' = [member EXCEPT ![q.target] =
                [role   |-> Column(q.patch.role, q.seen.role, now.role),
                 status |-> Column(q.patch.status, q.seen.status, now.status)]]
          /\ peer' = [peer EXCEPT ![q.target] = PeerAfter(q.target, q.patch.status)]
    /\ locked' = IF locked = r THEN Free ELSE locked
    /\ Become(r, Done)
    /\ UNCHANGED <<invitation, uses>>

-----------------------------------------------------------------------------
\* authenticate_request of POST /workspaces/{w}/invitations.
BeginInvite(r) ==
    /\ req[r] = Idle
    /\ \E a \in Principals, i \in Invitations, role \in InvitedRoles :
        /\ Administers(a)
        /\ invitation[i].state = "unsent"
        /\ Become(r, [at |-> "invite", actor |-> a, invite |-> i, role |-> role])
    /\ UNCHANGED <<member, peer, invitation, uses, locked>>

\* create_invitation: only an invitation of an owner looks at the actor again.
CreateInvitation(r) ==
    /\ req[r].at = "invite"
    /\ LET q == req[r] IN
       IF \/ q.role = "owner" /\ q.actor \notin ActiveOwners
          \/ invitation[q.invite].state # "unsent"
       THEN UNCHANGED invitation
       ELSE invitation' = [invitation EXCEPT ![q.invite] = [role |-> q.role, state |-> "open"]]
    /\ Become(r, Done)
    /\ UNCHANGED <<member, peer, uses, locked>>

\* An invitation that nobody accepts in time cannot be accepted any more.
Expire(i) ==
    /\ invitation[i].state = "open"
    /\ invitation' = [invitation EXCEPT ![i].state = "expired"]
    /\ UNCHANGED <<member, peer, uses, locked, req>>

\* accept_invitation checks the invitation, then (slowly) the password ...
ReadInvitation(r) ==
    /\ req[r] = Idle
    /\ \E i \in Invitations :
        /\ invitation[i].state = "open"
        /\ Become(r, [at |-> "verify", invite |-> i, seen |-> NoRow])
    /\ UNCHANGED <<member, peer, invitation, uses, locked>>

\* ... then the membership; 409 if there is an active one.
ReadMembership(r) ==
    /\ req[r].at = "verify"
    /\ LET p == Invitee[req[r].invite] IN
       Become(r, IF Active(p) THEN Done
                 ELSE [req[r] EXCEPT !.at = "join", !.seen = member[p]])
    /\ UNCHANGED <<member, peer, invitation, uses, locked>>

AlwaysInsertable(p) == TRUE

\* uq_membership_principal: a row may be inserted only where there is none.
Insertable(p) == member[p] = NoRow

\* The membership is inserted, or updated where it was changed, the peer is
\* made active, the invitation marked as accepted; commit, or 409 and nothing.
Join(r) ==
    /\ req[r].at = "join"
    /\ LET q == req[r]
           i == q.invite
           p == Invitee[i]
           role == invitation[i].role
       IN IF q.seen = NoRow /\ ~Insertable(p)
          THEN UNCHANGED <<member, peer, invitation, uses>>
          ELSE /\ member' = [member EXCEPT ![p] =
                    [role   |-> Column(role, q.seen.role, member[p].role), status |-> "active"]]
               /\ peer' = [peer EXCEPT ![p] = "active"]
               /\ invitation' = [invitation EXCEPT ![i].state = "accepted"]
               /\ uses' = [uses EXCEPT ![i] = @ \cup {r}]
    /\ Become(r, Done)
    /\ UNCHANGED locked

-----------------------------------------------------------------------------
Step(r) ==
    \/ BeginPatch(r) \/ LoadMember(r) \/ CheckActor(r) \/ LockAndCount(r) \/ WriteMember(r)
    \/ BeginInvite(r) \/ CreateInvitation(r)
    \/ ReadInvitation(r) \/ ReadMembership(r) \/ Join(r)

Next == (\E r \in Requests : Step(r)) \/ (\E i \in Invitations : Expire(i))

Spec == Init /\ [][Next]_vars

-----------------------------------------------------------------------------
\* The values the code can reach: rows keep the table's CHECK constraints, and
\* the row lock is held by a request that is about to write.
TypeOK ==
    /\ member \in [Principals -> Row \cup {NoRow}]
    /\ peer \in [Principals -> Statuses \cup {"none"}]
    /\ invitation \in [Invitations ->
            [role : Roles \cup {"none"}, state : {"unsent", "open", "expired", "accepted"}]]
    /\ uses \in [Invitations -> SUBSET Requests]
    /\ locked \in Requests \cup {Free}
    /\ req \in [Requests -> Request]
    /\ locked # Free => req[locked].at = "write" /\ RemovesOwner(req[locked])

\* "The last active Workspace Owner cannot be removed or demoted": concurrent
\* update_membership requests leave the Workspace an active owner; and "every
\* Workspace membership has its own canonical Human Peer": the peer of an active
\* member is active, whatever update_membership and accept_invitation wrote at
\* the same time.
MembershipHolds ==
    /\ ActiveOwners # {}
    /\ \A p \in Principals : Active(p) => peer[p] = "active"

\* "only an owner can create or modify another owner", update_membership says to
\* the request it refuses; of the commits of those it let pass as an admin's.  It
\* decides on the row as it was loaded.
OwnersAnswerToOwners ==
    [][\A r \in Requests :
        req[r].at = "write" /\ ~req[r].asOwner /\ req'[r] = Done =>
            \A p \in ActiveOwners : member'[p] = member[p]]_vars

\* An invitation is good for one accept_invitation.
InvitationOnce == \A i \in Invitations : Cardinality(uses[i]) <= 1
=============================================================================
