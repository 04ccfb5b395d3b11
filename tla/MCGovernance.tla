---------------------------- MODULE MCGovernance ----------------------------
(* Governance for TLC: patches that demote and suspend, and for one run patches
   that promote; proposals of a whole Workspace and of project lists. *)
EXTENDS Governance, TLC

CONSTANTS alice, bob, carol, dave, p1, p2

As(role) == [role |-> role, status |-> "active"]

\* Two owners and an admin; dave may be invited.
Staffed == (alice :> As("owner")) @@ (bob :> As("owner")) @@ (carol :> As("admin"))
           @@ (dave :> NoRow)

Set(role, status) == [role |-> role, status |-> status]

Demotions == {Set("admin", Keep), Set("viewer", Keep), Set(Keep, "inactive"), Set("viewer", "inactive")}

\* One owner, one admin, and Carol, whom either may promote.
OneOwner == (alice :> As("owner")) @@ (bob :> As("admin")) @@ (carol :> As("viewer"))
            @@ (dave :> NoRow)

Promotions == {Set("owner", Keep), Set("admin", Keep)}

ForDave == [i \in Invitations |-> dave]

OneOrBoth == {{p1}, {p1, p2}}

\* The principals and the ids of the other sides are few enough without.
Interchangeable == Permutations(Requests)
=============================================================================
