CONSTANTS
    alice = alice
    bob = bob
    carol = carol
    dave = dave
    Principals = {alice, bob, carol, dave}
    Requests = {r1, r2}
    Invitations = {i1}
    Invitee <- ForDave
    InvitedRoles = {"owner", "viewer"}
    Patches <- Promotions
    Founders <- OneOwner
    Free = Free
    p1 = p1
    p2 = p2
    Workspaces = {w1, w2}
    Projects = {p1, p2}
    Selections <- OneOrBoth
    Shares = {s1, s2}
    ShareRequests = {r1, r2, r3, r4}
    Searches = {f1}
    LinkRequests = {r1, r2, r3}
    Reviews = {edited}
    Snapshot = Snapshot
    MaxFailures = 1
SPECIFICATION GovernanceSpec
PROPERTY OwnersAnswerToOwners
CHECK_DEADLOCK FALSE
