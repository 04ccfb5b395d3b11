------------------------------- MODULE Sharing -------------------------------
(***************************************************************************)
(* Workspace shares of the control plane: the owner of one Workspace        *)
(* proposes a read-only view of its memory to another, whose owner approves *)
(* or rejects it; either revokes it; a search of the recipient reads what   *)
(* is shared.  Transactions are as in Membership: a request decides by the  *)
(* row it has loaded and its commit overwrites what has happened since.     *)
(* Requests are those of the owners: others are refused with no effect.     *)
(***************************************************************************)
EXTENDS Naturals, FiniteSets

CONSTANTS
    Workspaces,
    Projects,       \* projects an owner Workspace may come to have
    Selections,     \* the project lists a proposal may name
    Shares,         \* ids, each for one row of workspace_shares
    Requests,       \* each is made once at most
    Searches        \* members' searches, one after the other each

SharingAssumption ==
    /\ Selections \subseteq SUBSET Projects
    /\ Workspaces \cap Projects = {}

VARIABLES
    project,    \* which projects each Workspace has
    share,      \* workspace_shares
    req,        \* the requests: where they are and what they have decided
    search      \* the searches: what is left to read and what was read

vars == <<project, share, req, search>>

Live        == {"proposed", "active"}
Statuses    == {"none", "rejected", "revoked"} \cup Live
Displays    == [mode : {"workspace"}, only : {{}}] \cup [mode : {"projects"}, only : Selections]
Unused      == [status |-> "none"]
Share       == [status : Statuses \ {"none"}, owner : Workspaces, recipient : Workspaces,
                display : Displays, consent : BOOLEAN]
Verdicts    == {"active", "rejected", "revoked"}

Idle    == [at |-> "idle"]
Done    == [at |-> "done"]
Quiet   == [on |-> FALSE, todo |-> {}, found |-> {}]

Init ==
    /\ project = [w \in Workspaces |-> {}]
    /\ share = [s \in Shares |-> Unused]
    /\ req = [r \in Requests |-> Idle]
    /\ search = [q \in Searches |-> Quiet]

-----------------------------------------------------------------------------
Become(r, state) == req' = [req EXCEPT ![r] = state]

\* A project created meanwhile belongs to what a whole Workspace shares.
CreateProject(w, p) ==
    /\ \A v \in Workspaces : p \notin project[v]
    /\ project' = [project EXCEPT ![w] = @ \cup {p}]
    /\ UNCHANGED <<share, req, search>>

LiveBetween(o, w) ==
    {s \in Shares : share[s].status \in Live /\ share[s].owner = o /\ share[s].recipient = w}

\* create_workspace_share up to the check for a live share.
CheckProposal(r) ==
    /\ req[r] = Idle
    /\ \E o, w \in Workspaces, display \in Displays :
        /\ o # w
        /\ display.only \subseteq project[o]
        /\ LiveBetween(o, w) = {}
        /\ Become(r, [at |-> "insert", owner |-> o, recipient |-> w, display |-> display])
    /\ UNCHANGED <<project, share, search>>

\* uq_workspace_share_live_pair, a unique index over the live rows.
IndexAllows(o, w) == LiveBetween(o, w) = {}

\* The INSERT and its commit, or 409.
InsertShare(r) ==
    /\ req[r].at = "insert"
    /\ LET q == req[r] IN
       IF IndexAllows(q.owner, q.recipient)
       THEN \E s \in Shares :
                /\ share[s] = Unused
                /\ share' = [share EXCEPT ![s] =
                        [status |-> "proposed", owner |-> q.owner, recipient |-> q.recipient,
                         display |-> q.display, consent |-> FALSE]]
       ELSE UNCHANGED share
    /\ Become(r, Done)
    /\ UNCHANGED <<project, search>>

\* What approve, reject and revoke require of the status they loaded.
MayBecome(status, verdict) ==
    IF verdict = "revoked" THEN status \in Live ELSE status = "proposed"

\* Whose owner may give a verdict on a share.
MayDecide(row, w, verdict) ==
    IF verdict = "revoked" THEN w \in {row.owner, row.recipient} ELSE w = row.recipient

\* approve_, reject_ and revoke_workspace_share: the row as loaded, the checks.
LoadShare(r) ==
    /\ req[r] = Idle
    /\ \E s \in Shares, w \in Workspaces, verdict \in Verdicts :
        /\ share[s] # Unused
        /\ MayBecome(share[s].status, verdict)
        /\ MayDecide(share[s], w, verdict)
        /\ Become(r, [at |-> "write", share |-> s, by |-> w, verdict |-> verdict])
    /\ UNCHANGED <<project, share, search>>

\* The UPDATE and its commit; one that makes the share live again is subject
\* to the index.
WriteShare(r) ==
    /\ req[r].at = "write"
    /\ LET q == req[r]
           s == q.share
           row == share[s]
       IN IF q.verdict \in Live /\ ~(row.status \in Live \/ IndexAllows(row.owner, row.recipient))
          THEN UNCHANGED share
          ELSE share' = [share EXCEPT
                    ![s].status = q.verdict,
                    ![s].consent = @ \/ (q.verdict = "active" /\ q.by = row.recipient)]
    /\ Become(r, Done)
    /\ UNCHANGED <<project, search>>

-----------------------------------------------------------------------------
EveryProject(row) == project[row.owner]

\* workspace_share_projects.
SharedProjects(row) ==
    IF row.display.mode = "workspace" THEN project[row.owner]
    ELSE project[row.owner] \cap row.display.only

\* _shared_projects: the active shares that a search of w finds.
BeginSearch(q) ==
    /\ ~search[q].on
    /\ \E w \in Workspaces :
        search' = [search EXCEPT ![q] =
            [on |-> TRUE, found |-> {},
             todo |-> UNION {{<<s, p>> : p \in SharedProjects(share[s])} :
                        s \in {s \in Shares : share[s].status = "active" /\ share[s].recipient = w}}]]
    /\ UNCHANGED <<project, share, req>>

\* _search_federated: one search of the Core a project.
SearchProject(q) ==
    /\ \E x \in search[q].todo :
        search' = [search EXCEPT ![q].todo = @ \ {x}, ![q].found = @ \cup {x}]
    /\ UNCHANGED <<project, share, req>>

EndSearch(q) ==
    /\ search[q].on
    /\ search[q].todo = {}
    /\ search' = [search EXCEPT ![q] = Quiet]
    /\ UNCHANGED <<project, share, req>>

-----------------------------------------------------------------------------
Next ==
    \/ \E w \in Workspaces, p \in Projects : CreateProject(w, p)
    \/ \E r \in Requests :
        CheckProposal(r) \/ InsertShare(r) \/ LoadShare(r) \/ WriteShare(r)
    \/ \E q \in Searches : BeginSearch(q) \/ SearchProject(q) \/ EndSearch(q)

Spec == Init /\ [][Next]_vars

-----------------------------------------------------------------------------
\* Rows keep the CHECK constraints of workspace_shares; an active one carries
\* the recipient's approval; a verdict waits to be written on an existing one.
TypeOK ==
    /\ project \in [Workspaces -> SUBSET Projects]
    /\ share \in [Shares -> Share \cup {Unused}]
    /\ \A s \in Shares : share[s].status = "active" => share[s].consent
    /\ \A r \in Requests : req[r].at = "write" =>
            share[req[r].share] # Unused /\ req[r].verdict \in Verdicts
    /\ \A q \in Searches : search[q].todo \cup search[q].found \subseteq Shares \X Projects

\* "Workspaces share no memory until both Workspace Owners approve a share":
\* what a search finds is in a share whose recipient's owner has approved it,
\* and in the project list the owner proposed.
SearchesHaveConsent ==
    \A q \in Searches : \A x \in search[q].found :
        LET row == share[x[1]] IN
        /\ row.consent
        /\ x[2] \in project[row.owner]
        /\ row.display.mode = "workspace" \/ x[2] \in row.display.only

=============================================================================
