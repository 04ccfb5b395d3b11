# Neuromem: a verification development

TLA+ models of Neuromem, the TLC runs that check them, and TLAPS proofs about
them. Neuromem (`src/README.md`) is a memory engine: records are stored first,
claims are derived from them by background jobs, and a node gateway, an MCP
server and a host-local manager stand around the engine.

`PROJECT.json` lists the components, the runs, the definitions with the source
lines they model and the hazards. Paths below are relative to
`src/apps`.

## 1. Inventory

### Memory core (`core/neuromem_core`, Python, PostgreSQL)

| Part | State | Operations | Correct when |
| --- | --- | --- | --- |
| Job queue (`worker.py`, `app.py`) | rows of `jobs`: status, attempts, owner, lease, run_after | claim, complete, retry, reset of failed jobs; worker crash and restart | a lease excludes others until it lapses; no row is stranded; attempts count what they say; a done job's result is committed; every job settles |
| Ingest (`services.py`) | `records`, `sessions.next_record_sequence`, authors, profile | `records:batch` | sequences have no gaps; the receipt is true; a retry creates nothing; an honest batch is never refused |
| Extraction (`worker.py`) | `claims`, `claim_sources`, `claim_edges`, `embed_claim` jobs | one transaction per execution, replays, overlapping executions | claims are distinct and backed by a source; one execution of a job is represented in full |
| Embedding and segment jobs | vectors, chunks | as jobs of the queue | (as the queue) |
| Recall and views (`queries.py`) | none | ranking, fusion, snippets | pure functions of the tables |

Requests and workers meet only in PostgreSQL at READ COMMITTED, in row locks,
unique keys and `SKIP LOCKED`. Hard: leases that lapse in the middle of a batch,
crashes between a commit and the completion of its job, retries of requests that
did commit, unique-key waits that form cycles.

### Control plane (`control/neuromem_control`, Python, PostgreSQL)

| Part | State | Operations | Correct when |
| --- | --- | --- | --- |
| Memberships (`services.py`, `app.py`, `security.py`) | role and status, peer link, invitations | patch a member, invite, accept | an active owner is left; owners answer to owners only (section 4); an invitation is used once; a member has its peer |
| Workspace shares (and `memory_gateway.py`) | share status, display, approval | propose, approve, reject, revoke, federated search | nothing is found without both owners' approval and outside of what was selected |
| Federation | links, grants, assignments, transfer requests | propose, approve, accept, assign, revoke, reject, complete with an import | a grant and a transfer have both sides' approval; one import |
| Credentials (`security.py`), memory gateway (`memory_gateway.py`) | scopes, audit rows | resolve a bearer, ingest into the Core | a right that was taken away is not used; what a caller is told was stored and audited |
| Agents, wiki, local folders | rows | single transactions | (not modelled) |

Every handler loads an ORM row, checks it, and writes the changed columns at its
commit. Only `update_membership` ever takes a lock. Hard: decisions taken on
rows that others have changed meanwhile.

### MCP server (`mcp/src`, TypeScript)

| Part | State | Operations | Correct when |
| --- | --- | --- | --- |
| Lock directory (`retry-queue.ts`) | a directory, `owner.json`, its age | acquire, release, steal from the dead | one process at a time; nobody waits for ever |
| Spool and queue (`retry-queue.ts`), router (`router.ts`) | `records/<id>.json`, `retry-queue.json`, attempts in memory | `memory_record`, retry worker, reconcile at start | a pending write stays on disk until decided; "stored" is true; eventually decided |
| HTTP server (`http.ts`, `rpc.ts`, `tools.ts`, `control-gateway-client.ts`) | request slots, sessions with their last use, what Control said of a bearer | request, initialise, tool call, idle time-out, lost answer, retry after a missing session | slots are given back; limits hold; told means kept; rights hold when used |
| Federated search (`router.ts`) | none | ranked lists of several Cores, some of which fail | the fused ranking is the reference ranking |
| Idempotency registry | files | | (not modelled) |

One event loop, so that code between two `await`s is atomic; several processes
may share the directory. Hard: two files written one after the other, a shared
entry for attempts of several calls, lost answers of a node.

### Manager (`manager/src`, TypeScript)

| Part | State | Operations | Correct when |
| --- | --- | --- | --- |
| Node lifecycle and cutover (`node-manager.ts`, `state.ts`, `compose.ts`) | registry record, `.env`, journal, Docker stack, volumes, backups | start, stop, restart, restoreApply, recovery at boot, reconcile timer | `.env` and registry agree; no volume is overwritten; a failed restore leaves the old generation; the stack reaches what is desired |
| Model changes (`node-manager.ts`) | model settings in `.env`, `compose.yaml`, containers, journal; vectors in the database | configureModels, selectModels, their rollback, recovery at boot | one database, one embedding model; a report is true |
| Locks of several processes (`state.ts`, `admin-server.ts`, `daemon.ts`) | operation lock, instance lock, socket, port | take, judge, take over, release; deaths | one operation a Node, one daemon a home directory |
| Node deployment (`node-deployment-manager.ts`) | `.env`, volumes, containers, model health file | first start, start, stop, restart, selectModels, Codex bridge, from several processes without a lock | the databases open; a start settles whatever it finds; a selection is all or nothing |
| Codex provider (`codex-provider.ts`) | child processes, run directories | generate, status, disconnect, close | nothing outlives the daemon |
| Folder sources (`folder-sources.ts`) | `folder-sources.json`, one picker, the write queue | pick, detach | a folder has one Project; no lost update |
| CLI, supervisor | | | (not modelled, section 7) |

The web application (`web/src`) keeps state in the browser; the model card of
`AdminPage.tsx` sends a form that a probe has approved; an answer must not be taken
for one about a form that has changed since.

The daemon dies between any two writes while the containers live on. Hard: the
rollback of a rollback, recovery of several journal entries.

### Interaction

The MCP server posts to the core (directly or through the gateway); the gateway
forwards to a core over HTTP; the manager runs all of them as containers.
Modules are composed where parts share state: `Delivery` takes from `FileLock`
that exclusive operations do not overlap, and from `Ingest` what the core accepts
and refuses; `Extraction` takes from `JobQueue` that executions of one job may
overlap and repeat; `Sharing` and `Federation` take from `Membership` who owns a
Workspace. `ModelPanel` runs on top of `Deployment`, whose `.env` it shows and
changes, and `McpServer` on top of `Fusion`.

Parts that share no state are checked in one run by a sum: `CoreMemory` (`Ingest`,
`Extraction`), `Governance` (`Membership`, `Sharing`, `Federation`), `LocalHost` (`FileLock`,
`HostLocks`, `CodexRuns`, `FolderSources`) and `NodeManager` (`Cutover`,
`ModelSwitch`) let one of their parts act in each behaviour. The properties are
of one part each and no step of a part touches another's variables, so that a
behaviour of all parts at once shows each property exactly what the behaviour
of its own part shows it.

## 2. Modules

| Module | Models | State and actions |
| --- | --- | --- |
| `JobQueue` | job table and worker loop | `Claim` is `claim_jobs` with its WHERE and its UPDATE in one statement; `Process`, `Complete`, `Retry` are the loop of `run_worker`; `Tick` moves leases and delays; `Crash`, `Restart`; `ResetFailed` is `jobs:retry-failed` |
| `RecordLog` | what the record API promises: an append-only log for each session | `AppendBatch` |
| `Selection` | some items of a sequence in its order, by rank | used by `RecordLog` and `Ingest` |
| `Ingest` | `ingest_records`, statement by statement | `LockSession`, `ReadExisting`, `Upsert`, `InsertRecord`, `Commit`; `DeadlockAbort` is PostgreSQL |
| `Extraction` | `_process_extract_claims` | `Extracted`, `UpsertClaim`, `AddSource`, `Commit`, `Complete` |
| `FileLock` | `#exclusive`, `#acquireFileLock` | one action a file system call |
| `Delivery` | spool, queue and router | `Record`, `DrainStart`, `ReadRecord`, `Posting`, `Settle`, `Crash`, `Restart` |
| `Cutover` | lifecycle of a Node | one step between any two of: a write of `.env`, of the registry or of the journal, a call of Docker |
| `Membership` | members and invitations | a request's authentication, its loads, its lock, its commit |
| `Sharing` | workspace shares and the search | check, insert or load, write; `SearchProject` |
| `Federation` | links, grants, assignments, transfers | load, write; `Import` is the Core |
| `Fusion` | the federated search of the MCP router | `Recall`, `ReadView` or `OrderWork` asks, `CoreAnswers`, `Fuse`; scores as exact multiples of 1/`Scale` |
| `McpServer` | the HTTP server, its sessions and its calls to Control's gateway | a request from its slot to its answer, the gateway's own course when the caller gave up, changes of rights |
| `Deployment` | the physical Node without a lock | a start: `Create`, `Validate`, `Preflight`, `Databases`, `Schema`, `Verify`, `Contracts`; a selection: `Parse`, `Probe`, `Invalidate`, `Write`, `Check`, `Recreate`, `Rollback`; `Compose`, `ComposeEnds`, `ComposeFails` are a docker command from its reading of `.env` to its end; `Die` |
| `ModelPanel` | the model card of the admin page over `Deployment` | `Mount`, `Leave`, `Edit`, `AskProbe`, `ProbeAnswered`, `Submit`, `Cancel`, `Apply`, `Applied`, `NotApplied` |
| `ModelSwitch` | model changes of a Node under its lock | one step between any two of: a write of `compose.yaml`, of `.env` or of the journal, a call of Docker, a probe |
| `HostLocks` | operation lock and instance lock | one action a file system call or `listen` |
| `CodexRuns` | generations and status calls with their children | one step an `await`; `CloseProvider`, `Exit` of the daemon |
| `FolderSources` | picks and detaches | `Load`, `Attach`, `Remove` in the turn of the write queue |
| `CoreMemory`, `Governance`, `LocalHost`, `NodeManager` | sums, as above | |
| `JobQueueProofs`, `CoreMemoryProofs`, `DeliveryProofs`, `GovernanceProofs`, `ModelPanelProofs`, `McpServerProofs`, `LocalHostProofs`, `NodeManagerProofs` | theorems about the module of that name and the parts it composes (section 5) | |

`MC<module>.tla` holds the values of the constants for TLC. `Ingest` implements
`RecordLog` (`ImplementsLog`): the log of a session is its records in the order of
their sequence, and a batch is appended at the commit.

What the abstractions leave out: texts are told apart only by equality; the
vectors and what a model answers are arbitrary; times are ticks or the order of
expiry. In `JobQueue` a result is "committed or not". In `Cutover` the `.env` is
its `DB_VOLUME_NAME`, and the takeover of a dead owner's lock is one step; so are the
two looks at the volume a restore will make (`nextUnusedVolume`, and the check in
`stageDatabase`: volumes are made under the Node's lock only), and the two reads of
the reconcile timer (`desired_state`, then the status: an older desired state can
only make it ask for a start or stop that the operation then decides on anew). In the
control modules an UPDATE and its commit are one step, which is sound because the
UPDATE sets constants and its row lock orders writers by their commits; a request
without the right to do something has no effect and is left out. In
`Membership`, "viewer" stands for "contributor" too.

`Deployment` and `ModelSwitch` keep of an API its address and key as one value or
its key alone, and of a catalog which models it lists: an operator who changes the
address is one who types or clears the key. In `Deployment` a docker command has its
effect when it ends, on all its services at once, or on none, or on the volumes
alone if it fails; it goes on when the process that started it dies; two commands
may end in either order; writes to the disk do not fail. How often calls fail and
die is not bounded. `Fusion` leaves out that
floating point scores may tie or part by rounding, and that a result is cut to a
byte budget; `FusedIsReference` compares with a definition that takes each
memory's best rank at each node. In `McpServer` a credential's Project and Peers
do not change while it resolves (no code changes them), so a session is its
credential; batches of calls in one request, limits of bodies and responses and
the stdio transport are left out, and `ensuredProjects` is one flag for the one
Project. In `CodexRuns` a child that got SIGKILL has closed within the second
that close() waits for it, and the daemon does not die on its own; a run directory
may remain when the process exits before the `finally` that removes it, which
`LeavesNothing` allows. In `HostLocks` a live process takes no 30 seconds between
two of its calls, the age at which a lock without an owner is given up.

## 3. Runs

All runs pass but `stale_role`, which is expected to find a violation (section 4); the
bounds are in the cfg.

| Run | Question | Bounds and why they do |
| --- | --- | --- |
| `queue_safety` | leases, attempts and results under lapse, theft, crash | two jobs, two workers, a lease that lapses within a batch, one crash each: a theft takes two workers, a lost update a second job in the batch |
| `queue_liveness` | every queued job settles | the same with `TimelyWorkers` |
| `core_memory` | receipts, retries, refinement of `RecordLog` with gapless sequences; claims and their sources | three requests, two sessions, batches that overlap, permute and contradict each other; three executions: two overlapping ones of a job and one of another |
| `local_host` | exclusion and progress at the queue's lock; one operation and one daemon; no child left; no folder update lost | three instances, holder and two waiters, two deaths; three processes at each of the manager's locks, two deaths: a holder, one that judges it, one that comes in between; two generations and a status; two picks and two detaches over two folders and two Projects |
| `delivery_safety` | durability, agreement of the files, truth of "stored" | one record, two contents, two nodes, two calls and the drain |
| `delivery_liveness` | every spooled write is decided | one node |
| `cutover_safety` | identity, generations, backups; one embedding model for the vectors, true reports | two restores, one death, one outage: the second restore meets what the first left; or two model changes, two embedding models, a death and an outage |
| `cutover_liveness` | the desired state is reached | one restore, one death, one outage |
| `governance` | owners, peers, invitations; consent; both sides' approvals, one import | four principals, three requests: two of them race, the third changes who may; or two Workspaces, two shares, four requests, a search; or three requests at a time on a link, any number of them |
| `stale_role` | whether owners answer to owners only | one owner, one admin, a member whom either may promote or demote, two requests |
| `model_settings` | secrets; what a start and a selection leave behind when nothing overlaps them, whatever did before; the probe that lets the form be sent | the page and a shell, one model of each kind, one key, any number of failures and deaths; three edits and probes of the form, so that the answer of a probe meets a form that was changed and one that was changed back; `Bounds` (below) |
| `mcp_server` | slots, sessions, truth of "recorded", rights, fusion | three requests for two slots, two credentials, one session kept, one change of rights; lists of up to two items from three nodes for the fusion |

Some runs are about less than the code allows, because more does not hold
(section 4): `governance` has patches that demote and suspend but none that
promote or reactivate (`stale_role` has those), and no suspension beside two
acceptances, which would take a fourth request (section 5 proves these properties
for all patches, bounds and starts, except where a stated race occurs);
`queue_liveness` has workers that finish a batch within its lease.

Some properties end where a history variable says that the code has done what they
cannot survive. `MutualExclusion` is claimed until a waiter has reclaimed the
directory of a process that lives (`robbed`): the code does so when the directory is
older than five seconds, and when two waiters find the same dead owner. Deaths,
slow holders and reclaims of a dead owner's directory are all within the claim.
`OneInside` leaves out two processes that take over one dead lock at the same time
(`rivals`). `VectorsComparable` lets a database keep vectors of the embedding models
that were taken back after their containers had run (`undone`), and of no others.
`LoneStartSettles` and `LoneSelectionIsAllOrNothing` are about calls that nothing
overlapped (`lone`), in a Node that overlapping calls, failures and deaths may have
left in any state they can leave.

The cfg of `model_settings` bounds what is explored by a state constraint, `Bounds` of
`MCModelPanel`: calls of page and shell overlap only while no card is on the screen;
the card is edited and probed only over a Node with no verdict and no call under
way; selections are made on the `.env` of one first start, and ask for an embedding
model or for generation settings. Each half is explored in full where it can break
a property: overlapping calls for those of `Deployment`, the card's interleavings for
`CountedProbeFits`, which does not depend on the Node. The proofs of section 5 need
none of this.

Most modules define a type invariant, `TypeOK`, that documents their variables.
The proofs of section 5 establish it, or as much of the types as they rest on, for
every module but `Fusion`; the runs are kept for the other properties.

Fairness is assumed only where liveness is checked. `JobQueue`: the worker loop
takes its next step, containers are restarted (`restart: unless-stopped`), time
passes, and a job that is runnable again and again is claimed, because
`claim_jobs` orders by `run_after`, which only moves forward. `FileLock`: live
processes run and time passes; the time-out is left unfair, so that the wait is
shown to end without it. `Delivery`: the event loop runs what is ready, a request
ends by its time-out, the retry timer comes round. `Cutover`: the timer calls, the
daemon is restarted, Docker comes back.

Deadlock is checked in `JobQueue`, `Cutover`, `NodeManager` and `ModelPanel`; the
others have a bounded number of requests and may stop when these are done, or (the
`Federation` side of `Governance`) when no request applies.

## 4. Divergences

What the repository says and the code, as modelled, does not keep. Each was found
as a counterexample to the formula that would have said it; `stale_role` is kept as a
run, the other runs check what does hold instead. Lines are of `src/apps`.

| Said | The code |
| --- | --- |
| every derived view is traceable to its source (`README.md:4`) | a replay with another text at an ordinal adds its segment to the old claim (`core/neuromem_core/worker.py:368`) |
| `test_extraction_replay_with_changed_output_is_idempotent` | a replay adds sources and claims that the first output did not have (`worker.py:368`) |
| "two queue instances do not lose concurrent durable entries" (`mcp/test/router.test.ts:799`) | after a death two waiters reclaim the directory, the slower removes the faster's; a directory older than five seconds is reclaimed although its owner lives (`mcp/src/retry-queue.ts:400`) |
| time-outs and network failures remain pending (`mcp/README.md:70`) | another attempt's earlier refusal removes the entry the caller was told is pending (`mcp/src/router.ts:688`) |
| `writes_blocked_during_apply: true` (`manager/src/node-manager.ts:475`) | the candidate runs with its writers before it is healthy; a rollback leaves what it accepted (`node-manager.ts:1665`) |
| roll back if health verification fails | the rollback ignores a failure of Docker; the candidate goes on running (`node-manager.ts:1671`) |
| a restart keeps the restored generation (`manager/test/node-manager.test.ts:916`) | an older restore with a failed recovery is rolled back over a newer success (`node-manager.ts:1539`) |
| "only an owner can create or modify another owner" (`control/neuromem_control/services.py:373`) | an admin's patch decided on the row as loaded demotes a member who was promoted to owner meanwhile (`services.py:370`; run `stale_role`) |
| the last active Owner cannot be removed (`control/README.md:97`) | a suspension decided on a role read before a promotion skips lock and count (`control/neuromem_control/services.py:374`) |
| an invitation is one-time (`control/tests/test_auth_and_identity.py:49`) | two acceptances of a former member pass the check and both commit (`services.py:502`) |
| every membership has its Human Peer (`control/README.md:95`) | suspension and reactivation write membership and peer from values read at different times (`services.py:398`) |
| a share can be revoked immediately (`control/README.md:101`) | an approval under way makes it active again (`services.py:762`) |
| a grant can be revoked (`control/tests/test_projects_wiki_and_federation.py:182`) | an acceptance under way makes it active again (`services.py:941`) |
| "Changing the embedding model requires an empty Node" (`manager/src/node-manager.ts:1084`) | a candidate's containers take records before it is found unhealthy; the rollback goes back to the old model and leaves their vectors (`node-manager.ts:1106`, `1120`) |
| "rollback recovery failed" stands for a Node in state failed (`node-manager.ts:1136`) | when Docker refuses the rollback's stop, the containers stay on settings that `.env` no longer has; if they are ready, the timer sees nothing to do (`node-manager.ts:1127`; the deployment's rollback starts nothing, so that its containers may go on with the settings that were taken back, `node-deployment-manager.ts:503`) |
| a failed selection puts `.env` back (`node-deployment-manager.ts:504`) | it puts back the text it read at its start, and with it undoes another selection that succeeded meanwhile |
| a server without a key is supported (the placeholder of the API key, `web/src/pages/AdminPage.tsx:345`) | `validateConfig` refuses an empty key, so that every selection that clears it is rolled back (`node-deployment-manager.ts:96`, `197`, `500`); of two that overlap the second may take the first's keyless `.env` for the one to go back to, and then neither start nor stop pass |
| check compatibility before you apply a changed connection or model (the hint at `web/src/pages/AdminPage.tsx:355`) | the dialog does not shut the form off from the keyboard; an edit behind it is sent unprobed (`AdminPage.tsx:171`, `261`, `569`) |
| the status of a started Node is about what it runs | when calls overlap, an older `compose up` may finish last and leave older settings than `.env` has (`node-deployment-manager.ts:283`, `502`); the cached verdict may have the fingerprint of one reading of `.env` and the names of another (`639`, `649`) |
| a replaced API key makes the verdict unknown (`node-deployment-manager.ts:746`) | the fingerprint holds only whether there is a key, so that a start under way may write its verdict about the old key after the cache was forgotten |
| one operation a Node, one daemon a home directory (`state.ts:168`, `admin-server.ts:399`) | two processes that find the lock of one dead owner both remove it and both go on; a daemon that does takes a running one's socket away |
| an instance lock (`admin-server.ts:50`) | a second daemon marks interrupted operations, reconciles models and cutovers before the lock refuses it; cutovers without the Node's lock |
| what failed was not stored | a tool call that timed out may still be stored and audited; a record may be stored without its audit row if Control dies in between (`control/neuromem_control/memory_gateway.py:513`) |

## 5. Proofs

TLAPS proves 40 theorems that state 34 of the runs' 40 properties, in eight
modules: those of `JobQueueProofs` are about `JobQueue`, and so on for
`Governance`, `ModelPanel`, `McpServer`, `CoreMemory`, `LocalHost`, `Delivery` and
`NodeManager`. They hold for any sets and any bounds that satisfy the assumptions
of the modules, so that the bounds of section 3 are not bounds of the results.

No property is inductive as it stands. Each module defines the inductive
invariant its proofs need as a conjunction of named parts, proves it of the
initial states and of every action, and derives the properties from it: an
invariant as one of its consequences, an action property as a step that starts
in it. `tlapm <module>.tla` checks a module from nothing.

`JobQueueProofs`: `TypeCorrect`, `LeaseIsExclusive`, `NoRowIsStranded`,
`AttemptsAreEarned`, `DoneIsSound`, the safety invariants of `queue_safety`, and
with them `ErrorBudget` and `DoneIsFinal`, which no run needs to repeat. That a
late report leaves another worker's lease alone rests on a row in state running
being in the batch of its owner; that `retry_job` keeps the ledger, on the worker's
snapshot of `attempts` being the row's while it owns it (both in
`NoStrandedRow`); that a done job's result is committed, on a worker that reports
on nothing but a job of its batch (`Reporting`).

`CoreMemoryProofs`, of `Ingest`: `ReceiptsAlwaysHold`, `HonestIsNeverRefused`, and
`IngestIsALog`, that every behaviour of the statements of `ingest_records`
implements `RecordLog`. `IngestInv` says that the session's lock makes its holder
the only one at work on `next_record_sequence` (`LockSound`), that what a request
found in the table stays true, because what has come since came to other sessions
(`PriorSound`), that a row inserted but not committed is the only one with its id
(`HeldSound`, the unique key), and that sequences have no gaps (`Gapless`). The
refinement reads a log as the records of a session by their sequence; that the
commit appends the new items in the order of the batch is the ranking of
`Selection`, which the proofs count instead of using recursion.

`CoreMemoryProofs`, of `Extraction`: `ClaimsAreAlwaysBacked` and
`OneOutputIsAlwaysKept`. `ExtractInv` says of a transaction at work that its rows
are those of the candidates it has dealt with (`Written`), that the claim it is
about to add a source to is there (`Targeted`), and that the first execution of a
job to commit has met no claim but those with its own texts (`FirstSound`).

`DeliveryProofs`: `AcceptedIsDurable` and `ToldStoredIsStored`, with crashes between
any two file system calls. `DeliveryInv` adds to the types that an attempt takes a
write out only when its node has decided, also the drain that finds no spool file
(`Backed`), and that an attempt carries the body of its call (`Carrying`).

`LocalHostProofs`: `QueueIsExclusive`, `OneIsInside`, `NothingIsLeft`,
`EachWriteIsOneChange`. Of the retry queue's lock `QueueInv` says, while no live
process was robbed, that the directory is its live holder's and names it, that a
holder that is about to write has read the file as it is, and that an entry once
written is in the file; processes die, age and are reclaimed meanwhile. Of the manager's
locks `LocksInv` says that a lock is its holder's, and that it is taken over only
when nobody has it and by one process. Of the children `RunsInv` says that the
daemon that terminates has sentenced every child alive. Of the folders
`FoldersInv` says that the request in the turn of the write queue has loaded what
the file holds.

`GovernanceProofs`, of `Federation`: `LinksTypeCorrect`, `ProjectsAreGrantedByBoth`,
`RecordsAreTransferredByBoth`, `ImportIsIdempotent`. What the rows say is not
inductive: a request that is about to write carries what it has loaded, so
`LinkInv` says of each of them what its check has established for good (`HeldBy`:
the link had both approvals, the transfer had the source's), which later commits
never take back, since approvals are only added (`Grows`).

`GovernanceProofs`, of `Sharing`: `SharesTypeCorrect`, `SearchesAlwaysHaveConsent`.
An approval under way may bring a revoked share back (section 4), so that a
share's status says nothing about a search that has begun. What stays is who the
parties are, the display and the approval (`SharesGrow`); `ShareInv` says that all
a search has read and is still to read is consented to by such rows (`Consented`),
and that whoever is about to write an approval acts for the recipient
(`DecidedBy`).

`GovernanceProofs`, of `Membership`: `MembershipsTypeCorrect`, and with hypotheses on
the behaviour `AnOwnerIsLeft`, `InvitationAdmitsOne`. The
properties do not hold of every behaviour (section 4); the hypotheses name the race
that breaks them, and the theorems show that nothing else does, for all patches,
invitations, starts and numbers of requests:

- `NoLateRise`: while a request that has loaded a row goes on, no commit of another
  makes that row an owner's or active. It is what `update_membership` takes for
  granted when it decides on the role it loaded whether the actor must be an owner
  and whether to lock and count. Demotions and suspensions may still race with
  everything: that two owners cannot demote each other rests on the lock, of which
  `OwnersInv` says that its holder has another owner besides its target, and
  `MemberInv` that all who remove an owner hold it.
- `StatusIsSettled`: while somebody accepts an invitation, no commit of another
  suspends or reinstates the membership they may have. Any number of acceptances of
  one invitation by a new member may still race; the unique key decides.

`SidesHoldTogether` says the same of requests of all three sides that interleave in
any order (`AllSidesSpec`), so that the sum of section 1 leaves nothing out.

The run `governance` has no step that breaks either hypothesis; with all patches and
with former members among the invited TLC finds both the counterexamples of section
4 without them and none with them.

`ModelPanelProofs`, of `Deployment` and the card: `TypeCorrect`, `SecretsAlwaysOpen`,
`StartsAlwaysSettle`, `SelectionsAreAllOrNothing`, `CountedProbesFit`, for any number
of callers, models, keys, edits, failures and deaths and all overlaps. Nothing locks
`.env`: a call works from copies that others have replaced, of which the secrets
alone can be trusted to be those of now (`Holds`). A call that is alone knows more,
step by step: what it has read is what is there, and after its Compose command so is
what runs (`Settles`); that it is alone means that all others are over, also docker
commands of processes that died (`Alone`). On the page, a probe that may still be
answered is about the form if it is of the present epoch (`ProbesSound`).

`McpServerProofs`: `SlotsAndSessionsHold`, `ToldIsAlwaysKept`,
`RightsAlwaysHoldWhenUsed`. A request and the call it waits for move on their own;
`CallSound` says what each step of the call says of the request that may have been
given up, `SlotsSound` that the counter is the number of requests in flight.

`NodeManagerProofs`, of `Cutover`: `RestoresCohere` and from it `IdentityIsKept`,
`NothingIsOverwritten`, `SuccessIsBackedUp`, `FailureIsUndone`, with the death of the
daemon and the outage of Docker between any two writes. `CutoverInv` is the types and
`Coherent`: volumes are numbered without gaps, so that the next unused number is
a new volume (`Numbered`); `.env` and the registry differ at two steps of a
restore only, or a death there has left a journal entry with the generation to go
back to (`Settled`); and nothing writes to a volume between its snapshot and the
end of the operation (`Snapshotted`).

`NodeManagerProofs`, of `ModelSwitch`: `ChangesAreSound` and from it
`VectorsAreAccountedFor`, `ReportsTellTheTruth`. `SwitchInv` says that a change of the
embedding model has found the database empty and keeps the writers stopped until
the containers run the new model or `.env` is back, that vectors of another model are
of one taken back (`SameModel`, `EmptyMeanwhile`), and what of `.env`, `compose.yaml`
and the stack each step knows (`EnvKnown`, `DimsKnown`, `ReportReady`).

Apart from `NoLateRise` and `StatusIsSettled` the assumptions are on constants: kinds
of values are told apart (the mark for "absent" is not a content, `Keep`, which leaves
a key as it is, is not a key), bounds are natural numbers, batches are finite sequences of
distinct ids and there is one at least, `Generations` is larger than the number of
restores, the principals are finitely many, a Workspace starts with an active owner.

Only model-checked:

- `JobsSettle`, `EventuallyDecided`, `ReachesDesired`, `WaitersServed`: liveness under
  fairness is out of the prover's reach, as is ENABLED;
- `FusedIsReference`: `Fusion` computes by folds over the ranked lists, and
  induction over data is out of reach.

## 6. Plan

1. Extend the model:
   - the idempotency registry of the retry queue as an extension of `Delivery`;
   - `Wiki`: revisions and pinned pages; `Credentials`: bootstrap, browser
     sessions, agent ownership; context assembly with its budget;
   - the other lifecycle operations of the manager: create with its ports, backup,
     migration, removal;
   - pure algorithms against reference definitions: chunking, snippets, the
     monotonic UUIDv7, the byte budget of federated results.
2. Check the divergences of section 4 where a later version of the code repairs
   them: each becomes a property of its module's run.
3. Prove more: of the other sums what `SidesHoldTogether` says of `Governance`.

## 7. Not modelled, and why

Recall and the read views, providers, schemas and configuration change no state.
Schema creation runs once before the service. Of the web application only the
model card decides anything between two answers of a server; the rest shows what
it fetched. The supervisor's start of a daemon, the CLI's arguments and the
deployment files keep no state that others share. Two creates of Nodes at once may
choose the same ports (`allocatePorts` reads the registry outside its mutation
queue); the registry of several Nodes is not modelled. Cryptography (password
hashes, token digests, signatures) is taken as what it is meant to be.
