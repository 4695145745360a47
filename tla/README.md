# pacct: a verification project

TLA+ models of *pacct*, a system in which independent nodes form a network,
govern its membership by votes, and compute a regression together without
sharing their rows. The models are translated from the TypeScript sources; TLC
checks them on small instances and TLAPS proves the main results for every
value of the constants. Paths below are relative to the repository, with
`client/` for `pacct-client/lib/` and `server/` for `pacct-discovery-server/`.

To run: `tlc -config MCX_y.cfg MCX` for a check, `tlapm X_proofs.tla` for a
proof. `PROJECT.json` lists runs, theorems, findings, hazards, and the source
lines every definition stands for.

## 1. The system

| Part | State | Operations | Talks to |
|---|---|---|---|
| federated run protocol (`client/computation/network-run-orchestrator.ts`, `disconnect-handler.ts`, `messages.ts`) | phase and `aborted` flag per node, the pending `waitForMessages` with its timer | coordinate, participate, abort, disconnect handler | peer mesh (data channels), run sessions |
| run coordinator and regression (`client/computation/{run-coordinator,federated,regression,matrix}.ts`) | none that lasts | local summaries, aggregation, solving | called by both ends of a run |
| run sessions (`client/computation/run-session-manager.ts`) and run policy (`client/engines/run.ts`) | the caller's copy of the run history, sessions in progress | initiateRun, handleIncomingRun; interval, budget, one run at a time | run protocol, dataset store |
| network life cycle, membership (`client/engines/{network-lifecycle,membership}.ts`) | network status, member list | transitions, timeouts, join, leave, offline/online, re-acknowledge | all pure functions on one state object |
| expulsion, dissolution (`client/engines/{expulsion,dissolution}.ts`) | proposals with votes | propose, vote, consensus, execute | membership |
| admission (`client/engines/admission.ts`) | list of applications with votes | submit, vote, rule, approve, accept, withdraw, expire | membership, timeout worker |
| presence leases (`server/lib/presence/`, `server/lib/db/repositories/presence-repository.ts`) | table `presence_leases`, event log, a sweep timer per server instance | heartbeat, sweep | PostgreSQL, shared by all instances |
| peer mesh (`client/transport/`) | map of peer connections, handlers | connect, offer/answer/candidate, close | signaling, WebRTC |
| signaling (`server/lib/ws/`, `client/discovery/signaling-client.ts`) | routing map per instance; socket and reconnect timer per client | register, relay, close, reconnect | peer mesh |
| discovery REST API (`server/app/api`, `server/lib/db/repositories`) | networks, members, applicants, manifests, events | create, join, vote, status, members | PostgreSQL; one query at a time, no transaction |
| identity, datasets, persistence (`client/{identity,dataset,persistence}`) | key pair and identity record; catalogue and rows | initialise, import, delete | key-value store |
| workers (`client/workers/`) | interval timers, peers last seen, the state watched | approval timeouts, heartbeats, inactivity | engines, REST API |
| spec validation (`pacct-specs`), protocol types (`pacct-protocol-ts`) | none | schema and cross validation, hashes, templates | everybody |
| user interfaces (`pacct-client/app`, operator pages) | drafts of a creation, requests awaited, the pages' own copy of the datasets in localStorage | create a network, import and delete datasets, show a network, regenerate the key | REST API, identity, specs |
| migration (`server/lib/migration`, `server/scripts`) | what is left to copy | copy, row by row | the tables of the REST API |

What is hard here, and what makes each part correct:

- **Run protocol.** Single-threaded nodes, but messages, timers, closing
  channels and user aborts interleave at every `await`; a broadcast may throw
  half way; a message nobody waits for is dropped. Correct means: a result rests
  on everyone's contribution, an aborted run hands nothing out, completed nodes
  agree, and everybody settles.
- **Governance and admission.** Every function maps over a list that keeps one
  entry per *admission* and per *application*, so a node may have several; some
  functions look a node up by its first entry. Votes outlive the membership of
  the voter while the electorate shrinks. Correct means: nobody returns from a
  departure, a dissolved network stays dissolved, an active one is capable,
  whoever is asked to re-acknowledge does, every request that all have voted on
  is ruled on, and an expiry found by the node's oldest application rewrites
  nothing that was settled. (That nobody is
  a member twice is not among these: `addMember` appends without looking, and
  `client/__tests__/negative-paths/membership-edge-cases.test.ts` says so.)
- **Voting rule.** Ratios and a rounded `1 - threshold`.
- **Run policy.** Each node decides on its own copy of the history.
- **Presence.** Check-then-act over a shared table by several processes that may
  die between any two queries.
- **Signaling and mesh.** The two ends of a socket learn of its opening and
  closing by separate events, a client reconnects before the server has noticed
  the loss, and both maps (server: node to socket, client: peer to channel) are
  keyed by node id alone. Correct means: no route to a dead socket or another
  node's, a lost client tries again, no peer is shown that is gone, and a listed
  peer can be sent to.
- **REST API.** A handler is a chain of queries outside a transaction, any of
  which may fail. Correct means: to its clients it is a registry in which the
  first writer of a name has it.
- **Identity and datasets.** Two-step writes to storage that may fail or be cut
  short, validation that decides what a later computation may throw on.
- **The pages.** Forms edited in any order, answers that arrive after the
  selection changed, tabs that write back what they read long ago.

## 2. Modules

| Module | Models | Notes |
|---|---|---|
| `FederatedRun` | one run: coordinator, N participants, channels, timers, faults | one action per event |
| `AbstractRun` | what a run promises, whatever the transport | `FederatedRun` implements it |
| `Membership` | pure functions on member list and status | operators only |
| `Consensus` | the rule by which votes decide | operators only; shared by the three ballots |
| `Governance` | network life, departures, expulsion, dissolution | EXTENDS `Membership`, `Consensus` |
| `Admission` | the application pipeline composed with `Governance` | EXTENDS `Governance`, whose other actions stay enabled |
| `Ballot` | one ballot, vote by vote | EXTENDS `Consensus` |
| `RunSession` | interval and budget over copies of the history | |
| `PresenceLease` | heartbeats and sweeps of several instances, query by query | |
| `Signaling` | sockets, reconnection timers, routing maps, presence | clients and server instances together |
| `PeerMesh` | offers, answers, channels, the map of peers | EXTENDS `Signaling`, over which its messages go |
| `DiscoveryApi` | the REST handlers, query by query, over the tables they share | implements `Registry` |
| `Registry` | what the API promises about names: the first writer has them | abstract, three actions |
| `Migration` | the copy from SQLite, row by row, beside the API | EXTENDS `DiscoveryApi` |
| `Specs` | when specs are valid, alone and together | operators only |
| `NetworkWizard` | the page that creates a network | EXTENDS `Specs` |
| `Datasets` | datasets for runs: storage, cells, validation, conversion | EXTENDS `Specs` |
| `DatasetPages` | the dataset pages over localStorage, in several tabs | |
| `Views` | the hooks that show a network | |
| `Identity` | initialize(), the identity hook and the settings page | |
| `Workers` | HeartbeatManager and InactivityMonitor | |
| `MC*` | model values, bounds and compositions for TLC | |
| `*_proofs` | theorems, one module per component | |

Composition. `Admission` extends `Governance`, `PeerMesh` extends `Signaling`
and `Migration` extends `DiscoveryApi`: each runs on the state of the module it
extends, whose actions stay enabled. `NetworkWizard` and `Datasets` use the same
`Specs`. The parts of the client that share no state (`NetworkWizard`,
`Datasets`, `DatasetPages`, `Views`, `Identity`, `Workers`) are put side by side
in `MCClient`, which explores each with the others at rest: their product would
only multiply the states. `Datasets` and `DatasetPages` are apart because the
code keeps them apart: the pages read and write localStorage themselves, under
keys that no `DatasetManager` looks at.

Modules hold some definitions marked as *faulty variants*. No action uses them:
each is a plausible slip in the code, and `PROJECT.json` ("mutants") pairs it
with the operator it would replace and the property that then fails. They show
that every property is sensitive to the code it is about.

### How state and actions correspond to the code

**FederatedRun.** JavaScript runs an event handler, and the continuations of the
promises it settles, without interruption: an action is one event with all it
triggers. `cPhase`/`pPhase` are where `coordinateNetworkRun` and
`handleIncomingRun`/`participateInRun` stand; `remaining` and `collected` are
the sets of the pending `waitForMessages`. A channel has two ends, each `open`,
`closing` (readyState has left "open", `send` throws) or `gone` (`onclose` ran,
the peer has left the map and the disconnect handlers were called).
`Reached` is the prefix of the participant list a broadcast visits before
`send` throws; `Broken` says whether it throws. `Loaded` is the moment the
dataset is there, after which READY_ACK and LOCAL_SUMMARY leave back to back.
Messages are their type: payloads matter to the arithmetic only. Faults are
classes a run may enable: `link` (a channel closes, or is missing from the
start), `crash`, `abort` (the user), `timeout`, `load` (the dataset), `singular`
(the regression throws). The timers are untimed: they may fire at any moment of
a wait, which covers every duration.

**Governance.** `members` is the list with one entry per admission. A call of
an engine function is an action and has the guards of that function, which are
few: anybody may be admitted (again, or while a member), sent offline, or vote,
in any status of the network. Only where the engine keeps a check in a function
of its own (consensus, capability, the minimum, a timeout) is the action guarded
by it, as the callers in the end-to-end tests are. A departure is `removeMember`
followed by `transition(Degraded)`, as in those tests; when that transition is
refused, its error leaves the state as the departure made it. Both timeouts may
strike at any time. `marked` is history: who was asked to re-acknowledge.

**Admission.** `applicants` has one entry per application. `WithStatus` maps
over all entries of a node and `FirstApplication` is the entry `find` returns,
as in the code. Nothing looks at an application's status or at the members
before it submits, votes, withdraws or accepts; approval, rejection and expiry
are guarded by the functions that decide them (`checkApprovalConsensus`, the
timeout checks, the worker). `AcceptContract` is the rewriting of the entries
and Governance's `Admit`, that is `addMember`.

**RunSession.** `known[n]` is n's history, `sessions` the pending calls with the
copy each was given; a completed call hands its copy back, a failed one
nothing. `ran` is history: what really happened. The id of a run stands for the
order of initiation.

**PresenceLease.** `left` is `lease_expires_at - now`; `age` is how long ago the
call read its `now`. A call is a sequence of queries: read, upsert, log; or
select, then mark and log each row found. `silence` is history.

**Signaling.** One record per WebSocket holds it as its two ends see it: `cl`
for the browser's events, `sv` for the server's. `ws` is `this.ws` of a client,
with `Stale` for a reference to a socket that has closed; `timers` counts the
reconnection timers that are pending and `armed` says whether `reconnectTimer`
still refers to one, because a failed reconnection schedules two and
`disconnect()` clears the one it knows. `clients` is the routing map of each
server instance, keyed by node. A socket closes at the server by `error`,
`close`, or both in turn, and `handleDisconnect` runs each time. A socket both
ends have forgotten frees its identifier, so that executions are unbounded over
a bounded set of sockets.

**PeerMesh.** An attempt is one call of `connectToPeer`; its ends are the states
of the two `RTCPeerConnection`s and of their channel. A message goes up the
sender's socket and down the receiver's, in any order, and is lost where the
code drops it: no open socket, no route. ICE candidates are left out, so whether
an end opens is a choice. `peers` is `this.peers`; the close of any channel of a
peer deletes the entry by peer id, as `onclose` does.

**DiscoveryApi.** `db` is the tables by primary key, with the value of the
column the handlers look at, and two bookkeeping fields for who wrote it. A
request is at a `step`, which names the query it is about to await; any query
may fail (500), and an instance may die with a request half done. `INSERT`
without `ON CONFLICT` is a guard, the primary key, and the failure to meet it is
`Fail`. The bodies are those the zod schemas let through.

**Migration.** The tables in the order of the script, one row a query; the catch
around each row notes the error and goes on; the script may die and be started
again, while the API serves.

**NetworkWizard.** `draft` is the reducer's state, `creation` the drafts that an
awaited `handleCreate` closed over. The templates and the spec editors are
values of the inputs, and a field is kept as its name, its type and whether its
extra inputs fit. Removing a field prunes what referred to it (`Pruned`), as the
reducer does.

**Datasets.** A cell is its kind, since that is what the validator and the
conversion tell apart; `code` is a number that an enum may list, since the
validator compares `String(val)`. Import is two awaited writes, deletion two
others, each may reject, and the client may close between them.

**DatasetPages.** Three localStorage keys; `setItem` may throw after any of
them; `list` is React state that a tab read once and writes back.

**Views.** `asked` is the requests awaited; nothing cancels them, and any of
them may be answered next. `hook` is which hook of the file it is: with a
`refresh()`, which sets `loading` again (`useNetworkDetail`); `useEvents`, which
asks for its mock events when nothing is selected, and clears nothing; or one of
the others, which then clear. A selection stands for all that an effect depends
on (two identifiers in `useRunDetail`). `overtaken` is history: the question
asked last was answered before one about another selection.

**Identity.** One action per await of `initialize()`; `at` is where each call
stands, `callers` the calls the page on show is waiting for.

**Workers.** Interval callbacks as actions that may run at any time after the
start; `told` is the last handler called for a peer.

## 3. What is checked

Ten runs verify; two refute what a comment says. Together the verifying runs
take every action and every disjunct of their next-state relations.

| Run | Instance | States | Shows |
|---|---|---|---|
| `federated_safety` | 2 participants, all fault classes, fair | 277,862 | `ResultIncludesEveryone`, `ResultAgreement`, `AbortedRunNeverDistributes`, `RunSettles`, `ImplementsAbstractRun` |
| `federated_calm` | 1 participant, all faults but timeouts, fair | 529 | `CalmRunCompletes` |
| `governance_safety` | 3 nodes, 3 entries, an expulsion and a dissolution open together | 470,111 | `MarkedMembersReAcknowledge`, `CapableWhenActive`, `EndingsAreFinal` |
| `admission_join` | 3 nodes, 2 applications, 3 entries of the member list | 212,041 | `FullVoteDecides`, `OverdueIsUnsettled` |
| `runsession_members` | 2 initiators, clock to 6, 4 runs, interval 1, 2 runs per 3 | 294,863 | `OwnIntervalEnforced`, `OwnBudgetEnforced`, `HistoryComplete` |
| `presence_safety` | 1 node, 2 instances, lease and delay 2, 1 crash, fair | 313,618 | `SilentNodeIsOffline`, `LeasedNodeIsLogged`, `ExpiredLeaseIsSwept` |
| `ballot_exact` | 1 to 10 members, thresholds 1, 3/4, 2/3, 3/5, 1/2, 0 | 1,710 | `RejectedIffHopeless`, `VerdictIsFinal` |
| `peermesh` | 2 nodes, 1 server, 3 sockets, 2 attempts, 2 timers | 492,164 | `LostClientRetries`, `RoutesAreLive`, `NoGhostPeers`, `ListedChannelIsOpen`, `SoleChannelIsListed` |
| `discovery` | 3 requests of 2 nodes, 2 old rows and an event, 2 runs of the script | 211,091 | `FirstCreateWins`, `CreatedNetworkIsComplete`, `OneAdmissionEvent`, `CleanMigrationIsComplete`, `ImplementsRegistry` |
| `client` | 2 fields and 3 schedule entries; 1 dataset; 3 files in 2 tabs; 3 networks; 3 calls; 2 peers, clock to 5 | 329,290 | `OnlyTypesBlockCreation`, `CreatedIsUsable`, `ScheduleCoversOnce`, `SuccessfulImportIsWhole`, `ValidReportIsComputable`, `SettledShowsSelected`, `UnlistedByStaleTabOnly`, `KeypairIsKept`, `SilenceIsReported` |

What the newer properties say, and why they could fail:

- `LostClientRetries`: sockets may fail in any order, before or after they open,
  with an older socket's `onclose` coming after a newer one was made, and
  `disconnect()` clears timers. `RoutesAreLive` and `NoGhostPeers`: entries are
  overwritten by a reconnection and deleted by a late close, both by node id, and
  `handleDisconnect` runs twice for a socket that errors.
- `ListedChannelIsOpen`: offers cross, a second attempt overwrites the first, and
  its close deletes the entry. `SoleChannelIsListed` is what remains true of the
  other direction; that every open channel's peer is listed is refuted.
- `FullVoteDecides`: a request is ruled on by the votes of the node's oldest
  application, which may have been settled before any present member joined. It
  cannot hang on that: a vote is recorded on all applications of the node, so the
  oldest has every voter of a later one, while members join, leave and go
  offline. Its premise is an electorate without duplicates and a schedule with an
  entry for its size; without the former it is refuted (`AllVotesInDecides`).
  `OverdueIsUnsettled`: `checkApprovalTimeout` looks at the oldest application
  and `expireApplication` rewrites all of them; when the oldest is pending, no
  later one was ever settled. Of the worker, which looks at each, it is refuted
  (`AcceptedStaysAccepted`).
- `OwnIntervalEnforced`, `OwnBudgetEnforced`: where any member may initiate runs,
  the policy as written is refuted (`IntervalBetweenRuns` below); these say what
  each node's checks do enforce, on its own runs, while others' runs complete
  between its check and its own completion, in any period however the window
  lies across its runs. With `creator_only` they are the policy as written
  (`CooldownEnforced`, `BudgetEnforced`, proved from them).
- `FirstCreateWins`, `OneAdmissionEvent`: every handler looks a row up and
  inserts it in separate queries. `CreatedNetworkIsComplete`: no transaction
  covers a creation. `ImplementsRegistry` says it at the level of what clients
  see: three atomic actions, with no lost or shared name and no wrong "conflict".
- `CleanMigrationIsComplete`: rows fail one by one, under a foreign key, while the
  API inserts the same keys.
- `OnlyTypesBlockCreation`: whatever the order of edits, when all steps are valid
  the review page is never blocked by a name that no longer exists, only by the
  type of a chosen field. `CreatedIsUsable`: the form stays editable while the
  creation is awaited. `ScheduleCoversOnce`: the form's validation of gaps against
  the definition of covering, over every schedule the inputs reach.
- `ValidReportIsComputable`: the validator's rules per type against what the
  conversion throws on, for every cell kind of a column, with rows that may be
  gone when the run reads them. It needs `report.seen > 0`: without rows the
  report is valid and the statement refuted (below).
- `SettledShowsSelected` holds for answers in any order, reordered ones included,
  with one exception that it names: the question asked last is answered before
  one about another selection (`overtaken`). Without the exception it is refuted.
- `UnlistedByStaleTabOnly`: the only way a dataset disappears from the index while
  its pages are there is the known one. `KeypairIsKept`: a crash at any await, or
  a failed write, makes no later call replace the stored keypair; only calls that
  overlap do.
- `SilenceIsReported`: the set of peers last reported stale, against the
  timestamps, with delayed heartbeats and a stopped interval.

Bounds, and why they are enough:

- `N = 2`: the hazards of a run are between two participants (one slower than
  the other, one reached by a broadcast and one not). `AbortNotifiesAllPeers`
  needs three: one closed and removed, one closing, one connected. The proofs
  cover every N.
- Three nodes with a minimum of two, `MaxEntries = 3`: enough for a departure to
  leave the network above, at and below the minimum, and for a node to be
  admitted a second time, or twice (the list then holds two entries of it).
  `MaxExpulsions = 1` allows an expulsion of the second target after the first
  was executed. The proofs cover any number of nodes, entries and proposals.
- `admission_join`: two applications of one node, an older and a newer one, as no
  function relates those of different nodes (`OneApplicant`). `MCAdmission` names
  three more bounds: while there are applications the network is active or
  degraded and nobody is offline, which rulings count as active
  (`ActivatedNetwork`); voters are or were members (`VotersAreListed`); one status
  stands for the ways to fail, which nothing tells apart (`OneWayToFail`). The
  proofs need none of them.
- `Lease = MaxDelay = 2` ticks: a call may last as long as the lease it
  writes; with two instances a call of each overlaps any call of the other. One
  node: leases of different nodes share no state but the sweep's list, which the
  proofs (over any set of nodes) cover.
- `runsession_members`: `MaxTime = 6` is two periods of the budget, so a window
  may lie anywhere across them; `MaxId = 4` allows one node three runs, more than
  a period's budget, beside one of the other. The proofs need neither bound.
- `peermesh`: three sockets are two of one node (an old one the server still
  holds, and its successor) and one of the other; two attempts cross or follow
  each other. `MCPeerMesh` names four more bounds: presence is explored while
  nobody has dialled (the mesh sends none), `FewSockets` and `FewTimers` keep the
  third socket to where somebody joined and the second timer to where nobody
  has, `OneObserver` gives the second node one socket there, and `OneNodeCutOff`
  lets one node at a time be without a socket once somebody has dialled. The
  proofs need none of them and cover any number of nodes, instances, sockets and
  attempts.
- `discovery`: `FewAtOnce` lets two requests of any kind run beside the first
  run of the script, one beside the second, and three that claim names without
  it. The proofs cover any number of requests and of runs.
- `client`: one form at a time departs from its defaults (`OneFormAtATime`), as
  the cross checks look at two forms at most; two field names are enough for a
  clash, a dangling reference and a swap; three schedule entries for a gap, an
  overlap and an order of their own. Contents are all pairs of cell kinds in a
  column. The two workers share no state but the clock, and `OneWorkerAtATime`
  starts one at a time; `Workers` itself interleaves them, and so do its
  proofs. Three calls of `initialize()` are two that overlap and a later one.
  `MaxTime = 5` is two thresholds and a delay.

Symmetry is used only in runs without liveness, over the nodes other than the
creator, or over requests, sockets and attempts, which no definition tells apart.

Deadlock is not checked where the system may stop: a run that has settled, a
network that is archived, a ballot that is decided, a clock at its bound,
requests that are all answered, attempts that are all used.

**Fairness.** `FederatedRun`: the runtime delivers what has arrived, a pending
timer fires, a dataset read settles, and a channel closed at one end closes at
the other (`onclose` is always called). No fairness on user aborts, on the
start of a run, on crashes or on faults. `RunSettles` needs the timers: without
them a node can wait for ever, as the code's own use of timeouts says.
`CalmRunCompletes` is stated of runs that meet no fault, with the timers off,
since an untimed timer may fire however short the wait. `PresenceLease`: the
clock runs, `setInterval` fires and queries return; heartbeats are never fair, a
node may fall silent at any time. A crashed instance restarts with no call in
progress. `NetworkWizard`: an awaited creation settles; only the refutation of
`NoticeIsKept` uses it. `Signaling` and `PeerMesh` have no fairness: nothing in
the code makes a lost offer be sent again, so no connection is promised.

### Refuted statements

Each is stated from the quoted line and violated by what the code does. In
`PROJECT.json` as findings:

| Run | Statement | What happens |
|---|---|---|
| `federated_respond` | `waitForMessages` "returns the collected messages once all expected peers have responded" | The handler of the pending wait drops messages of another type. A fast participant's LOCAL_SUMMARY arrives during the READY_ACK wait for a slower one, is dropped, and the second wait can only time out, although everybody has responded. It takes no fault, only two participants. |
| `presence_renewal` | "only sweep leases that are actually expired" | A heartbeat between the sweep's SELECT and UPDATE is undone. |

The modules state more of what documents, comments and pages say, or of what a
reader would expect, and these also fail. Each `*_refuted.cfg` lists those of
its module; keep one at a time to see its counterexample.

| Configuration | Property | What happens |
|---|---|---|
| `MCFederatedRun` | `MidRunDisconnectAborts` | A channel that closes while the participant loads its data is noticed by nobody; it waits for the timeout. |
| | `AbortNotifiesAllPeers` | `send` on a closing channel throws, nothing in the loop catches it, later participants are not told and the local listeners are not called. |
| `MCGovernance` | `EveryoneReAcknowledges` | A member offline at the departure, or any member at a second departure during degradation, is not asked. |
| | `StatusFollowsMap` | `executeDissolve` writes the status without `transition`: archived becomes dissolved. |
| | `TargetVoteDoesNotCount` | The target's vote is in the numerator though the target is not in the electorate. |
| | `ActiveMembersMayPropose` | A readmitted member is looked up by its departed entry. |
| | `DissolutionIsUnanimous` | "unanimous among current active members": votes of members that left, or of nodes that never were members, still count. |
| | `DepartedRecordIsKept` | `removeMember` maps over every entry of a node: when a readmitted member is expelled, the record of its earlier leaving says "expelled" too. |
| `MCAdmission` | `MemberOnce` | `acceptContract` for an accepted node appends it again, and `addMember` asks nothing. |
| | `AcceptedStaysAccepted` | A member that applies once more and withdraws, or whose new application expires in the worker's tick, loses the record of its acceptance: all its entries are rewritten. |
| | `AllVotesInDecides` | "all votes are in": a member listed twice counts twice in the electorate and votes once, so that they never are. |
| | `RejectedMeansImpossible` | "enough rejections that approval is impossible": those of nodes that are not members (any more) count, and reject what all members may still approve. |
| | `NewRequestRulesAnew` | An applicant that withdrew "must submit a new request", but `find` returns the first application: its votes decide the later ones. |
| `MCBallot` | `RejectedMeansImpossible` | For 0.8, `1 - 0.8` is less than 0.2: one rejection among five rejects. |
| `RunSession` | `IntervalBetweenRuns` | A participant's history never learns of the run; with any_member the interval is not enforced. |
| | `OneRunAtATime` | A pending run lives in one call's copy of the state. |
| `PresenceLease` | `SweptLeasesAreSkipped` | Two instances that select together both sweep and log. |
| `MCPeerMesh` | `OpenNodeIsRoutable` | The late close of an older socket deletes the routing entry of the newer one (`signaling-server.ts:190`): the node stays connected and unreachable. |
| | `DisconnectIsFinal` | A failed reconnection leaves two timers, `disconnect()` clears one, the other connects again. |
| | `OpenPeerIsListed` | The close of a first channel deletes the entry of the second (`peer-manager.ts:170`). |
| | `AnswerIsOwn` | An answer is matched by peer, not by attempt: the first is taken by every call that waits, and a later one by nobody. |
| `MCDiscovery` | `DissolutionIsPermanent` | README.md:251 "Dissolution is permanent"; `status/route.ts:17-23` takes any status whatever the row's own. |
| | `FromIsAccurate` | The logged `from` was read before the update; another change may come between. |
| | `CreationIsLogged` | A node that adds the creator first makes the creation fail at its own membership: 500, no event, and the network stays. |
| | `ManifestsAreTogether` | The spec manifests are read before the network manifest and stored in that order: a reader in between sees the latter without the former. |
| | `EventsAreMigratedOnce` | The event log has no key to conflict with: each run of the script logs the old events again. |
| `MCClient` | `ValidStepsAreCreatable` | Every step shows valid, and the creation is refused: types of chosen fields are checked at the end only. |
| | `ScheduleReachesMax` | No validation compares the schedule with the maximum of members: the last members have no threshold. |
| | `AcknowledgedIsCurrent` | An acknowledgement outlives edits made after it. |
| | `NoticeIsKept` | `page.tsx:197-200` promises a later registration; nothing is stored and nothing tries again. |
| | `FailedImportLeavesNothing` | The catalogue entry is written first; if the rows fail, it stays. |
| | `AnyValidReportIsComputable` | A dataset whose rows are gone is valid, having no row that is not, and the conversion throws once they are there again. |
| | `ValidHasItsRows` | The report of a dataset whose rows were never stored is "valid". |
| | `ImportedIsListed`, `ListedOpens` | The list page writes back the list it loaded; and a full storage leaves the index without its pages. |
| | `SettledShowsSelectedAnyhow`, `LoadedIsCurrent`, `NothingSelectedNothingShown` | Answers are not cancelled: a late one of an earlier selection is shown for the current one, or for none, and hooks without `refresh()` do not set `loading` again. |
| | `ShownIsStored`, `PairHasItsIdentity` | Overlapping `initialize()` calls each generate a keypair and the pages show different ones; a call cut short leaves a keypair whose identity record is missing or another's. |
| | `RecoveredIsFresh` | A heartbeat with an old timestamp is reported as a recovery of a peer that is still overdue. |
| | `ExpiryMeansInactive` | The monitor closes over the state it was started with and reports networks that have been active since. |

## 4. What is proved

All for arbitrary constants under the named ASSUMEs of the modules, which TLC
evaluates on the instances. Nodes, instances, sockets, attempts, requests, tabs,
peers and files are any sets; bounds are naturals; N is positive; thresholds are
fractions in 0..1; bodies are any that the schemas let through; the values that
stand for null, for no time and for nobody are distinct from what they stand
beside (`NoneAssumption`, `SocketAssumption`, `WorkersAssumption`, ...). Three
assumptions say more, each about inputs: `WizardAssumption`, that the built-in
templates are drafts the forms could have made (features and target are fields,
lists within bounds; `MCClient`'s are, and so is each template of
`pacct-specs/src/templates/index.ts`); `ContentsAssumption`, that a file's rows
have a cell for each of its headers; `SpecificationsAssumption`, that a schema is
a list of typed fields. No theorem rests on fairness.

| Module | Theorems | Argument |
|---|---|---|
| `FederatedRun_proofs` | `TypeCorrect`, `ResultsIncludeEveryone`, `ReadyIsABarrier`, `ResultsAgree`, `AbortIsFinal`, `RunImplementsAbstractRun` | Inductive invariant `IInv` |
| `Governance_proofs` | `TypeCorrect`, `MarkedReAcknowledge`, `ActiveIsCapable`, `DeparturesAreFinal`, `DissolutionsAreFinal`, `EndingsLast` | `MarkedInv`; lemmas on the list operators |
| the same, on `Admission` | `AdmissionKeepsGovernance`, `ApplicantsTypeCorrect`, `FullVotesDecide`, `OverdueIsNeverSettled` | `LaterFollows`; every step is one of Governance or a stutter |
| `Ballot_proofs` | `TypeCorrect`, `RejectionsAreRight`, `VerdictsAreFinal` | monotony of the products compared |
| `RunSession_proofs` | `TypeCorrect`, `HistoriesAreComplete`, `OwnIntervals`, `OwnBudgets`, `MembersShareBudgets`, `SingleInitiatorCooldown`, `SingleInitiatorBudget` | `SessionInv`, `BudgetInv` |
| `PresenceLease_proofs` | `TypeCorrect`, `SilentNodesAreOffline`, `LeasedNodesAreLogged` | `LeaseInv`, `LoggedInv` |
| `PeerMesh_proofs` | `SignalingTypeCorrect`, `ClientsRetry`, `RoutesStayLive`, `NoGhosts`; `MeshTypeCorrect`, `ListedIsOpen`, `SoleChannelListed` | `TimerInv`, `ServerInv`; `OfferInv` |
| `Migration_proofs` | `MigrationTypeCorrect`, `TheFirstCreateWins`, `CreatedIsComplete`, `AdmissionsAreLoggedOnce`, `CleanMigrations`, `ImplementsTheRegistry` | `ApiInv`, `ScriptInv`; step refinement |
| `Client_proofs` | `KeypairsAreKept`; `SilencesAreReported`; `StaleTabsUnlist`; `SettledViewsAreCurrent`; `WizardTypeCorrect`, `ReferencesAreFields`, `CreationsAreUsable`, `SchedulesCoverOnce`; `ImportsAreWhole`, `ValidDatasetsCompute` | `KeypairInv`, `SilenceInv`, `LatestInv`, `WizardInv`, `DatasetsInv`; least elements |

- **IInv.** `ResultIncludesEveryone` is not inductive: it says nothing of results
  in flight, nor of a wait half done. `ResultInv` ties results on the wire to
  `decided`; `SummaryInv` says collected summaries were sent and that the second
  wait accounts for everyone (`collected` with `remaining`); `BarrierInv` says
  an acknowledgement on the wire comes from a participant that has begun.
  Channels are sequences, so the lemmas `CarriesAppend`, `CarriesTail` and
  `CarriesHead` say what sending and delivering does to "carries".
- **Refinement of a run.** `contributed` is `sent`; an outcome is the phase seen
  as pending, result or error. Each step maps to one `AbstractRun` step or a
  stutter; completing needs `decided`, which `IInv` supplies.
- **MarkedInv.** A marked member has a *pending* entry until it re-acknowledges,
  because `setMemberOffline` touches active entries only; and reactivation
  requires that no entry is pending. The mutant drops exactly that guard.
- **ActiveIsCapable.** Each departure leaves the network not active
  (`DepartIsNotActive`); every other step of an active network keeps or enlarges
  the set of living entries (`RestatusLiving`, `LivingMonotone`).
- **LaterFollows.** Both properties of admission follow from what holds between
  any two applications of a node: the later one has the status of the earlier
  unless it is still pending, and no voter the earlier lacks, because every
  function writes to all of them and a new one begins pending and without votes.
  Hence a pending first application has none but pending ones after it; and a
  full vote on any is a full vote on the first, whose approvals and rejections
  then number at least the electorate's entries (which needs that these are
  entries of different nodes), so that the last case of the rule applies.
- `AdmissionKeepsGovernance` carries Governance's theorems over: a step of the
  composition is one of Governance or changes none of its variables.
- **SessionInv** needs one assumption, that no node's own calls overlap
  (`~Overlapping`): then the history of each initiator is exactly its runs that
  happened, a pending run works on that very history, and has waited out the
  interval after each run in it. Nothing is assumed of the number of initiators,
  of the interval, the period or the cap. The policy as written follows when one
  node alone initiates (`Initiators = {i}`, the policy `creator_only`); without
  either assumption it is false (see the refuted ones).
- **BudgetInv.** The cap is checked when a run starts, over a window that ends
  there, and promised of every window. A run that completes adds itself to the
  windows that hold its start; in each of these, every other run of the node
  started earlier and no more than a period before, so it is among those the
  check counted, and they were fewer than the cap (`WindowWithRun`). Hence the
  strengthening: for a pending run the check still holds, of its own start time,
  however much later it completes. What is left of the cap for a network with k
  initiators is k times it (`MembersShareBudgets`): numbering each node's runs in
  the window maps them one to one into initiators times the cap (`OfEachKind`).
- **LeaseInv.** A lease is bounded by the silence since the latest heartbeat, and
  so is any lease a pending write will set, however old the call.
- **LoggedInv.** A row appears under a call that had found none, which for that
  reason goes on to log the node. A call that will log nothing has found a row,
  and a sweep only holds nodes with a row; rows stay, so neither can be the one
  under which a row appears.
- **Signaling.** `LostClientRetries` says of a stale reference that a timer is
  pending; a timer may vanish by firing, which replaces the reference, or by
  `disconnect()`, which drops it, and `TimerInv` adds what the latter needs:
  `reconnectTimer` refers to a pending timer. `NoGhostPeers` needs `SeesInv` (only a
  joined socket is told of anybody, and never of its own node) and `FreshInv` (a
  socket without a server end is in no network), because an identifier is used
  again, and because the announcement of a departure skips the departed node's
  own entry.
- **Mesh.** A listed channel is open because its entry is written by the opening
  of its end and deleted by the closing of any end to that peer; the converse,
  for a sole channel, needs that no end opens twice, hence that an offer is
  answered once: `OfferInv` says that an offer on the wire is the only one of its
  attempt and unanswered. `PeerMesh` changes no socket but by steps of
  `Signaling` without presence, so the invariants of `Signaling` carry over.
- **ApiInv.** Per request: `OrderInv` (the event is the last thing it stores, and
  it owns no row before its step "write"), `CreationInv` (from its first insert
  on, a creation owns the network, and what it has stored is still as it stored
  it) and `AdmissionInv` (whoever logs an admission has inserted its row); and
  `ManifestInv`, across requests: whoever wrote a manifest owns the network. The
  latter is what makes `CreationInv` inductive: a second creation cannot have
  come as far as the manifests. Any step of another request, or of the script,
  is reduced to `WriteStep` (it inserts rows of its own or overwrites values),
  under which the whole of it is kept (`WriteKeeps`).
- **ScriptInv.** A run without an error has, at each row it has passed, the row in
  the table; with `left` it becomes `CleanMigrationIsComplete` at the end.
- **Refinement of the API.** An arrival is `Ask`, an insert into the tables of
  names `Claim`, the last step `Tell`, all else stutters. That "conflict" is told
  of another's name only needs `OrderInv`; that "created" is told of one's own,
  `CreationInv` and `AdmissionInv`; that a creator may claim its membership,
  `CreationInv` again.

- **KeypairInv.** Any two calls of `initialize()` that are under way know of each
  other, and a call about to store a keypair either still finds none there or
  shares its time with the call whose keypair it overwrites. A reload or crash
  empties the set of calls under way, and no call survives it.
- **SilenceInv.** The set the checks compare with is that of the peers last
  reported stale, whatever handlers were called before; with the types of the
  times, each check and each heartbeat restores the equation.
- **StaleTabsUnlist** needs no invariant: among all steps of all tabs only the one
  that writes a tab's list back can drop an identifier from the index and leave
  its pages, and then that list never had it.
- **LatestInv.** Unless it was overtaken, the question asked last is about the
  current selection, or it is answered already and shown. Answers take any
  element out of the sequence, so the proof looks at whether that was its last.
- **WizardInv.** A chosen feature or target is a field of the draft, through every
  edit of names, types and fields in any order (`NamedIsTheField`,
  `ChosenAreFields`); what is being created passed both validations when the
  button was clicked, and is not the draft that goes on changing. With it
  `ReferencesAreFields` says that once all steps show valid the cross checks can
  fail by a type only, and `CreationsAreUsable` that what is registered is usable.
- **Schedules.** The form checks neighbours of the list sorted by minimum; the
  statement is about every member count. Along an ascending order without gaps
  minima and maxima ascend strictly (`EntriesAscend`). That each count lies in
  some entry (`EntriesCoverOnce`) takes the first entry that reaches it, by the
  principle of the least element (`LeastElement`, from well-foundedness of < on
  the naturals): the one before ends short of it, so this one begins at it or
  before. Two entries with it would have to be the same.
- **DatasetsInv.** A dataset is imported once, its catalogue entry before its rows,
  and nothing but a deletion takes them; so success means both are there, and what
  a report that saw rows has seen is what was read (`report.seen > 0`; nothing is
  proved of others). `ValidConverts` is about the two operators:
  a type the validator accepts, of a field a computation may choose, has only
  cells the conversion takes.

Model-checked only: liveness (`RunSettles`, `CalmRunCompletes`,
`ExpiredLeaseIsSwept`), which is beyond the prover. Every invariant and every
action property of the runs is proved. The type invariants are proved rather than
run.

## 5. What is not modelled

- The numbers: matrices, regression, fit statistics (floating point), ranges and
  statistics of columns. Whether the computation succeeds is a choice.
- Membership changes during a run: the participant list is fixed at the start,
  as in the code.
- The clock of timeouts and approval workers: timeouts may strike at any time.
  The warnings before an expiry only inform.
- ICE candidates; the `RTCPeerConnection` below its channel.
- Handlers of the API that read with a single query, visibility, aliases, hashes
  and signatures; connection pooling and start-up of the database; the drivers
  below the persistence adapters.
- Parsing of CSV and JSON, canonical JSON and hashing, cryptography, export and
  import of specs: stateless, and characters matter in them.
- `failRun`, `updatePresence`, `deletePresence` (nothing calls them), the
  computed stale state, the membership conditions of `canInitiateRun`.
- Layout, themes, toasts, skeletons, mock data, pages that only show.
- The client's `DiscoveryClient` against the API: it speaks of `PUT` where the
  handlers export `PATCH`, of `/presence/heartbeat` where the route is
  `/presence`, and of a creation without the `id` the schema requires. The two
  are modelled each by its own code (`Views` and `NetworkWizard`, `DiscoveryApi`);
  a call between them would be answered 404, 405 or 400 and be one of the
  failures the client's models allow.
- Nothing in the repository but tests starts the workers, and no page uses
  `DatasetManager`; `Workers` and `Datasets` model the classes as their tests
  drive them.

## 6. Plan

Done, in this order: `FederatedRun` with `AbstractRun`; `Consensus`,
`Membership`, `Governance`; `RunSession`; `PresenceLease`; `Ballot`;
`Admission`; `Signaling`, `PeerMesh`; `Registry`, `DiscoveryApi`, `Migration`;
`Specs`, `NetworkWizard`, `Datasets`; `DatasetPages`, `Views`, `Identity`,
`Workers`; proofs of every safety property of the runs.

Next, most important first:

1. A composition of `RunSession`, `Governance` and `FederatedRun`'s outcome:
   the participant list read before an `await`.
2. An abstract mesh that `PeerMesh` implements, on which `FederatedRun`'s channels
   rest.
