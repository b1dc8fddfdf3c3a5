# A TLA+ verification of 3x-node

This directory holds TLA+ models of the parts of the repository that carry its
own protocols, the TLC configurations that check them on small instances, and
TLAPS proofs of the properties that matter most for every instance.
`PROJECT.json` lists the components, runs, mutants, findings, hazards and
theorems, and maps every definition to the lines it models. Paths below are
relative to the repository.

## The system

The repository contains two programs.

**The leaf node** (`internal/node`, `cmd/3x-ui-node`) is an agent for small
machines. One process serves a master's commands over HTTPS, supervises one
Xray child process (the *core*), reads its traffic counters every five seconds,
enforces quotas and expiries, and keeps its whole state in one JSON file.

**The panel** (`main.go`, `internal/web`, `internal/xray`, ...) is the
multi-user 3x-ui panel: it keeps users, inbounds and nodes in a database,
supervises its own Xray, pushes configuration to nodes and merges their traffic.

### Leaf node: components, state, operations

| component | state it keeps | operations | what makes it correct |
|---|---|---|---|
| state file (`store.go`) | the state file, its `.previous`, a temporary file | `LoadState`, `SaveState`, `AtomicWrite` | an acknowledged save survives any crash; a crash never leaves a file that `LoadState` refuses; the old version is on disk before the new one replaces it; an error says what it means |
| core supervisor (`core.go`, `rpc.go`) | `cmd`, `done`, `conn`, `live`, `Generation` | `Apply`, `Stop`, `Running`, `Stats`; inside `Apply`: hot diff by RPC, restart, rollback | never two processes; what `live` says is what the process serves; `Generation` tells processes apart; a call comes back with one of a few results |
| agent (`node.go`, `serve` in `main.go`) | `state`, `baseline`, `generation`, `halted`, the mutex | `New`, `transaction` (all commands), `sampleLocked`, `Run`, `Restart`, shutdown | traffic is credited once and never invented; whoever is switched off is off the core; memory, disk and core agree between operations; an unclean stop is noticed; a dead core comes back; shutdown ends |
| state operations (`types.go`) | `State`: inbounds, clients, traffic rows, per-master totals | `SyncClients`, `Exhausted`, `PutInbound`, `ChangeClient`, resets | rows and client lists agree; an account shared by inbounds has one row |
| HTTP surface (`http.go`, `management.go`) | connection slots, one management slot | routing, authentication | slots are returned once; shutdown waits for handlers |
| the rest (`config.go`, `log.go`, `metrics.go`, menus, enrolment, doctor) | files, terminal | I/O | - |

How they interact: an HTTP handler or the sampling loop takes the agent's
mutex; under it the agent calls the core supervisor and the state file, in that
order. The core supervisor has no lock of its own: it relies on the agent's
mutex, and talks to the Xray process by gRPC and signals. What happens without
the mutex is done by Xray, by its users, by the clock, and by whoever kills a
process or the host.

What is hard: `Apply` succeeds and the save does not (or nobody knows); the
core is replaced, by a rollback or a recovery, between two readings of counters
that belong to one process; a kill between any two steps; an RPC that timed out
and was applied all the same; the recovery loop, which gives the mutex up for
its backoff; a shutdown that meets any of these.

### Panel: components

| component | state | hard behaviour | what makes it correct |
|---|---|---|---|
| serial traffic writer (`web/service/traffic_writer.go`) | queue, context, done channel under one mutex | submits overtaken by stops and restarts, a full queue | every caller is told the truth; nothing accepted is lost; nobody waits for ever |
| client and inbound operations (`web/service/client_*.go`, `inbound.go`) | inbound rows, one lock per inbound, deletion tombstones | a row loaded, changed and saved whole while others change it; the push after the commit | an edit is in the row and on the node, or marked for it |
| node configuration sync (`web/job/node_traffic_sync_job.go`, `web/service/node.go`, `inbound_node.go`, `web/runtime`) | `config_dirty` and its timestamp, fingerprints of pushed inbounds | an edit while a reconcile runs; a snapshot that predates a push; an answer that is lost | the node ends up with the last edit; a stale snapshot never undoes one |
| node traffic merge (`web/service/inbound_node.go`) | baselines per node and email | counters that go back, resets on either side, copies on several inbounds | traffic is added once |
| local accounting (`inbound_traffic.go`, periodic resets) | client rows | renewal, disabling | depleted clients are off, renewed ones on |
| Xray supervision (`web/service/xray.go`, `xray/process.go`, `web/job/check_xray_running_job.go`) | the process with the configuration it was started with, need-restart flag, manual stop, count of failed checks | an edit commits while a restart has read its configuration; API calls that fail after they took effect; who may start a core the operator stopped | the core serves the database or a restart is coming; a stop is respected; a crash is got over |
| websocket hub (`web/websocket`) and live data of a tab (`frontend/src/api`, `useInbounds.ts`, `useClients.ts`) | connections, throttle; query cache, one timer, "just invalidated" mark | lost, overtaken and merged signals; reconnects | a list is stale only for a known reason; one's own edit is shown |
| Xray settings editor (`frontend/src/pages/xray`) | the template under edit, the saved one | every deletion and renaming cascades by tag through outbounds, balancers, rules, dialers, observatories | references resolve; no rule loses its destination; no fallback circle |
| share links and forms (`frontend/src/lib/xray`) | - | conversions that are not each other's inverse | see Findings; not modelled |
| tunnel monitor, event bus, login limiter | small in-memory state | bounded queues, cooldowns, ceilings | see the plan |
| database, subscriptions, other pages, docs, installers | data | - | not modelled: data and rendering |

How they interact: handlers and jobs commit to the database, most of them
through the serial writer; after the commit they tell whoever runs the
configuration, the panel's Xray through its API or a node by a request, and
then the open tabs through the hub. Every one of these messages may be lost;
each has something that asks again (the need-restart flag, `config_dirty`, a
poll), and most of the properties below are about the two disagreeing.

## What is modelled

### `DurableRegister`, `NodeStore`: the state file

`NodeStore` takes `AtomicWrite` one system call at a time (temporary file, write,
sync, nested backup of the old content with a rename and a directory sync of
its own, rename, directory sync), with the error return of each. Names and
contents are kept twice, as the page cache and as the disk has them; a host
crash keeps an arbitrary set of what was not synced, a kill of the process
keeps the cache. Contents are version numbers. `Load` is `LoadState` with its
refusals.

`DurableRegister` is what the agent may rely on: a save is done, refused, or in
doubt until it is read again. `NodeStore` is shown to implement it
(`RegisterSpec`), with the register's value mapped to what a load would return.

### `CoreResults`, `CoreContract`, `NodeCore`: the core supervisor

`NodeCore` takes `Apply` one RPC or process operation at a time. An RPC
succeeds, fails, or fails after it took effect; a start fails before or after
its process exists; the process dies between any two steps. `CoreResults` is
the set of outcomes of a whole call, in terms of what a caller can see (up,
what it serves, what it would roll back to, whether the generation is new), and
`CoreContract` is the state machine of a caller that sees only these.
`NodeCore` implements it (`ContractSpec`), which is why `NodeAgent` may use
`CoreResults` for one step.

### `NodeAgent`: the agent

One action for each stretch of code between two points where something else can
happen: the environment (`Use`, `CoreDies`, `PassTime`, `Killed`,
`Terminate`) interleaves between them, while commands, samples, `Restart` and
the shutdown exclude one another by `pc`, the holder of the mutex. A save is
done, refused or in doubt (`SaveDoubt`); an `Apply` gives any of
`CoreResults`, after which the core may already have died. `Commands` is the
union of what `PutInbound`, `ChangeClient`, `DeleteInbound` and the resets make
of the state, with the `SyncClients` at the end of every transaction.

History variables only: `served` (what each account and the inbound really
used), `lost` (what no reading will ever credit) and, in the state,
`paid` (what resets and deletions cleared).

Abstractions: one inbound; Up and Down are one number, so are their counters;
an expiry is a small integer, negative for "from first use"; the per-master
totals, the display fields and validation are left out (a refused command is
`GoOn("free")` in `Edit`).

### `TrafficWriter`: the panel's serial writer

`submitTrafficWrite`, the writer goroutine, `StartTrafficWriter` and
`StopTrafficWriter` with the mutex, the channel and both `select`s of the code,
including the choice a `select` has when both cases are ready. The main
goroutine starts and stops it; submitters run only after the first start, as in
`web.go`. What a write does is left out.

### `NodeSync`: one inbound of a node

The panel's row and the node's copy of it, edited on both sides. The model
follows four parties, one action for each stretch between two database
transactions or requests:

| code | in the model |
|---|---|
| `AddInboundClient`, `Detach` and `DelInboundClientByEmail`: lock, load, transaction, push, `AdvancePushedInbound` | `LoadRow`, `Commit` or `CommitFails`, `PushClient`, `AdvancePushedInbound` of one of the `Editors`; `lock` is `lockInbound` |
| `Delete`: tombstone, then the same | `DeleteBegin`, `DeleteLoad` or `DeleteMissing`; `tomb`, `Expire` |
| `SetInboundEnable`, with neither lock nor writer | `LoadEnable`, `CommitEnable`, `PushEnable`, `RecordEnable` |
| `syncOne`: `ReconcileNode`, `ClearNodeDirty`, `FetchTrafficSnapshot`, `SetRemoteTraffic` | the actions of `Sync`, in that order, on the job's record `tick` |
| `config_dirty`, `config_dirty_at`; `pushedFP` | `dirty`, `dirtyAt`; `fp` |
| the node's own administrator; a restart of the panel | `NodeEdit`; `Restart`, which keeps the database only |

The serial writer shows as `~Merging` in `Commit`: a client edit's transaction
does not run inside a merge, the enable switch's may. A request is applied and
answered, neither, or (`LostAnswers`) applied without an answer. Whether an
edit is pushed at once or left to the reconcile (`nodePushPlan`: the node is
offline, or the edit too large) is open, and `LivePush = FALSE` leaves all of
them to it. `want`, the clients the panel was last asked for, is history.

Abstractions: a row is its clients and its enable switch, and its fingerprint
is the row; the flag and the row that `setRemoteTrafficLocked` reads, without a
transaction around them, are read at once; a request the panel has given up on
is not applied later. With one inbound a report without it is an empty one, so
the sweep of unreported inbounds (`inbound_node.go:808`) never applies.

### `NodeTraffic`: what a client has used on its nodes

One client, carried by one or more inbounds of each of several nodes.

| code | in the model |
|---|---|
| `client_traffics`, `node_client_traffics`, the settings of the node's inbounds | `row`, `base`, `central` |
| a node's cumulative counters, `reset_count`, the deadline in its statistics, its settings, which the statistics follow | `node`: `total - off`, `count`, `exp`, `set` |
| the payload of a push, and the fingerprint `AdvancePushedInbound` keeps of it | a pair of a deadline and the stamp of the edit: `central`, `pushing`, `fp` |
| the traffic, the node's administrator, its own renewals | `Use`, `NodeReset`, `NodeRenew`, `CatchUp` |
| an edit of the deadline: one transaction that marks the node dirty, then the push; other edits | `SetExpiry`, `PushEdit`; `OtherEdit` |
| `BulkResetTraffic`; `ResetClientTraffic` and its request to the node | `BulkReset`; `ResetClientTraffic`, `PassReset` |
| `syncOne`: reconcile, snapshot, merge | `Reconcile`, `Begin` or `Fetch` (`FetchFails`), `SetRemoteTraffic` |
| the loop over the snapshot's clients (`inbound_node.go:891-1081`) | `MergeCopy`, folded over the inbounds by `Merged` |

A unit of traffic has an identity, so that "added twice" can be said at all:
`row.used` is the set of units the row's counters stand for, and `seen`,
`twice`, `loose` and `owed` are history. The stamp stands for the client's
`updated_at`, which is part of the settings that are pushed and fingerprinted.
It matters: with the deadline alone a fingerprint could come back (A delivered,
the push of B lost, C pushed, back to A), the reconcile would skip a node that
has something else, and an old deadline of the panel's own would pass for a
renewal. `updated_at` counts seconds; two edits are taken to differ in it. Left out: the enable switch and the
quota, deletions and the sweep of inbounds, deadlines that begin with the first
connection, the totals pushed to other masters, the panel's own inbounds. The
copies of a client on the inbounds of one node show the same counters (the code
takes their maximum first). The reconcile is one step and a request that fails
has no effect: its races with edits, and lost answers, are `NodeSync`'s.

### `XraySupervision`: the panel's own Xray

`RestartXray` is taken apart at the points where something else can happen
(waiting for the mutex, configuration read, decision, hot apply or stop and
start). An edit commits, calls the core's API, and then sets the need-restart
flag if the call failed; the jobs that disable users also call `RestartXray`.
The configuration is the set of enabled users: the process has the set it was
started with (`snap`) and the one it serves (`core`).

Left out: saving the base configuration and the settings, the timeout of a
stop, the tunnel monitor's cooldown (its recovery is the operator's restart),
`restartXrayOnClientDisable` switched off, restarts of the panel.

### `XrayTemplate`: the settings editor

A state is the template under edit and the saved one; every action is one
confirmed form, deletion, drag or switch of the three tabs (outbounds,
balancers, routing), Basic Routing, the WARP dialog, the default reset, or a
save with its normalisation. `Loop(b)` stands for the tag `"_bl_" + b`.

Abstractions: a rule is its inbound, outbound and balancer; `roundRobin` is
`random`, which it behaves like; an outbound and a balancer never share a name;
a drag uses table positions; the JSON editor, imports, subscriptions' and
reverse proxies' tags are left out, and so are other administrators.

### `PanelLive`: what an open tab shows

Two lists, the inbounds page's and the clients page's, followed by the number
of the edit they show, from the handler's signals through the hub's throttle
and queues, the connection, the bridge with its one timer, to the queries and
their answers. `own` and `lost` are history. Left out: panics and shutdown of
the hub, pushes above its size limit, the other message types, hidden tabs, and
two requests of one list in flight (a refetch cancels the first).

## What the runs show

| run | bounds | result |
|---|---|---|
| `node_store` | 4 versions: two successful replacements, one with a backup of a backup, and a save after each kind of crash | types, `AckedSurvives`, `SnapshotNotRejected`, refinement of `DurableRegister` |
| `node_core` | 2 accounts, 2 skeletons, 5 processes: one call can use two, so several calls with all their rollbacks fit | types, `OneProcess`, `BeliefIsTruth`, refinement of `CoreContract`, `ApplyReturns` |
| `node_agent` | 1 account, a quota of 1 on it and of 2 on the inbound, 2 units of traffic, expiries of all three kinds, a clock that moves once between steps, all failures | types, `NeverOvercharged`, `Conserved`, `UncleanIsMarked`, `DiskMatchesMemory`, `SampleCutsOff` |
| `node_agent_live` | 1 unit of traffic, no expiries: control is what is left | `CoreRecovers`, `StopReturns` |
| `traffic_writer` | 3 submitters, queue of 1, 2 writers | `AnswerIsTruth` (with nobody abandoned), `StopDrains`, `CallsReturn` (every submit and every stop) |
| `node_sync` | edits left to the reconcile, no deletions: 2 clients, 1 of the node, 2 editors, 4 edits, 2 changes on the node, 2 failed requests, 1 restart | `EditSurvives`, `CleanMeansDelivered` |
| `node_sync_all` | every operation, pushes at once, lost answers: 1 client of each side, 2 editors, 2 edits, 1 change on the node, 1 fault, 1 restart | types, `Converges` |
| `node_traffic` | 1 node with 2 inbounds that carry the client, 3 units, 3 deadlines, 2 resets, renewals or edits | types, `CountedOnce`, `RenewalIsReal` |
| `node_traffic_twice` | same | violates `NoDoubleCounting`: finding 1 |
| `xray_supervision` | 1 user, 2 edits, 2 failing calls, 1 crash, 1 order | types, `DriftIsKnown`, `StopIsRespected`, `ComesBack` |
| `xray_template` | 3 outbounds, 3 balancers beside a fourth name, 2 rules beside the hidden ones, any 2 edits with saves between them, of the shipped template and of two with chained fallbacks | types, `DraftConsistent`, `LoopbacksWired` (with no circle), `OthersFallbackKept`, `DeletionLeavesNoBlackHole` |
| `panel_live` | the tab and one other handler, 2 edits, a queue of 2, 1 fault | types, `StaleOnlyIfLost`, `ClientsCatchUp`, `OwnEditShown` |

Why the bounds are enough. Two units of traffic give a credited unit beside one
that is read and not yet credited, or beside one used after the reading or past
the quota; the accounts and the inbound behave alike, so a second account adds
states and no new case (the proofs below drop the bounds for every property of
the accounts). Four versions let a save fail in every place
while the primary, the backup and the temporary file hold different versions. A
queue of one is full as soon as one write waits. In `node_sync` four edits give
an edit before, one during and one after a reconcile or merge, and one to put
the row back to what it was; two editors are one with the lock and one that
waits or does without it. In `node_traffic` two inbounds are one merge that
meets its own baseline, three units are one before a reset, one after it, and
one in the other direction; three
events with one node, and two nodes with three copies, one event and two units,
were run beside it and held. In
`xray_supervision` a restart looks at users one by one, so one user shows what
can happen to it. In `xray_template` a deletion cascades inside one edit, and
the chained templates already hold what several edits would have built. In
`panel_live` the third signal overflows the queue. Every mutant in
`PROJECT.json` is caught under these bounds.

Deadlock is checked in every run but two: when the edits and faults of
`xray_supervision` are used up and nothing is under way, and when the edits of
`xray_template` are, the system has come to rest.

### Fairness

`NodeAgent` (`FairSpec`): the holder of the mutex keeps running (`WF` on
`Holder`). A Go mutex hands itself to a waiter after a millisecond, and a
`select` with several ready cases picks any, so the sampling loop, which may be
passed over for a while, is not passed over for ever: `SF` on `FindDead` and
`BeginStop`. `SF_vars(Recover /\ eng'.up)` says that a core that is started over
and over is running one time: without it the claim would be about Xray and the
machine. Commands, kills and signals have no fairness.

`NodeCore`: the steps inside a call are weakly fair, each ends by itself or by
its timeout.

`TrafficWriter`: goroutines run, a write ends, and the mutex is granted to who
keeps waiting for it (`SF` on `Submit` and `StopReturn`).

`XraySupervision` (`FairSpec`): what holds the mutex of `RestartXray` goes on
(`WF`); the callers that wait for it are handed it (`SF` on `Begin`: a Go mutex
goes to whoever has waited a millisecond); the cron runs its jobs again and
again, skipping one that is still running (`web.go:509-518`); a begun edit goes
on. Crashes, faults, orders and edits have no fairness.

`PanelLive` (`FairSpec`): the tab is open and in front, so its timers go off and
it polls; handlers go on; a broken connection is tried again; requests are
answered (a fetch that fails instead is counted as a fault).

`NodeSync` (`FairSpec`): the job is started every five seconds and each of its
requests ends by itself or by its timeout (`WF` on `Sync`); an edit that was
begun goes on, for the same reason (`WF` on `EditGoesOn`); a tombstone expires
by the clock (`WF` on `Expire`). Edits, changes on the node, faults and restarts
have no fairness, and they are finite by their bounds, which is the premise of
`Converges`.

## Findings

1. **A frozen merge adds traffic twice**
   (`internal/web/service/inbound_node.go:1074`). `docs/architecture.md:356`
   says that node traffic is "merged with GUID-based baselines to avoid double
   counting after resets". A merge is frozen while the node is dirty or was
   pushed to in the same tick. If it finds one direction below its baseline (the
   node's counters were reset), it skips the update of the baseline, after it
   has added what the other direction has grown by. The same difference is
   added again for every further inbound of the node that carries the client,
   and in every tick until the node is clean, which a failing reconcile can
   put off for long (`node_traffic_sync_job.go:372-376` goes on with the traffic).
   Run `node_traffic_twice`. `CountedOnce` says that nothing else is ever added
   twice.

The models contain more behaviours that a maintainer should know of. No run is
given to them; most are why a property above is stated with the condition it
has.

Leaf node:

- A halted node starts its core again (`internal/node/node.go:298`): `Run`
  checks `halted`, releases the mutex for the backoff, and starts the core
  without checking again. A command whose save was in doubt in between has
  halted the node; from then on the core serves and no sample is taken.
- A half-applied update is what a later rollback restores
  (`internal/node/core.go:179`): `hot` edits `c.live` as it goes; if it fails and
  the rebuild fails too, `c.live` stays half-applied.
- The text of `ErrDurability` says that the replacement was completed
  (`internal/node/store.go:15`), but the nested write of the backup returns it
  before the primary has been touched (line 108). The register of
  `DurableRegister` therefore has a doubt that leaves the old value.

Panel and its nodes:

- While the serial writer stops, submitters that find its context cancelled
  write by themselves, beside its drain
  (`internal/web/service/traffic_writer.go:156`): `Inline` beside `Applied`.
- A fingerprint vouches for an edit the node no longer has
  (`internal/web/runtime/remote.go:557`): the reconcile holds no inbound lock and
  pushes the row from before an edit after the edit's own request has arrived;
  the edit then advances the fingerprint to its own row, the next reconcile
  skips it, and the merge adopts the node's row. `node_sync` leaves edits to the
  reconcile.
- A push that was applied and not answered leaves the fingerprint of the row
  before it; when the panel's row goes back to that, the reconcile sends nothing
  (`internal/web/runtime/remote.go:503`). `node_sync` has no lost answers.
- A deletion may never reach the node (`internal/web/service/client_crud.go:740`):
  a merge between the tombstone and the deletion proper takes the client out of
  the panel's row; the deletion then finds nothing to delete, and neither marks
  nor tells the node. `node_sync` has no deletions.
- Adding a client again does not withdraw the tombstone of its deletion
  (`internal/web/service/client_locks.go:94`), and for ninety seconds merges strip
  it from the panel's row.
- A merge overwrites the enable switch (`internal/web/service/inbound.go:1402`):
  its transaction does not go through the serial writer, so it can commit
  between a merge's reading of the flag and its write.
- The row that a merge creates drops the node's renewal count
  (`internal/web/service/inbound_node.go:939-950`), so a node that has ever renewed
  keeps a higher count than the panel's row: of the evidence for a renewal, only
  the later deadline is then left, and the check of the settings (line 984) is
  what keeps `RenewalIsReal`, as its mutant shows.
- Traffic that grows past the baseline after a reset is only counted beyond it:
  the clamp loses the rest. `NodeTraffic` claims that nothing is added twice, not
  that nothing is lost.

The panel's Xray:

- `ApplyPendingRestart` takes the need-restart flag
  (`internal/web/service/xray.go:1560`) before it calls `RestartXray(false)`, which
  looks at it: when the database is back to the configuration the process was
  started with, the restart is skipped. A client added through the API and
  deleted by a failing API call stays in the core. This is the second half of
  `DriftIsKnown`.
- An edit that commits after a restart has read its configuration, and calls the
  API of the old process, is missing from the new core, and no flag says so
  (`raced`).
- The node job drops its own request for a restart
  (`node_traffic_sync_job.go:135`); its forced restart, and the tunnel monitor's,
  undo the operator's stop.

Frontend:

- Deleting an outbound that empties balancer B removes B and leaves another
  balancer's fallback `_bl_B`; the next save puts the hidden rule back with the
  `balancerTag` B, which no longer exists (`balancer-loopback.ts:210`,
  `reference-cleanup.ts:152`), and "a dangling balancerTag stops Router.Init"
  (`reference-cleanup.ts:7-8`). `RulesResolve` is therefore about the rules that
  the operator sees.
- Removing WARP (`XrayPage.tsx:140`) and Basic Routing's direct outbound
  (`basics/helpers.ts:59`) leaves selectors, fallbacks and dialers that name it;
  renaming an outbound does not refresh the observatory's subjects; the rule form
  and the dialer offer the hidden `_bl_` tags.
- One 200 ms timer serves both lists (`websocketBridge.ts:20-31`), so a signal for
  the clients cancels one for the inbounds sent just before
  (`controller/inbound.go:174-175` above 5000 clients,
  `node_traffic_sync_job.go:235-236`). Nothing fetches the inbounds again: the query
  is never stale, does not poll, and a reconnect fetches nothing, although
  the hub's comment counts on "REST polling" (`hub.go:121`). The throttle drops the last push of a
  burst, and an older push may hide an administrator's own edit again.
- `outbound_subscription_job.go:46` invalidates "outbounds", which the bridge
  ignores.
- Share links, read and not modelled: a trojan password is encoded by the
  generator and not decoded by the parser; a hysteria password is not encoded;
  the parsers of vmess, kcp, shadowsocks and wireguard ignore parameters that the
  generators write or need (`frontend/src/lib/xray/inbound-link.ts`,
  `outbound-link-parser.ts`).

## What is proved

### `NodeAgentProofs`

For any set of accounts, skeletons, quotas, terms and bounds that satisfy
`AgentAssumption` and `ResultsAssumption` (the inbound is not an account,
quotas are natural numbers, terms are integers and 0 is one of them, the empty
configuration's skeleton is a skeleton):

- `TypeCorrect`: `Spec => []TypeOK`, from the types of every operator a step is
  built from (`AppliedResult` is the important one: a process that was kept was
  there before, and any other one is fresh).
- `UncleanMarked` and `DiskAgrees`, from the inductive invariant `Marks`. Neither
  is inductive: that the marker is on disk whenever the core is up needs to know
  that every state about to be installed carries it, that the core is down until
  `BootSave` and after `StopCore`, and that a rolled-back transaction leaves the
  disk where it was.
- `NeverOverchargedHolds` and `TrafficConserved`, from the inductive invariant
  `Books`: for every key, what the state accounts for, what has been read, what
  the running process has counted beyond that and what is lost add up to what
  was used; the baseline is at most what the process has counted unless its
  generation is new; and the state about to be installed is worth the old one
  plus exactly the reading. The bound on the disk is a conjunct of its own,
  because a save in doubt may leave the disk ahead of memory.
- `SampleLeavesNobody`: `Spec => SampleCutsOff`. The invariant `CutOff` says, of the
  time between a sample's `Apply` and its save, that the core admits only accounts
  that the state about to be installed has switched on; a successful `Apply`
  leaves the core with exactly what was asked for, or dead (`AppliedServes`).

`Marks`, `Books` and `CutOff` were checked by TLC as invariants before they were proved.

### `TrafficWriterProofs`

For any number of submitters, any queue size and any number of restarts:
`WriterTypeCorrect`, `AnswersAreTrue` (which includes that nobody is abandoned)
and `StopHasDrained`, all from `Inv`: the mutex is held exactly by whoever is sending, which is only
while a writer is set and not cancelled; a waiting caller's request is in
exactly one of three places (queued, in the writer's hands, answered); and a
writer ends only with an empty queue. The last two make the `select` on `done`
harmless: when it is chosen, the answer is already there.

### `NodeSyncProofs`

For any clients, editors, numbers of edits, faults and restarts, under
`SyncAssumption` and `NoRowAssumption`:

- `TypeCorrect`: `Spec => []TypeOK`. It includes that the inbound's lock is
  held exactly by the edit that will release it.
- `FlagCovers`: `Spec => FlagCoversEdits`, for every operation, with pushes at
  once and lost answers. The inductive invariant `FlagInv` says that the
  timestamp counts the committed edits and that a reconcile took the timestamp
  it will compare before it read the row it pushes; an equal timestamp then
  means that nothing was committed after the reading.
- `EditsSurvive` and `DeliveredWhenClean`: `Bulk` implies
  `Spec => []EditSurvives` and `Spec => []CleanMeansDelivered`. `Bulk` is the
  case of run `node_sync`: edits are left to the reconcile, requests that fail
  fail without effect, and clients are not deleted. It cannot be dropped:
  the notes on the fingerprint, on deletions and on tombstones above are what
  happens with pushes at once, with lost answers and with deletions. The inductive invariant `BulkInv` follows the
  panel's clients all the way round: row, payload of the reconcile, node,
  fingerprint, snapshot, merge. Neither property is inductive: that a merge
  may write needs to know that the node it read was clean and has not been
  pushed to since, which is true only because commits are kept out of a merge.

`TypeOK`, `FlagInv` and `BulkInv` were checked by TLC before they were proved.

### `XraySupervisionProofs`

For any users and any numbers of edits, faults, crashes and orders:

- `TypeCorrect`: `Spec => []TypeOK`, with the mutex of `RestartXray` held exactly
  while a restart is under way.
- `StopRespected`: `Spec => StopIsRespected`. The invariant `Stopped` is what makes
  it inductive: the stop is taken under the mutex, so that no restart is past
  `Begin` while it lasts, and `Begin` looks at it.
- `DriftKnown`: `Spec => []DriftIsKnown`, from the inductive invariant `DriftInv`,
  about every user that is not raced. `WantIsDb`: what a restart has read is
  the database. `CallsSayDb`: a call on its way to the core says what the database
  says, unless the process was started with that already. `Drifts`: a running
  core that differs, and whose configuration does too, will be told by a call
  that is on its way, or somebody asks for a restart: the flag, a waiting job, a job
  that holds the mutex, or an edit that is about to set the flag.

All were checked by TLC as invariants before they were proved.

### `NodeStoreProofs`

For any number of saves (`StoreAssumption`: the bound is a natural number, and
the two sentinels are no versions and differ), any failing call and any crash:

- `TypeCorrect`, `AckedSurvivesAll` (`Spec => []AckedSurvives`) and `SnapshotGood`
  (`Spec => []SnapshotNotRejected`), from the inductive invariant `StoreInv`. What
  survives a host crash is one of two contents, the one the process sees and the
  one on the disk, so the invariant speaks of both (`Entries`): each is a version
  some save wrote completely and no save was refused for (`Whole`). That is
  inductive only with the order of the calls: a temporary file is synced when it
  is renamed (`Temps`), the number of the save in progress is nowhere before its
  last rename (`NotYet`), and a primary the process does not see cannot come back
  (`Backed`). `Acked` is the acknowledgement.
- `StoreIsRegister`: `Spec => RegisterSpec`. Every step of a save is a step of
  `DurableRegister` or leaves it alone; the rename is where a save becomes
  doubtful, and the directory's sync where it is done.

### `NodeCoreProofs`

For any accounts, structures and number of processes, under `ResultsAssumption`
and `CoreAssumption`:

- `TypeCorrect`, `OneProcessAlways` (`CoreSpec => []OneProcess`) and `BeliefHolds`
  (`CoreSpec => []BeliefIsTruth`), from the inductive invariant `CoreInv`. `Belief`
  holds inside a hot update too, since `live` is edited with each RPC; the other
  conjuncts say, for each of the three ways a call can go (a hot update, the
  restart after one that failed, any other restart), what the call aims at, what
  it would roll back to and where between the old and the new configuration
  the engine may be.
- `CoreKeepsContract`: `CoreSpec => ContractSpec`. However a call goes, it ends in
  one of `CoreResults`, and between calls the engine changes only by dying. With it
  the agent's theorems, which take a whole call as one step, stand on the code of
  the call.

### `NodeTrafficProofs`

For any nodes, directions and numbers of inbounds, under `TrafficAssumption` and
`NoneAssumption` (a node has an inbound, bounds are natural numbers, there are
two deadlines, the sentinels are no values):

- `TypeCorrect`, and `CountedOnceAlways` (`Spec => []CountedOnce`), from the inductive
  invariant `TrafficInv`: the units of a node that were ever added are those below
  what its report starts from plus the baseline, or were added by a merge that
  kept its baseline. It says so of the node's present report and of the one a
  merge holds, which is older and does not know of the resets since.
- `RenewalIsRealAlways` (`Spec => RenewalIsReal`), from `TermInv`: a node that owes
  nothing has no later deadline than the row, when it is clean (`Clean`) and when
  its fingerprint says so (`Believed`); and a snapshot that a merge may take a
  renewal from is of the settings the node still has (`Fresh`), or shows no later
  deadline (`Old`). `Stamps` is why the fingerprint can be believed: no settings
  bear the stamp of an edit that has not been made.

A merge folds `MergeCopy` over the inbounds of a node. `MergedIsChain` takes the fold
apart into a chain of its intermediate sums, and `UpTo` goes along the chain by
the least number at which something could fail.

### `FrontendProofs`: `PanelLive`

For any handlers, queue size and bounds, under `LiveAssumption`: `TypeCorrect`, and
`StaleIsKnown` (`Spec => []StaleOnlyIfLost`), from the inductive invariant `LiveInv`. Its
core, `Tracked`, says that a list that is behind, and of which no loss was noted
since it was last answered, has in some place what will bring it up to date: a
fetch, a recent answer, the timer, a message in the queue, or a signal that a handler
has still to send. `NoneNewer` is needed beside it: nothing on its way is newer
than the server's list.

### `FrontendProofs`: `XrayTemplate`

For any tags, any bounds and tables of any length, under two assumptions.
`TagsAssumption`: the tags of outbounds, balancers and loopbacks are three
disjoint sets without the empty tag (both forms refuse a tag with the loopbacks'
prefix), and there are finitely many balancers' tags. `TemplatesAssumption`: a
session begins with a template that satisfies the properties, the hidden rules'
(below) included, and the shipped one has no rule without a destination.

- `EditorTypeSafe` (`EditorSpec => []EditorTypeOK`), `EditorConsistent`
  (`[]DraftConsistent`), `EditorSavesWired` (`[]LoopbacksWired`), `EditorKeepsFallbacks`
  (`OthersFallbackKept`) and `EditorDropsNoDestination` (`DeletionLeavesNoBlackHole`).

All five follow from `EditorInv`: the draft is `Kept`, what was saved is `Wired`. What
`Kept` adds to the properties is `HiddenRulesLead`: every hidden rule leads to the
balancer its loopback is named for and to nothing else, and its outbound is there.
`LoopbacksWired` is not inductive, and could not be made so on the draft, which may
lack a loopback until the next save; the invariant is what lets the normalisation
put it back without touching another row. `RulesResolve` says nothing of hidden rules, so
a cascade that broke them would go unseen without it.

The argument has four layers. Sequences: a deletion picks the positions it keeps
(`Picks`, `DropIs`), a drag takes one out and puts it back (`RemoveIs`, `InsertIs`), a move
rearranges (`Rearranges`); counting along such a correspondence (`BareBound`) shows that no
rule is left bare. Operators: `EnsureLoopbackIs`, `RemoveLoopbacksIs`,
`NormaliseIs`, `ApplyCleanupIs`, `OutboundRenamed`, `RelabelledIs` say what each cascade leaves.
Edits: each action does an `Edited` step (`AddBalancerDone`, ..., `SetDirectDone`), and
`Edited` relates the rows before and after by `Leads`, which is what `Reach` computes
(`ReachIs`). Circles: a set of balancers closed under the fallbacks is met by the
walk of `DetectCycles` from one of its own members (`CycleMet`), because the walk makes as
many rounds as there are tags, and it either is complete by then or has met one new
balancer per round (`WalkIs`); so a save that goes through has no circle (`NoCycle`).

The two modules of the frontend share one module of proofs and no variable.

The invariants of these five modules, too, were checked by TLC, at the bounds of
the runs or near them, before they were proved.

### Only model-checked

- Liveness (`CoreRecovers`, `StopReturns`, `ApplyReturns`, `CallsReturn`,
  `Converges`, `ComesBack`, `ClientsCatchUp`, `OwnEditShown`), because fairness and
  `ENABLED` are out of the prover's reach.
`FlagCoversEdits` and the writer's `TypeOK` are proved for every instance and no
longer run.

## What is not modelled

- Several inbounds of a leaf, accounts shared by them, renames, and the totals
  several masters report (`Globals`): planned as `NodeState`.
- A handler that outlives `srv.Shutdown`'s 25 seconds, and the deferred
  `core.Stop` that takes no lock: planned as `NodeHTTP`. `NodeAgent` starts no
  command after `Run` has returned.
- The removal of an inbound that a node no longer reports, several inbounds of
  one node in `NodeSync`, bulk edits and edits of a client's own fields other than
  the deadline.
- The quota and the enable switch of a client on a node, and when a node's
  verdict on it is stale (`inbound_node.go:241-252`).
- Two edits within one millisecond, which share a dirty timestamp, so that one
  reconcile can clear the flag of both (`node.go:1022`); and, in `NodeTraffic`,
  two edits of a client within one second, which share its `updated_at`.
- The panel's local traffic accounting (quota, expiry, renewal), the tunnel
  monitor, the event bus, the login limiter: planned.
- Contents of configurations, certificates, links and files; wording; logs; most
  of the frontend, which is forms, tables and the conversion of their values.
  That is the bulk of the repository's lines, so the modelled share of them is
  small: what is modelled is where several actors or several steps have to agree.

## Plan

Done: state file, core supervisor, agent, traffic writer, configuration sync of
one inbound, node traffic, the panel's Xray, live data and the template editor,
each with its proofs. Next, in this order:

1. In `NodeTraffic`: the quota and the enable switch, deletions and sweeps; in
   `NodeSync`: a second inbound, its creation and its sweep.
2. `NodeState`: the operations on a state with several inbounds and shared
   accounts, as operators checked over all small states, and `NodeHTTP`:
   slots, shutdown and the handler left behind.
3. Local accounting, `EventBus`, `TunnelMonitor`, `LoginLimiter`.
4. Share links: which fields survive generation and parsing.
