# Hulation: TLA+ models, model checking and proofs

Hulation ("Hula") is one Go binary that terminates TLS, proxies and serves
sites, collects first-party analytics into ClickHouse, runs a live chat between
visitors and agents, deploys static sites, and can run as a *team* of nodes
(Raft for configuration, CRDT gossip for visitor state, a relay for analytics of
nodes without ClickHouse). This directory models the parts of it in which
several processes, goroutines or nodes share state, checks them with TLC on
small instances, and proves with TLAPS that the safety properties of the passing
runs hold for all instances.

Run everything from this directory: `tlc -workers 2 -config X.cfg M` for a run,
`tlapm M.tla` for a module of proofs. `PROJECT.json` lists the runs, the source
lines behind every definition, a mutant of the code for every property, the
hazards and the theorems.

## 1. Inventory

### Modelled

| Part | Source | State | Operations | Talks to |
|---|---|---|---|---|
| Analytics relay | `pkg/relay`, `pkg/api/v1/relay`, `server/relay_boot.go` | ring in memory, bbolt overflow, batch in flight, backoff delay | Enqueue, Drain, Ack, Requeue; the drainer loop; RecordEventBatch | a peer with ClickHouse, by gRPC |
| Raft state machine | `pkg/store/storage/raft/fsm.go`, `cmd_codec.go` | `data.db` (bbolt), snapshots | Apply (put, delete, batch, CAS, CAS-create), Snapshot, Persist, Restore | hashicorp/raft (external) |
| Raft storage calls | `pkg/store/storage/raft/raftstorage.go`, `pkg/api/v1/storageproxy` | the caller's loop in Mutate; a proposal on its way | Mutate, CompareAndCreate, forwarding to the leader | the state machine, the leader by gRPC |
| Chat session | `pkg/chat/store.go`, `close.go`, `sweeper.go`, `service.go`, `server/chat_ws_*.go`, `pkg/api/v1/chat` | the newest row version in ClickHouse, the hub's closed flag, requests under way | start, connect, visitor and agent messages, join, take, release, three ways to close, the idle sweeper | the hub |
| Chat room | `pkg/chat/hub.go`, `server/chat_ws_visitor.go` | subscribers and their buffered channels, reader and writer goroutines | subscribe, takeover, replay, publish, deliver, leave | the session store |
| Chat router | `pkg/chat/router.go`, `server/chat_ws_control.go` | ring of ready agents, queue, unanswered assignments, timers | AgentReady, AgentGone, Enqueue, Ack, Decline, the 30 s timer | control sockets, chat start |
| Gossip | `pkg/gossip`, `pkg/api/v1/gossip`, `server/gossip_boot.go` | hybrid logical clock (memory), registers and high water (bbolt), pushes, exchanges | PutLWW, DeleteLWW, FlagBad, ApplyDelta, push, anti-entropy, tombstone sweep | peers, by gRPC |
| Alert evaluation | `pkg/alerts/evaluator`, `pkg/api/v1/alerts`, `pkg/store/bolt/alerts.go` | rule rows (replicated), the copies of a pass, the fire count | runDue, fire, write-back; CreateAlert, UpdateAlert, DeleteAlert | storage, ClickHouse, notifier |
| Report dispatch | `pkg/reports/dispatch`, `pkg/api/v1/reports`, `pkg/store/bolt/reports.go` | report rows, the SendNow queue, the send in progress | runDueReports, sendOne, advanceNextFire; create, update, delete, SendNow | storage, mailer |
| Site deployment | `sitedeploy/sitedeploy.go`, `sitedeploy/gitops.go` | work tree, root and root.old, commit marker (disk); builds and locks (memory) | TriggerBuild, executeBuild, deploySite, StartupBuildAll | git, Docker, the file system |
| Leadership priority | `pkg/team/priority`, `server/priority_boot.go` | a replicated flag per node, the leader | refreshOnce, evaluateTransfer | Raft storage, hashicorp/raft |
| Device pairing | `server/pair_handlers.go`, `pkg/store/bolt/paircode.go`, `devicekey.go` | code rows, device keys, a redeem request's rounds | issue, redeem (Consume), revoke | Raft storage |
| Change feed | `pkg/store/storage/raft/informer.go`, `local/informer.go` | watchers, their channels, the RWMutex | Watch, publish, unsubscribe, shutdown | the state machine, consumers |
| Service start | `server/run_unified.go` | which services run | RunUnified | all of the above |

What makes each of them correct, and hard:

* **Relay** — at-least-once delivery with a bounded queue. Enqueue runs between
  any two steps of the drainer; the receiver inserts row by row without a
  transaction, so failed, timed-out and half-done calls repeat rows; a crash
  loses the ring but not the file.
* **Raft state machine** — replicas must agree. The state machine has a file of
  its own that survives a restart while raft starts again from its last
  snapshot, and a snapshot is copied later than its label says.
* **Raft storage calls** — read-modify-write on a replica that may lag, a CAS on
  a leader that may change, answers that are lost although the entry commits.
* **Chat session** — an update is a read, a change in memory and an insert of
  another row version, with no lock between them; the closed flag lives in the
  process and dies with the room or a restart.
* **Chat room** — four goroutines around one channel, takeover in four steps,
  a send after the lock is released.
* **Chat router** — a timer that fires while the agent answers, timers that are
  cancelled too late, an agent that leaves with unanswered assignments.
* **Gossip** — physical clocks that differ, pushes lost or overtaken, replies
  cut at a limit, a clock that starts over after a restart.
* **Alerts** — a row is listed, evaluated and delivered, and then written back
  whole; administrators write the same row in between. A cap per pass must not
  starve a rule.
* **Reports** — one goroutine sleeps through its retries; the row it writes back
  decides whether the report is ever sent again.
* **Site deployment** — two renames that are not one step, a startup build that
  goes around the lock, a marker that decides what the next start builds.
* **Leadership priority** — flags that outlive the node that set them.
* **Device pairing** — a function with side effects inside a retry loop, over a
  replica that lags.
* **Change feed** — a channel that two parties may close and several send on.

### Not modelled (the reason of each is in PROJECT.json)

Local storage and its bucket router, Raft bootstrap and transport, membership
and team PKI, readiness, bad-actor detection, OPAQUE/OIDC/TOTP login, tokens and
the permission cache, notifier and push, the ad-platform forwarder, the realtime
hub, build agents, backend containers, staging sites, dynamic DNS, the unified
listener and proxy, visitor tracking, forms and landers, analytics queries,
administration APIs, chat encryption, chat start/resume tokens and rate limit,
schema migrations, command-line clients, configuration and logging, the web
interface. Those that keep state of their own and are more than one transaction
are in section 8.

The greater part of the 117,000 lines of implementation is not protocol at all:
code generated from the API definitions (`pkg/apispec`), configuration records,
command-line front ends, SQL text, HTTP and TLS plumbing, encodings. There is no
state machine in them to model, so the mapped lines stay a small share of the
repository however many of its concurrent components are covered.

## 2. Modules

| Module | Models | Extends / uses |
|---|---|---|
| `Relay` | outbox, drainer and receiver of one node | |
| `RaftFSM` | the state machine on every node, raft's log as a sequence | |
| `RaftStorage` | Mutate and CompareAndCreate calls | extends `RaftFSM`, implements `AtomicMutate` |
| `AtomicMutate` | abstract: what `storage.Storage` promises its callers | |
| `ChatSession` | one session, its row, hub flag and requests | |
| `ChatRoom` | goroutines and channels of one session's room | |
| `ChatRouter` | the router of one process | |
| `Gossip` | a team of nodes | |
| `Boot` | which parts a configuration starts | |
| `Chat` | hub and router of one server, side by side | extends `ChatRoom`, `ChatRouter` |
| `Replication` | raft state machine and gossip of one team, side by side | extends `RaftFSM`, `Gossip` |
| `Alerts`, `Reports`, `SiteBuild`, `Priority`, `Pairing`, `Feed` | one background service each | extend `Boot` |
| `Services` | these and the relay in one process | extends `Relay` and the six |
| `RelayProofs`, `RaftFSMProofs`, `RaftStorageProofs`, `ChatSessionProofs`, `ChatRoomProofs` | theorems about one component | extend the module they are about and TLAPS |
| `ChatRouterProofs` | theorems about the router, and that what holds of room and router holds of `Chat` | extends `Chat` and TLAPS |
| `GossipProofs` | theorems about gossip, and that what holds of it and of the raft log holds of `Replication` | extends `Replication` and TLAPS |
| `ServicesProofs` | theorems about the background services, and that what holds of each holds of all together | extends `Services` and `RelayProofs` |

How state and actions correspond to the code:

**Relay.** An event is the number of the Enqueue call that accepted it. Every
Outbox method holds `o.mu` throughout and is one action; Drain, the remote call
and Ack or Requeue are separate steps of the drainer. `InsertRow` is one
iteration of the receiver's loop, so a failed call (`SendError`) leaves any
prefix inserted. `Crash` empties the memory and reopens the file. Two kinds of bytes that do not
decode are told apart: the receiver counts an event of `Undecodable` as rejected
and goes on, so that the call succeeds and the Ack ends the event without a row;
an overflow row of `Unreadable` is skipped by every peek and stays. An eviction
that frees no page is possible in `EvictRing`: the byte cap counts allocated
pages. `delay` is kept because the loop's behaviour after an error is a part of
its control; the sleeping is not a step.

**RaftFSM.** `log` is what raft has committed, `states` what it amounts to;
`applied` is raft's index (memory), `db` the FSM's file (disk). `Snapshot` only
remembers the index; `Persist` copies `db` as it is then, which may be later;
`Restart` begins at the newest snapshot, or at entry 1 over the file as it is.
`hi` is history: the highest index that has reached the file, or a snapshot. Values are model
values; the zero-length value, which CAS treats as an absent row, is `Empty`.

**RaftStorage.** A call runs on a `home` node: `Read` is localGet, the MutateFn
and the choice of the command; `Propose` is applyAsLeader or the forwarder;
`Receive` is StorageProxyService.Apply; `Retry` is the branch for ErrCASFailed
and exists only for a local proposal, because a remote conflict arrives as a
gRPC Internal status and takes `Fail`. The row is a counter, so that a lost or
doubled update shows in its value; CompareAndCreate stores `Created`. A delete that
reads no row returns "noop" without a proposal, whatever the leader holds;
`before` is history: the entries that were acknowledged when the call began. In
`AtomicMutate` such a delete is "withdrawn": it has no effect, and the object says
nothing of the row; whether its caller was told the truth is `MissesAreCurrent`.

**ChatSession.** A request is a task that walks the `Path` of its kind; each
step is one read, insert or hub call. `Get` and `Put` are the two halves of
UpdateSession. `row` is what `SELECT .. FINAL` returns: the version with the
greatest `last_message_at`, the later insert when they tie. Time is counted in
ticks; `MaxTime` leaves ticks for the sweeper after the last request.

**ChatRoom.** Every handler is a program counter; the channel is `out` (none,
open, closed) and `buffer`. A send to a closed channel, or a second close, sets
`panicked` and the model stops. `Replay` reads the history or fails to, which is
only logged (`bare`).

**ChatRouter.** Each router method holds the mutex and is one action. A timer
is two steps, `Fire` (30 s are over) and `AckTimer` (it has the mutex); one that
was cancelled between the two is a *stray* and only compares the agent's name,
as the code does. `CloseSession` is `chat.CloseSession` as the router sees it: not
at all. The session stays in its queue or assignment and is offered on, and no
agent can take it up, because the session socket answers 410 before it calls Ack.

**Gossip.** Stamps are records of wall time, counter and node id, compared as
`HLC.After` does. A local write is two actions, because the stamp is taken
before the transaction. `Push` is the receiver's handler with the merge, the
clock update, the re-push and the reply's stamp. Anti-entropy is three steps:
read the digest, answer, apply delta by delta. Every `Reboot` lets the node's
physical clock advance. `PushFails` loses a push to a node of `Unreached`. In
production most pushes are lost, on every link: `fanOutPush` cancels, when it
returns, the context with which the goroutines it has just started dial
(protocol.go:148). Both outcomes are in the model, and nothing that is checked needs
a push to arrive.

**Alerts.** A node's evaluator lists (`RunDue`), passes over rules (`Skip`) or
fires them (`Fire`, `RecordEvent`, `WriteBack`), in any order, and ends at the cap
or at the end (`EndPass`). `LastFiredAt` is its age up to the cooldown; `rev` is
everything else in a row. A write-back may fail. UpdateAlert is two steps because
it reads LastFiredAt first; `decided` and `overlapped` are history.

**Reports.** `due` is the list of a pass, `job` the send in progress with the row
it read; `SendOne` may also fail to read it. `MailFails` and `MailSent` are the
attempts, `AdvanceNextFire` the write-back, which may fail or be refused for an
invalid cron expression. Times are zero, later or due. Run rows are left out: their
write may fail with no more than a warning (dispatch.go:254), and nothing but the
lists reads them. `odd` is history: it changes with every send that ends.

**SiteBuild.** A directory is the commit it was built from. `Trigger` and
`Register` are two steps, as IsBuilding and the registration are in TriggerBuild;
every file-system step of deploySite is an action with its failure, the rename that
should put the old root back included, whose error nobody looks at.
`StartupCheck` and `StartupPull` are StartupBuildAll for this site; its build
(number 0) never takes the lock.

**Priority.** A flag is absent, fresh or stale. `Expire` may come between any two
refreshes, since 90 s after a refresh at most one other was due. Elections are
`Elect`; the transfer to a node that is down fails, which is a stutter.

**Pairing.** A redeem request is the loop of Mutate around the closure of
Consume: `ReadAbsent` and `ReadRow` are its read on a replica that may lag,
`Delete` the accepted delete, `Refuse` the conflict and the next round,
`DeleteFails` any other error, a conflict found for another node included. `found`
is the captured variable.

**Feed.** A publisher holds the read lock from `Publish` to `Published` and
offers the event watcher by watcher; `Leave` is the call of Lock, after which no
new reader gets in, and `Unsubscribe` what happens under it. `Shutdown` detaches,
`ShutdownOne` closes and cancels, without the lock. A send on or second close of a
closed channel sets `panicked`.

**Compositions.** `Services`, `Chat` and `Replication` put parts of one process side by
side that share no variable except `started`; a step is a step of one of them, and
of one that was not started there is none. Fairness is stated of the steps of
started parts (`Running(..) /\ A`).

## 3. Runs

Passing runs (2 workers):

| Run | Checks | Bounds, and why they are enough |
|---|---|---|
| `replication`, raft | `CaughtUpAgree`, `SnapshotsRecoverable`, with puts, deletes and batches | 2 nodes, 3 entries, one snapshot and one restart: replay over newer data, and a snapshot newer than its label, both happen. One key with two values: puts, deletes and batches act on each key by itself, and a batch of other keys is the empty one |
| `replication`, gossip | `HighWaterCovers`, `ClockAhead`, `SameStampSameWriteUntilRestart` | 2 nodes that both write, 2 LWW keys and two flags, 2 writes, clocks up to 2 ticks apart, replies of one delta, a sweep and a restart |
| `raft_storage` | `AtMostOnce`, `NoLostUpdate`, `ReplicasAgree`, `UpdatesAtomic`, `EveryCallReturns` | 2 nodes, 2 calls of any kind on any node, 2 rounds, one election: a call can conflict, be retried, be forwarded to a deposed leader, and commit after it failed |
| `chat_session` | `CountNotAhead`, `LateSendsRejected`, `UpdateTakesEffect`, `AbandonedIsClosed` | 2 requests at a time, 3 in all, sweeper passes without limit, one fault (failed insert or restart): a reopened row with the flag still set needs exactly these |
| `chat`, router | `InOnePlace`, `PendingHasAgent`, `TakenUp` | an agent that comes, goes, declines and never answers, one that answers, 2 sessions that may be closed at any time, one restart; timeouts, declines and reconnections are not bounded |
| `chat`, room | `ReplayComplete`, `DisplacedIsTold`, `DisplacedEnds` | 2 sockets, 1 agent message, buffer 2: a takeover can overlap every step of joining, replaying and publishing, and the buffer overflows |
| `services`, relay | `InOrder`, `OnePlace`, `DuplicatesPaid`, `NoSilentLoss`, `DiskRowsSurvive`, `EventuallySettled` | ring 2, file 2, batch 2, 5 events, one of them undecodable and one unreadable, 2 faults: both stores fill with a batch in flight, and two failures follow one another |
| `services`, alerts | `AdminHasLastWord`, `StandingAlertFires` | 2 rules (one always holds), cap 1, 2 edits or crashes: a rule competes for the cap, and an edit falls before, into and after a pass |
| `services`, reports | `KeepsFiring` | 2 nodes, 2 reports (one without a valid schedule), queue 1, 2 attempts, 1 edit, 2 SendNow, 1 crash or failed read: two nodes send the same report and write back over each other and over an edit |
| `services`, sites | `TriggeredOneByOne`, `MarkerHonest` | 2 commits, 2 triggered builds or crashes beside the startup build: builds overlap, fail at every step, and are followed by a restart |
| `services`, priority | `SettlesOnCH` | 3 nodes, 2 outages, the node that stays last in the list: flags of two nodes come first and lie |
| `services`, feed | `ChannelsSafe`, `WatchEnds` | 2 watchers, 2 publishers, buffer 1: two publishers are in their loops while one watcher leaves and the storage closes |

The three composed runs (`ServicesTypeOK` besides, of the services) start one part at
a time (`Configurations`): the parts share nothing, and starting several would only
multiply their states. `ServicesImplementEach`,
`ChatImplementsEach` and `ReplicationImplementsEach` show that nothing is lost by that: whatever is started together, the process implements the
specification of each part.

Liveness that says of every state that something will be over is written
`[]<>(P => Q)` where P, once true, stays true until Q is (`EventuallySettled`,
`DisplacedEnds`, `WatchEnds`), which then is the same as `P ~> Q`. Of `TakenUp`, where
P may end otherwise, it says that no offer goes round for ever.

Violation runs, each a disagreement of the code with its own comments or tests, with
the bounds cut down to what the counterexample needs:

* `raft_fsm_replay` (`CaughtUpAgree` with CAS) — fsm.go says followers re-evaluate CAS
  commands "and produce the same result as the leader because the log is
  total-ordered". A restarted node replays entries over a file that already contains
  later ones: of CAS(v2→v1), refused because there is no row, and CAS(absent→v2), the
  replay over v2 carries out the first and refuses the second, and the node holds v1
  where the log says v2.
* `raft_stale_delete` (`MissesAreCurrent`) — "the local FSM read is consistent because
  every Raft commit has propagated" (raftstorage.go:509). A delete on a node that lags
  behind an acknowledged create answers "already gone" without asking anybody, and the
  row is there.
* `chat_reopened` (`ClosedIsTerminal`) — close.go says that a closed session is terminal
  and that closure always wins. The counter update of a visitor message has read the
  row when the close reads and stores it; its own version, stored afterwards, is open.
* `chat_room_panic` (`NoPanic`) — hub.go says that the only sender to a channel is the
  hub under its lock. A socket has subscribed and is about to queue its own presence
  snapshot when a second one takes over and closes its channel: the send panics. Publish
  (which sends after unlocking), the displaced socket's reader and the notice of another
  newcomer can meet a closed channel in the same way.
* `gossip_join` (`MissedPushesHeal`) — "we reply with everything we have that's strictly
  newer". A reply ends at a limit in key order; the stamps it did deliver raise the
  receiver's high water past records that did not fit, which are then never asked for.
* `pairing_twice` (`RedeemedOnce`) — "single-use semantics ... returning the prior value
  once" (paircode.go:8). Two devices have read the row; the delete of the second is
  refused, its next round finds nothing to do, and what the first round noted is still
  noted: both are granted. One up-to-date node is enough (`ReplicasLag` is FALSE).
* `reports_never_fire` (`SavedIsScheduled`) — "CreateReport computes next_fire_at"
  (24-reports.sh:67). A saved report has no next time, and the dispatcher passes over
  such reports for ever.

All models have bounded counters, so their behaviours may end: deadlock checking is
off in all runs for that reason, and progress is checked by the liveness
properties instead. The type invariants are theorems for every module (section 5);
`ServicesTypeOK` is the one that is also an invariant of a run.

## 4. Fairness

* `Relay` — weak fairness of the drainer's own steps and of the receiver's
  insert: a goroutine runs, and a call returns. Faults are bounded, so a peer
  that is down comes back. Stop, crashes and Enqueue are free.
* `RaftStorage` — a caller takes its next step, and a pending call ends (gRPC
  deadlines, raft futures). Nothing obliges raft to commit.
* `ChatSession` — a request runs to its end, the sweeper's ticker fires again
  and again, time passes; the latter two are strong because the two task slots
  may be taken.
* `ChatRouter` — timers fire and get the mutex; a responsive agent that is
  offered an open session again and again takes it up (strong: offers come and
  go). Nothing is assumed about closed sessions.
* `Alerts` — time passes and the evaluator's goroutine goes on. Firing a given rule
  is strongly fair: ListAlerts ranges over a Go map, whose order is random, so a
  rule that is due in pass after pass is not behind the cap in all of them. That
  is an assumption: what `StandingAlertFires` shows is that everything else, the cap's
  count, failed write-backs, cooldowns and crashes, leaves the rule its turns.
* `Reports` — time passes, a send that has begun goes on, the ticker is served.
  That the queue is served is not assumed: `select` picks at random.
* `Priority` — tickers, ageing and elections are weakly fair. The transfer is
  strongly fair: the flag it needs comes and goes, and a transfer to a live node
  may fail, but not for ever.
* `Feed` — publishers finish their loops (they never block: the send has a
  default), and the goroutine waiting for a context runs. Weak fairness of
  taking the write lock is enough because sync.RWMutex keeps new readers out once
  a writer waits, which is what `Leave` models.
* `SiteBuild` and `Pairing` have no liveness property and no fairness.
* `ChatRoom` — every goroutine that can go on does.
* `Gossip` — local writes and replies are completed; the ticker picks every peer
  again and again (`rng.Intn`) and calls that are tried again and again get
  through in the end. Only `gossip_join` uses it, and fails in spite of it.

## 5. Proofs

The safety properties that the passing runs check (invariants, action properties,
the refinement of `AtomicMutate`) are theorems of the specification, for every value
of the constants that the assumptions allow. "From" names the assumptions on the
constants and the hypotheses besides.

| Theorem | For | From |
|---|---|---|
| `RelayTypeCorrect`, `RelayInOrder`, `RelayOnePlace`, `RelayDuplicatesPaid`, `RelayNoSilentLoss`, `RelayDiskRowsSurvive` | every ring, batch and file size, number of events and faults | `RelayAssumption` (sizes positive, `BackoffMin <= BackoffMax`) |
| `RaftTypeCorrect` | any nodes, keys, values, operations and bounds | `RaftFSMAssumption` |
| `RaftReplicasAgree` | every operation, CAS and the zero-length value included | no restarts and snapshots |
| `RaftBlindReplay`, `RaftBlindSnapshots` | any restarts and snapshots | `Ops \subseteq BlindOps` (puts, deletes, batches) |
| `StorageTypeCorrect`, `StorageReplicasAgree`, `StorageNoLostUpdate`, `StorageAtMostOnce`, `StorageUpdatesAtomic` | any nodes, calls, rounds, elections and late answers | `RaftStorageAssumption`: the row is a counter, never stored as the zero-length value |
| `SessionTypeCorrect`, `SessionUpdateTakesEffect`, `SessionReopenedOnlyByStaleWrite`, `SessionCountNotAhead`, `SessionLateSendsRejected` | any number of requests at a time, failed inserts and restarts | `ChatSessionAssumption`: finitely many requests at a time |
| `RoomTypeCorrect`, `RoomReplayComplete`, `RoomDisplacedIsTold` | any sockets, messages, buffer size and history limit | `ChatRoomAssumption` |
| `RouterTypeCorrect`, `RouterPendingHasAgent`, `RouterInOnePlace` | any agents, servers, timers, strays, closes and restarts | `ChatRouterAssumption`: finitely many sessions; `NoOne` is no assignment |
| `ChatImplementsEach` | any configuration of room and router | |
| `GossipTypeCorrect`, `GossipHighWater`, `GossipClockAhead`, `GossipOneStampOneWrite` | any nodes, keys, writers, losses, sweeps, restarts | node ids positive, keys and values numbers |
| `ReplicationImplementsEach` | any configuration of raft and gossip | |
| `MergeLWWIdempotent`, `MergeLWWCommutative`, `MergeLWWAssociative` | any registers | the last two: a stamp names one write |
| `AlertsAdminHasLastWord` | any nodes, rules, cooldown, cap, edits and crashes | `AlertsAssumption`, `NoAlertAssumption` |
| `SiteTriggeredOneByOne`, `SiteMarkerHonest` | any commits, builds and crashes | `SiteBuildAssumption` |
| `FeedChannelsSafe` | any watchers, publishers and buffer size | `FeedAssumption` |
| `ServicesImplementEach`, `ServicesSafe`, `ServicesTypeCorrect` | any configuration of services | the assumptions of all seven |

Every inductive invariant below was first an invariant of a TLC run. Several of the
specifications state fairness; `GossipSafety`, `StorageSafety`, `RoomSafety`,
`RouterSafety` and `RelaySpec`, from which theorems start, are specifications without it,
hence the theorems say more.

*Relay.* `InOrder` is not inductive alone: a new event must be newer than
everything queued, and Drain must start with no batch in flight. `OrderInv` adds
that every event held was accepted (`<= accepted`) and that a batch exists only
while one is being shipped. The sequence lemmas say when a concatenation is
increasing, and what popping, evicting and pushing back preserve.

`PaidInv` accounts for duplicates: an event has at most `faults + 1` rows, and one
that is still to be inserted, or waits outside the batch, at most `faults`. That
pays for the next insert, and a failed call raises `faults` before its batch waits
again. Only a drainer that was stopped leaves stored events in the queue, and it takes
a crash to start another. The converse, that an event of the batch which the receiver
has behind it is stored or was rejected as undecodable, is what makes Ack safe and
gives the other two theorems.

*RaftFSM, blind operations.* `db = Expected` fails after a restart: the file is
ahead of the index. `BlindInv` says instead that a row of the file differs from
what the log says at the node's index only if an entry between that index and
`hi` rewrites the row (`Rewritten`); replaying puts, deletes and batches over
such a file writes those rows again, so nothing is left to differ when the index
reaches `hi`. The same relation holds between a snapshot and its label, which may be
older than what Persist copied: `SnapshotsRecoverable` says that all that is ahead of the
label is written again by the entries after it, so the snapshot can be started from. A
CAS breaks the argument, since it may refuse to rewrite; `raft_fsm_replay` is the
counterexample. Without restarts and snapshots `SteadyInv` says the file is
exactly `states[applied + 1]`, for all operations.

*RaftStorage.* `StorageInv` says that the states of the log are what replaying it
gives (`Replay`), that every entry is a command its owner's Read could have built
(`Built`: a CAS from v to what the call makes of v, or a create), and of a call
(`CallOK`) that all its effective entries are the one it is waiting for or has ended
with, and that one which succeeded has one. A lagging read does no harm because of
`Built`: a CAS takes effect only where the value is still v. At most once holds
because a call proposes again only after an entry of its own was refused. For
the refinement the abstract call is done when its entry takes effect in the log, not
when the answer arrives; a commit is then an abstract effect or a stutter, every other
step a start, a return or a stutter. A delete that found no row maps to "withdrawn".

*ChatSession.* `VersionInv`: no version is later than now, a request that is about to
insert holds a version not before the row it read, and one it read closed stays
closed. A stale insert can still overtake the newest row, so nothing stronger about the
row is true. `CountInv` treats messages that are stored and whose request has yet to
read the row (`Due`) as credit: the row's count, and the count in every version about
to be inserted, plus `Cardinality(Due)` do not exceed what is stored. `SocketInv`:
at most one request is on the visitor's socket, and a late one has either not passed
the gate or has lost its socket.

*ChatRoom.* `RoomInv`: a newcomer that has reached the steps after the takeover notice
has sent it, or the buffer was full, before it removes and closes the older channel;
hence a closed channel's frames contain the notice. `ReplayComplete` is inductive
with it because a socket subscribes before it reads the history and a message is
stored before it is published. It excepts the sockets whose history could not be read
(`bare`) and those whose buffer overflowed (`missed`), and it is claimed for the `HistoryLimit` oldest
messages, which are all that the replay contains (section 7).

*ChatRouter.* `OffersInv` is the type invariant with `PendingHasAgent`. `PlaceInv`
splits `InOnePlace`, which counts, into facts a step can preserve: no queue holds a
session twice and no two share one (`QueuesApart`), a queued session is not
assigned, and a session is held exactly while it was started and neither taken up
nor forgotten. What AgentGone hands back is a sequence of any order, so the lemmas
are about the elements of a concatenation, of a queue without a session and of a
ring with its head moved to the tail.

*Gossip.* `HighWaterCovers` needs that a push never carries a register later
than the stamp next to it (`PushesStamped`: ApplyDelta passes on the payload it
received under the stamp of the merged register). `ClockAhead` needs the clock
lemmas `NowAdvances` and `UpdateAdvances`: a stamp is never before the clock's
last one nor, for Update, before the remote one. `IInv` is the conjunction.

`StampInv`: every stamp of an LWW register in a store, on its way to one, in a push or
in a reply is spent, that is, not later than the clock of the node it names. A new
stamp is later than that clock, so no register anywhere has it. A restart forgets
the clock, hence "until restart". That two nodes end up with the same data is not
claimed: `gossip_join` and section 7 say why it is false.

*Alerts.* `AdminHasLastWord` is not inductive: a write-back replaces the row by a
copy made earlier. `CopiesCurrent` says that the copies of a rule not edited during
a pass are what the administrators left, and `Firing` that an evaluator about to
write holds a copy of a rule it has counted.

*Pairing.* The type invariant needs `RoundsLeft`: a request that still reads or deletes
has a round of Mutate left.

*SiteBuild.* `TriggeredOneByOne` follows from `WorkingHoldsLock`: a triggered build that
is at work holds the lock, through every failure and a crash. All but the order of commits is claimed while builds do not overlap:
at most one build is past its pull (`OneAtWork`), what it has prepared comes from
the commit checked out (`Prepared`), and between the renames root.old is there to be
put back, no older than the marker (`Spare`).

*Feed.* Subscribed and detached watchers have open channels and are disjoint
(`OpenOnce`); whom a publisher has still to serve is subscribed (`SendsToSubs`),
which the write lock of everybody who removes a watcher preserves.

*Services, Chat, Replication.* A step of the composition is a step or a stutter of each part
(`OneServiceAtATime`, `OneAtATime`), so each part's theorem applies to the whole.

## 6. Only model-checked

Liveness: `EventuallySettled`, `EveryCallReturns`, `AbandonedIsClosed`,
`DisplacedEnds`, `TakenUp`, `StandingAlertFires`, `KeepsFiring`, `SettlesOnCH`,
`WatchEnds`. The prover does not reason about fairness and ENABLED. `TakenUp` excepts,
for more than two agents, sessions that are crowded out (`CrowdedOut`, section 7); the
run has two.

## 7. Divergences met while modelling

Besides the seven violation runs, the models show these; the passing properties
say where they stop because of them.

* **Relay.** After a drain the ring has slack while the file still holds older
  events, so newer events overtake them, against "ring holds the OLDEST events"
  (outbox.go:213): `InOrder` is about the batch and the ring only. An eviction
  that frees no page drops a row and a ring event and counts one. A requeue into
  a ring that filled meanwhile drops the newest event, not "the oldest"
  (outbox.go:323). An event that the receiver cannot decode is counted as rejected,
  the call succeeds and the drainer acknowledges it (relayimpl.go:94), and an overflow
  row that cannot be decoded is never sent and never removed (outbox.go:400), against
  "the drainer never gives up".
* **Raft.** A snapshot is copied when it is persisted, not when it is taken
  (fsm.go:403 says "point-in-time"). A conflict found by a remote leader is not
  retried (raftstorage.go:512 expects the loop to). A bbolt error on
  one node is its ApplyResult and no more: raft counts the entry as applied and the
  node differs from then on (fsm.go:145); the model has no disk errors there.
* **Chat session.** A stale writer reopens a closed session (`chat_reopened`); nothing
  else does (theorem `SessionReopenedOnlyByStaleWrite`). A visitor
  message that passed the gate is stored after the flag is set (hub.go:81). A
  session that became active after the sweeper listed it is closed
  (sweeper.go:11).
* **Chat room.** Two sockets that connect together both find the room empty and
  both stay (hub.go:59 says at most one). A history that cannot be read leaves a
  live socket without backlog (chat_ws_visitor.go:217), and a frame for a full buffer
  is dropped while the comment expects the connection to be closed (hub.go:244).
* **Chat router.** `pending` is one map for all servers: an agent leaving one
  re-queues its sessions of another there (router.go:61 promises independent
  routing). Several unanswered sessions go back in map order (router.go:15). The
  end of one of two control sockets takes the agent out of the ring
  (chat_ws_control.go:6). After a restart the queues are said to be recovered from
  the store (router.go:18); `RecoverFromStore` does not exist and a restart forgets who
  waits. A closed session stays in the router and goes round;
  with three agents, two of which never answer, it can keep the third one busy
  with offers while an open session passes between the other two (`CrowdedOut`). AgentGone re-queues without offering: sessions wait beside ready
  agents until somebody connects or a timer expires.
* **Chat history.** ListMessages takes the oldest rows (store.go:467): in a chat
  longer than the limit the replay ends before the live messages begin.
* **Gossip.** A lost push followed by one that arrives for another key of the
  bucket is never healed (protocol.go:137). Pushes are spawned with a context that is
  cancelled at once (protocol.go:149), so that is the rule and not the exception; the
  comment takes a push for best effort. Two local writes can be put in the opposite order of their stamps
  (store.go:130). After a restart a clock that a peer had pulled ahead can repeat
  a stamp (store.go:95, registers.go:57). A flag raised again without a reason
  loses it on the writer only (store.go:199). A tombstone is swept while a peer that
  never saw it holds the value, which then comes back (store.go:391).
* **Alerts.** An edit, a disabling or a deletion that falls into a pass is undone by
  its write-back (evaluator.go:331): `AdminHasLastWord` is about decisions outside of
  passes. Every node of a team runs an evaluator and
  raises the rule.
* **Reports.** Create and update leave NextFireAt zero, which the dispatcher skips
  (dispatch.go:144), against "compute next_fire_at per cron + timezone"
  (dispatch.go:3, `reports_never_fire`): a report is on its schedule only after a SendNow,
  and saving it takes it off again; `KeepsFiring` is about reports on the schedule. A run
  row may be missing (dispatch.go:254). "capped at 3 attempts"
  (dispatch.go:7): there are four. A mailer that is not configured is an error of Send
  and is retried for half an hour, during which nothing else is sent. Two nodes
  send a due report twice. The write-back undoes an edit, or a deletion, made during a send.
* **Site deployment.** "atomic deployment" (sitedeploy.go:497) and "the cached site
  keeps serving until the new build is ready" (run_unified.go:454): between the
  renames there is no site, and after a crash there it stays away until the
  startup build, which begins by deleting root.old. The startup build takes no
  lock; builds can overlap, also when two requests pass IsBuilding together (the
  lock then serialises them). The error of the rename that puts the old root back is
  ignored (sitedeploy.go:531): a failed deployment can leave no site. A builder that ends without a result completes, and
  its commit is noted as built (sitedeploy.go:485).
* **Leadership priority.** "90s catches a missed 60s refresh tick" (priority.go:48):
  the tick after a missed one comes at 120 s; the flag has lapsed by then. The age of a
  flag is the reader's clock minus the writer's (priority.go:224): clocks that are apart
  make a flag fresh for longer, or never. The model has one clock.
* **Device pairing.** `pairing_twice`. Issue answers 200 although the Put failed.
* **Storage.** A zero-length value reads back as nil, and Mutate then proposes a create
  that can never succeed (raftstorage.go:537); no production value is empty. Closing
  the storage and a Watch that has passed checkOpen: the watcher is added after
  shutdown and its channel is closed only when its own context ends.

## 8. Order of the work, and what is left

What loses or corrupts data across nodes came first (`Relay`, `RaftFSM`, `RaftStorage`
with `AtomicMutate`, `Gossip`), then what serves users (`ChatSession`, `ChatRouter`,
`ChatRoom`), then the background services and the compositions, each with its proofs.
Left, in the order in which they would be worth modelling:

1. the team's membership and PKI; the realtime hub; the forwarder's worker exchange;
   the permission cache; the bad-actor score cache; staging against production builds;
   backend start order; the chat rate limiter;
2. what does hold of CAS replayed after a restart; gossip after a restart, and tombstones
   swept while a peer holds the value, with a bound on the age of a push;
3. abstract specifications: a queue that hands every session to one agent for
   `ChatRouter`, a schedule (due, sent, due again) for `Reports`.

## 9. What the models leave out

Message texts, names, encodings and logging; authentication in front of every
handler; bbolt and ClickHouse errors other than those named as faults; memory
limits; hashicorp/raft's elections and log replication (external: one committed
log); more than one process serving the same chat session.
