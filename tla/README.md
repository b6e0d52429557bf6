# TLA+ models of retcds

retcds is a port of etcd to Rust. What carries its logic today is `raft-rs/`, a
raft library of the TiKV lineage (state machine, log, quorum and progress
tracking, the `RawNode` interface, an asynchronous `Node` task), and
`server/src/etcdserver/api/rafthttp/`, the transport under construction. This
directory holds TLA+ modules translated from that source, the TLC runs that
check them on small instances, and TLAPS proofs that hold for all instances.

Contents: 1 inventory, 2 plan, 3 modules and the code they model, 4 runs,
5 bounds, symmetry and views, 6 fairness, 7 proofs, 8 disagreements between
code and comments, 9 observations, 10 what is not modelled.

## 1. Inventory

Paths are relative to `src/raft-rs/src/` unless they start with `server/`, which
stands for `src/server/src/etcdserver/api/rafthttp/`.

| Component | State | Operations | Correct when | Modules |
|---|---|---|---|---|
| `tracker/inflights.rs` Inflights | ring buffer, start, count, capacity, a smaller capacity waiting | `add`, `free_to`, `free_first_one`, `reset`, `set_cap`, `maybe_free_buffer` | it is a sliding window of increasing indexes with a limit, whatever wraps, grows and shrinks; `add` never panics | `Inflights`, `InflightsWindow` |
| `quorum/` majority and joint, `tracker.rs` | voters (two halves in a joint configuration), votes | `committed_index` (also with commit groups), `vote_result`, `record_vote` | the index is the largest replicated one; a result is announced when, and only when, it is final; quorums intersect | `QuorumRules`, `Members`, `QuorumTracker` |
| `tracker/progress.rs` Progress | matched, next_idx, Probe/Replicate/Snapshot, paused, window | `maybe_update`, `maybe_decr_to`, `become_*`, `update_state`, `is_paused`, `snapshot_failure` | matched never exceeds what is durable at the follower; in-flight indexes lie between matched and next_idx; a pause always ends | `Progress`, `RaftNode`, `PeerLink` |
| `raft_log.rs`, `log_unstable.rs` | entries (unstable and stored), committed, persisted, applied | `maybe_append`, `find_conflict*`, `maybe_commit`, `commit_to`, `maybe_persist`, `restore`, `next_entries_since`, `slice` | logs match; committed entries are never truncated; what is called persisted is on disk; nothing is fatal | `RaftLog`, `RaftNode`, `Unstable`, `LogStore` |
| `raft.rs` Raft | term, vote, role, leader, transferee, log, tracker, timers, pending reads, pending change, outgoing messages | `step` with its three roles, `tick`, `campaign`, `apply_conf_change`, `restore`, ... | one leader per term, leader completeness, state machine safety, leases, pre-votes, transfers, one change at a time | `RaftNode`, `Raft`, `CommittedLog` |
| `raw_node.rs` RawNode | Ready numbers and records, previous Hard/SoftState | `ready`, `advance*`, `on_persist_ready`, `step`, `propose`, ... | what a message promises is durable before it is sent, except a leader's; every committed entry is handed out once and in order | `Raft`, `LogStore`, `DurableLog` |
| `storage.rs` MemStorage | HardState, ConfState, entries, snapshot | `append`, `compact`, `apply_snapshot`, `entries`, `term`, ... | a restart finds a state `load_state` accepts | `MemStorage`, `LogStore` |
| `confchange/` Changer, restore | none: maps a tracker to a configuration and a list of changes | `simple`, `enter_joint`, `leave_joint`, `restore` | voters, learners and progress stay consistent; `restore` inverts `to_conf_state` | `ConfChange`, `Members`, `Changer`, `ConfRestore`, `Raft` |
| `read_only.rs` ReadOnly | queue and map of pending reads with their acks | `add_request`, `recv_ack`, `advance` | a read sees everything committed before it was asked | `RaftNode`, `Raft` |
| `node.rs`, `async_ch.rs` Node | channels for proposals, messages, Readies, advance, configuration changes, status, stop | the `select!` loop of `run`; callers that wait | no caller and loop wait for each other; nothing is lost between taking a Ready and accepting it; `advance` brings the next | `NodeTask` |
| `server/` `pipeline.rs`, `remote.rs`, `peer.rs` | message queue, channels done/stop/error, status | post loop, `send`, `stop`, `pause`, `resume` | failures are reported to raft; the follower can catch up | `PeerLink` |
| `server/` `url_pick.rs`, `peer_status.rs`, `snapshot_sender.rs` | picked URL; active flag; none | `pick`, `unreachable`, `update`; `activate`, `deactivate`; `send` | a URL that works is found; a snapshot's outcome is always reported | `PeerLink` |
| `server/` `snap/`, `util/util.rs` | snapshot files and databases | `save_snap`, `load`, `release_snapdbs` | what was saved is never left in part; a snapshot that can be read is found; databases in use are kept | `SnapshotFiles` |
| `server/` `v2state/` | ring of request statistics, rates | `insert`, `clear`, `rate` | the ring holds the newest entries in order | none |
| `client/src/pkg/` | none of their own | files, TLS, listeners | (wrappers) | none |

How they interact. The application calls `RawNode::step`, `tick`, `propose` and
so on; each calls into `Raft`, whose handlers change the `RaftLog` and the
`ProgressTracker` and push messages to a list. `RawNode::ready` hands out what
has to be persisted and the messages, split into those that may go at once (a
leader's) and those that must wait for the disk. The application persists,
sends, and reports back (`on_persist_ready`, `advance`). `Node` wraps a
`RawNode` in a task with channels. The transport moves messages, may drop,
repeat and reorder them, and reports unreachable peers and snapshot outcomes
back to raft.

Hard behaviours: messages lost, duplicated, delayed past a change of term, of
role or of a transfer; crashes between handling a message and persisting its
effect; a leader that sends before it persists; several Readies on their way to
the disk while the log they came from is replaced; pre-votes and leases that race
with timers; windows that fill while acknowledgements are lost; capacity changes
of a ring in use; configuration changes in two halves and across leaders; callers
and tasks that wait for each other on bounded channels; a lock released between
taking a Ready and accepting it; failures reported for messages that arrived.
`PROJECT.json` lists each such place with its line under `hazards`, with the
property that watches it or the reason why none does.

## 2. Plan

Done, in this order:

1. `InflightsWindow` (abstract), `Inflights`;
2. `QuorumRules`, `Members`, `QuorumTracker`, and the proofs about both (`TrackerProofs`);
3. `Progress`, `RaftLog`, `RaftNode` (one node as operators), `CommittedLog`
   (abstract), `Raft` (a group over a network, with disks and crashes);
4. `ConfChange`, `Changer`, `ConfRestore`, `ChangerProofs`;
5. `Unstable`, `MemStorage`, `LogStore` with `DurableLog` as its abstract
   specification: several outstanding Readies, snapshots, compaction, restarts;
6. configuration changes, snapshots, reads and priorities inside `Raft`;
7. `NodeTask`, `NodeTaskProofs`;
8. `PeerLink`: a leader and a follower of `RaftNode` composed with the transport;
9. `SnapshotFiles`, and the proofs about it and the link (`TransportProofs`);
10. proofs about the arithmetic of quorums (`QuorumRulesProofs`,
    `TrackerProofs`), about the log of a node on its way to the disk
    (`LogStoreProofs`: everything but liveness) and election safety of a group
    (`RaftProofs`);
11. proofs that logs match (`RaftProofs`), and that what is committed is safe and the
    group implements `CommittedLog` (`RaftSafetyProofs`).

Next, most important first:

12. Reads (`LoneReadsAreLinearizable`), from the invariant of `RaftSafetyProofs` extended
    by who has answered a read; the same theorems with configuration changes, from
    the overlap of successive quorums (`ChangerProofs`).
13. `max_uncommitted_size` and `batch_append` in `RaftNode`.
14. The transport's owner (peers, streams), once it is written.

## 3. Modules and the code they model

`PROJECT.json` maps each definition to its lines. Names are those of the source
where TLA+ allows it. Each module keeps the mutated forms of its operators
(`Mut...`) next to the originals; they are used by no specification and serve to
show that a property can fail.

**InflightsWindow** is the promise: a sequence in increasing order and a limit,
with add, free up to an index, free the first, reset, change of limit.
**Inflights** is the ring: `start`, `count`, `buffer`, `cap`, `incoming_cap`,
one action per public method. `set_cap` has three cases (same, grow, shrink) and
growing un-rotates a wrapped window (`Unrotated`). The guard of `Add` is what its
only caller guarantees: not full, increasing index. `Window` and `Limit` are the
refinement mapping.

**QuorumRules** holds `majority`, `committed_index` (the sorted array and the loop
over commit groups) and `vote_result` for majority and joint configurations. The
code sorts what a `HashSet` iterates, stably, by index, so `DescendingOrders` is
the set of all orders it can obtain. **Members** declares the nodes that a group is
made of, for Changer and QuorumTracker. **QuorumTracker** lets acknowledgements,
group assignments and votes arrive in any order for any fixed configuration, and
states reference definitions that neither sort nor count positions.

**ConfChange** holds the operations on a configuration and the set of nodes with a
progress, used by Changer and by Raft alike. **Changer** is a tracker and the calls
`simple`, `enter_joint` and `leave_joint`. A call works on a copy, a list element
per step (`Apply`), and replaces the tracker at its end (`FinishSimple`,
`FinishJoint`) or leaves it (`Refuse`). No step of another actor can come in
between, so unrolling the loop adds nothing to the behaviours, and it lets lists be
of any length, for TLC and for the proofs. `asked` is a history variable.
**ConfRestore** adds `restore`, with lists in any order, as folds of the same
operators.

**Progress**, **RaftLog** and **RaftNode** are operators on records: a method that
changes a node maps its record to a new one, so a handler is the composition of
the methods it calls, trailing broadcasts and commits included. `Step` is
`Raft::step`: first the comparison of terms (`StepHigherTerm` with the lease test,
`StepLowerTerm`), then the vote handling or the role's function. The window of a
Progress is the sequence that `Inflights` is proved to implement. `expired` stands
for `election_elapsed >= election_timeout`, the only thing about the clock a
handler reads. The log is kept whole and `first` and `snap` say how much of it the
storage has compacted and got from a snapshot; what a handler may read is limited
to what is left.

**Raft** has the variables `node` (a record per node), `disk` (HardState and
entries that are durable), `net` (all messages ever sent; nothing is removed, so
losing, delaying, repeating and overtaking need no actions), `chosen` (history:
the longest prefix that was ever taken for committed), `reads` (history: how much
was committed when each read was asked for, and the answers), and the bounds of the
scenario (`limits`, `budget`). Actions: the timers (`ElectionTimeout`,
`LeaseExpires`, `LeaderTimeout`, `Beat`), the calls of the application (`Campaign`,
`Propose`, `ProposeConfChange`, `TransferLeader`, `ReadIndex`, `ReportUnreachable`,
`ReportSnapshot`, `RequestSnapshotFor`, `Persist`, `Apply`, `Compact`), a crash
followed by `RawNode::new` (`Restart`) and one `Receive...` per kind of message.
`ProcessReady` is the contract of `RawNode::ready`: a node that is not leader
persists before its messages leave; a leader's messages leave at once, and
`Persist` later makes any prefix of its log, with a commit index of that time,
durable and reports it (`on_persist_entries`). Where a scenario is `lazy`, entries
are applied one by one, as configuration changes need; elsewhere as soon as possible.

**CommittedLog** is the promise of a group: one growing sequence, of which every
node knows a prefix; a scenario may begin with some of it committed.

**Unstable** and **MemStorage** are the two halves of a log as operators, each
assertion of the code as a `Can...` operator. **LogStore** puts RaftLog and RawNode
on top: `node` has their fields, `images`, `synced` and `disk` are the application's
writes, `fault` is set when a `Can...` is false. The application is that of
`examples/five_mem_node` (snapshot, then entries, then HardState). The rest of the
group is reduced to what it does to this log: leaders whose logs contain what is
chosen. **DurableLog** is the promise: the state machine is given the chosen entries
in order, each once, and after a crash goes on from something it had.

**NodeTask** is `InnerNode::run`: its locals with a program counter for the three
places where it can be interrupted (top of the loop, between handing out a Ready and
accepting it, in `select!`), one action per arm of `select!`, one sequence per
channel with its capacity, one action per call of a client and per later half of a
call. Of the RawNode it keeps what the loop reads. The application takes a Ready and
calls `advance`, in which the RawNode panics (`CanAdvance`), so the task is dead
after the first one.

**PeerLink** composes two nodes of RaftNode with `remote::send`, the bounded queue,
the posting task of the pipeline, the snapshot sender and the URL picker both share,
and the reports that go back to the leader. A post may be delivered and succeed,
be refused with a status, or fail before or after delivery (`Refused`,
`PipelineBroken`), all of which is reported; or `check_post_response` panics, the
send to `errorc` blocks, or the snapshot sender unwraps a failed connection
(`PipelineStops`, `SenderStops`), which is not. Every post of the pipeline, failed or
not, leaves something in `done`, which nothing reads: after `DoneSize` of them the
task stops (`Over`). `forgotten` is a history variable: a snapshot has vanished
without a report.

**SnapshotFiles** is a directory: contents of files as the process sees them and, per
file, the contents a crash of the machine may leave it with; saving in its system
calls, over whatever has that name, with failures; loading file after file;
`release_snapdbs` file by file, beside everything else; restarts of the process and
crashes of the machine. The directory is never synced, so the name of a new file
may be gone after a crash. After a start from an old snapshot the process may save any
index again.

The `MC...` modules give constants their values; `MCRaft` holds the scenarios, and
`MCTracker` lets a group change its configuration (Changer) and, in what it has come
to, count acknowledgements or votes (QuorumTracker).

## 4. Runs

States are distinct states found by TLC.

| Run | Instance | Shows | States |
|---|---|---|---|
| `Inflights` | sizes 0..3, indexes 1..5 | the ring implements the window; `full()` tells the truth; no panic | 3244 |
| `Tracker` | 4 nodes, calls and lists of any number and length; in every configuration without learners, a leader with indexes 0..2 and 2 groups, or a candidate | configurations stay well formed, the last request for a node wins, successive quorums overlap, `restore` inverts `to_conf_state`; the committed index is the largest replicated one, with groups too and in every hash order; vote results are final, decisions stand | 78800 |
| `RaftElection` | scenarios Elections, Crash, Crashes, Learner, Transfers, LeaseTransfers, Members, Swap, Removal | election safety, log matching, leader completeness, durability of commits, heartbeats, refinement of `CommittedLog`; transfers are forwarded once, one change is pending and applies | about 165000 |
| `RaftReplication` | Resumed, Window, Catchup, LongCatchup, Requested, PreVotes, Favoured, DeposedReads, EarlyReads | matched is durable; flow control through Probe, Replicate and Snapshot; state machine safety; terms need pre-votes; a read that is alone is linearizable | about 197000 |
| `LogStore` | 3 leaders, 2 entries, 2 outstanding Readies, 1 crash, 1 snapshot, bootstrap with 0 to 2 peers | no panic; what is persisted is durable, no splicing, restarts; refinement of `DurableLog`; everything committed is given out | 131143 |
| `NodeTask` | 2 clients, 1 tick | nothing but ticks is lost; every call returns while the task lives | 49677 |
| `PeerLink` | queue of 1, 2 URLs of which one works, logs to 3, 5 posts until done is full | no limbo; the follower can catch up | 759311 |
| `SnapshotFiles` | 3 snapshots, any number of saves, failures, restarts and crashes | saved snapshots and databases survive, and are found | 111962 |
| `RaftRequestSnapshot` | RequestedTwice | section 8 | |
| `RaftReads` | ReadTwice | section 8 | |
| `LogStoreOvertaken` | as `LogStore`, with 3 outstanding Readies and no crash, snapshot or bootstrap | section 8 | |
| `NodeTaskAdvance` | 1 client, 1 tick | section 8 | |

The scenarios of `MCRaft`, each the smallest in which its case happens:

- *Elections*: three voters, three timeouts. That is what the commit rule for
  entries of earlier terms needs: an entry replicated by the first leader, a second
  leader with another entry at the same index, and the first again. Dropping the
  term test of `maybe_commit` is found here.
- *Crash*, *Crashes*: two elections with a crash, and, for logs of one entry, with two,
  what it takes for two of three voters to forget. *Learner*: an acknowledgement of a learner, a learner told to
  campaign, and heartbeats sent before and after a commit.
- *Resumed*, *Window*: a window of two that fills, a heartbeat answer that frees
  its oldest slot, a report of a lost connection between appends.
- *Catchup*, *LongCatchup*: the leader compacts what a learner lacks and sends a
  snapshot, which is lost, repeated, overtaken by appends, or reported.
  *Requested*: the learner asks for one; *RequestedTwice*, with another snapshot under way.
- *PreVotes*: pre-elections and a lease that expires, up to the third term.
  *Favoured*: one of three nodes has a higher priority than those that want to
  succeed it.
- *Transfers*, *LeaseTransfers*: a transfer that is aborted or races with an election,
  with a proposal or with a lease that expires.
- *DeposedReads*, *EarlyReads*: a read at a leader that has been deposed without
  knowing it, and two at leaders that do not know yet what is committed. *ReadTwice*
  is the first with a second read, for which `ReadsAreLinearizable` fails (section 8).
- *Members*: two changes, of all kinds, with a change of leader in between.
  *Swap*: voter and learner change places in a joint configuration, left
  automatically or on request. *Removal*: a learner is removed and comes back.

The mutants in `PROJECT.json` change one definition each the way a slip in the
code would (a vote that is not recorded, a majority rounded down, a rotated buffer
put together in the wrong order, an overtaken Ready taken for a current one, a URL
never given up) and name the property that then fails.

## 5. Bounds, symmetry and views

Bounds are constants or fields of a scenario: `budget` says how often each event of
the environment may happen, `term` and `log` cut behaviours that would exceed them
in `ProcessReady`, `max_msg` stands for `max_size_per_msg`, `MaxInflight` for
`max_inflight_msgs`. In `LogStore`, `MaxFlying` bounds outstanding Readies
(two in `LogStore`, the most for which `PersistedIsDurable` holds, and three in
`LogStoreOvertaken`),
`MaxPerReady` stands for `max_committed_size_per_ready`. In `PeerLink`, `MaxAnswers`
bounds the answers on their way, any of which may be lost; `DoneSize` is 5 where the
code has 64: enough for a rejected probe, a failed and a repeated snapshot and what
follows it to be posted before the task stops. `CatchUpSteps` is the
least number for which `CanCatchUp` holds in this instance. `SnapshotFiles` has three
indexes, and a constraint that the oldest exists as a database only: two files and
three databases are what overwriting one snapshot beside another and removing two
databases one by one take. Between the limited events every order of deliveries, with
loss and repetition, is explored.

Deadlock is checked in the runs of `Inflights`, `Raft`, `PeerLink` and
`SnapshotFiles`, where something can always happen. The others may come to an end:
`Tracker` when all has been acknowledged, `LogStore` when the budget is spent and all
is given out, `NodeTask` when the task has stopped and every client has made its
call.

Nodes are interchangeable (`SYMMETRY`), as each scenario chooses voters and the
favoured node freely; no liveness property is checked with it.

`LiveView` identifies states of `Raft` that differ only in messages no step will
react to again: terms of nodes only grow, so a message of a term its receiver has
left is ignored, unless `Raft::step` answers it all the same; a vote that was
counted is not counted again; an acknowledgement to a node that is no longer leader
or candidate is dropped. Grants of pre-votes are kept, since `TermsNeedPreVotes`
counts them. The commit index on disk is ignored when no restart or compaction can
follow. Symmetry picks a representative before the view is taken, so the number of
states of these runs varies a little from one execution to the next.

## 6. Fairness

- `LogStore`: weak fairness of handling a Ready (synchronously or not), of the disk
  taking the next write and of reporting it. The loop of `five_mem_node` and any
  driver of RawNode does these; nothing is assumed of leaders, deliveries,
  applying and compaction. `EventuallyGiven` follows: what the node knows to be
  committed is handed out.
- `NodeTask`: weak fairness of the loop and of each call that has begun. The
  runtime polls every task that can go on. Nobody has to call anything, and the
  application need not take its Ready. `CallsReturn` holds while the task lives;
  section 9 has what happens after it has stopped. `AdvancePreparesNext` is refuted
  under the same fairness.

That a follower catches up is not stated with fairness. A pipeline stops after as many
posts as `done` holds, so nothing happens eventually; and a heartbeat timer that is
faster than the pipeline fills its queue and every append is dropped. `CanCatchUp`
is an invariant instead: it computes, from the present state, `CatchUpSteps` posts and
heartbeats of a pipeline that runs over a network that works, and asks for the
follower to be up to date at their end. It is about the recovery that progress,
window, reports and picker owe each other; how many posts a pipeline has left is
another matter (section 9).

All other runs check safety and assume no fairness.

## 7. Proofs

**TrackerProofs**, about `Inflights`, for all sets of sizes and indexes of naturals:

- `RingInvariant`: `Spec => [](TypeOK /\ RingShape /\ Ordered)`. The inductive
  invariant is the conjunction. `RingShape` is what the code never writes down:
  the window is a contiguous or wrapped part of the ring, and if it wraps the
  storage fills the whole ring. Without it no slot of the window is known to be
  readable; without `Ordered`, `free_to`, which stops at the first larger index,
  could not be shown to remove a prefix.
- `AddIsSafe`, `FullIsExact`: consequences of the invariant.
- `RingImplementsWindow`: `Spec => WindowSpec`. One lemma per action says what it
  does to `Window` and `Limit` (`AddEffect`, `FreeToEffect`, `SetCapEffect`, ...),
  and each matches an action of the abstract module or stutters.

**TrackerProofs**, about `QuorumTracker`, for every finite set of nodes:

- `QuorumsAlwaysIntersect`: two majorities of a finite set overlap by counting
  (`MajoritiesOverlap` of **QuorumRulesProofs**), and a quorum of a joint
  configuration holds a majority of the incoming half.
- `AlwaysCommitsLargestReplicated`, `GroupCommitIsAlwaysExact`: the code sorts the
  acknowledged indexes and takes one by its position. `OrderExists` says that a
  sorted order exists and `OrderCounts` how many voters are at or above a position
  of it; so the index at the quorum's position is one that a majority has, and no
  larger one is (`QuorumIndexExact`), whatever order the hash set was iterated in.
  With commit groups (`GroupCommittedExact`) the loop's result is the largest index
  that two groups have as well. No assumption but that indexes fit in 64 bits
  (`AckedAssumption`: the index of an empty half, `u64::MAX`, is not acknowledged).
- `VoteResultIsAlwaysFinal`: a half is won (lost) exactly if every (no) way to fill
  in the missing votes has a majority for it (`HalfVote`).
- `DecisionsAlwaysStand`: recording a vote leaves what was recorded, so the number
  of yes votes and of answers only grow while the missing ones shrink
  (`CountsMoveOneWay`); each half's verdict, hence the joint one, stays.

**ChangerProofs**, for every finite set of nodes and lists of any length:

- `ChangesKeepWellFormed`, `RequestsAreHonoured`: one lemma per operation
  (`MakeVoterKeeps`, `MakeLearnerKeeps`, `RemoveKeeps`, `LeftKeeps`, ...) says that
  it keeps a configuration well formed and gives the node its role. The inductive
  invariant adds `Phase`, which ties the copy to the tracker: what the outgoing half
  of the copy is, that no call is in progress in a joint configuration, that a joint
  configuration has incoming voters. `WellFormed` is stronger than the code's
  `check_invariants` in two places: no staged learner is an incoming voter, and no
  progress is left behind. `check_invariants` alone is not inductive: it
  accepts a staged learner that is an incoming voter, which `leave_joint` would make
  a learner and a voter.
- `SuccessiveQuorumsOverlap`: after a simple change the voter sets differ in at most
  one node, and majorities of such sets overlap (`NeighboursOverlap`); entering a
  joint configuration makes the old voters the outgoing half; leaving it keeps the
  incoming one.

**NodeTaskProofs**, for every set of clients and any number of ticks:

- `TypeCorrectness`: `TypeOK`, strengthened by the types of the channels' contents
  (`Types`), since what a channel holds ends up in the loop's locals.
- `NothingOfTheTaskIsLost`: while the task is at that place, whatever clients have
  made the RawNode want to say is in the Ready it holds. Only a tick can add to it,
  because only `tick` takes the lock past the task.

**TransportProofs**, for any number of snapshots and crashes, and for queues, logs
and lists of URLs of any size:

- `SnapshotsSurvive`, `LoadFindsSnapshot`, with saves that overwrite and fail: the
  inductive invariant `FilesInv` adds that a file is in a state a crash could leave it
  in, that the file being saved is not among those whose last save has returned, and
  that a load that goes on still has before it every file that is neither absent nor
  empty.
- `TypeCorrectness`: part of the same invariant.
- `NewestDatabaseSurvives`: from the same invariant, which says that what
  `release_snapdbs` has still to remove is older than the snapshot it was called for,
  and that one was saved.
- `PeerLinkNoLimbo`. `NoLimbo` relates a field deep in the leader's record to the
  queue and the posts, so the proof goes through every method of `raft.rs` that the
  leader of the link runs: none sets the Progress to Snapshot without putting the
  snapshot among the messages (`Tells`), the Ready hands over all messages or records
  that one was dropped, and `handle_snapshot_status` at the end of a post ends the
  wait. The exceptions are exactly the ways in which the code reports nothing: a full
  queue, a task that panics or blocks on `errorc`, a queue nobody empties any more.
  Whether somebody empties it is left out of the induction (`Awaited`). The inductive
  invariant `LinkInv` also has to say why the leader remains one
  and keeps its Progress: the follower, a learner, never answers in a later term, the
  leader is a quorum of its own, nobody asked for a transfer or a read; and that
  whatever is in the queue and the posts is something the leader said.

**LogStoreProofs**, for all bounds on leaders, logs, crashes, snapshots, peers,
outstanding Readies and entries per Ready:

- `LogStoreInvariant`: `Spec => []LInv`. Each of the properties talks about what the
  node, its storage or the disk hold; none is inductive, because a step of one of
  them depends on where the others are. `LInv` has four parts. `EnvInv`: leaders'
  logs that share an entry agree up to it, and the current leader has all that is
  chosen. `StoreInv`: what a storage holds is a part of one leader's log, and chosen
  up to its commit index. `NodeInv`: the same for storage and unstable entries read
  together (`NodeFits`), with the order of the marks (applied, since, persisted,
  committed, the unstable offset), the place of a snapshot that waits to be stored
  (`SnapshotAhead`), no gap between storage and unstable entries, and what the
  outstanding records may report (`RecordsInv`: what was handed out is persisted, or
  will be when the last snapshot is reported). `DiskInv`: disk and images are all
  such storages, in order. The operators take any node, so a lemma about a handler
  (`ReplaceKeeps`, `RestoreKeeps`, `WrittenHolds`, `ReportPersists`,
  `StabilizedKeeps`, ...) is stated once, and each action composes them.
- `LogStoreNeverPanics`: every action is shown to satisfy the assertions on its way.
- `LogStoreRestartable`, `LogStoreNeverSplices`: consequences of `LInv`; the second
  needs that `slice` joins storage and unstable entries without a gap.
- `LogStorePersistedIsDurable`, if at most two Readies are outstanding
  (`MaxFlying <= 2`). The invariant `DurableInv` says that every storage a crash
  could leave agrees with the node's storage up to `persisted`, and that a record
  describes the storage its Ready was written to. If the first of two Readies is
  reported for its last entry, the term found in the storage after the second is the
  term on disk, and by the matching of logs so is everything before. The hypothesis
  is needed: see section 8.
- `LogStoreImplementsDurableLog`: `Spec => DurableLogSpec`, from `given` being the
  chosen entries up to `since`.

**RaftProofs**, for a group of any size, any scenarios without configuration changes
and with at least two voters (`Unchanging`), any logs, terms and budgets:

- `RaftElectionSafety`. Most methods of `raft.rs` leave role, term, vote and log
  alone (`Keeps`); the others make a step (`Steps`): the term grows or the vote
  stays, a grant goes to the candidate that was voted for, and a node leads only when
  a majority has voted for it. A lemma per method says which, bottom-up along the
  calls, and each action of `Raft` is a step of one node followed by its Ready. The
  invariant `Inv(K, L)` (K is the configuration, L the leaders a scenario begins
  with) says that every grant on the wire is backed by the voter's disk
  (`Voted`), that term and vote of a node are never behind those of its disk and
  agree with them within a term, and that every leader has grants of a majority
  (`Backed`). Two leaders of one term share a voter (`MajoritiesOverlap`).
- `RaftLogMatching`. Entries of a term come from one leader, so the proof follows the
  logs of leaders: `G[x]` is the log the leader of term x has had, a history that the
  proof carries along and no variable holds. A log *fits* G if up to any of its
  entries it is the log of that entry's leader (`Fits`); two logs that fit match
  (`FitsAgree`). `MatchInv` says that all logs of nodes fit, that a disk holds a
  prefix of its node's log, that a leader's log is its G, and that appends and
  snapshots on the wire are pieces of the G of their term (`Copies`). A lemma per
  method says that it moves the log in one of three ways (`Moves`): not at all, by
  appending as a leader, or to something that fits as well, as `maybe_append` and
  `restore` do. A new leader has no G yet, since its term has no other leader
  (`BackedUnique`, the argument of the first theorem).
- Why `Unchanging`: with a single voter and a learner the theorem is false, since
  such a node leads, and sends, before its HardState is written
  (`raw_node.rs:578`); and configuration changes would need the overlap of quorums
  across configurations that are only applied at some of the nodes.

**RaftSafetyProofs**, for the same groups in which in addition nobody asks for a
snapshot (`Unrequested`):

- `RaftStateMachineSafety`, `RaftLeaderCompleteness`, `RaftCommittedIsDurable`,
  `RaftNoFatalHeartbeat` and `RaftImplementsCommittedLog`:
  `Spec => CommittedLogSpec`. All follow from one inductive invariant, `SafetyInv`.
- A second history, `A[v][t]`, is how much node v has acknowledged to the leader of
  term t; unlike `Progress::matched` it survives that leader. An index of term t is
  *chosen* if a majority has acknowledged it (`ChosenAt`). It is *blocked* if a
  majority has gone on to later terms without acknowledging it (`Blocked`): then it
  never will be chosen, and nothing need be said about it. `Safe` says that a later
  leader's G holds whatever of an earlier term is not blocked (`LogsSafe`), that the
  disk of v holds what `A[v]` says unless it is blocked (`Has`), that a candidate
  holds what those that have voted for it have acknowledged (`CandOK`), that what is
  committed was chosen (`ChosenSafe`), and that nodes, disks and messages take nothing
  else for committed (`StoreOK`, `Told`). Blocked indexes cannot be left out of `Has`:
  a node acknowledges its commit index, whatever its log was sent by (see
  section 9).
- A leader counts on its `prs` (`Leads`: progress is no further than `A`, and a commit
  index moves to what a majority has acknowledged of its own term); the others do as
  they are told (`Obeys`: an acknowledgement is on disk before it is sent, a commit
  index comes from a message that tells the truth). One lemma per method of
  `raft.rs` says that it does so, along the calls. `Goes` sums up what one node may do
  with its Ready, and `GoingSafe` is the heart of the argument: such a step keeps
  `Safe`. Its hardest part is `GoingLogs`: whoever wins has the votes of a majority,
  and for an index of an earlier term either one of them had acknowledged it, so that
  the winner holds it, or all of them had left the term without, so that it is
  blocked. `ChosenStep` adds that `chosen` is only extended, and by what the stepping
  node has, which is the step of `CommittedLog`.
- Why `Unrequested`: a requested snapshot can take back what a follower has
  acknowledged (section 8), after which none of this holds.

Assumptions: those named in the modules (`ConstantsAssumption`, `NodeAssumption`,
`AckedAssumption`, `RaftAssumption`, `LogStoreAssumption`, `NodeTaskAssumption`,
`PeerLinkAssumption`, `MaxIndexAssumption`), which TLC evaluates in the runs. Where an argument goes by
induction over positions or sizes, it takes the least element of a set of
counterexamples instead (`LeastElement`, `SetInduction`), since the library's
induction theorems cannot be instantiated.

Type correctness and the invariants that only serve a proof (`RingShape`,
`Ordered`, `Phase`) or are plain mathematics (`QuorumsIntersect`) are proved and not checked by
TLC as properties of their own.

Only model-checked: of `Raft`, whatever concerns configuration changes and snapshot
requests, reads, pre-votes and forwarding (`LoneReadsAreLinearizable`, `OnePendingChange`,
`ConfChangesApply`, `TermsNeedPreVotes`, `ForwardedOnce`), and a leader's view of its
followers (`MatchedIsDurable`, `FlowControl`). Section 9 says why `MatchedIsDurable`
does not hold as it stands in every larger group, so that it cannot be a theorem of
`Spec`. Also only checked: `RestoreInverts`, which is about folds over lists, and
`CanCatchUp`, which is about what a recursive function computes. Out of the prover's reach and
left to TLC: liveness under fairness (`EventuallyGiven`, `CallsReturn`), `ENABLED`, and
what recursively defined operators compute for every input.

## 8. Disagreements between the code and its comments

Each is a run that TLC ends with a counterexample.

1. `RaftRequestSnapshot`. `RawNode::request_snapshot` promises a snapshot that is
   not older than the follower's log. `Raft::restore` skips its test for a matching
   log as long as a request is pending and compares the snapshot with nothing, so a
   snapshot sent earlier, and overtaken by appends, is restored: the follower loses
   entries that it has acknowledged.
2. `RaftReads`. `ReadOnlyOption::Safe` "guarantees the linearizability of the read only
   request by communicating with the quorum" (`read_only.rs:27-28`).
   `ReadOnly::add_request` recognises a repeated context only while it is pending
   (`read_only.rs:89`). A follower's read is served by the leader; another leader is
   elected and commits; a client asks the deposed leader for a second read; a copy of
   the follower's MsgReadIndex is queued behind it, and a copy of the heartbeat response
   that confirmed that context the first time confirms it again, since the term of the
   deposed leader is the same. `ReadOnly::advance` answers everything before it in the
   queue, so the second read is served with an index that is too small although no
   quorum was asked for it. It takes a transport that delivers both messages twice;
   the pipeline of rafthttp, which posts a message once, does not do so by itself. What
   does hold, for a read beside which no other request was forwarded, is
   `LoneReadsAreLinearizable`.
3. `LogStoreOvertaken`. `RaftLog::maybe_persist` describes how an entry may be
   overwritten by another leader and brought back before its first Ready is reported,
   and says (`raft_log.rs:524-526`) that comparing with the first index not yet stable
   solves it. That index covers only what has not been handed out. With three Readies
   outstanding, the first with the entry, the second with the other leader's, the
   third with the entry again, reporting the first passes both tests and moves
   `persisted` to the entry while the disk has that of the second Ready. Messages are
   not affected, since they wait for their own Ready; a committed entry may be
   handed out that a crash takes from the disk.
4. `NodeTaskAdvance`. `Node::advance` "prepares the node to return the next available
   Ready" (`node.rs:370-371`). `run` takes Readies with `ready_without_accept`, which
   leaves no ReadyRecord, and `RawNode::advance` unwraps the last record
   (`raw_node.rs:700`): the first `Node::advance` ends the task. The properties of
   `NodeTask` are about what happens until then.

## 9. Observations

Met while modelling; no run is about them, and the runs that come near them say how
they keep out of their way.

Raft:
- A node of term 0 with a higher priority rejects a pre-vote with its own term, 0,
  and `RaftCore::send` aborts on a vote message without a term (`raft.rs:1508`).
  *Favoured* begins after the first election.
- A single voter becomes leader without a vote message, so with a learner in the
  group its appends may precede its HardState (`raw_node.rs:578`). *Catchup* and
  *Swap* begin with a leader whose term is durable.
- A grant of the previous pre-election, delayed until the node has reached that
  term, counts for the next (`raft.rs:2296`). `TermsNeedPreVotes` allows for it, by
  accepting grants for the term before as well; it therefore tells less about two
  terms that follow each other than about the first and the third.
- A leader that is removed goes on as leader and panics when it next unwraps its
  own progress (`raft.rs:946`, `raft.rs:1063`); the comment at `raft.rs:2683` speaks
  of stepping down. `Changes` proposes no such removal.
- Removing the last voter is refused only when the change is applied, and
  `node.rs:167` unwraps that error.
- `pending_request_snapshot` of a progress is cleared by a report only while its
  state is Snapshot.
- A follower that refuses a pre-vote takes over the commit index of whoever asked
  (`raft.rs:1513`) and stays in its term, and it answers an append before its commit
  index with that index (`raft.rs:2466`), whoever sent the append. In a group of five
  or more, the leader of the follower's term may have been cut off while the others
  have committed another entry there: it then takes the follower to have its own entry,
  and `matched` is wrong. `RaftSafetyProofs` shows that this is harmless: the index is
  blocked for that leader. The proof attempt found it. `MatchedIsDurable` is checked in
  scenarios of two and three nodes, where it cannot happen.
- The entry that leaves a joint configuration automatically is appended by
  `commit_apply` without a broadcast; it leaves with the next append or heartbeat
  answer.

RawNode and storage:
- `ready` asserts that nothing is outstanding when a node has become leader
  (`raw_node.rs:577-585`); with asynchronous Readies the application has to see to
  that.
- `MemStorage::term(first_index - 1)` returns Compacted after `compact`, although
  `storage.rs` says that the term of that entry is retained.
- Compacting past the commit index of the HardState on disk makes the next
  `load_state` fatal; `Compact` is guarded accordingly.

Node:
- `tick` goes past the task. What it produces between taking and accepting a Ready
  is thrown away; what it produces otherwise is offered when something else wakes
  the task up.
- `stop` sends one `done`: of several calls that wait, one returns
  (`node.rs:226`). `status` hangs if the task stops with its request queued.
- The LightReady of `advance` is discarded (`node.rs:214`), and `Ready::new` takes
  all entries for the committed ones (`raw_node.rs:153`).

rafthttp:
- `remote::send` drops a snapshot at a full queue; `snapshot_sender.rs:114` panics on a
  failed connection; `check_post_response` panics on a 412 whose body is missing or
  cannot be read (`net_util.rs:60`) or, for a cluster mismatch, without the header
  (`net_util.rs:69`). On a 403 the pipeline sends to `errorc` and waits if nobody
  receives (`pipeline.rs:159`), and the snapshot sender unwraps an `errorc` that is
  optional (`snapshot_sender.rs:87`). In all these cases nobody reports to raft, which
  waits; `node.rs:407-416` calls such reports crucial. `NoLimbo` exempts exactly these,
  and what is queued when the pipeline is over.
- The pipeline's `done` holds 64, is private, and only the tests read it: after 64
  posts, failed or not, the task waits in `done.send` for good, with the message of the
  65th reported and everything after it queued, then dropped.
- A second `Pipeline::start` in a process panics, since a global subscriber can be set
  only once (`pipeline.rs:75-76`).
- `StateQueue::insert` indexes a Vec without elements.

Snapshot files:
- A file that exists is truncated in place (`util.rs:17`) and rewritten, so saving an
  index again gives up the old copy until the new one is synced. If that was the only
  snapshot, a crash in between leaves the process to start from nothing. `save` does
  not test for it, and a process that started from an old snapshot may get there.
- The directory is never synced, so a crash of the machine may take a snapshot that
  was saved away with its name.
- A partly written file makes `read` panic, on every start, until it is removed; the
  checksum, always that of no data, does not catch it.
- `release_snapdbs` unwraps the parse of every name that ends in `.snap.db`
  (`snap_shotter.rs:131`).
- `load` returns the first readable snapshot in directory order, not the newest.
- Files are created with mode `0x66`, which is `0o146`.

## 10. What is not modelled

- `max_uncommitted_size`, `batch_append` (`try_batching`), the asynchronous fetch of
  entries (`on_entries_fetched`), commit groups inside the group (they are in
  `QuorumTracker`) and the setters that change a Config at run time; scenarios have
  `skip_bcast_commit` and lease-based reads off. Lease-based reads are safe only
  under a bound on clock drift that the code does not state.
- A change proposed with transition Implicit; it differs from Auto only for fewer
  than two changes.
- What leases are for, that a leader is not disturbed: it depends on how the clocks
  of the nodes relate. The test itself is part of `StepHigherTerm`.
- Timers beyond "has the timeout passed": which tick a timeout falls on is
  nondeterministic.
- Sizes in bytes: `max_msg` and `MaxPerReady` are how many entries fit.
- `Pipeline::stop`, `pause` and `resume`, whose futures nobody polls;
  `BaseurlPicker::update`, which nobody calls; `PeerStatus`, which is only logged;
  the statistics of `v2state`; `cleanup_snapdir` and `check_suffix`.
- Formatting, logging, error texts, protobuf encoding, TLS, HTTP and file-system
  wrappers, the test harness: no transitions that a property is about.
