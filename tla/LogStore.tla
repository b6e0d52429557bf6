------------------------------ MODULE LogStore ------------------------------
(***************************************************************************)
(* The log of one node, from the messages that change it to the disk:      *)
(* raft_log::RaftLog (raft-rs/src/raft_log.rs) over Unstable and           *)
(* MemStorage, handed to the application in Readies by RawNode             *)
(* (raft-rs/src/raw_node.rs), with several Readies on their way to the     *)
(* disk at the same time (advance_append_async, on_persist_ready).         *)
(*                                                                         *)
(* node holds the fields of RaftLog and of RawNode:                        *)
(*                                                                         *)
(*   unstable, store, committed, persisted, applied      RaftLog           *)
(*   records     the ReadyRecords not reported as persisted yet            *)
(*   since       commit_since_index                                        *)
(*   prev_commit prev_hs.commit                                            *)
(*                                                                         *)
(* The application writes a Ready to its storage at once and syncs it to   *)
(* the disk later, in order: images are the contents of the storage after  *)
(* each Ready that is outstanding, the first `synced` of which are on      *)
(* disk.  A crash goes back to the disk.                                   *)
(*                                                                         *)
(* The group around the node is reduced to what it does to its log: there  *)
(* is a current leader, of a term, with a log that contains all chosen     *)
(* entries; a new leader's log is a prefix of some earlier leader's log    *)
(* and entries of its own.                                                 *)
(***************************************************************************)
EXTENDS MemStorage, FiniteSets

CONSTANTS
    MaxTerm, MaxIndex,      \* bounds on leaders and their logs
    MaxFlying,              \* bound on outstanding Readies
    MaxCrashes, MaxSnaps,   \* bounds on crashes and on snapshots received
    MaxPeers,               \* bound on the peers given to bootstrap
    MaxPerReady             \* how many entries max_committed_size_per_ready lets through

ASSUME LogStoreAssumption ==
    /\ {MaxTerm, MaxIndex, MaxCrashes, MaxSnaps, MaxPeers} \subseteq Nat
    /\ {MaxFlying, MaxPerReady} \subseteq Nat \ {0}

VARIABLES
    term, lead, logs,       \* the current leader and its log; all leaders' logs
    chosen,                 \* the entries committed by the group, as terms
    node,                   \* RaftLog and RawNode
    images, synced, disk,   \* the application's writes
    given,                  \* history: what the state machine was given
    spent,                  \* crashes and snapshots so far
    fault                   \* an assertion failed or fatal! was called

envVars == <<term, lead, logs, chosen>>
vars == <<envVars, node, images, synced, disk, given, spent, fault>>

MinOf2(a, b) == IF a < b THEN a ELSE b
MaxOf2(a, b) == IF a > b THEN a ELSE b

Terms(ents) == [k \in 1..Len(ents) |-> ents[k].term]
LeaderEntries(lo, hi) == [k \in 1..(hi - lo + 1) |-> [index |-> lo + k - 1, term |-> lead[lo + k - 1]]]
TermIn(log, i) == IF i = 0 THEN 0 ELSE log[i]

-----------------------------------------------------------------------------
(***************************************************************************)
(* RaftLog.                                                                *)
(***************************************************************************)

\* RaftLog::new, with the commit index Raft::load_state takes from the storage
NewNode(st, applied) ==
    [unstable |-> NewUnstable(StoreLast(st) + 1), store |-> st,
     committed |-> st.commit, persisted |-> StoreLast(st), applied |-> applied,
     records |-> <<>>, since |-> applied, prev_commit |-> st.commit]

FirstIndex(n) ==
    IF HasSnapshot(n.unstable) THEN n.unstable.snapshot.index + 1 ELSE StoreFirst(n.store)

LastIndex(n) == IF HasLast(n.unstable) THEN UnstableLast(n.unstable) ELSE StoreLast(n.store)

\* RaftLog::term
TermAt(n, i) ==
    IF i < FirstIndex(n) - 1 \/ i > LastIndex(n) THEN 0
    ELSE IF MaybeTerm(n.unstable, i) # NoTerm THEN MaybeTerm(n.unstable, i)
    ELSE StoreTerm(n.store, i)

MatchTerm(n, i, t) == TermAt(n, i) = t

\* RaftLog::find_conflict
FindConflict(n, ents) ==
    LET missing == {k \in 1..Len(ents) : ~MatchTerm(n, ents[k].index, ents[k].term)}
    IN  IF missing = {} THEN 0
        ELSE ents[CHOOSE k \in missing : \A j \in missing : k <= j].index

\* RaftLog::append panics if the entries overwrite committed ones.
CanAppend(n, ents) ==
    /\ ents[1].index - 1 >= n.committed
    /\ CanTruncateAndAppend(n.unstable, ents)

\* RaftLog::commit_to, fatal past the end of the log
CanCommitTo(n, i) == i <= n.committed \/ i <= LastIndex(n)
CommitTo(n, i) == [n EXCEPT !.committed = MaxOf2(@, i)]

\* The middle of RaftLog::maybe_append: what follows the conflict is replaced.
ReplaceFrom(n, conflict, ents) ==
    IF conflict = 0 THEN n
    ELSE [n EXCEPT !.unstable = TruncateAndAppend(@, SubSeq(ents, conflict - ents[1].index + 1, Len(ents))),
                   !.persisted = MinOf2(@, conflict - 1)]

CanReplaceFrom(n, conflict, ents) ==
    conflict # 0 => CanAppend(n, SubSeq(ents, conflict - ents[1].index + 1, Len(ents)))

\* Readies that are overtaken are not told from current ones.
MutMaybePersist(n, last) ==
    IF last.index > n.persisted /\ StoreTerm(n.store, last.index) = last.term
      THEN [n EXCEPT !.persisted = last.index] ELSE n

\* RaftLog::maybe_persist
FirstUpdateIndex(u) == IF HasSnapshot(u) THEN u.snapshot.index ELSE u.offset

MaybePersist(n, last) ==
    IF /\ last.index > n.persisted
       /\ last.index < FirstUpdateIndex(n.unstable)
       /\ StoreTerm(n.store, last.index) = last.term
      THEN [n EXCEPT !.persisted = last.index] ELSE n

\* RaftLog::maybe_persist_snap
CanPersistSnap(n, i) == i > n.persisted => i <= n.committed /\ i < n.unstable.offset
MaybePersistSnap(n, i) == [n EXCEPT !.persisted = MaxOf2(@, i)]

\* RaftLog::restore
Restore(n, snap) ==
    [n EXCEPT !.persisted = MinOf2(@, n.committed),
              !.committed = snap.index,
              !.unstable = UnstableRestore(snap)]

\* RaftLog::applied_to
CanApplyTo(n, i) == i <= MinOf2(n.committed, n.persisted) /\ i >= n.applied

\* Entries are handed out again until they are applied (next_entries).
MutNextLow(n) == MaxOf2(n.applied + 1, FirstIndex(n))

\* The range of RaftLog::next_entries_since: committed and persisted entries
\* that were not handed out.
NextLow(n) == MaxOf2(n.since + 1, FirstIndex(n))

\* Entries are handed out once they are committed, persisted or not.
MutNextHigh(n) == n.committed + 1

NextHigh(n) == MinOf2(n.committed, n.persisted) + 1
HasNext(n) == NextHigh(n) > NextLow(n)

\* RaftLog::slice, from lo to hi - 1, out of the storage and the unstable
\* entries
CanReadSlice(n, lo, hi) ==
    LET stableHi == MinOf2(hi, n.unstable.offset)
        unstableLo == MaxOf2(lo, n.unstable.offset)
    IN  /\ lo >= FirstIndex(n) /\ hi <= LastIndex(n) + 1
        /\ lo < n.unstable.offset => CanReadEntries(n.store, lo, stableHi)
        /\ hi > n.unstable.offset => CanSlice(n.unstable, unstableLo, hi)

Slice(n, lo, hi) ==
    LET off == n.unstable.offset
    IN  (IF lo < off THEN StoreEntries(n.store, lo, MinOf2(hi, off)) ELSE <<>>)
        \o (IF hi > off THEN UnstableSlice(n.unstable, MaxOf2(lo, off), hi) ELSE <<>>)

-----------------------------------------------------------------------------
(***************************************************************************)
(* RawNode.                                                                *)
(***************************************************************************)

\* The committed entries of RawNode::gen_light_ready
CanGenLight(n) ==
    HasNext(n) => CanReadSlice(n, NextLow(n), NextHigh(n)) /\ n.since < NextHigh(n)

LightEntries(n) ==
    IF ~HasNext(n) THEN <<>>
    ELSE Slice(n, NextLow(n), MinOf2(NextHigh(n), NextLow(n) + MaxPerReady))

GenLight(n) ==
    IF HasNext(n) THEN [n EXCEPT !.since = NextLow(n) + Len(LightEntries(n)) - 1] ELSE n

\* RawNode::has_ready
HasReady(n) ==
    \/ n.committed # n.prev_commit
    \/ n.unstable.entries # <<>>
    \/ HasSnapshot(n.unstable)
    \/ HasNext(n)

\* RawNode::ready: a snapshot is handed out before anything else.
AfterSnapshot(n) ==
    IF HasSnapshot(n.unstable) THEN [n EXCEPT !.since = n.unstable.snapshot.index] ELSE n

CanReady(n) ==
    /\ HasSnapshot(n.unstable) =>
          n.since <= n.unstable.snapshot.index /\ ~HasNext(AfterSnapshot(n))
    /\ CanGenLight(AfterSnapshot(n))

\* The ReadyRecord of the next Ready
NoEntry == [index |-> 0, term |-> 0]
Record(n) ==
    [snapshot |-> n.unstable.snapshot,
     last |-> IF n.unstable.entries = <<>> THEN NoEntry ELSE n.unstable.entries[Len(n.unstable.entries)]]

\* What the application does to its storage for a Ready: the snapshot, the
\* entries, the HardState.
Snapshotted(n) ==
    IF HasSnapshot(n.unstable) THEN ApplySnapshot(n.store, n.unstable.snapshot) ELSE n.store

CanWrite(n) ==
    /\ HasSnapshot(n.unstable) => CanApplySnapshot(n.store, n.unstable.snapshot)
    /\ CanStoreAppend(Snapshotted(n), n.unstable.entries)

Written(n) ==
    LET st == StoreAppend(Snapshotted(n), n.unstable.entries)
    IN  IF n.committed # n.prev_commit THEN SetHardState(st, n.committed) ELSE st

\* RawNode::commit_ready
CommitReady(n, rec) ==
    LET u == IF rec.snapshot # NoSnapshot THEN StableSnap(n.unstable) ELSE n.unstable
    IN  [n EXCEPT !.prev_commit = n.committed,
                  !.unstable = IF rec.last # NoEntry THEN StableEntries(u, rec.last) ELSE u,
                  !.records = Append(@, rec)]

CanCommitReady(n, rec) ==
    LET u == IF rec.snapshot # NoSnapshot THEN StableSnap(n.unstable) ELSE n.unstable
    IN  /\ rec.snapshot # NoSnapshot => CanStableSnap(n.unstable, rec.snapshot)
        /\ rec.last # NoEntry => CanStableEntries(u, rec.last)

\* RawNode::on_persist_ready: the last snapshot of the records, and the last
\* entry after it.
LastSnapshot(recs) ==
    LET at == {k \in 1..Len(recs) : recs[k].snapshot # NoSnapshot}
    IN  IF at = {} THEN 0 ELSE CHOOSE k \in at : \A j \in at : j <= k

\* The entries of the Ready that brought the snapshot are forgotten.
MutLastEntry(recs) ==
    LET at == {k \in 1..Len(recs) : recs[k].last # NoEntry /\ k > LastSnapshot(recs)}
    IN  IF at = {} THEN NoEntry ELSE recs[CHOOSE k \in at : \A j \in at : j <= k].last

LastEntry(recs) ==
    LET at == {k \in 1..Len(recs) : recs[k].last # NoEntry /\ k >= LastSnapshot(recs)}
    IN  IF at = {} THEN NoEntry ELSE recs[CHOOSE k \in at : \A j \in at : j <= k].last

SnapReported(n, recs) ==
    IF LastSnapshot(recs) = 0 THEN n ELSE MaybePersistSnap(n, recs[LastSnapshot(recs)].snapshot.index)

CanReport(n, recs) ==
    LastSnapshot(recs) # 0 => CanPersistSnap(n, recs[LastSnapshot(recs)].snapshot.index)

Report(n, recs) ==
    IF LastEntry(recs) = NoEntry THEN SnapReported(n, recs)
    ELSE MaybePersist(SnapReported(n, recs), LastEntry(recs))

OnPersistReady(n, k) ==
    [Report(n, SubSeq(n.records, 1, k)) EXCEPT !.records = SubSeq(@, k + 1, Len(@))]

-----------------------------------------------------------------------------
(***************************************************************************)
(* The group.                                                              *)
(***************************************************************************)
Spend(e, max) == spent[e] < max /\ spent' = [spent EXCEPT ![e] = @ + 1]

\* Someone else is elected, with all chosen entries, and appends its own.
NewLeader ==
    /\ term < MaxTerm
    /\ \E l \in logs : \E k \in Len(chosen)..MinOf2(Len(l), MaxIndex - 1) :
          /\ SubSeq(l, 1, Len(chosen)) = chosen
          /\ lead' = Append(SubSeq(l, 1, k), term + 1)
    /\ term' = term + 1
    /\ logs' = logs \cup {lead'}
    /\ UNCHANGED <<chosen, node, images, synced, disk, given, spent, fault>>

LeaderAppends ==
    /\ term > 0 /\ Len(lead) < MaxIndex
    /\ lead' = Append(lead, term)
    /\ logs' = logs \cup {lead'}
    /\ UNCHANGED <<term, chosen, node, images, synced, disk, given, spent, fault>>

\* Only entries of the leader's own term are committed by counting.
LeaderCommits ==
    /\ \E k \in (Len(chosen) + 1)..Len(lead) :
          lead[k] = term /\ chosen' = SubSeq(lead, 1, k)
    /\ UNCHANGED <<term, lead, logs, node, images, synced, disk, given, spent, fault>>

\* A step of the node: it panics, or it ends in state n.
Becomes(ok, n) ==
    /\ fault' = ~ok
    /\ node' = IF ok THEN n ELSE node

\* Raft::handle_append_entries and RaftLog::maybe_append: entries prev + 1 to
\* last of the leader.  An append before the commit index is answered only.
ReceiveAppend(prev, last, commit) ==
    LET ents == LeaderEntries(prev + 1, last)
        conflict == FindConflict(node, ents)
        replaced == ReplaceFrom(node, conflict, ents)
        to == MinOf2(commit, last)
    IN  /\ prev >= node.committed
        /\ MatchTerm(node, prev, TermIn(lead, prev))
        /\ Becomes(CanReplaceFrom(node, conflict, ents) /\ CanCommitTo(replaced, to),
                   CommitTo(replaced, to))
        /\ UNCHANGED <<envVars, images, synced, disk, given, spent>>

\* Raft::restore for the chosen entries up to i
ReceiveSnapshot(i) ==
    /\ Spend("snap", MaxSnaps)
    /\ i >= node.committed
    /\ Becomes(TRUE, IF MatchTerm(node, i, chosen[i]) THEN CommitTo(node, i)
                     ELSE Restore(node, [index |-> i, term |-> chosen[i]]))
    /\ UNCHANGED <<envVars, images, synced, disk, given>>

-----------------------------------------------------------------------------
(***************************************************************************)
(* The application.                                                        *)
(***************************************************************************)

\* The state machine gets the snapshot and the committed entries of a Ready.
GivenBySnapshot(n) ==
    IF HasSnapshot(n.unstable) THEN SubSeq(chosen, 1, n.unstable.snapshot.index) ELSE given

\* ready, writing to the storage, and commit_ready
CanStabilize(n) == CanReady(n) /\ CanWrite(n) /\ CanCommitReady(n, Record(n))

Stabilized(n) ==
    [CommitReady(GenLight(AfterSnapshot(n)), Record(n)) EXCEPT !.store = Written(n)]

GivenBy(n) == GivenBySnapshot(n) \o Terms(LightEntries(AfterSnapshot(n)))

\* advance_append_async: the Ready is in the storage, not yet on disk.
HandleReadyAsync ==
    /\ HasReady(node) /\ Len(node.records) < MaxFlying
    /\ \E ok \in {CanStabilize(node)} :
          /\ Becomes(ok, Stabilized(node))
          /\ images' = IF ok THEN Append(images, Written(node)) ELSE images
          /\ given' = IF ok THEN GivenBy(node) ELSE given
    /\ UNCHANGED <<envVars, synced, disk, spent>>

\* advance_append: the Ready is on disk, and so are all earlier ones; a
\* LightReady hands out what has become available by that.
HandleReady ==
    /\ HasReady(node)
    /\ IF ~CanStabilize(node) THEN fault' = TRUE /\ UNCHANGED <<node, images, synced, disk, given>>
       ELSE \E stable \in {Stabilized(node)} : \E reported \in {OnPersistReady(stable, Len(stable.records))} :
              LET ok == CanReport(stable, stable.records) /\ CanGenLight(reported)
              IN  /\ Becomes(ok, GenLight(reported))
                  /\ images' = <<>> /\ synced' = 0 /\ disk' = stable.store
                  /\ given' = IF ok THEN GivenBy(node) \o Terms(LightEntries(reported)) ELSE given
    /\ UNCHANGED <<envVars, spent>>

\* The next outstanding Ready reaches the disk.
Sync ==
    /\ synced < Len(images)
    /\ synced' = synced + 1
    /\ disk' = images[synced + 1]
    /\ UNCHANGED <<envVars, node, images, given, spent, fault>>

\* on_persist_ready for the first k of the Readies that are on disk
Persisted(k) ==
    /\ k <= synced
    /\ Becomes(CanReport(node, SubSeq(node.records, 1, k)), OnPersistReady(node, k))
    /\ images' = SubSeq(images, k + 1, Len(images))
    /\ synced' = synced - k
    /\ UNCHANGED <<envVars, disk, given, spent>>

\* advance_apply_to: the application has applied what it was given, up to i.
\* A snapshot is applied, and what follows it, after it was reported as
\* persisted.
Applied(i) ==
    /\ i > node.applied /\ i <= node.since
    /\ LastSnapshot(node.records) = 0
    /\ Becomes(CanApplyTo(node, i), [node EXCEPT !.applied = i])
    /\ UNCHANGED <<envVars, images, synced, disk, given, spent>>

\* MemStorageCore::compact, up to what is applied and known to be committed
\* by the disk
CompactTo(i) ==
    /\ i > StoreFirst(node.store) /\ i <= MinOf2(node.applied, disk.commit)
    /\ Becomes(CanCompact(node.store, i), [node EXCEPT !.store = Compact(@, i)])
    /\ images' = [k \in 1..Len(images) |-> Compact(images[k], i)]
    /\ disk' = Compact(disk, i)
    /\ UNCHANGED <<envVars, synced, given, spent>>

\* The process dies and starts again from the disk, with Config::applied = a.  The
\* state machine goes on from what it has applied, or from a snapshot on the disk
\* that it did not get to apply.
Crash(a) ==
    /\ Spend("crash", MaxCrashes)
    /\ a \in (StoreFirst(disk) - 1)..MaxOf2(StoreFirst(disk) - 1, MinOf2(node.applied, disk.commit))
    /\ Becomes(disk.commit \in (StoreFirst(disk) - 1)..StoreLast(disk), NewNode(disk, a))
    /\ images' = <<>> /\ synced' = 0
    /\ given' = SubSeq(given, 1, a)
    /\ UNCHANGED <<envVars, disk>>

-----------------------------------------------------------------------------
\* RawNode::bootstrap with k peers: one configuration change for each of them
\* is in the log, of term 1, and committed before it is persisted.
Bootstrap(n, k) ==
    [n EXCEPT !.unstable = TruncateAndAppend(@, [i \in 1..k |-> [index |-> i, term |-> 1]]),
              !.committed = k]

\* A node starts empty, or with what bootstrap has put into the log of every
\* node of the group.
Init ==
    /\ \E k \in 0..MaxPeers :
          /\ lead = [i \in 1..k |-> 1]
          /\ term = (IF k = 0 THEN 0 ELSE 1)
          /\ node = IF k = 0 THEN NewNode(NewStorage, 0) ELSE Bootstrap(NewNode(NewStorage, 0), k)
    /\ logs = {lead} /\ chosen = lead
    /\ images = <<>> /\ synced = 0 /\ disk = NewStorage
    /\ given = <<>>
    /\ spent = [crash |-> 0, snap |-> 0]
    /\ fault = FALSE

Next ==
    /\ ~fault
    /\ \/ NewLeader
       \/ LeaderAppends
       \/ LeaderCommits
       \/ \E prev \in 0..Len(lead) : \E last \in prev..Len(lead) : \E commit \in 0..Len(chosen) :
             ReceiveAppend(prev, last, commit)
       \/ \E i \in 1..Len(chosen) : ReceiveSnapshot(i)
       \/ HandleReadyAsync
       \/ HandleReady
       \/ Sync
       \/ \E k \in 1..MaxFlying : Persisted(k)
       \/ \E i \in 1..MaxIndex : Applied(i)
       \/ \E i \in 1..MaxIndex : CompactTo(i)
       \/ \E a \in 0..MaxIndex : Crash(a)

(***************************************************************************)
(* Whoever drives a RawNode handles every Ready, in some way, and lets     *)
(* what it writes reach the disk and be reported.  Nothing is assumed of   *)
(* the group, of applying or of compaction.                                *)
(***************************************************************************)
Fairness ==
    /\ WF_vars(~fault /\ (HandleReadyAsync \/ HandleReady))
    /\ WF_vars(~fault /\ Sync)
    /\ WF_vars(~fault /\ \E k \in 1..MaxFlying : Persisted(k))

Spec == Init /\ [][Next]_vars /\ Fairness

-----------------------------------------------------------------------------
\* None of the assertions and fatal! calls of RaftLog, Unstable, MemStorage
\* and RawNode is ever reached, in any order of messages, outstanding
\* Readies, snapshots, compactions and crashes.
NoPanic == ~fault

\* The entries of the log up to persisted are on disk as they are in the log
\* now, not as some overtaken Ready wrote them (maybe_persist, maybe_append,
\* restore): a leader counts itself for them, and they are handed out.  With
\* three Readies outstanding it does not hold: the first may be reported for
\* an entry that the second has overwritten and the third has brought back.
\* (While a snapshot waits to be stored, persisted may still be moved over
\* entries that the snapshot replaces; nothing reads them any more.)
PersistedIsDurable ==
    /\ node.persisted <= StoreLast(disk)
    /\ \A i \in FirstIndex(node)..node.persisted : StoreTerm(disk, i) = TermAt(node, i)

\* The log, read through the storage and the unstable entries, is the log of
\* some leader: truncation and offsets never splice two of them together.
\* The same holds for what a crash would leave.
IsLeaderLog(ents) == \E l \in logs : Len(ents) <= Len(l) /\ SubSeq(l, 1, Len(ents)) = ents

NeverSpliced ==
    /\ IsLeaderLog(SubSeq(chosen, 1, FirstIndex(node) - 1)
                     \o Terms(Slice(node, FirstIndex(node), LastIndex(node) + 1)))
    /\ IsLeaderLog(SubSeq(chosen, 1, StoreFirst(disk) - 1) \o Terms(disk.entries))

\* Raft::load_state accepts what is on disk at any time, it holds what was
\* committed, and MemStorage can make a snapshot of it.
Restartable ==
    /\ disk.commit \in (StoreFirst(disk) - 1)..StoreLast(disk)
    /\ CanSnapshot(disk)
    /\ \A i \in StoreFirst(disk)..disk.commit : StoreTerm(disk, i) = chosen[i]

\* The state machine is given the chosen entries, each once and in order.
D == INSTANCE DurableLog

DurableLogSpec == D!Spec

\* Whatever the node knows to be committed is eventually given to the state
\* machine: refusing to move persisted for an overtaken Ready (maybe_persist)
\* never leaves it behind for good.
EventuallyGiven == []<>(node.since >= node.committed)
=============================================================================
