-------------------------------- MODULE Raft --------------------------------
(***************************************************************************)
(* A raft group: every node runs the state machine of RaftNode, driven by  *)
(* an application through RawNode (raft-rs/src/raw_node.rs), over an       *)
(* unreliable network.                                                     *)
(*                                                                         *)
(* net holds every message ever sent.  Receiving does not remove, so a     *)
(* message may be lost, delayed, duplicated and overtaken.                 *)
(*                                                                         *)
(* disk is what the application has made durable.  RawNode::ready hands a  *)
(* node's messages out as persisted_messages unless it is leader: they are *)
(* sent after the entries and the HardState of the Ready are on disk.  A   *)
(* leader's messages may be sent at once, its log reaches the disk later   *)
(* (Persist).  A crash loses everything but the disk; what the application *)
(* has applied, compacted or restored from a snapshot is durable at once.  *)
(*                                                                         *)
(* A run covers several scenarios: how many voters and learners there are, *)
(* the Config of the nodes, and how often each event of the environment    *)
(* may happen.                                                             *)
(***************************************************************************)
EXTENDS RaftNode

CONSTANTS
    Server,         \* the nodes there may be
    Value,          \* what clients propose
    Scenarios       \* the set of scenarios

\* What the environment does: timers, clients, the application, crashes.
Event == {"Timeout", "Campaign", "Lease", "Quorum", "Beat", "Propose", "Transfer", "Read", "Change",
          "Compact", "Report", "Request", "Unreachable", "Restart"}

\* The kinds of configuration changes that are proposed
ChangeKinds == {"add", "enlist", "promote", "swap", "leave", "remove"}

\* settled: the scenario begins with an elected leader; lazy: entries are
\* applied one by one and not as soon as possible; term and log bound the terms
\* and the lengths of logs.
ConfigType ==
    [pre_vote : BOOLEAN, check_quorum : BOOLEAN, lease_read : BOOLEAN, skip_bcast_commit : BOOLEAN,
     priority : Nat, max_msg : Nat \ {0}]

ScenarioType ==
    [voters : Nat \ {0}, learners : Nat, settled : BOOLEAN, favoured : BOOLEAN, lazy : BOOLEAN,
     config : ConfigType, term : Nat, log : Nat, changes : SUBSET ChangeKinds, budget : [Event -> Nat]]

ASSUME RaftAssumption == IsFiniteSet(Server) /\ None \notin Server /\ Empty \notin Value /\ Scenarios \subseteq ScenarioType

VARIABLES
    node,       \* the Raft of every node
    disk,       \* what every node has persisted
    net,        \* the messages sent
    chosen,     \* history: the longest prefix any node has taken for committed
    reads,      \* history: Len(chosen) when each read was asked for, the answers
    limits,     \* the bounds of the scenario
    budget      \* how often each event may still happen

vars == <<node, disk, net, chosen, reads, limits, budget>>

Nodes == DOMAIN node

-----------------------------------------------------------------------------
\* Node n is in state s: its messages and ReadStates go out, chosen follows its
\* commit index.
Publish(n, s) ==
    /\ net' = net \cup s.msgs
    /\ node' = [node EXCEPT ![n] = [s EXCEPT !.msgs = {}, !.read_states = {}]]
    /\ chosen' = IF s.committed > Len(chosen) THEN SubSeq(s.log, 1, s.committed) ELSE chosen
    /\ reads' = [reads EXCEPT !.served = @ \cup s.read_states]
    /\ UNCHANGED limits

\* The HardState is written without the vote.
MutSynced(s) == [term |-> s.term, vote |-> None, commit |-> s.committed, log |-> s.log]

\* What the storage holds once a Ready with all of s is persisted.
Synced(s) == [term |-> s.term, vote |-> s.vote, commit |-> s.committed, log |-> s.log]

\* Unless entries are applied one by one, whatever can be applied is
\* (RaftLog::next_entries).  They hold no configuration changes then.
Applied(s) ==
    IF limits.lazy THEN s
    ELSE [s EXCEPT !.applied = MinOf({s.committed, s.persisted})]

\* All of a Ready is persisted; its snapshot is applied as well.
Persisted(s) ==
    [s EXCEPT !.persisted = Len(s.log), !.applied = IF @ < s.snap THEN s.snap ELSE @]

\* RawNode::ready after a handler, and the application's part of the
\* contract: unless n is leader, persist before sending.
ProcessReady(n, s) ==
    /\ s.term <= limits.term /\ Len(s.log) <= limits.log
    /\ Publish(n, Applied(IF s.state = "Leader" THEN s ELSE Persisted(s)))
    /\ disk' = IF s.state = "Leader" THEN disk ELSE [disk EXCEPT ![n] = Synced(s)]

\* An event of the environment happens once more.
Spend(e) ==
    /\ budget[e] > 0
    /\ budget' = [budget EXCEPT ![e] = @ - 1]

-----------------------------------------------------------------------------
(***************************************************************************)
(* Timers.                                                                 *)
(***************************************************************************)

\* Raft::tick_election when the randomized timeout has passed
ElectionTimeout(n) ==
    /\ n \in VotersOf(node[n].conf) /\ node[n].state # "Leader"
    /\ Spend("Timeout")
    /\ ProcessReady(n, Hup([node[n] EXCEPT !.expired = FALSE], FALSE))

\* RawNode::campaign.  Nothing in Raft::hup keeps a learner from it.
Campaign(n) ==
    /\ Spend("Campaign")
    /\ ProcessReady(n, Hup(node[n], FALSE))

\* Raft::tick_election between election_timeout and the randomized timeout;
\* only a lease depends on it.
LeaseExpires(n) ==
    /\ node[n].config.check_quorum /\ node[n].state # "Leader" /\ ~node[n].expired
    /\ Spend("Lease")
    /\ ProcessReady(n, [node[n] EXCEPT !.expired = TRUE])

\* Raft::tick_heartbeat after an election timeout
LeaderTimeout(n) ==
    /\ node[n].state = "Leader"
    /\ Spend("Quorum")
    /\ ProcessReady(n, LET s == IF node[n].config.check_quorum THEN HandleCheckQuorum(node[n]) ELSE node[n]
                       IN  [s EXCEPT !.lead_transferee = None])

\* Raft::tick_heartbeat after a heartbeat timeout
Beat(n) ==
    /\ node[n].state = "Leader"
    /\ Spend("Beat")
    /\ ProcessReady(n, BcastHeartbeat(node[n]))

-----------------------------------------------------------------------------
(***************************************************************************)
(* Calls of the application.                                               *)
(***************************************************************************)

\* A proposal is a local message, which has term 0.
ProposeEntry(n, e) ==
    ProcessReady(n, Step(node[n], [type |-> "MsgPropose", from |-> n, to |-> n, term |-> 0, entry |-> e]))

\* RawNode::propose
Propose(n, v) == Spend("Propose") /\ ProposeEntry(n, NormalEntry(v))

\* The configuration changes a client of n asks for: one step at a time, or two
\* roles exchanged through a joint configuration that is left automatically or
\* on request.  A node that is added may not be running.  A leader that is removed
\* would not survive it (maybe_commit unwraps its own progress), so only learners
\* and nodes that do not run are.
Changes(n) ==
    LET conf == node[n].conf
        one(type, id) == [transition |-> "Auto", changes |-> <<[type |-> type, id |-> id]>>]
        swap(a, b) == <<[type |-> "AddNode", id |-> a], [type |-> "AddLearnerNode", id |-> b]>>
        of(kind) ==
            CASE kind = "add" -> {one("AddNode", id) : id \in Server \ conf.progress}
              [] kind = "enlist" -> {one("AddLearnerNode", id) : id \in Server \ conf.progress}
              [] kind = "promote" -> {one("AddNode", id) : id \in conf.learners}
              [] kind = "swap" -> {[transition |-> t, changes |-> swap(a, b)] :
                                      t \in {"Auto", "Explicit"}, a \in conf.learners, b \in conf.incoming}
              [] kind = "leave" -> {[transition |-> "Auto", changes |-> <<>>]}
              [] kind = "remove" -> {one("RemoveNode", id) : id \in (conf.learners \cup (conf.progress \ Nodes)) \ {n}}
    IN  UNION {of(kind) : kind \in limits.changes}

\* RawNode::propose_conf_change, to whoever takes itself for the leader.
ProposeConfChange(n) ==
    /\ node[n].state = "Leader"
    /\ Spend("Change")
    /\ \E cc \in Changes(n) : ProposeEntry(n, ConfChangeEntry(cc))

\* RawNode::transfer_leader
TransferLeader(n, to) ==
    /\ Spend("Transfer")
    /\ ProcessReady(n, Step(node[n], [type |-> "MsgTransferLeader", from |-> to, to |-> n, term |-> 0]))

\* RawNode::read_index; the context is unique.
ReadIndex(n) ==
    /\ Spend("Read")
    /\ LET s == Step(node[n], [type |-> "MsgReadIndex", from |-> None, to |-> n, term |-> 0,
                               ctx |-> Len(reads.asked) + 1])
       IN  /\ net' = net \cup s.msgs
           /\ node' = [node EXCEPT ![n] = [s EXCEPT !.msgs = {}, !.read_states = {}]]
           /\ reads' = [asked |-> Append(reads.asked, Len(chosen)), served |-> reads.served \cup s.read_states]
    /\ UNCHANGED <<disk, chosen, limits>>

\* RawNode::report_unreachable
ReportUnreachable(n, j) ==
    /\ node[n].state = "Leader" /\ j # n
    /\ Spend("Unreachable")
    /\ ProcessReady(n, HandleUnreachable(node[n], j))

\* RawNode::report_snapshot
ReportSnapshot(n, j, failed) ==
    /\ node[n].state = "Leader" /\ j # n
    /\ Spend("Report")
    /\ ProcessReady(n, HandleSnapshotStatus(node[n], j, failed))

\* RawNode::request_snapshot
RequestSnapshotFor(n) ==
    /\ CanRequestSnapshot(node[n])
    /\ Spend("Request")
    /\ ProcessReady(n, RequestSnapshot(node[n]))

\* The application makes a Ready of a leader durable and tells RawNode
\* (on_persist_ready).  The Ready may be older than the node's state: it has
\* the entries up to p and a commit index of its time.
Persist(n) ==
    /\ node[n].state = "Leader"
    /\ \E p \in node[n].persisted..Len(node[n].log) :
       \E c \in disk[n].commit..MinOf({p, node[n].committed}) :
          LET s == IF p > node[n].persisted THEN OnPersistEntries(node[n], p) ELSE node[n]
          IN  /\ Publish(n, Applied(s))
              /\ disk' = [disk EXCEPT ![n] = [Synced(s) EXCEPT !.commit = c, !.log = SubSeq(s.log, 1, p)]]
    /\ UNCHANGED budget

\* The application applies the next entry of RaftLog::next_entries and says so
\* (RawNode::apply_conf_change, advance_apply_to).
Apply(n) ==
    LET s == node[n]
        next == s.applied + 1
        cc == s.log[next].data
        s1 == IF s.log[next].type = "ConfChange" THEN ApplyConfChange(s, cc) ELSE s
    IN  /\ limits.lazy /\ next <= MinOf({s.committed, s.persisted})
        /\ s.log[next].type = "ConfChange" => ChangedBy(s.conf, cc) # {}
        /\ ProcessReady(n, CommitApply(s1, next))
        /\ UNCHANGED budget

\* The application compacts its log (Storage::compact), up to what it has
\* applied and has a durable commit index for.
Compact(n, i) ==
    /\ i \in (node[n].first + 1)..MinOf({node[n].applied, disk[n].commit})
    /\ Spend("Compact")
    /\ node' = [node EXCEPT ![n].first = i]
    /\ UNCHANGED <<disk, net, chosen, reads, limits>>

\* The process dies and comes back with RawNode::new.
Restart(n) ==
    LET s == node[n]
        a == MinOf({s.applied, disk[n].commit})
    IN  /\ ~HasConfChange(s, a + 1, s.applied)
        /\ Spend("Restart")
        /\ node' = [node EXCEPT ![n] = NewRaft(n, s.config, s.conf, disk[n],
                                               [first |-> s.first, snap |-> s.snap, applied |-> a])]
        /\ UNCHANGED <<disk, net, chosen, reads, limits>>

-----------------------------------------------------------------------------
(***************************************************************************)
(* RawNode::step: a message arrives.                                       *)
(***************************************************************************)
Receive(types) ==
    /\ \E m \in net : /\ m.type \in types /\ m.to \in Nodes
                      /\ KnowsPeer(node[m.to], m)
                      /\ ProcessReady(m.to, Step(node[m.to], m))
    /\ UNCHANGED budget

ReceiveVoteRequest == Receive(VoteRequests)
ReceiveVoteResponse == Receive(VoteResponses)
ReceiveAppend == Receive({"MsgAppend"})
ReceiveAppendResponse == Receive({"MsgAppendResponse"})
ReceiveHeartbeat == Receive({"MsgHeartbeat"})
ReceiveHeartbeatResponse == Receive({"MsgHeartbeatResponse"})
ReceiveSnapshot == Receive({"MsgSnapshot"})
ReceiveTimeoutNow == Receive({"MsgTimeoutNow"})
ReceiveForwarded == Receive({"MsgPropose", "MsgTransferLeader", "MsgReadIndex"})
ReceiveReadIndexResp == Receive({"MsgReadIndexResp"})

-----------------------------------------------------------------------------
\* The configuration of a group that has never changed it
InitialConf(voters, learners) ==
    [EmptyTracker EXCEPT !.incoming = voters, !.learners = learners, !.progress = voters \cup learners]

FreshDisk == [term |-> 0, vote |-> None, commit |-> 0, log |-> <<>>]
FreshStore == [first |-> 1, snap |-> 0, applied |-> 0]

\* What is left of an undisturbed election of n1: its first entry is committed,
\* applied and on every disk.
SettledDisk(n1) ==
    [term |-> 1, vote |-> n1, commit |-> 1, log |-> <<[term |-> 1, type |-> "Normal", data |-> Empty]>>]

SettledLeader(s) ==
    [s EXCEPT !.state = "Leader", !.leader_id = s.id,
              !.prs = [j \in s.conf.progress |->
                          [BecomeReplicate([NewProgress(1) EXCEPT !.matched = 1]) EXCEPT !.recent_active = (j # s.id)]]]

\* Every node starts from an empty storage (MemStorage::new_with_conf_state), or
\* the group has elected its first leader.  One voter may have a higher priority.
Init ==
    \E sc \in Scenarios, vs \in SUBSET Server, n1 \in Server : \E ls \in SUBSET (Server \ vs) :
        LET conf == InitialConf(vs, ls)
            config(n) == [sc.config EXCEPT !.priority = IF sc.favoured /\ n = n1 THEN 1 ELSE 0]
            settled(n) == NewRaft(n, config(n), conf, SettledDisk(n1), [FreshStore EXCEPT !.applied = 1])
        IN  /\ Cardinality(vs) = sc.voters /\ Cardinality(ls) = sc.learners /\ n1 \in vs
            /\ disk = [n \in vs \cup ls |-> IF sc.settled THEN SettledDisk(n1) ELSE FreshDisk]
            /\ node = [n \in vs \cup ls |->
                          IF ~sc.settled THEN NewRaft(n, config(n), conf, FreshDisk, FreshStore)
                          ELSE IF n = n1 THEN SettledLeader(settled(n))
                          ELSE [settled(n) EXCEPT !.leader_id = n1]]
            /\ net = {}
            /\ chosen = IF sc.settled THEN SettledDisk(n1).log ELSE <<>>
            /\ reads = [asked |-> <<>>, served |-> {}]
            /\ limits = [term |-> sc.term, log |-> sc.log, lazy |-> sc.lazy, changes |-> sc.changes]
            /\ budget = sc.budget

Next ==
    \/ \E n \in Nodes :
        \/ ElectionTimeout(n)
        \/ Campaign(n)
        \/ LeaseExpires(n)
        \/ LeaderTimeout(n)
        \/ Beat(n)
        \/ \E v \in Value : Propose(n, v)
        \/ ProposeConfChange(n)
        \/ \E to \in Nodes : TransferLeader(n, to)
        \/ ReadIndex(n)
        \/ \E j \in Nodes : ReportUnreachable(n, j)
        \/ \E j \in Nodes, failed \in BOOLEAN : ReportSnapshot(n, j, failed)
        \/ RequestSnapshotFor(n)
        \/ Persist(n)
        \/ Apply(n)
        \/ \E i \in 1..limits.log : Compact(n, i)
        \/ Restart(n)
    \/ ReceiveVoteRequest
    \/ ReceiveVoteResponse
    \/ ReceiveAppend
    \/ ReceiveAppendResponse
    \/ ReceiveHeartbeat
    \/ ReceiveHeartbeatResponse
    \/ ReceiveSnapshot
    \/ ReceiveTimeoutNow
    \/ ReceiveForwarded
    \/ ReceiveReadIndexResp

Spec == Init /\ [][Next]_vars

-----------------------------------------------------------------------------
\* What logs are made of
Change == [transition : {"Auto", "Explicit"}, changes : Seq([type : ChangeTypes, id : Server])]
Entry == [term : Nat \ {0}, type : {"Normal"}, data : Value \cup {Empty}]
         \cup [term : Nat \ {0}, type : {"ConfChange"}, data : Change]

-----------------------------------------------------------------------------
(***************************************************************************)
(* Safety.                                                                 *)
(***************************************************************************)

\* At most one node acts as leader in a term, now (become_leader) or ever:
\* all appends and heartbeats of a term come from one node.
ElectionSafety ==
    /\ \A i, j \in Nodes :
          node[i].state = "Leader" /\ node[j].state = "Leader" /\ node[i].term = node[j].term => i = j
    /\ \A m1, m2 \in {m \in net : m.type \in FromLeader} : m1.term = m2.term => m1.from = m2.from
    /\ \A m \in net, i \in Nodes :
          m.type \in FromLeader /\ node[i].state = "Leader" /\ node[i].term = m.term => m.from = i

\* If two logs, in memory or on disk, have an entry of the same term at the
\* same index, they agree up to it (handle_append_entries, maybe_append).
AllLogs == {node[n].log : n \in Nodes} \cup {disk[n].log : n \in Nodes}

LogMatching ==
    \A l1, l2 \in AllLogs : \A k \in 1..MinOf({Len(l1), Len(l2)}) :
        l1[k].term = l2[k].term => SamePrefix(l1, l2, k)

\* What a node takes for committed agrees with all that was ever taken for
\* committed: commit_to, maybe_commit and maybe_commit_by_vote never commit
\* an entry that another node's state machine does not get at that index.
StateMachineSafety == \A n \in Nodes : SamePrefix(node[n].log, chosen, node[n].committed)

\* Whoever is leader after an entry was committed has it (is_up_to_date), under
\* whatever configuration it was elected.
LeaderCompleteness ==
    \A n \in Nodes :
        /\ node[n].state = "Leader"
        /\ chosen # <<>> => node[n].term >= chosen[Len(chosen)].term
        => SamePrefix(node[n].log, chosen, Len(chosen))

\* A committed entry is on the disks of a quorum of voters, although a leader
\* sends its entries before it has persisted them itself (on_persist_entries).
\* Once the configuration changes, it is the quorum of an earlier one.
CommittedIsDurable ==
    (\A k \in 1..Len(chosen) : chosen[k].type # "ConfChange") =>
        \A n \in Nodes :
            HasQuorum(node[n].conf, {j \in Nodes : SamePrefix(disk[j].log, chosen, Len(chosen))})

\* What a leader believes a follower has acknowledged (Progress::matched) is on
\* the follower's disk, whatever became of the messages in between, until the
\* follower moves on to another term.  (Not so in general: a snapshot that a
\* follower has asked for may be older than what it acknowledged, and with five
\* voters a follower may answer with a commit index of another leader's entries.)
MatchedIsDurable ==
    \A i, j \in Nodes :
        node[i].state = "Leader" /\ j \in DOMAIN node[i].prs /\ disk[j].term <= node[i].term
            => SamePrefix(disk[j].log, node[i].log, node[i].prs[j].matched)

\* What Inflights::add and free_to and maybe_send_append rely on: while a
\* follower is being replicated to, everything in flight is past what was
\* acknowledged, in order, before next_idx, and within the window; a snapshot on
\* its way ends in the leader's log.
FlowControl ==
    \A i \in Nodes : \A j \in DOMAIN node[i].prs \ {i} :
        LET pr == node[i].prs[j]
        IN  /\ pr.next_idx <= Len(node[i].log) + 1
            /\ Len(pr.ins) <= MaxInflight
            /\ pr.state = "Replicate" => pr.matched < pr.next_idx
            /\ pr.state # "Replicate" => pr.ins = <<>>
            /\ pr.state = "Snapshot" => pr.pending_snapshot \in 1..node[i].applied
            /\ pr.state # "Snapshot" => pr.pending_snapshot = 0
            /\ \A k \in 1..Len(pr.ins) :
                  /\ pr.matched < pr.ins[k] /\ pr.ins[k] < pr.next_idx
                  /\ k > 1 => pr.ins[k - 1] < pr.ins[k]

\* No heartbeat that may still arrive is fatal to its receiver by committing
\* past the end of its log (RaftLog::commit_to): what send_heartbeat promises
\* for a follower's progress holds for its log whenever the message arrives.
NoFatalHeartbeat ==
    \A m \in net :
        m.type = "MsgHeartbeat" /\ m.to \in Nodes /\ m.term >= node[m.to].term
            => m.commit <= LastIndex(node[m.to])

\* A forwarded transfer request, which carries a term, never reaches a node that
\* would forward it again: RaftCore::send panics on a message other than a vote
\* that has its term set already.  Nothing in step_follower tests for this; it
\* holds because whoever was leader of a term never follows another in it.
ForwardedOnce ==
    \A m \in net :
        LET s == node[m.to]
        IN  m.type = "MsgTransferLeader" /\ m.term = s.term
                => ~(s.state = "Follower" /\ s.leader_id # None)

\* A read is answered with an index that covers whatever was committed, by
\* anybody, when it was asked for: "Safe guarantees the linearizability of the
\* read only request by communicating with the quorum" (ReadOnlyOption).
ReadsAreLinearizable == \A r \in reads.served : r.index >= reads.asked[r.ctx]

\* The same for the reads that no other request was forwarded beside: a leader
\* that was deposed without knowing it, or that does not know yet what its
\* predecessor has committed, answers none of them, however often the request
\* and the heartbeats arrive (ReadOnly::recv_ack, commit_to_current_term).
LoneReadsAreLinearizable ==
    \A r \in reads.served :
        (\A m \in net : m.type = "MsgReadIndex" => m.ctx = r.ctx) => r.index >= reads.asked[r.ctx]

\* No log holds two configuration changes beyond what is committed, although
\* changes are proposed to several leaders and a new leader does not know what
\* its log is about to commit (pending_conf_index).
OnePendingChange ==
    \A n \in Nodes :
        Cardinality({k \in (Len(chosen) + 1)..Len(node[n].log) : node[n].log[k].type = "ConfChange"}) <= 1

\* A committed configuration change is never refused when a node comes to apply
\* it: what step_leader tests of its own configuration when it is proposed holds
\* for the configuration of every node at that point of the log.  (Nobody proposes
\* to remove the last voter here, which nothing tests before it is applied.)
ConfChangesApply ==
    \A n \in Nodes :
        LET s == node[n]
        IN  s.applied < s.committed /\ s.log[s.applied + 1].type = "ConfChange"
                => ChangedBy(s.conf, s.log[s.applied + 1].data) # {}

\* The voters that have told c they would vote for it in one of the terms.
PreVoters(c, terms) ==
    {c} \cup {m.from : m \in {x \in net : /\ x.type = "MsgRequestPreVoteResponse" /\ ~x.reject
                                          /\ x.to = c /\ x.term \in terms}}

\* With Config::pre_vote nobody enters a term that a quorum was not asked for
\* first, or was asked for in the pre-election before (Raft::poll,
\* become_pre_candidate).  Leadership transfers are exempt.
TermsNeedPreVotes ==
    \A n \in Nodes : node[n].config.pre_vote /\ node[n].term > 0 =>
        \/ \E c \in Nodes : HasQuorum(node[c].conf, PreVoters(c, {node[n].term - 1, node[n].term}))
        \/ \E m \in net : m.type = "MsgTimeoutNow" /\ m.term = node[n].term - 1

\* RawNode::request_snapshot promises that "The snapshot's index must be greater
\* or equal to the request_index (last_index)" or that the leader is a later one:
\* no snapshot that a node with a pending request would restore is older.
RequestedSnapshotIsRecent ==
    \A m \in net :
        LET s == node[m.to]
        IN  /\ m.type = "MsgSnapshot" /\ m.term = s.term
            /\ s.pending_request_snapshot # InvalidIndex
            /\ NeedsSnapshot(s, m.snapshot)
            => m.snapshot.index >= s.pending_request_snapshot

\* The group implements a single growing sequence of committed entries
\* (CommittedLog), from its very beginning or from its first leader on.
C == INSTANCE CommittedLog WITH
        Node <- Server,
        known <- [n \in Server |-> IF n \in Nodes THEN SubSeq(node[n].log, 1, node[n].committed) ELSE <<>>]

CommittedLogSpec == C!Spec
=============================================================================
