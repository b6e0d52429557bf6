------------------------------ MODULE RaftNode ------------------------------
(***************************************************************************)
(* raft::Raft, the state machine of one node (raft-rs/src/raft.rs), as     *)
(* operators on a record that holds the fields of the struct:              *)
(*                                                                         *)
(*   id, term, vote, state, leader_id, lead_transferee                     *)
(*   log, first, snap, committed,   RaftLog                                *)
(*   persisted, applied                                                    *)
(*   conf, votes, prs               ProgressTracker                        *)
(*   pending_conf_index, pending_request_snapshot                          *)
(*   reads                          ReadOnly: the queue of pending reads   *)
(*   expired                        election_elapsed >= election_timeout   *)
(*   config                         what Config sets once and for all      *)
(*   msgs, read_states              produced and not yet handed to the     *)
(*                                  application, as sets                   *)
(*                                                                         *)
(* A method that changes the node maps a record to a record, so the body   *)
(* of a handler is the composition of the methods it calls.                *)
(*                                                                         *)
(* Config::batch_append is false and nothing limits the size of the        *)
(* uncommitted entries.                                                    *)
(*                                                                         *)
(* Every become_* resets the progress of all peers; only a leader reads    *)
(* it, and becoming leader resets it once more.  A node that is not leader *)
(* therefore keeps none (prs = <<>>).                                      *)
(***************************************************************************)
EXTENDS RaftLog, Progress, ConfChange

CONSTANTS
    None,           \* INVALID_ID, no context
    Empty           \* the data of an entry without data

-----------------------------------------------------------------------------
(***************************************************************************)
(* Entries and messages.                                                   *)
(***************************************************************************)
NormalEntry(data) == [type |-> "Normal", data |-> data]

\* EntryConfChange and EntryConfChangeV2, which a ConfChange is converted to.
ConfChangeEntry(cc) == [type |-> "ConfChange", data |-> cc]

\* What commit_apply appends to leave a joint configuration: a ConfChangeV2
\* that is zero.
LeaveJointEntry == ConfChangeEntry([transition |-> "Auto", changes |-> <<>>])

VoteRequests == {"MsgRequestVote", "MsgRequestPreVote"}
VoteResponses == {"MsgRequestVoteResponse", "MsgRequestPreVoteResponse"}
FromLeader == {"MsgAppend", "MsgHeartbeat", "MsgSnapshot"}

\* RaftCore::send: everything but a forwarded proposal or read carries a term.
Send(s, m) == [s EXCEPT !.msgs = @ \cup {m}]

AppendMsg(s, to, index, ents) ==
    [type |-> "MsgAppend", from |-> s.id, to |-> to, term |-> s.term,
     index |-> index, log_term |-> TermAt(s, index), entries |-> ents, commit |-> s.committed]

\* The application's snapshot of what it has applied; log stands for its data.
Snapshot(s) ==
    [index |-> s.applied, term |-> TermAt(s, s.applied), conf |-> s.conf, log |-> SubSeq(s.log, 1, s.applied)]

SnapshotMsg(s, to) ==
    [type |-> "MsgSnapshot", from |-> s.id, to |-> to, term |-> s.term, snapshot |-> Snapshot(s)]

\* The commit index is sent to followers that may lag behind it.
MutHeartbeatMsg(s, to, ctx) ==
    [type |-> "MsgHeartbeat", from |-> s.id, to |-> to, term |-> s.term, commit |-> s.committed, ctx |-> ctx]

\* RaftCore::send_heartbeat
HeartbeatMsg(s, to, ctx) ==
    [type |-> "MsgHeartbeat", from |-> s.id, to |-> to, term |-> s.term,
     commit |-> MinOf({s.prs[to].matched, s.committed}), ctx |-> ctx]

AppendResponse(s, to, index) ==
    [type |-> "MsgAppendResponse", from |-> s.id, to |-> to, term |-> s.term, index |-> index,
     reject |-> FALSE, reject_hint |-> 0, log_term |-> 0, request_snapshot |-> InvalidIndex]

AppendReject(s, to, index, hint) ==
    [AppendResponse(s, to, index) EXCEPT
        !.reject = TRUE, !.reject_hint = hint, !.log_term = TermAt(s, hint)]

\* Raft::send_request_snapshot
SendRequestSnapshot(s) ==
    Send(s, [AppendReject(s, s.leader_id, s.committed, LastIndex(s)) EXCEPT
                !.request_snapshot = s.pending_request_snapshot])

\* A message that is only its header.
PlainMsg(s, type, to) == [type |-> type, from |-> s.id, to |-> to, term |-> s.term]

\* RaftLog::commit_info travels with vote requests and rejections.
VoteRequest(s, type, to, term, transfer) ==
    [type |-> type, from |-> s.id, to |-> to, term |-> term,
     index |-> LastIndex(s), log_term |-> LastTerm(s),
     commit |-> s.committed, commit_term |-> TermAt(s, s.committed),
     transfer |-> transfer, priority |-> s.config.priority]

VoteResponseType(m) ==
    IF m.type = "MsgRequestVote" THEN "MsgRequestVoteResponse" ELSE "MsgRequestPreVoteResponse"

\* A grant answers with the term of the request, a rejection with our own.
VoteGrant(s, m) ==
    [type |-> VoteResponseType(m), from |-> s.id, to |-> m.from, term |-> m.term,
     reject |-> FALSE, commit |-> 0, commit_term |-> 0]

VoteReject(s, m) ==
    [type |-> VoteResponseType(m), from |-> s.id, to |-> m.from, term |-> s.term,
     reject |-> TRUE, commit |-> s.committed, commit_term |-> TermAt(s, s.committed)]

-----------------------------------------------------------------------------
(***************************************************************************)
(* Sending.                                                                *)
(***************************************************************************)
Peers(s) == s.conf.progress \ {s.id}

\* RaftCore::prepare_send_snapshot.  A storage answers a request for more than
\* it has applied with SnapshotTemporarilyUnavailable.
MaybeSendSnapshot(s, to) ==
    LET pr == s.prs[to]
    IN  IF ~pr.recent_active \/ s.applied < pr.pending_request_snapshot THEN s
        ELSE [Send(s, SnapshotMsg(s, to)) EXCEPT !.prs[to] = BecomeSnapshot(pr, s.applied)]

\* RaftLog::entries or RaftLog::term fails with Compacted.
IsCompacted(s, next_idx) == next_idx < s.first \/ TermAt(s, next_idx - 1) = NoTerm

\* RaftCore::maybe_send_append and prepare_send_entries.  RaftLog::entries
\* always returns at least one entry if there is one.
MaybeSendAppend(s, to, allow_empty) ==
    LET pr == s.prs[to]
        last == MinOf({pr.next_idx + s.config.max_msg - 1, LastIndex(s)})
        ents == Slice(s, pr.next_idx, last)
    IN  IF IsPaused(pr) THEN s
        ELSE IF pr.pending_request_snapshot # InvalidIndex THEN MaybeSendSnapshot(s, to)
        ELSE IF ~allow_empty /\ (pr.next_idx < s.first \/ ents = <<>>) THEN s
        ELSE IF IsCompacted(s, pr.next_idx) THEN MaybeSendSnapshot(s, to)
        ELSE [Send(s, AppendMsg(s, to, pr.next_idx - 1, ents)) EXCEPT
                 !.prs[to] = IF ents = <<>> THEN pr ELSE UpdateState(pr, last)]

SendAppend(s, to) == MaybeSendAppend(s, to, TRUE)

\* Raft::send_append_aggressively: every iteration sends an entry or a
\* snapshot, so there are at most as many as the log has entries, and one.
SendAppendAggressively(s, to) ==
    LET sent[k \in 0..(LastIndex(s) + 1)] ==
            IF k = 0 THEN s ELSE MaybeSendAppend(sent[k - 1], to, FALSE)
    IN  sent[LastIndex(s) + 1]

\* Peers do not share progress: the order is irrelevant.
BcastMaybe(s, allow_empty) ==
    [s EXCEPT
        !.prs = [j \in DOMAIN @ |-> IF j = s.id THEN @[j] ELSE MaybeSendAppend(s, j, allow_empty).prs[j]],
        !.msgs = @ \cup UNION {MaybeSendAppend(s, j, allow_empty).msgs : j \in Peers(s)}]

\* Raft::bcast_append
BcastAppend(s) == BcastMaybe(s, TRUE)

\* Raft::bcast_heartbeat_with_ctx
BcastHeartbeatWithCtx(s, ctx) ==
    [s EXCEPT !.msgs = @ \cup {HeartbeatMsg(s, j, ctx) : j \in Peers(s)}]

\* ReadOnly::last_pending_request_ctx
LastPendingCtx(s) == IF s.reads = <<>> THEN None ELSE s.reads[Len(s.reads)].ctx

\* Raft::bcast_heartbeat
BcastHeartbeat(s) == BcastHeartbeatWithCtx(s, LastPendingCtx(s))

-----------------------------------------------------------------------------
(***************************************************************************)
(* The log.                                                                *)
(***************************************************************************)

\* RaftLog::maybe_commit without the test of the entry's term.
MutLogMaybeCommit(s, index, t) ==
    IF index > s.committed /\ index <= LastIndex(s)
      THEN [s EXCEPT !.committed = index] ELSE s

\* RaftLog::maybe_commit
LogMaybeCommit(s, index, t) ==
    IF index > s.committed /\ MatchTerm(s, index, t)
      THEN [s EXCEPT !.committed = index] ELSE s

\* RaftLog::commit_to (it is fatal if index > last_index)
CommitTo(s, index) == IF index > s.committed THEN [s EXCEPT !.committed = index] ELSE s

\* Raft::maybe_commit.  Its result is whether committed changed.
MaybeCommit(s) ==
    LogMaybeCommit(s, CommittedIndex(s.conf, FALSE,
                                     [j \in VotersOf(s.conf) |-> s.prs[j].matched], <<>>), s.term)

\* Raft::has_pending_conf, should_bcast_commit
HasPendingConf(s) == s.pending_conf_index > s.applied
ShouldBcastCommit(s) == ~s.config.skip_bcast_commit \/ HasPendingConf(s)

\* A leader's own entries count before they are persisted.
MutAppendEntry(s, e) ==
    [s EXCEPT !.log = Append(@, [term |-> s.term, type |-> e.type, data |-> e.data]),
              !.prs[s.id].matched = Len(s.log) + 1]

\* Raft::append_entry of one entry
AppendEntry(s, e) ==
    [s EXCEPT !.log = Append(@, [term |-> s.term, type |-> e.type, data |-> e.data])]

\* The successful branch of RaftLog::maybe_append, the truncation of
\* Unstable::truncate_and_append included.
AppendMatching(s, m) ==
    LET conflict == FindConflict(s, m.index, m.entries)
        appended ==
            IF conflict = 0 THEN s
            ELSE [s EXCEPT
                    !.log = SubSeq(@, 1, conflict - 1)
                              \o SubSeq(m.entries, conflict - m.index, Len(m.entries)),
                    !.persisted = MinOf({@, conflict - 1})]
    IN  CommitTo(appended, MinOf({m.commit, m.index + Len(m.entries)}))

-----------------------------------------------------------------------------
(***************************************************************************)
(* Changing role.                                                          *)
(***************************************************************************)

\* Raft::reset
Reset(s, t) ==
    [s EXCEPT !.term = t,
              !.vote = IF s.term # t THEN None ELSE @,
              !.leader_id = None,
              !.expired = FALSE,
              !.lead_transferee = None,
              !.votes = <<>>,
              !.pending_conf_index = 0,
              !.reads = <<>>,
              !.pending_request_snapshot = InvalidIndex,
              !.prs = <<>>]

\* Raft::become_follower.  The request for a snapshot is kept.
BecomeFollower(s, t, leader) ==
    [Reset(s, t) EXCEPT !.leader_id = leader, !.state = "Follower",
                        !.pending_request_snapshot = s.pending_request_snapshot]

BecomeCandidate(s) ==
    [Reset(s, s.term + 1) EXCEPT !.vote = s.id, !.state = "Candidate"]

BecomePreCandidate(s) ==
    [s EXCEPT !.state = "PreCandidate", !.votes = <<>>, !.leader_id = None]

\* The progress of every peer after the reset of Raft::become_leader.
LeaderProgress(s) ==
    [j \in s.conf.progress |->
        IF j = s.id
          THEN BecomeReplicate([ResetProgress(LastIndex(s) + 1) EXCEPT !.matched = s.persisted])
          ELSE ResetProgress(LastIndex(s) + 1)]

\* Changes that the log may hold are forgotten.
MutBecomeLeader(s) ==
    AppendEntry([Reset(s, s.term) EXCEPT !.leader_id = s.id, !.state = "Leader",
                                         !.prs = LeaderProgress(s)], NormalEntry(Empty))

\* Raft::become_leader ends with appending an empty entry.  The log may hold a
\* configuration change: none is accepted before it is applied.
BecomeLeader(s) ==
    AppendEntry([Reset(s, s.term) EXCEPT !.leader_id = s.id, !.state = "Leader",
                                         !.prs = LeaderProgress(s),
                                         !.pending_conf_index = LastIndex(s)], NormalEntry(Empty))

\* The end of a won election in Raft::poll
WinElection(s) == BcastAppend(BecomeLeader(s))

RecordOwn(s, from, granted) == [s EXCEPT !.votes = RecordVote(@, from, granted)]

RequestVotes(s, type, term, transfer) ==
    [s EXCEPT !.msgs = @ \cup {VoteRequest(s, type, j, term, transfer) : j \in VotersOf(s.conf) \ {s.id}}]

\* Raft::campaign for CAMPAIGN_ELECTION and CAMPAIGN_TRANSFER
CampaignElection(s, transfer) ==
    LET c == RecordOwn(BecomeCandidate(s), s.id, TRUE)
    IN  IF VoteResult(c.conf, c.votes) = "Won" THEN WinElection(c)
        ELSE RequestVotes(c, "MsgRequestVote", c.term, transfer)

\* Raft::campaign for CAMPAIGN_PRE_ELECTION
CampaignPreElection(s) ==
    LET c == RecordOwn(BecomePreCandidate(s), s.id, TRUE)
    IN  IF VoteResult(c.conf, c.votes) = "Won" THEN CampaignElection(c, FALSE)
        ELSE RequestVotes(c, "MsgRequestPreVote", c.term + 1, FALSE)

\* Elections start without a pre-election.
MutHup(s, transfer) == IF s.state = "Leader" THEN s ELSE CampaignElection(s, transfer)

\* Raft::hup: whoever has a committed configuration change to apply does not
\* campaign with the configuration it has.
Hup(s, transfer) ==
    IF s.state = "Leader" \/ HasConfChange(s, s.applied + 1, s.committed) THEN s
    ELSE IF s.config.pre_vote /\ ~transfer THEN CampaignPreElection(s)
    ELSE CampaignElection(s, transfer)

\* Raft::poll for the answer of a peer
Poll(s, from, granted) ==
    LET p == RecordOwn(s, from, granted)
        result == VoteResult(s.conf, p.votes)
    IN  CASE result = "Won" /\ s.state = "PreCandidate" -> CampaignElection(p, FALSE)
          [] result = "Won" /\ s.state = "Candidate" -> WinElection(p)
          [] result = "Lost" -> BecomeFollower(p, p.term, None)
          [] result = "Pending" -> p

-----------------------------------------------------------------------------
(***************************************************************************)
(* Vote requests, in every role.                                           *)
(***************************************************************************)

CanVote(s, m) ==
    \/ s.vote = m.from
    \/ s.vote = None /\ s.leader_id = None
    \/ m.type = "MsgRequestPreVote" /\ m.term > s.term

Grants(s, m) ==
    /\ CanVote(s, m)
    /\ IsUpToDate(s, m.index, m.log_term)
    /\ m.index > LastIndex(s) \/ s.config.priority <= m.priority

\* Raft::maybe_commit_by_vote.  A candidate that learns that a configuration
\* change is committed gives up.
MaybeCommitByVote(s, m) ==
    LET c == LogMaybeCommit(s, m.commit, m.commit_term)
    IN  IF m.commit = 0 \/ m.commit_term = 0 \/ s.state = "Leader" THEN s
        ELSE IF c.state # "Follower" /\ HasConfChange(c, s.committed + 1, c.committed)
          THEN BecomeFollower(c, c.term, None)
        ELSE c

\* Only real votes are recorded.
HandleVoteRequest(s, m) ==
    IF ~Grants(s, m) THEN MaybeCommitByVote(Send(s, VoteReject(s, m)), m)
    ELSE IF m.type = "MsgRequestVote"
      THEN [Send(s, VoteGrant(s, m)) EXCEPT !.vote = m.from, !.expired = FALSE]
      ELSE Send(s, VoteGrant(s, m))

\* The vote responses step_candidate handles: those for our kind of candidacy.
HandleVoteResponse(s, m) ==
    LET expected == IF s.state = "PreCandidate" THEN "MsgRequestPreVoteResponse"
                                                ELSE "MsgRequestVoteResponse"
    IN  IF m.type # expected THEN s
        ELSE MaybeCommitByVote(Poll(s, m.from, ~m.reject), m)

-----------------------------------------------------------------------------
(***************************************************************************)
(* Followers.                                                              *)
(***************************************************************************)

\* Raft::handle_append_entries
HandleAppendEntries(s, m) ==
    IF s.pending_request_snapshot # InvalidIndex THEN SendRequestSnapshot(s)
    ELSE IF m.index < s.committed THEN Send(s, AppendResponse(s, m.from, s.committed))
    ELSE IF MatchTerm(s, m.index, m.log_term)
      THEN Send(AppendMatching(s, m), AppendResponse(s, m.from, m.index + Len(m.entries)))
      ELSE LET hint == MinOf({m.index, LastIndex(s)})
           IN  Send(s, AppendReject(s, m.from, m.index, FindConflictByTerm(s, hint, m.log_term)))

\* Raft::handle_heartbeat
HandleHeartbeat(s, m) ==
    LET c == CommitTo(s, m.commit)
    IN  IF c.pending_request_snapshot # InvalidIndex THEN SendRequestSnapshot(c)
        ELSE Send(c, [type |-> "MsgHeartbeatResponse", from |-> s.id, to |-> m.from,
                      term |-> s.term, ctx |-> m.ctx])

\* RaftLog::restore and Raft::restore, from the point where the log and the
\* configuration are replaced.
RestoredFrom(s, snap) ==
    [s EXCEPT !.log = snap.log, !.first = snap.index + 1, !.snap = snap.index,
              !.committed = snap.index, !.persisted = MinOf({@, s.committed}),
              !.conf = snap.conf, !.pending_request_snapshot = InvalidIndex]

\* The rest of Raft::restore decides whether that is necessary.
NeedsSnapshot(s, snap) ==
    /\ snap.index >= s.committed
    /\ s.id \in VotersOf(snap.conf) \cup snap.conf.learners
    /\ s.pending_request_snapshot # InvalidIndex \/ ~MatchTerm(s, snap.index, snap.term)

\* Raft::handle_snapshot.  A log that reaches the end of the snapshot is kept,
\* and only the commit index moves.
HandleSnapshot(s, m) ==
    LET snap == m.snapshot
        r == RestoredFrom(s, snap)
        keeps == /\ s.id \in VotersOf(snap.conf) \cup snap.conf.learners
                 /\ snap.index >= s.committed
        f == IF keeps THEN CommitTo(s, snap.index) ELSE s
    IN  IF NeedsSnapshot(s, snap) THEN Send(r, AppendResponse(r, m.from, LastIndex(r)))
        ELSE Send(f, AppendResponse(f, m.from, f.committed))

\* The leader of our term was heard of: the arms for MsgAppend, MsgHeartbeat
\* and MsgSnapshot of step_follower and step_candidate.
HearLeader(s, m) ==
    IF s.state = "Follower" THEN [s EXCEPT !.expired = FALSE, !.leader_id = m.from]
    ELSE BecomeFollower(s, m.term, m.from)

\* A proposal, a read or a transfer request that reaches a follower is
\* forwarded to its leader; send() fills in where a read comes from, and gives
\* a transfer request a term, being fatal if it has one already
\* (Raft!ForwardedOnce).
Forward(s, m) ==
    IF s.leader_id = None THEN s
    ELSE Send(s, [m EXCEPT !.to = s.leader_id,
                           !.from = IF @ = None THEN s.id ELSE @,
                           !.term = IF m.type = "MsgTransferLeader" THEN s.term ELSE 0])

\* step_follower, MsgReadIndexResp
HandleReadIndexResp(s, m) ==
    LogMaybeCommit([s EXCEPT !.read_states = @ \cup {[ctx |-> m.ctx, index |-> m.index]}], m.index, m.term)

\* Raft::request_snapshot; ~CanRequestSnapshot is Error::RequestSnapshotDropped.
CanRequestSnapshot(s) ==
    /\ s.state # "Leader" /\ s.leader_id # None
    /\ s.pending_request_snapshot = InvalidIndex
    /\ LastIndex(s) > 0 /\ LastTerm(s) = s.term

RequestSnapshot(s) == SendRequestSnapshot([s EXCEPT !.pending_request_snapshot = LastIndex(s)])

-----------------------------------------------------------------------------
(***************************************************************************)
(* Reads.  A pending read is a record [ctx, from, index, acks].            *)
(***************************************************************************)

\* Raft::handle_ready_read_index: our own reads end in a ReadState, those of
\* others in a message.
AnswerReads(s, rs) ==
    LET own == {r \in rs : r.from \in {None, s.id}}
    IN  [s EXCEPT
            !.read_states = @ \cup {[ctx |-> r.ctx, index |-> r.index] : r \in own},
            !.msgs = @ \cup {[type |-> "MsgReadIndexResp", from |-> s.id, to |-> r.from,
                              term |-> s.term, ctx |-> r.ctx, index |-> r.index] : r \in rs \ own}]

\* ReadOnly::advance and the loop over its result: whatever was asked before
\* the read at position k is answered with it.
AdvanceReads(s, k) ==
    AnswerReads([s EXCEPT !.reads = SubSeq(@, k + 1, Len(@))], {s.reads[i] : i \in 1..k})

\* ReadOnly::recv_ack of a heartbeat with this context, which answers the read
\* once a quorum has acknowledged it.
AckRead(s, from, ctx) ==
    LET pending == {i \in DOMAIN s.reads : s.reads[i].ctx = ctx}
        acked == [s EXCEPT !.reads = [i \in DOMAIN @ |->
                    IF i \in pending THEN [@[i] EXCEPT !.acks = @ \cup {from}] ELSE @[i]]]
        ready == {i \in pending : HasQuorum(s.conf, acked.reads[i].acks)}
    IN  IF ready = {} THEN acked ELSE AdvanceReads(acked, CHOOSE i \in ready : TRUE)

\* A leader reads before it has committed anything of its own.
MutMayRead(s) == TRUE

\* Raft::commit_to_current_term
MayRead(s) == TermAt(s, s.committed) = s.term

\* ReadOnly::add_request ignores a context it knows.
AddRequest(s, m) ==
    IF \E i \in DOMAIN s.reads : s.reads[i].ctx = m.ctx THEN s
    ELSE [s EXCEPT !.reads = Append(@, [ctx |-> m.ctx, from |-> m.from, index |-> s.committed, acks |-> {s.id}])]

\* step_leader, MsgReadIndex
HandleReadIndex(s, m) ==
    IF ~MayRead(s) THEN s
    ELSE IF IsSingleton(s.conf) \/ s.config.lease_read
      THEN AnswerReads(s, {[ctx |-> m.ctx, from |-> m.from, index |-> s.committed, acks |-> {}]})
      ELSE BcastHeartbeatWithCtx(AddRequest(s, m), m.ctx)

-----------------------------------------------------------------------------
(***************************************************************************)
(* Leaders.                                                                *)
(***************************************************************************)

\* Any change is taken on.
MutRefusesConfChange(s, cc) == FALSE

\* The reasons of step_leader to put an empty entry in the place of a
\* configuration change.
RefusesConfChange(s, cc) ==
    \/ HasPendingConf(s)
    \/ Joint(s.conf) /\ cc.changes # <<>>
    \/ ~Joint(s.conf) /\ cc.changes = <<>>

\* step_leader, MsgPropose.  While leadership is transferred proposals are
\* dropped.
HandlePropose(s, m) ==
    IF s.id \notin s.conf.progress \/ s.lead_transferee # None THEN s
    ELSE IF m.entry.type = "Normal" THEN BcastAppend(AppendEntry(s, m.entry))
    ELSE IF RefusesConfChange(s, m.entry.data) THEN BcastAppend(AppendEntry(s, NormalEntry(Empty)))
    ELSE BcastAppend(AppendEntry([s EXCEPT !.pending_conf_index = LastIndex(s) + 1], m.entry))

\* The rejecting half of Raft::handle_append_response
HandleAppendReject(s, m) ==
    LET pr == [s.prs[m.from] EXCEPT !.recent_active = TRUE]
        probe == IF m.log_term > 0 THEN FindConflictByTerm(s, m.reject_hint, m.log_term)
                                   ELSE m.reject_hint
        decr == DecrTo(pr, m.index, probe, m.request_snapshot)
        slow == IF decr.state = "Replicate" THEN BecomeProbe(decr) ELSE decr
    IN  IF StaleRejection(pr, m.index, m.request_snapshot) THEN [s EXCEPT !.prs[m.from] = pr]
        ELSE SendAppend([s EXCEPT !.prs[m.from] = slow], m.from)

\* What an acknowledgement does to the progress of its sender.
Acknowledged(pr, index) ==
    LET p == MaybeUpdate(pr, index)
    IN  CASE ~NeedUpdate(pr, index) -> p
          [] NeedUpdate(pr, index) /\ p.state = "Probe" -> BecomeReplicate(p)
          [] NeedUpdate(pr, index) /\ p.state = "Snapshot" -> IF IsSnapshotCaughtUp(p) THEN BecomeProbe(p) ELSE p
          [] NeedUpdate(pr, index) /\ p.state = "Replicate" -> [p EXCEPT !.ins = FreeTo(@, index)]

\* Commit if the acknowledgement completed a quorum, and tell everyone;
\* otherwise wake up the sender if it was paused.
CommitOrResume(s, from, old_paused) ==
    LET c == MaybeCommit(s)
    IN  IF c.committed # s.committed THEN (IF ShouldBcastCommit(c) THEN BcastAppend(c) ELSE c)
        ELSE IF old_paused THEN SendAppend(s, from) ELSE s

\* A leadership transfer proceeds once the transferee has the whole log.
MaybeTimeoutNow(s, to) ==
    IF s.lead_transferee = to /\ s.prs[to].matched = LastIndex(s)
      THEN Send(s, PlainMsg(s, "MsgTimeoutNow", to)) ELSE s

\* The accepting half of Raft::handle_append_response
HandleAppendAccept(s, m) ==
    LET pr == [s.prs[m.from] EXCEPT !.recent_active = TRUE]
        acked == [s EXCEPT !.prs[m.from] = Acknowledged(pr, m.index)]
    IN  IF ~NeedUpdate(pr, m.index) THEN acked
        ELSE MaybeTimeoutNow(
                SendAppendAggressively(CommitOrResume(acked, m.from, IsPaused(pr)), m.from),
                m.from)

\* A rejection is taken for an acknowledgement.
MutHandleAppendResponse(s, m) ==
    IF m.from \notin DOMAIN s.prs THEN s ELSE HandleAppendAccept(s, m)

HandleAppendResponse(s, m) ==
    IF m.from \notin DOMAIN s.prs THEN s
    ELSE IF m.reject THEN HandleAppendReject(s, m) ELSE HandleAppendAccept(s, m)

\* Raft::handle_heartbeat_response
HandleHeartbeatResponse(s, m) ==
    LET pr == FreeFirstIfFull([s.prs[m.from] EXCEPT !.recent_active = TRUE, !.paused = FALSE])
        woken == [s EXCEPT !.prs[m.from] = pr]
        sent == IF pr.matched < LastIndex(s) \/ pr.pending_request_snapshot # InvalidIndex
                  THEN SendAppend(woken, m.from) ELSE woken
    IN  IF m.from \notin DOMAIN s.prs THEN s
        ELSE IF s.config.lease_read \/ m.ctx = None THEN sent
        ELSE AckRead(sent, m.from, m.ctx)

\* Raft::handle_transfer_leader; m.from is the transferee.  A request for
\* another transferee aborts the transfer in progress.
HandleTransferLeader(s, m) ==
    LET to == m.from
        started == [s EXCEPT !.expired = FALSE, !.lead_transferee = to]
    IN  IF to \notin s.conf.progress \/ to \in s.conf.learners \/ s.lead_transferee = to THEN s
        ELSE IF to = s.id THEN [s EXCEPT !.lead_transferee = None]
        ELSE IF s.prs[to].matched = LastIndex(s)
          THEN Send(started, PlainMsg(s, "MsgTimeoutNow", to))
          ELSE SendAppend(started, to)

\* Raft::handle_snapshot_status.  The progress waits for the answer to the
\* snapshot, or for a heartbeat.
HandleSnapshotStatus(s, j, reject) ==
    LET pr == IF reject THEN SnapshotFailure(s.prs[j]) ELSE s.prs[j]
    IN  IF j \notin DOMAIN s.prs \/ s.prs[j].state # "Snapshot" THEN s
        ELSE [s EXCEPT !.prs[j] = [BecomeProbe(pr) EXCEPT
                                      !.paused = TRUE, !.pending_request_snapshot = InvalidIndex]]

\* Raft::handle_unreachable
HandleUnreachable(s, j) ==
    IF j \in DOMAIN s.prs /\ s.prs[j].state = "Replicate" THEN [s EXCEPT !.prs[j] = BecomeProbe(@)] ELSE s

\* ProgressTracker::quorum_recently_active
Active(s) == {j \in DOMAIN s.prs : j = s.id \/ s.prs[j].recent_active}

\* A leader that steps down keeps naming itself as the leader.
MutHandleCheckQuorum(s) ==
    IF HasQuorum(s.conf, Active(s)) THEN s ELSE BecomeFollower(s, s.term, s.leader_id)

\* step_leader, MsgCheckQuorum
HandleCheckQuorum(s) ==
    IF HasQuorum(s.conf, Active(s))
      THEN [s EXCEPT !.prs = [j \in DOMAIN @ |-> [@[j] EXCEPT !.recent_active = (j = s.id)]]]
      ELSE BecomeFollower(s, s.term, None)

\* Raft::on_persist_entries for the entries up to index
OnPersistEntries(s, index) ==
    LET persisted == [s EXCEPT !.persisted = index, !.prs[s.id] = MaybeUpdate(@, index)]
        c == MaybeCommit(persisted)
    IN  IF ~NeedUpdate(s.prs[s.id], index) THEN persisted
        ELSE IF c.committed # s.committed /\ ShouldBcastCommit(c) THEN BcastAppend(c) ELSE c

-----------------------------------------------------------------------------
(***************************************************************************)
(* Committed entries are applied.                                          *)
(***************************************************************************)

\* Raft::post_conf_change.  A leader that is not a voter any more goes on.
PostConfChange(s) ==
    LET c == MaybeCommit(s)
        sent == IF c.committed # s.committed THEN BcastAppend(c) ELSE BcastMaybe(s, FALSE)
        read == IF sent.reads = <<>> THEN sent ELSE AckRead(sent, s.id, LastPendingCtx(sent))
    IN  IF s.state # "Leader" \/ s.id \notin VotersOf(s.conf) THEN s
        ELSE IF s.lead_transferee \in VotersOf(s.conf) THEN read
        ELSE [read EXCEPT !.lead_transferee = None]

\* ProgressTracker::apply_conf.  A new node is probed from the last entry, and
\* counts as active so that a quorum check does not depose its leader.
ApplyConf(s, w) ==
    [s EXCEPT !.conf = w,
              !.prs = IF s.state # "Leader" THEN @
                      ELSE [j \in w.progress |->
                              IF j \in DOMAIN @ THEN @[j]
                              ELSE [NewProgress(LastIndex(s)) EXCEPT !.recent_active = TRUE]]]

\* Raft::apply_conf_change of a change that is not refused
ApplyConfChange(s, cc) ==
    PostConfChange(ApplyConf(s, CHOOSE w \in ChangedBy(s.conf, cc) : TRUE))

\* Raft::commit_apply.  The leader leaves a joint configuration of its own accord
\* once it has applied the change that entered it; the entry is not sent here.
CommitApply(s, applied) ==
    LET done == [s EXCEPT !.applied = applied]
    IN  IF /\ s.conf.auto_leave /\ s.state = "Leader"
           /\ s.applied <= s.pending_conf_index /\ applied >= s.pending_conf_index
          THEN [AppendEntry(done, LeaveJointEntry) EXCEPT !.pending_conf_index = LastIndex(s) + 1]
          ELSE done

-----------------------------------------------------------------------------
(***************************************************************************)
(* Raft::step.                                                             *)
(***************************************************************************)
InLease(s) == s.config.check_quorum /\ s.leader_id # None /\ ~s.expired

StepLeader(s, m) ==
    CASE m.type = "MsgAppendResponse" -> HandleAppendResponse(s, m)
      [] m.type = "MsgHeartbeatResponse" -> HandleHeartbeatResponse(s, m)
      [] m.type = "MsgTransferLeader" -> HandleTransferLeader(s, m)
      [] m.type = "MsgPropose" -> HandlePropose(s, m)
      [] m.type = "MsgReadIndex" -> HandleReadIndex(s, m)
      [] OTHER -> s

StepFollower(s, m) ==
    CASE m.type = "MsgAppend" -> HandleAppendEntries(HearLeader(s, m), m)
      [] m.type = "MsgHeartbeat" -> HandleHeartbeat(HearLeader(s, m), m)
      [] m.type = "MsgSnapshot" -> HandleSnapshot(HearLeader(s, m), m)
      [] m.type \in {"MsgTransferLeader", "MsgPropose", "MsgReadIndex"} -> Forward(s, m)
      [] m.type = "MsgReadIndexResp" -> HandleReadIndexResp(s, m)
      [] m.type = "MsgTimeoutNow" -> IF s.id \in VotersOf(s.conf) THEN Hup(s, TRUE) ELSE s
      [] OTHER -> s

StepCandidate(s, m) ==
    CASE m.type = "MsgAppend" -> HandleAppendEntries(HearLeader(s, m), m)
      [] m.type = "MsgHeartbeat" -> HandleHeartbeat(HearLeader(s, m), m)
      [] m.type = "MsgSnapshot" -> HandleSnapshot(HearLeader(s, m), m)
      [] m.type \in VoteResponses -> HandleVoteResponse(s, m)
      [] OTHER -> s

\* The match on the message type, then on the role.
Dispatch(s, m) ==
    CASE m.type \in VoteRequests -> HandleVoteRequest(s, m)
      [] m.type \notin VoteRequests /\ s.state = "Leader" -> StepLeader(s, m)
      [] m.type \notin VoteRequests /\ s.state = "Follower" -> StepFollower(s, m)
      [] m.type \notin VoteRequests /\ s.state \in {"Candidate", "PreCandidate"} -> StepCandidate(s, m)

\* A message of a later term.  Pre-votes do not change ours.
StepHigherTerm(s, m) ==
    CASE m.type \in VoteRequests /\ ~m.transfer /\ InLease(s) -> s
      [] m.type = "MsgRequestPreVote" /\ ~InLease(s) -> Dispatch(s, m)
      [] m.type = "MsgRequestPreVoteResponse" /\ ~m.reject -> Dispatch(s, m)
      [] OTHER -> Dispatch(BecomeFollower(s, m.term,
                              IF m.type \in FromLeader THEN m.from ELSE None), m)

\* A message of an earlier term is answered only to free a node that is stuck.
StepLowerTerm(s, m) ==
    IF (s.config.check_quorum \/ s.config.pre_vote) /\ m.type \in {"MsgHeartbeat", "MsgAppend"}
      THEN Send(s, AppendResponse(s, m.from, 0))
    ELSE IF m.type = "MsgRequestPreVote"
      THEN Send(s, [VoteReject(s, m) EXCEPT !.commit = 0, !.commit_term = 0])
    ELSE s

Step(s, m) ==
    IF m.term = 0 \/ m.term = s.term THEN Dispatch(s, m)
    ELSE IF m.term > s.term THEN StepHigherTerm(s, m)
    ELSE StepLowerTerm(s, m)

\* RawNode::step: Error::StepPeerNotFound for an answer of somebody who is not
\* in the configuration.
Responses == VoteResponses \cup {"MsgAppendResponse", "MsgHeartbeatResponse"}
KnowsPeer(s, m) == m.type \in Responses => m.from \in s.conf.progress

-----------------------------------------------------------------------------
\* Raft::new from what the storage holds, and Config::applied.  Nothing else
\* survives a restart.
NewRaft(i, config, conf, hs, store) ==
    BecomeFollower(
        [id |-> i, config |-> config, term |-> hs.term, vote |-> hs.vote, state |-> "Follower",
         leader_id |-> None, lead_transferee |-> None,
         log |-> hs.log, first |-> store.first, snap |-> store.snap,
         committed |-> hs.commit, persisted |-> Len(hs.log), applied |-> store.applied,
         conf |-> conf, votes |-> <<>>, prs |-> <<>>,
         pending_conf_index |-> 0, pending_request_snapshot |-> InvalidIndex,
         reads |-> <<>>, read_states |-> {}, expired |-> FALSE, msgs |-> {}],
        hs.term, None)
=============================================================================
