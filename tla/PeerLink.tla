------------------------------ MODULE PeerLink ------------------------------
(***************************************************************************)
(* A leader and one follower joined by rafthttp                            *)
(* (server/src/etcdserver/api/rafthttp): what the leader's Progress makes  *)
(* it send goes through remote::send into the bounded queue of a pipeline, *)
(* whose task posts one message at a time to one of the peer's URLs and    *)
(* reports what became of it to the leader.  A snapshot may also be posted *)
(* by the snapshotSender, which shares the URL picker with the pipeline.   *)
(*                                                                         *)
(* The leader is the only voter and the follower a learner that has just   *)
(* been added: commits and compaction do not wait for it, and its log is   *)
(* whatever the link delivers.  Both nodes are those of RaftNode, persist  *)
(* at once and stay in their term.                                         *)
(*                                                                         *)
(* A post may fail before or after the peer has got the message, or be     *)
(* refused with an HTTP status; some URLs never work.  The answers of the  *)
(* follower come through a link of the same kind, of which only its effect *)
(* is modelled: they may be lost, merged and overtaken.                    *)
(*                                                                         *)
(* The task of a pipeline does not last.  It ends when check_post_response *)
(* panics, and it stops for good after DoneSize posts: each of them leaves *)
(* something in the channel done, a private field that nothing reads.      *)
(* Nobody calls Pipeline::stop or start: rafthttp has no such caller yet.  *)
(***************************************************************************)
EXTENDS RaftNode, Functions

CONSTANTS
    Leader, Peer,   \* the two nodes
    BufSize,        \* pipelineBufSize
    Urls,           \* the number of URLs of the peer
    Reachable,      \* the positions of those the peer can be reached at
    DoneSize,       \* the capacity of the channel done
    MaxLog,         \* bound: the length of the leader's log
    MaxAnswers,     \* bound: the answers on their way
    CatchUpSteps    \* the posts and heartbeats it takes to catch up

ASSUME PeerLinkAssumption ==
    /\ Leader # Peer
    /\ None \notin Nat \cup {Leader, Peer}
    /\ Reachable \in (SUBSET (0..(Urls - 1))) \ {{}}
    /\ {BufSize, Urls, DoneSize, MaxLog, MaxAnswers, CatchUpSteps} \subseteq Nat \ {0}

VARIABLES
    leader,     \* the Raft of the leader
    peer,       \* the Raft of the follower
    msgc,       \* Pipeline::msgc
    posts,      \* what the pipeline and the snapshot sender are posting
    picker,     \* BaseurlPicker
    answers,    \* the messages on their way back
    done,       \* the messages in Pipeline::done, with the one that waits for room
    panicked,   \* the task of the pipeline has ended
    forgotten   \* history: a snapshot message vanished without a report

vars == <<leader, peer, msgc, posts, picker, answers, done, panicked, forgotten>>
link == <<msgc, posts, picker, done, panicked, forgotten>>

Poster == {"pipeline", "sender"}
Idle == [msg |-> None, url |-> None, delivered |-> FALSE]

pr == leader.prs[Peer]

\* is_msg_snap
IsMsgSnap(m) == m.type = "MsgSnapshot"

-----------------------------------------------------------------------------
(***************************************************************************)
(* remote                                                                  *)
(***************************************************************************)

\* The messages of a Ready in an order they may have been made in.
Order(m) == IF m.type = "MsgAppend" THEN m.index ELSE 0
InOrder(msgs) ==
    {q \in Surjection(1..Cardinality(msgs), msgs) :
        \A i, j \in DOMAIN q : i < j => Order(q[i]) <= Order(q[j])}

\* remote::send one after the other: Channel::try_send drops what does not fit,
\* and nobody but the log is told.
SendAll(q, ms) == SubSeq(q \o ms, 1, MinOf({BufSize, Len(q \o ms)}))
Dropped(q, ms) == SubSeq(q \o ms, BufSize + 1, Len(q \o ms))

\* The log is persisted.
Persist(s) == IF LastIndex(s) > s.persisted THEN OnPersistEntries(s, LastIndex(s)) ELSE s

\* The Ready is handled.
Applied(s) == [s EXCEPT !.applied = s.committed, !.msgs = {}]

\* The leader is in state s, its log persisted and applied, and its messages are
\* handed to the transport: a snapshot to the sender if it is free, or to the
\* pipeline like everything else.
LeaderReady(s) ==
    LET p == Persist(s)
        snaps == {m \in p.msgs : IsMsgSnap(m)}
        queue(msgs) == \E q \in InOrder(msgs) :
            /\ msgc' = SendAll(msgc, q)
            /\ forgotten' = (forgotten \/ \E i \in DOMAIN Dropped(msgc, q) :
                                              IsMsgSnap(Dropped(msgc, q)[i]))
    IN  /\ leader' = Applied(p)
        /\ \/ queue(p.msgs) /\ UNCHANGED posts
           \/ /\ posts["sender"] = Idle
              /\ \E m \in snaps :
                    posts' = [posts EXCEPT !["sender"] = [Idle EXCEPT !.msg = m, !.url = picker]]
              /\ queue(p.msgs \ snaps)

-----------------------------------------------------------------------------
(***************************************************************************)
(* The leader.                                                             *)
(***************************************************************************)
Propose ==
    /\ LastIndex(leader) < MaxLog
    /\ LeaderReady(BcastAppend(AppendEntry(leader, NormalEntry(Empty))))
    /\ UNCHANGED <<peer, picker, answers, done, panicked>>

Compact ==
    /\ leader.first < leader.applied
    /\ leader' = [leader EXCEPT !.first = leader.applied]
    /\ UNCHANGED <<peer, link, answers>>

\* Raft::tick_heartbeat after a heartbeat timeout
Beat ==
    /\ LeaderReady(BcastHeartbeat(leader))
    /\ UNCHANGED <<peer, picker, answers, done, panicked>>

\* Raft::tick_heartbeat after an election timeout, with Config::check_quorum
CheckQuorum ==
    /\ pr.recent_active
    /\ LeaderReady(HandleCheckQuorum(leader))
    /\ UNCHANGED <<peer, picker, answers, done, panicked>>

\* An answer of the follower arrives.
Receive(types) ==
    /\ \E m \in answers :
        /\ m.type \in types
        /\ answers' = answers \ {m}
        /\ LeaderReady(Step(leader, m))
    /\ UNCHANGED <<peer, picker, done, panicked>>

ReceiveAppendResponse == Receive({"MsgAppendResponse"})
ReceiveHeartbeatResponse == Receive({"MsgHeartbeatResponse"})

-----------------------------------------------------------------------------
(***************************************************************************)
(* BaseurlPicker: a position in the list of URLs, which stays the same.    *)
(***************************************************************************)

\* The last URL is never given up.
MutUnreachable(pk, url) == IF url = pk THEN MinOf({pk + 1, Urls - 1}) ELSE pk

\* BaseurlPicker::unreachable: only the URL that is picked now is given up.
Unreachable(pk, url) == IF url = pk THEN (pk + 1) % Urls ELSE pk

-----------------------------------------------------------------------------
(***************************************************************************)
(* Pipeline::handle and post, snapshotSender::send and post.               *)
(***************************************************************************)

\* The task has ended, or waits in done.send(()) for room that nobody makes.
Over == panicked \/ done > DoneSize

\* The pipeline receives a message and picks a URL.
Take ==
    /\ ~Over
    /\ msgc # <<>> /\ posts["pipeline"] = Idle
    /\ msgc' = Tail(msgc)
    /\ posts' = [posts EXCEPT !["pipeline"] = [Idle EXCEPT !.msg = Head(msgc), !.url = picker]]
    /\ UNCHANGED <<leader, peer, picker, answers, done, panicked, forgotten>>

\* The follower steps a message, and persists and applies its Ready before the
\* answers leave.
Handled(s) == Applied([s EXCEPT !.persisted = LastIndex(s)])

\* The peer gets the message.  Any of the answers on their way may be lost.
Deliver(p) ==
    LET s == Step(peer, posts[p].msg)
    IN  /\ posts[p] # Idle /\ ~posts[p].delivered
        /\ posts[p].url \in Reachable
        /\ peer' = Handled(s)
        /\ answers' \in {a \in SUBSET (answers \cup s.msgs) : Cardinality(a) <= MaxAnswers}
        /\ posts' = [posts EXCEPT ![p].delivered = TRUE]
        /\ UNCHANGED <<leader, msgc, picker, done, panicked, forgotten>>

\* The post is over and reported, with this state of the leader and the picker.
\* The pipeline then sends to done.
Done(p, s, pk) ==
    /\ posts' = [posts EXCEPT ![p] = Idle]
    /\ leader' = s
    /\ picker' = pk
    /\ done' = IF p = "pipeline" THEN done + 1 ELSE done
    /\ UNCHANGED <<peer, msgc, answers, panicked, forgotten>>

\* What the leader is told of a post that has succeeded
ReportSuccess(s, m) == IF IsMsgSnap(m) THEN HandleSnapshotStatus(s, Peer, FALSE) ELSE s

Succeed(p) ==
    /\ posts[p].delivered
    /\ Done(p, ReportSuccess(leader, posts[p].msg), picker)

\* The failure of a snapshot is only reported as that of a connection.
MutReportFailure(s, m) == HandleUnreachable(s, Peer)

\* report_unreachable, then report_snapshot
ReportFailure(s, m) ==
    LET u == HandleUnreachable(s, Peer)
    IN  IF IsMsgSnap(m) THEN HandleSnapshotStatus(u, Peer, TRUE) ELSE u

\* The post has failed, and says so.
Failed(p) == Done(p, ReportFailure(leader, posts[p].msg), Unreachable(picker, posts[p].url))

\* check_post_response does not like the status.
Refused(p) == posts[p] # Idle /\ ~posts[p].delivered /\ Failed(p)

\* The connection fails, with or without the peer having got the message.
PipelineBroken == posts["pipeline"] # Idle /\ Failed("pipeline")

\* The status is 412 and the body or the header that check_post_response unwraps
\* is not there: the task panics.  Or it is 403 and nobody empties errorc: the
\* picker has moved and the task waits.  Nothing is reported in either case.
PipelineStops ==
    /\ posts["pipeline"] # Idle /\ ~posts["pipeline"].delivered
    /\ posts' = [posts EXCEPT !["pipeline"] = Idle]
    /\ picker' \in {picker, Unreachable(picker, posts["pipeline"].url)}
    /\ panicked' = TRUE
    /\ forgotten' = (forgotten \/ IsMsgSnap(posts["pipeline"].msg))
    /\ UNCHANGED <<leader, peer, msgc, answers, done>>

\* The same of the snapshotSender, before the picker has moved, and its post
\* unwraps the response, too: a broken connection is not reported either.
SenderStops ==
    /\ posts["sender"] # Idle
    /\ posts' = [posts EXCEPT !["sender"] = Idle]
    /\ forgotten' = TRUE
    /\ UNCHANGED <<leader, peer, msgc, picker, answers, done, panicked>>

-----------------------------------------------------------------------------
LinkConf ==
    [EmptyTracker EXCEPT !.incoming = {Leader}, !.learners = {Peer}, !.progress = {Leader, Peer}]

LinkConfig ==
    [pre_vote |-> FALSE, check_quorum |-> TRUE, lease_read |-> FALSE, skip_bcast_commit |-> FALSE,
     priority |-> 0, max_msg |-> 1]

\* The leader has committed its first entry and applied the change that adds
\* the learner (ApplyConf), whose storage is empty.
Init ==
    LET old == [term |-> 1, vote |-> Leader, commit |-> 1,
                log |-> <<[term |-> 1, type |-> "Normal", data |-> Empty]>>]
        new == [term |-> 0, vote |-> None, commit |-> 0, log |-> <<>>]
        own == BecomeReplicate([NewProgress(1) EXCEPT !.matched = 1])
    IN  /\ leader = [NewRaft(Leader, LinkConfig, LinkConf, old, [first |-> 1, snap |-> 0, applied |-> 1])
                        EXCEPT !.state = "Leader", !.leader_id = Leader,
                               !.prs = [j \in {Leader, Peer} |->
                                           IF j = Leader THEN own
                                           ELSE [NewProgress(1) EXCEPT !.recent_active = TRUE]]]
        /\ peer = NewRaft(Peer, LinkConfig, LinkConf, new, [first |-> 1, snap |-> 0, applied |-> 0])
        /\ msgc = <<>>
        /\ posts = [p \in Poster |-> Idle]
        /\ picker = 0
        /\ answers = {}
        /\ done = 0
        /\ panicked = FALSE
        /\ forgotten = FALSE

Next ==
    \/ Propose
    \/ Compact
    \/ Beat
    \/ CheckQuorum
    \/ ReceiveAppendResponse
    \/ ReceiveHeartbeatResponse
    \/ Take
    \/ \E p \in Poster : \/ Deliver(p)
                         \/ Succeed(p)
                         \/ Refused(p)
    \/ PipelineBroken
    \/ PipelineStops
    \/ SenderStops

Spec == Init /\ [][Next]_vars

-----------------------------------------------------------------------------
\* A leader waits for a snapshot (ProgressState::Snapshot, in which it sends
\* nothing) only as long as somebody is going to report what became of it: "it
\* is crucial that the application ensures that any failure in sending a
\* snapshot is caught and reported back" (Node::report_snapshot).  Three things
\* are excepted, in which rafthttp reports nothing and the leader waits for ever:
\* remote::send drops the snapshot, the task that posts it panics or blocks, or
\* the pipeline is over with the snapshot in its queue.
NoLimbo ==
    LET queued == \E i \in DOMAIN msgc : IsMsgSnap(msgc[i])
        reported == \/ ~Over /\ queued
                    \/ \E p \in Poster : posts[p] # Idle /\ IsMsgSnap(posts[p].msg)
        lost == forgotten \/ (Over /\ queued)
    IN  pr.state = "Snapshot" => reported \/ lost

(***************************************************************************)
(* What comes next when nothing goes wrong from now on: the pipeline posts *)
(* one message after the other, only the URLs that never work fail, every  *)
(* answer arrives, and the timer beats when the queue is empty.            *)
(***************************************************************************)

\* The leader in state s makes a Ready of it.
Emit(l, s) ==
    LET p == Persist(s)
    IN  [l EXCEPT !.leader = Applied(p),
                  !.msgc = SendAll(@, CHOOSE q \in InOrder(p.msgs) : TRUE)]

\* One post, or a heartbeat
Undisturbed(l) ==
    LET m == Head(l.msgc)
        s == Step(l.peer, m)
        t == ReportSuccess(l.leader, m)
        rest == [l EXCEPT !.msgc = Tail(@)]
    IN  IF l.msgc = <<>> THEN Emit(l, BcastHeartbeat(l.leader))
        ELSE IF l.picker \notin Reachable
             THEN [rest EXCEPT !.leader = ReportFailure(@, m), !.picker = Unreachable(@, @)]
        ELSE Emit([rest EXCEPT !.peer = Handled(s)],
                  IF s.msgs = {} THEN t ELSE Step(t, CHOOSE a \in s.msgs : TRUE))

\* What is being posted ends.
Ended(s, post) ==
    IF post = Idle THEN s
    ELSE IF post.delivered THEN ReportSuccess(s, post.msg) ELSE ReportFailure(s, post.msg)

\* Whatever was lost, refused, overtaken or dropped before: once the network
\* does what it should, CatchUpSteps posts and heartbeats of a pipeline that runs
\* bring the whole log of the leader to the follower, and the leader learns of
\* it.  A paused probe, a full window, a wrong guess of the follower's log or a
\* reported failure is always followed by another attempt
\* (handle_heartbeat_response, handle_unreachable, handle_snapshot_status,
\* unreachable of the picker).  Not so once a snapshot has vanished unreported, of
\* which NoLimbo says when; and the posts left until done is full may be fewer.
CanCatchUp ==
    LET now == [leader |-> Ended(Ended(leader, posts["pipeline"]), posts["sender"]),
                peer |-> peer, msgc |-> msgc, picker |-> picker]
        after[n \in 0..CatchUpSteps] == IF n = 0 THEN now ELSE Undisturbed(after[n - 1])
    IN  forgotten \/ after[CatchUpSteps].leader.prs[Peer].matched = LastIndex(leader)
=============================================================================
