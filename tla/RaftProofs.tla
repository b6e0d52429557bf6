----------------------------- MODULE RaftProofs -----------------------------
(***************************************************************************)
(* Proofs about module Raft, for every group that does not change its      *)
(* configuration.                                                          *)
(*                                                                         *)
(* At most one leader in a term.  The argument follows the code bottom-up. *)
(* Most methods of raft.rs leave role, term, vote and log alone (Keeps);   *)
(* the others are steps (Steps): the term grows or the vote stays, a vote  *)
(* goes to the candidate that was voted for, and a node leads only when a  *)
(* majority has voted for it.  Every action of the specification is such a *)
(* step of one node, followed by its Ready, and so keeps the invariant     *)
(* Inv: what was voted is on the disk of the voter before the vote is on   *)
(* the wire.  Two leaders of one term then share a voter, which cannot     *)
(* have voted for both.                                                    *)
(*                                                                         *)
(* Logs match.  G[x] is the log the leader of term x has had.  A log fits  *)
(* G if up to any of its entries it is the log of that entry's leader.     *)
(* What leaders send are pieces of their G (Copies), and every step of a   *)
(* node moves its log in one of three ways (Moves), so that all logs go on *)
(* to fit (MatchInv); logs that fit match.                                 *)
(***************************************************************************)
EXTENDS Raft, QuorumRulesProofs

\* Entries of a group whose configuration does not change: none is a ConfChange.
NEntry == [term : Nat \ {0}, type : {"Normal"}, data : Value \cup {Empty}]

\* A configuration outside joint consensus with at least two voters.
FixedConf(K) ==
    /\ K \in [incoming : SUBSET Server, outgoing : {{}}, learners : SUBSET Server, learners_next : {{}},
              auto_leave : {FALSE}, progress : SUBSET Server]
    /\ K.incoming \subseteq K.progress
    /\ Cardinality(K.incoming) >= 2

\* The fields of struct Raft and its RaftLog that the model keeps.
RaftFields == {"id", "config", "term", "vote", "state", "leader_id", "lead_transferee", "log", "first",
    "snap", "committed", "persisted", "applied", "conf", "votes", "prs", "pending_conf_index",
    "pending_request_snapshot", "reads", "read_states", "expired", "msgs"}

\* What a leader's Progress always is.
IsProgress(pr) ==
    /\ DOMAIN pr = {"matched", "next_idx", "state", "paused", "pending_snapshot",
                    "pending_request_snapshot", "recent_active", "ins"}
    /\ pr.matched \in Nat /\ pr.next_idx \in Nat \ {0}
    /\ pr.pending_snapshot \in Nat /\ pr.pending_request_snapshot \in Nat
    /\ pr.state \in {"Probe", "Replicate", "Snapshot"}

\* What holds of a node between any two method calls: the types, the order of
\* RaftLog's cursors, and that whoever campaigns or leads voted for itself.
IsRaft(s) ==
    /\ DOMAIN s = RaftFields
    /\ FixedConf(s.conf) /\ s.id \in s.conf.progress
    /\ s.config \in ConfigType
    /\ s.term \in Nat /\ s.state \in {"Follower", "PreCandidate", "Candidate", "Leader"}
    /\ s.log \in Seq(NEntry)
    /\ s.first \in Nat \ {0} /\ s.snap \in Nat /\ s.committed \in Nat
    /\ s.persisted \in Nat /\ s.applied \in Nat /\ s.pending_request_snapshot \in Nat
    /\ s.snap <= s.committed /\ s.snap <= Len(s.log)
    /\ s.applied <= s.committed /\ s.applied <= s.persisted /\ s.persisted <= Len(s.log)
    /\ s.state \in {"Candidate", "Leader"} => s.vote = s.id /\ s.term > 0
    /\ s.state = "Leader" => /\ DOMAIN s.prs = s.conf.progress
                             /\ \A j \in s.conf.progress : IsProgress(s.prs[j])

\* A MsgAppend repeats a stretch of the sender's log.
Carries(log, m) ==
    /\ m.log_term = IF m.index \in 1..Len(log) THEN log[m.index].term ELSE 0
    /\ m.entries = <<>> \/ /\ m.index + Len(m.entries) <= Len(log)
                           /\ \A k \in 1..Len(m.entries) : m.entries[k] = log[m.index + k]

\* What holds of every message that raft.rs builds, by its type.
MsgOK(K, m) ==
    /\ {"type", "from", "to", "term"} \subseteq DOMAIN m
    /\ m.term \in Nat
    /\ m.type \in FromLeader \cup {"MsgRequestVote", "MsgReadIndexResp"} => m.term > 0
    /\ m.type = "MsgRequestVoteResponse" /\ ~m.reject => m.term > 0
    /\ m.type = "MsgAppend" =>
          /\ m.index \in Nat /\ m.log_term \in Nat /\ m.commit \in Nat /\ m.entries \in Seq(NEntry)
          /\ m.entries # <<>> => m.log_term > 0 \/ m.index = 0
    /\ m.type = "MsgHeartbeat" => m.commit \in Nat
    /\ m.type = "MsgSnapshot" =>
          /\ m.snapshot.index \in Nat /\ m.snapshot.conf = K
          /\ m.snapshot.log \in Seq(NEntry) /\ Len(m.snapshot.log) = m.snapshot.index
    /\ m.type = "MsgAppendResponse" =>
          /\ m.index \in Nat /\ m.reject_hint \in Nat /\ m.log_term \in Int /\ m.request_snapshot \in Nat
    /\ m.type = "MsgPropose" =>
          /\ "entry" \in DOMAIN m /\ m.entry.type = "Normal" /\ m.entry.data \in Value \cup {Empty}

\* Whoever leads, asks for votes or is voted for is in the group.
Sane(K, m) ==
    /\ m.type \in FromLeader \cup {"MsgRequestVote"} => m.from \in K.progress
    /\ m.type = "MsgRequestVoteResponse" /\ ~m.reject => m.to \in K.progress

\* A vote given.
IsGrant(m) == m.type = "MsgRequestVoteResponse" /\ ~m.reject

\* A message of a method that gives no vote and asks for none: what it says as
\* leader it says in its own term, out of its own log.
Ordinary(s, m) ==
    /\ m.type # "MsgRequestVote" /\ ~IsGrant(m)
    /\ m.type \in FromLeader => m.from = s.id /\ m.term = s.term /\ s.state = "Leader"
    /\ m.type = "MsgAppend" => Carries(s.log, m)
    /\ m.type = "MsgSnapshot" => /\ m.snapshot.index <= Len(s.log)
                                 /\ \A k \in 1..m.snapshot.index : m.snapshot.log[k] = s.log[k]

\* What the methods that leave role, term, votes and log alone may do.
Keeps(s, t) ==
    /\ IsRaft(t)
    /\ t.id = s.id /\ t.config = s.config /\ t.conf = s.conf
    /\ t.term = s.term /\ t.vote = s.vote /\ t.state = s.state /\ t.votes = s.votes
    /\ t.log = s.log /\ t.first = s.first /\ t.snap = s.snap /\ s.committed <= t.committed
    /\ s.persisted = t.persisted /\ s.applied = t.applied
    /\ s.msgs \subseteq t.msgs
    /\ \A m \in t.msgs \ s.msgs : MsgOK(s.conf, m) /\ Ordinary(s, m)

\* v has voted for c in term t: it has said so, it has asked for votes itself, or
\* it is what the group began with.
Voted(msgs, L, v, c, t) ==
    \/ \E m \in msgs : IsGrant(m) /\ m.from = v /\ m.to = c /\ m.term = t
    \/ v = c /\ \E m \in msgs : m.type = "MsgRequestVote" /\ m.from = v /\ m.term = t
    \/ L # None /\ c = L /\ t = 1

\* A majority of the voters has voted for c in term t.
Backed(msgs, L, K, c, t) ==
    Cardinality({v \in K.incoming : Voted(msgs, L, v, c, t)}) >= Majority(Cardinality(K.incoming))

\* What holds of node n after every Ready: term and vote are on its disk, all
\* messages are handed over, and the disk has the log up to persisted.
NodeInv(K, n) ==
    /\ IsRaft(node[n]) /\ node[n].id = n /\ node[n].conf = K
    /\ node[n].msgs = {} /\ node[n].snap <= node[n].persisted
    /\ DOMAIN disk[n] = {"term", "vote", "commit", "log"}
    /\ disk[n].term = node[n].term /\ disk[n].vote = node[n].vote
    /\ disk[n].commit \in Nat /\ node[n].snap <= disk[n].commit
    /\ disk[n].log \in Seq(NEntry) /\ Len(disk[n].log) = node[n].persisted

\* A vote binds its voter to a term and a candidate; a candidate has counted only
\* votes that were given; whoever leads, or once spoke as leader, is backed.
VoteInv(K, L) ==
    /\ \A v, c \in K.progress, t \in Nat :
          Voted(net, L, v, c, t) =>
              /\ node[v].term >= t
              /\ node[v].term = t => node[v].vote = c
              /\ \A d \in K.progress : Voted(net, L, v, d, t) => d = c
    /\ \A n \in K.progress :
          /\ node[n].state = "Candidate" =>
                \A v \in DOMAIN node[n].votes :
                    node[n].votes[v] => v \in K.progress /\ Voted(net, L, v, n, node[n].term)
          /\ node[n].state = "Leader" => Backed(net, L, K, n, node[n].term)
    /\ \A m \in net : m.type \in FromLeader => Backed(net, L, K, m.from, m.term)

\* The inductive invariant, for the group's configuration K and the leader L the
\* group began with (None for a fresh group).
Inv(K, L) ==
    /\ FixedConf(K) /\ L \in K.progress \cup {None}
    /\ DOMAIN node = K.progress /\ DOMAIN disk = K.progress
    /\ limits.changes = {}
    /\ \A n \in K.progress : NodeInv(K, n)
    /\ \A m \in net : MsgOK(K, m) /\ Sane(K, m)
    /\ VoteInv(K, L)

\* Doing nothing keeps role, term, votes and log.
LEMMA KeepsRefl == ASSUME NEW s, IsRaft(s) PROVE Keeps(s, s)
  BY DEF Keeps, IsRaft

\* Two methods in a row that keep role, term, votes and log keep them together.
LEMMA KeepsTrans == ASSUME NEW s, NEW t, NEW u, Keeps(s, t), Keeps(t, u), IsRaft(s) PROVE Keeps(s, u)
  <1>1. s.committed <= u.committed
    BY DEF Keeps, IsRaft
  <1>2. \A m : Ordinary(t, m) => Ordinary(s, m)
    BY DEF Keeps, Ordinary
  <1> QED BY <1>1, <1>2 DEF Keeps

\* RaftCore::send of an ordinary message changes nothing but the messages.
LEMMA SendKeeps ==
    ASSUME NEW s, IsRaft(s), NEW m, MsgOK(s.conf, m), Ordinary(s, m)
    PROVE  Keeps(s, Send(s, m))
  <1>1. IsRaft(Send(s, m))
    BY DEF IsRaft, Send, RaftFields
  <1> QED BY <1>1 DEF Keeps, Send, IsRaft, RaftFields

\* A write to one Progress of a leader.
LEMMA SetProgressKeeps ==
    ASSUME NEW s, IsRaft(s), s.state = "Leader", NEW j \in s.conf.progress, NEW pr, IsProgress(pr)
    PROVE  Keeps(s, [s EXCEPT !.prs[j] = pr])
  <1> DEFINE t == [s EXCEPT !.prs[j] = pr]
  <1>1. IsRaft(t)
    BY DEF IsRaft, RaftFields
  <1> QED BY <1>1 DEF Keeps, IsRaft, RaftFields

\* Every entry of a log has a term above 0.
LEMMA EntryType ==
    ASSUME NEW s, IsRaft(s), NEW i \in 1..Len(s.log)
    PROVE  s.log[i] \in NEntry /\ s.log[i].term \in Nat /\ s.log[i].term > 0
  <1>1. s.log[i] \in NEntry
    BY DEF IsRaft
  <1> QED BY <1>1 DEF NEntry

\* The cursors of RaftLog and their order.
LEMMA LogTypes ==
    ASSUME NEW s, IsRaft(s)
    PROVE  /\ Len(s.log) \in Nat /\ s.first \in Nat /\ s.first > 0 /\ s.snap \in Nat /\ s.snap <= Len(s.log)
           /\ s.committed \in Nat /\ s.persisted \in Nat /\ s.applied \in Nat /\ s.snap <= s.committed
           /\ s.applied <= s.committed /\ s.applied <= s.persisted /\ s.persisted <= Len(s.log)
           /\ s.term \in Nat
  BY DEF IsRaft

\* RaftLog::term: a term of the log, 0 outside it, or the error of a compacted
\* entry.
LEMMA TermAtType ==
    ASSUME NEW s, IsRaft(s), NEW i
    PROVE  /\ TermAt(s, i) \in Nat \/ TermAt(s, i) = -1
           /\ TermAt(s, i) # 0 => i \in Nat
           /\ TermAt(s, i) > 0 => i \in 1..Len(s.log) /\ TermAt(s, i) = s.log[i].term
           /\ i \in Nat /\ TermAt(s, i) = 0 => i = 0 \/ i < s.first - 1 \/ i > Len(s.log)
           /\ TermAt(s, i) = NoTerm => i = s.first - 1
  BY LogTypes, EntryType DEF TermAt, NoTerm

\* RaftCore::prepare_send_snapshot sends a prefix of the leader's log.
LEMMA MaybeSendSnapshotKeeps ==
    ASSUME NEW s, IsRaft(s), s.state = "Leader", NEW j \in s.conf.progress
    PROVE  Keeps(s, MaybeSendSnapshot(s, j))
  <1> DEFINE m == SnapshotMsg(s, j)
             pr == BecomeSnapshot(s.prs[j], s.applied)
             t == Send(s, m)
  <1>1. SubSeq(s.log, 1, s.applied) \in Seq(NEntry) /\ Len(SubSeq(s.log, 1, s.applied)) = s.applied
        /\ \A k \in 1..s.applied : SubSeq(s.log, 1, s.applied)[k] = s.log[k]
    BY DEF IsRaft
  <1>2. s.term \in Nat /\ s.term > 0
    BY DEF IsRaft
  <1>21. MsgOK(s.conf, m)
    BY <1>1, <1>2, LogTypes DEF MsgOK, SnapshotMsg, Snapshot
  <1>22. Ordinary(s, m)
    BY <1>1, LogTypes DEF Ordinary, SnapshotMsg, Snapshot, IsGrant
  <1>3. Keeps(s, t)
    BY <1>21, <1>22, SendKeeps
  <1>4. IsProgress(pr)
    BY DEF IsRaft, IsProgress, BecomeSnapshot, ResetState
  <1>5. Keeps(t, [t EXCEPT !.prs[j] = pr])
    BY <1>3, <1>4, SetProgressKeeps DEF Keeps
  <1>6. Keeps(s, [t EXCEPT !.prs[j] = pr])
    BY <1>3, <1>5, KeepsTrans
  <1> QED BY <1>6, KeepsRefl DEF MaybeSendSnapshot

\* RaftCore::maybe_send_append sends a stretch of the leader's log, or a snapshot.
LEMMA MaybeSendAppendKeeps ==
    ASSUME NEW s, IsRaft(s), s.state = "Leader", NEW j \in s.conf.progress, NEW allow_empty
    PROVE  Keeps(s, MaybeSendAppend(s, j, allow_empty))
  <1> DEFINE pr == s.prs[j]
             last == MinOf({pr.next_idx + s.config.max_msg - 1, LastIndex(s)})
             ents == Slice(s, pr.next_idx, last)
             m == AppendMsg(s, j, pr.next_idx - 1, ents)
             t == Send(s, m)
             pr2 == IF ents = <<>> THEN pr ELSE UpdateState(pr, last)
  <1>1. IsProgress(pr)
    BY DEF IsRaft
  <1>2. last \in Int /\ last <= Len(s.log) /\ (last >= pr.next_idx \/ last = Len(s.log))
    <2>1. pr.next_idx + s.config.max_msg - 1 \in Int /\ LastIndex(s) \in Int /\ s.config.max_msg >= 1
      <3>1. s.config.max_msg \in Nat /\ s.config.max_msg >= 1
        BY DEF IsRaft, ConfigType
      <3> QED BY <1>1, <3>1, LogTypes DEF IsProgress, LastIndex
    <2>2. last = IF pr.next_idx + s.config.max_msg - 1 <= LastIndex(s) THEN pr.next_idx + s.config.max_msg - 1 ELSE LastIndex(s)
      BY <2>1, MinOfTwo
    <2>3. pr.next_idx \in Nat /\ LastIndex(s) = Len(s.log)
      BY <1>1 DEF IsProgress, LastIndex
    <2>4. s.config.max_msg \in Nat
      BY DEF IsRaft, ConfigType
    <2> HIDE DEF last, pr
    <2> QED BY <2>1, <2>2, <2>3, <2>4
  <1> HIDE DEF last
  <1>3. /\ ents \in Seq(NEntry)
        /\ ents # <<>> => /\ pr.next_idx <= last /\ Len(ents) = last - pr.next_idx + 1
                          /\ \A k \in 1..Len(ents) : ents[k] = s.log[pr.next_idx - 1 + k]
    <2>1. s.log \in Seq(NEntry) /\ pr.next_idx \in Nat \ {0}
      BY <1>1 DEF IsRaft, IsProgress
    <2> HIDE DEF pr
    <2> QED BY <1>2, <2>1 DEF Slice
  <1>4. ASSUME ~IsCompacted(s, pr.next_idx) PROVE Keeps(s, [t EXCEPT !.prs[j] = pr2])
    <2>1. /\ pr.next_idx \in Nat /\ pr.next_idx - 1 \in Nat /\ pr.next_idx >= s.first /\ TermAt(s, pr.next_idx - 1) \in Nat
      BY <1>1, <1>4, TermAtType, LogTypes DEF IsCompacted, IsProgress, NoTerm
    <2>2. TermAt(s, pr.next_idx - 1) = IF pr.next_idx - 1 \in 1..Len(s.log) THEN s.log[pr.next_idx - 1].term ELSE 0
      <3> DEFINE i == pr.next_idx - 1
      <3>1. i \in Nat /\ TermAt(s, i) \in Nat /\ Len(s.log) \in Nat /\ s.first \in Nat /\ i >= s.first - 1
        BY <2>1, <1>1, LogTypes DEF IsProgress
      <3>2. /\ TermAt(s, i) > 0 => i \in 1..Len(s.log) /\ TermAt(s, i) = s.log[i].term
            /\ TermAt(s, i) = 0 => i = 0 \/ i < s.first - 1 \/ i > Len(s.log)
        BY <3>1, TermAtType
      <3> HIDE DEF i
      <3>3. TermAt(s, i) = IF i \in 1..Len(s.log) THEN s.log[i].term ELSE 0
        BY <3>1, <3>2
      <3> QED BY <3>3 DEF i
    <2>3. pr.next_idx - 1 \in 1..Len(s.log) => s.log[pr.next_idx - 1].term > 0
      BY EntryType
    <2>31. s.term \in Nat /\ s.term > 0 /\ s.committed \in Nat
      BY DEF IsRaft
    <2> HIDE DEF ents
    <2>4. MsgOK(s.conf, m)
      <3>1. ents # <<>> => TermAt(s, pr.next_idx - 1) > 0 \/ pr.next_idx - 1 = 0
        <4> HIDE DEF pr
        <4> QED BY <1>2, <1>3, <2>1, <2>2, <2>3, LogTypes
      <3> QED BY <1>3, <2>1, <2>31, <3>1 DEF MsgOK, AppendMsg
    <2>5. Carries(s.log, m)
      <3>1. ents # <<>> => (pr.next_idx - 1) + Len(ents) <= Len(s.log)
        <4>1. Len(s.log) \in Nat
          BY LogTypes
        <4>2. ents # <<>> => Len(ents) = last - pr.next_idx + 1
          BY <1>3
        <4> HIDE DEF pr
        <4> QED BY <1>2, <4>2, <2>1, <4>1
      <3> QED BY <1>3, <2>2, <3>1 DEF Carries, AppendMsg
    <2>6. Ordinary(s, m)
      BY <2>5 DEF Ordinary, AppendMsg, IsGrant, FromLeader
    <2>7. Keeps(s, t)
      BY <2>4, <2>6, SendKeeps
    <2>8. IsProgress(pr2)
      BY <1>1, <1>2, <1>3, LogTypes DEF IsProgress, UpdateState
    <2>9. Keeps(t, [t EXCEPT !.prs[j] = pr2])
      BY <2>7, <2>8, SetProgressKeeps DEF Keeps
    <2> QED BY <2>7, <2>9, KeepsTrans
  <1> QED BY <1>4, KeepsRefl, MaybeSendSnapshotKeeps DEF MaybeSendAppend, last

\* The body of the loop of send_append_aggressively
SendMore(s, to) == MaybeSendAppend(s, to, FALSE)

\* RaftCore::send_append_aggressively calls maybe_send_append again and again.
LEMMA AggressiveRun ==
    ASSUME NEW s, IsRaft(s), NEW j
    PROVE  \E N \in Nat : \E f : /\ SendAppendAggressively(s, j) = f[N] /\ f[0] = s
                                  /\ \A k \in Nat : k < N => f[k + 1] = SendMore(f[k], j)
  <1> DEFINE G(x) == SendMore(x, j)
             N == LastIndex(s) + 1
             IsRun(f, m) == f = [k \in 0..m |-> IF k = 0 THEN s ELSE G(f[k - 1])]
             S == {m \in Nat : \E f : IsRun(f, m)}
             sent == CHOOSE f : IsRun(f, N)
  <1>1. N \in Nat
    BY LogTypes DEF LastIndex
  <1>2. 0 \in S
    <2> DEFINE f == [k \in 0..0 |-> s]
    <2>1. IsRun(f, 0)
      OBVIOUS
    <2> QED BY <2>1
  <1>3. ASSUME NEW m \in Nat, m \in S PROVE m + 1 \in S
    <2>1. PICK f : IsRun(f, m)
      BY <1>3
    <2> DEFINE g == [k \in 0..(m + 1) |-> IF k <= m THEN f[k] ELSE G(f[m])]
    <2>2. \A k \in 0..(m + 1) : g[k] = IF k = 0 THEN s ELSE G(g[k - 1])
      <3> HIDE DEF G
      <3> QED BY <2>1
    <2>3. g = [k \in 0..(m + 1) |-> g[k]]
      OBVIOUS
    <2> HIDE DEF g, G
    <2>4. IsRun(g, m + 1)
      BY <2>2, <2>3
    <2> HIDE DEF IsRun
    <2> QED BY <2>4
  <1>4. \E f : IsRun(f, N)
    <2> HIDE DEF IsRun, N
    <2> QED BY <1>1, <1>2, <1>3, SetInduction
  <1>5. IsRun(sent, N)
    <2> HIDE DEF IsRun, N
    <2> QED BY <1>4
  <1>6. SendAppendAggressively(s, j) = sent[N]
    BY Zenon DEF SendAppendAggressively, SendMore
  <1> HIDE DEF sent, N
  <1>7. sent[0] = s /\ \A k \in Nat : k < N => sent[k + 1] = G(sent[k])
    <2> HIDE DEF G
    <2> QED BY <1>1, <1>5
  <1> QED BY <1>1, <1>6, <1>7

\* RaftCore::send_append_aggressively, the loop that empties the send window.
LEMMA SendAppendAggressivelyKeeps ==
    ASSUME NEW s, IsRaft(s), s.state = "Leader", NEW j \in s.conf.progress
    PROVE  Keeps(s, SendAppendAggressively(s, j))
  <1>1. PICK N \in Nat : \E f : /\ SendAppendAggressively(s, j) = f[N] /\ f[0] = s
                                 /\ \A k \in Nat : k < N => f[k + 1] = SendMore(f[k], j)
    BY AggressiveRun
  <1>2. PICK f : /\ SendAppendAggressively(s, j) = f[N] /\ f[0] = s
                 /\ \A k \in Nat : k < N => f[k + 1] = SendMore(f[k], j)
    BY <1>1
  <1> DEFINE T == {k \in Nat : k <= N => Keeps(s, f[k])}
  <1>7. 0 \in T
    BY <1>2, KeepsRefl
  <1>8. ASSUME NEW k \in Nat, k \in T PROVE k + 1 \in T
    <2>1. SUFFICES ASSUME k + 1 <= N PROVE Keeps(s, f[k + 1])
      OBVIOUS
    <2>2. Keeps(s, f[k]) /\ f[k + 1] = SendMore(f[k], j)
      BY <1>2, <1>8, <2>1
    <2>3. IsRaft(f[k]) /\ f[k].state = "Leader" /\ j \in f[k].conf.progress
      BY <2>2 DEF Keeps
    <2>4. Keeps(f[k], SendMore(f[k], j))
      BY <2>3, MaybeSendAppendKeeps DEF SendMore
    <2> QED BY <2>2, <2>4, KeepsTrans
  <1>9. N \in T
    BY <1>7, <1>8, SetInduction
  <1> QED BY <1>2, <1>9

\* Raft::bcast_append: one maybe_send_append for every peer.
LEMMA BcastMaybeKeeps ==
    ASSUME NEW s, IsRaft(s), s.state = "Leader", NEW allow_empty
    PROVE  Keeps(s, BcastMaybe(s, allow_empty))
  <1> DEFINE t == BcastMaybe(s, allow_empty)
             new == UNION {MaybeSendAppend(s, j, allow_empty).msgs : j \in Peers(s)}
             prs == [j \in DOMAIN s.prs |-> IF j = s.id THEN s.prs[j] ELSE MaybeSendAppend(s, j, allow_empty).prs[j]]
  <1>1. \A j \in s.conf.progress : Keeps(s, MaybeSendAppend(s, j, allow_empty))
    BY MaybeSendAppendKeeps
  <1>2. t = [s EXCEPT !.prs = prs, !.msgs = s.msgs \cup new]
    BY DEF BcastMaybe
  <1>3. DOMAIN prs = s.conf.progress /\ \A j \in s.conf.progress : IsProgress(prs[j])
    <2>1. ASSUME NEW j \in s.conf.progress PROVE IsProgress(MaybeSendAppend(s, j, allow_empty).prs[j])
      BY <1>1 DEF Keeps, IsRaft
    <2> QED BY <2>1 DEF IsRaft
  <1>4. \A m \in new \ s.msgs : MsgOK(s.conf, m) /\ Ordinary(s, m)
    BY <1>1 DEF Keeps, Peers
  <1> HIDE DEF t, new, prs
  <1>5. IsRaft(t)
    BY <1>2, <1>3 DEF IsRaft, RaftFields
  <1>6. t.msgs = s.msgs \cup new
    BY <1>2 DEF IsRaft, RaftFields
  <1>7. /\ t.id = s.id /\ t.config = s.config /\ t.conf = s.conf
        /\ t.term = s.term /\ t.vote = s.vote /\ t.state = s.state /\ t.votes = s.votes
        /\ t.log = s.log /\ t.first = s.first /\ t.snap = s.snap /\ t.committed = s.committed
        /\ s.persisted = t.persisted /\ s.applied = t.applied
    BY <1>2 DEF IsRaft, RaftFields
  <1>8. s.committed <= t.committed
    BY <1>7, LogTypes
  <1> QED BY <1>4, <1>5, <1>6, <1>7, <1>8 DEF Keeps, t

\* A change of fields that this proof does not look at
LEMMA TouchKeeps ==
    ASSUME NEW s, IsRaft(s), NEW t, DOMAIN t = DOMAIN s,
           \A x \in RaftFields \ {"leader_id", "lead_transferee", "pending_conf_index", "reads",
                                  "read_states", "expired"} : t[x] = s[x]
    PROVE  Keeps(s, t)
  <1>1. /\ t.id = s.id /\ t.config = s.config /\ t.conf = s.conf
        /\ t.term = s.term /\ t.vote = s.vote /\ t.state = s.state /\ t.votes = s.votes
        /\ t.log = s.log /\ t.first = s.first /\ t.snap = s.snap /\ t.committed = s.committed
        /\ t.persisted = s.persisted /\ t.applied = s.applied /\ t.prs = s.prs /\ t.msgs = s.msgs
        /\ t.pending_request_snapshot = s.pending_request_snapshot
    BY DEF RaftFields
  <1>2. IsRaft(t)
    BY <1>1 DEF IsRaft
  <1> QED BY <1>1, <1>2, LogTypes DEF Keeps

\* Raft::bcast_heartbeat_with_ctx.
LEMMA BcastHeartbeatKeeps ==
    ASSUME NEW s, IsRaft(s), s.state = "Leader", NEW ctx
    PROVE  Keeps(s, BcastHeartbeatWithCtx(s, ctx))
  <1> DEFINE t == BcastHeartbeatWithCtx(s, ctx)
             new == {HeartbeatMsg(s, j, ctx) : j \in Peers(s)}
  <1>1. t = [s EXCEPT !.msgs = s.msgs \cup new]
    BY DEF BcastHeartbeatWithCtx
  <1>2. \A m \in new : MsgOK(s.conf, m) /\ Ordinary(s, m)
    <2>1. SUFFICES ASSUME NEW j \in s.conf.progress
                   PROVE  MsgOK(s.conf, HeartbeatMsg(s, j, ctx)) /\ Ordinary(s, HeartbeatMsg(s, j, ctx))
      BY DEF Peers
    <2>2. s.prs[j].matched \in Nat /\ s.committed \in Nat /\ s.term \in Nat /\ s.term > 0
      BY DEF IsRaft, IsProgress
    <2>3. MinOf({s.prs[j].matched, s.committed}) \in Nat
      BY <2>2, MinOfTwo
    <2> QED BY <2>2, <2>3 DEF MsgOK, Ordinary, IsGrant, HeartbeatMsg
  <1> HIDE DEF new, t
  <1>3. IsRaft(t)
    BY <1>1 DEF IsRaft, RaftFields
  <1>4. /\ t.id = s.id /\ t.config = s.config /\ t.conf = s.conf
        /\ t.term = s.term /\ t.vote = s.vote /\ t.state = s.state /\ t.votes = s.votes
        /\ t.log = s.log /\ t.first = s.first /\ t.snap = s.snap /\ t.committed = s.committed
        /\ t.persisted = s.persisted /\ t.applied = s.applied /\ t.msgs = s.msgs \cup new
    BY <1>1 DEF IsRaft, RaftFields
  <1> QED BY <1>2, <1>3, <1>4, LogTypes DEF Keeps, t

\* The commit index may grow.
LEMMA SetCommittedKeeps ==
    ASSUME NEW s, IsRaft(s), NEW i \in Nat, i >= s.committed
    PROVE  Keeps(s, [s EXCEPT !.committed = i])
  <1> DEFINE t == [s EXCEPT !.committed = i]
  <1>1. IsRaft(t)
    BY DEF IsRaft, RaftFields
  <1> QED BY <1>1 DEF Keeps, IsRaft, RaftFields

\* RaftLog::maybe_commit.
LEMMA LogMaybeCommitKeeps ==
    ASSUME NEW s, IsRaft(s), NEW i, NEW t, t # 0
    PROVE  Keeps(s, LogMaybeCommit(s, i, t))
  <1>1. ASSUME i > s.committed, MatchTerm(s, i, t) PROVE i \in Nat /\ i >= s.committed
    BY <1>1, TermAtType, LogTypes DEF MatchTerm
  <1> QED BY <1>1, KeepsRefl, SetCommittedKeeps DEF LogMaybeCommit

\* RaftLog::commit_to.
LEMMA CommitToKeeps ==
    ASSUME NEW s, IsRaft(s), NEW i \in Nat
    PROVE  Keeps(s, CommitTo(s, i))
  BY KeepsRefl, SetCommittedKeeps, LogTypes DEF CommitTo

\* Raft::maybe_commit.
LEMMA MaybeCommitKeeps ==
    ASSUME NEW s, IsRaft(s), s.state = "Leader"
    PROVE  Keeps(s, MaybeCommit(s))
  <1>1. s.term # 0
    BY DEF IsRaft
  <1> QED BY <1>1, LogMaybeCommitKeeps DEF MaybeCommit

\* A write to the ReadOnly queue.
LEMMA SetReadsKeeps ==
    ASSUME NEW s, IsRaft(s), NEW r
    PROVE  Keeps(s, [s EXCEPT !.reads = r])
  <1> DEFINE t == [s EXCEPT !.reads = r]
  <1>1. DOMAIN t = DOMAIN s
    OBVIOUS
  <1>2. \A x \in RaftFields \ {"leader_id", "lead_transferee", "pending_conf_index", "reads",
                                  "read_states", "expired"} : t[x] = s[x]
    BY DEF IsRaft, RaftFields
  <1> HIDE DEF t
  <1>3. Keeps(s, t)
    BY <1>1, <1>2, TouchKeeps
  <1> QED BY <1>3 DEF t

\* Raft::handle_ready_read_index for every request a quorum has confirmed.
LEMMA AnswerReadsKeeps ==
    ASSUME NEW s, IsRaft(s), s.state = "Leader", NEW rs
    PROVE  Keeps(s, AnswerReads(s, rs))
  <1> DEFINE own == {r \in rs : r.from \in {None, s.id}}
             rst == s.read_states \cup {[ctx |-> r.ctx, index |-> r.index] : r \in own}
             new == {[type |-> "MsgReadIndexResp", from |-> s.id, to |-> r.from,
                      term |-> s.term, ctx |-> r.ctx, index |-> r.index] : r \in rs \ own}
             t == AnswerReads(s, rs)
  <1>1. t = [s EXCEPT !.read_states = rst, !.msgs = s.msgs \cup new]
    BY DEF AnswerReads
  <1>2. s.term \in Nat /\ s.term > 0
    BY DEF IsRaft
  <1>3. \A m \in new : MsgOK(s.conf, m) /\ Ordinary(s, m)
    BY <1>2 DEF MsgOK, Ordinary, IsGrant, FromLeader
  <1> HIDE DEF new, t, rst, own
  <1>4. IsRaft(t)
    BY <1>1 DEF IsRaft, RaftFields
  <1>5. /\ t.id = s.id /\ t.config = s.config /\ t.conf = s.conf
        /\ t.term = s.term /\ t.vote = s.vote /\ t.state = s.state /\ t.votes = s.votes
        /\ t.log = s.log /\ t.first = s.first /\ t.snap = s.snap /\ t.committed = s.committed
        /\ t.persisted = s.persisted /\ t.applied = s.applied /\ t.msgs = s.msgs \cup new
    BY <1>1 DEF IsRaft, RaftFields
  <1> QED BY <1>3, <1>4, <1>5, LogTypes DEF Keeps, t

\* ReadOnly::recv_ack and advance.
LEMMA AckReadKeeps ==
    ASSUME NEW s, IsRaft(s), s.state = "Leader", NEW from, NEW ctx
    PROVE  Keeps(s, AckRead(s, from, ctx))
  <1> DEFINE pending == {i \in DOMAIN s.reads : s.reads[i].ctx = ctx}
             acked == [s EXCEPT !.reads = [i \in DOMAIN @ |->
                    IF i \in pending THEN [@[i] EXCEPT !.acks = @ \cup {from}] ELSE @[i]]]
             ready == {i \in pending : HasQuorum(s.conf, acked.reads[i].acks)}
             k == CHOOSE i \in ready : TRUE
             cut == [acked EXCEPT !.reads = SubSeq(acked.reads, k + 1, Len(acked.reads))]
             rs == {acked.reads[i] : i \in 1..k}
  <1>1. AckRead(s, from, ctx) = IF ready = {} THEN acked ELSE AdvanceReads(acked, k)
    BY Zenon DEF AckRead
  <1>2. AdvanceReads(acked, k) = AnswerReads(cut, rs)
    BY DEF AdvanceReads
  <1>3. Keeps(s, acked)
    BY SetReadsKeeps
  <1> HIDE DEF acked, ready, k, rs
  <1>4. Keeps(acked, cut)
    BY <1>3, SetReadsKeeps DEF Keeps
  <1> HIDE DEF cut
  <1>5. Keeps(cut, AnswerReads(cut, rs))
    <2>1. IsRaft(cut) /\ cut.state = "Leader"
      BY <1>3, <1>4 DEF Keeps
    <2> QED BY <2>1, AnswerReadsKeeps
  <1>6. Keeps(acked, AnswerReads(cut, rs))
    BY <1>3, <1>4, <1>5, KeepsTrans DEF Keeps
  <1>7. Keeps(s, AnswerReads(cut, rs))
    BY <1>3, <1>6, KeepsTrans
  <1> QED BY <1>1, <1>2, <1>3, <1>7

\* A leader's MsgReadIndex.
LEMMA HandleReadIndexKeeps ==
    ASSUME NEW s, IsRaft(s), s.state = "Leader", NEW m
    PROVE  Keeps(s, HandleReadIndex(s, m))
  <1> DEFINE a == AddRequest(s, m)
  <1>1. Keeps(s, a)
    BY KeepsRefl, SetReadsKeeps DEF AddRequest
  <1>2. Keeps(a, BcastHeartbeatWithCtx(a, m.ctx))
    <2> HIDE DEF a
    <2>1. IsRaft(a) /\ a.state = "Leader"
      BY <1>1 DEF Keeps
    <2> QED BY <2>1, BcastHeartbeatKeeps
  <1>3. Keeps(s, BcastHeartbeatWithCtx(a, m.ctx))
    BY <1>1, <1>2, KeepsTrans
  <1> QED BY <1>3, KeepsRefl, AnswerReadsKeeps DEF HandleReadIndex

\* Raft::bcast_append.
LEMMA BcastAppendKeeps ==
    ASSUME NEW s, IsRaft(s), s.state = "Leader"
    PROVE  Keeps(s, BcastAppend(s))
  BY BcastMaybeKeeps DEF BcastAppend

\* Raft::send_append.
LEMMA SendAppendKeeps ==
    ASSUME NEW s, IsRaft(s), s.state = "Leader", NEW j \in s.conf.progress
    PROVE  Keeps(s, SendAppend(s, j))
  BY MaybeSendAppendKeeps DEF SendAppend

\* The largest index of find_conflict_by_term exists.
LEMMA FindConflictByTermType ==
    ASSUME NEW s, IsRaft(s), NEW i \in Nat, NEW t \in Nat
    PROVE  FindConflictByTerm(s, i, t) \in Nat
  <1> DEFINE below == {k \in 0..i : TermAt(s, k) <= t}
             gap == {i - k : k \in below}
  <1>1. TermAt(s, 0) <= 0
    BY LogTypes DEF TermAt, NoTerm
  <1>2. 0 \in below
    BY <1>1, TermAtType
  <1>3. gap \in SUBSET Nat /\ gap # {}
    BY <1>2
  <1>4. PICK g \in gap : \A h \in gap : g <= h
    <2> HIDE DEF gap
    <2> QED BY <1>3, LeastElement
  <1>5. i - g \in below /\ \A l \in below : l <= i - g
    BY <1>4
  <1>6. below \subseteq Nat
    OBVIOUS
  <1> DEFINE c == CHOOSE k \in below : \A l \in below : l <= k
  <1>7. c \in below
    <2> HIDE DEF below
    <2> QED BY <1>5
  <1>8. FindConflictByTerm(s, i, t) = IF i > LastIndex(s) THEN i ELSE c
    BY DEF FindConflictByTerm
  <1> HIDE DEF c, below
  <1> QED BY <1>6, <1>7, <1>8

\* Raft::handle_append_response, the rejection.
LEMMA HandleAppendRejectKeeps ==
    ASSUME NEW s, IsRaft(s), s.state = "Leader", NEW m, m.from \in s.conf.progress,
           MsgOK(s.conf, m), m.type = "MsgAppendResponse"
    PROVE  Keeps(s, HandleAppendReject(s, m))
  <1> DEFINE pr == [s.prs[m.from] EXCEPT !.recent_active = TRUE]
             probe == IF m.log_term > 0 THEN FindConflictByTerm(s, m.reject_hint, m.log_term)
                                        ELSE m.reject_hint
             decr == DecrTo(pr, m.index, probe, m.request_snapshot)
             slow == IF decr.state = "Replicate" THEN BecomeProbe(decr) ELSE decr
             t == [s EXCEPT !.prs[m.from] = slow]
  <1>1. IsProgress(pr)
    BY DEF IsRaft, IsProgress
  <1>2. m.index \in Nat /\ m.request_snapshot \in Nat /\ m.reject_hint \in Nat /\ m.log_term \in Int
    BY DEF MsgOK
  <1>3. probe \in Nat
    <2>1. CASE m.log_term > 0
      <3>1. m.log_term \in Nat
        BY <1>2, <2>1
      <3>2. FindConflictByTerm(s, m.reject_hint, m.log_term) \in Nat
        BY <1>2, <3>1, FindConflictByTermType
      <3> QED BY <2>1, <3>2
    <2>2. CASE ~(m.log_term > 0)
      BY <1>2, <2>2
    <2> QED BY <2>1, <2>2
  <1> HIDE DEF pr, probe
  <1>4. IsProgress(decr)
    BY <1>1, <1>2, <1>3 DEF IsProgress, DecrTo, InvalidIndex
  <1> HIDE DEF decr
  <1>5. IsProgress(slow)
    BY <1>4 DEF IsProgress, BecomeProbe, ResetState
  <1> HIDE DEF slow
  <1>6. Keeps(s, t) /\ Keeps(s, [s EXCEPT !.prs[m.from] = pr])
    BY <1>1, <1>5, SetProgressKeeps
  <1> HIDE DEF t
  <1>7. Keeps(t, SendAppend(t, m.from))
    <2>1. IsRaft(t) /\ t.state = "Leader" /\ m.from \in t.conf.progress
      BY <1>6 DEF Keeps
    <2> QED BY <2>1, SendAppendKeeps
  <1>8. Keeps(s, SendAppend(t, m.from))
    BY <1>6, <1>7, KeepsTrans
  <1> QED BY <1>6, <1>8, Zenon DEF HandleAppendReject, pr, probe, decr, slow, t

\* Progress after an acknowledgement is a Progress.
LEMMA AcknowledgedType ==
    ASSUME NEW pr, IsProgress(pr), NEW i \in Nat
    PROVE  IsProgress(Acknowledged(pr, i))
  <1> DEFINE p == MaybeUpdate(pr, i)
  <1>1. IsProgress(p) /\ p.state = pr.state
    BY DEF IsProgress, MaybeUpdate, NeedUpdate
  <1> HIDE DEF p
  <1>2. IsProgress(BecomeReplicate(p)) /\ IsProgress(BecomeProbe(p)) /\ IsProgress([p EXCEPT !.ins = FreeTo(@, i)])
    <2>1. IsProgress(BecomeReplicate(p))
      BY <1>1 DEF IsProgress, BecomeReplicate, ResetState
    <2>2. IsProgress(BecomeProbe(p))
      BY <1>1 DEF IsProgress, BecomeProbe, ResetState
    <2>3. IsProgress([p EXCEPT !.ins = FreeTo(@, i)])
      BY <1>1 DEF IsProgress
    <2> QED BY <2>1, <2>2, <2>3
  <1>3. p.state = "Probe" \/ p.state = "Replicate" \/ p.state = "Snapshot"
    BY <1>1 DEF IsProgress
  <1> QED BY <1>1, <1>2, <1>3 DEF Acknowledged, p

\* After an acknowledgement: commit and broadcast, or go on sending.
LEMMA CommitOrResumeKeeps ==
    ASSUME NEW s, IsRaft(s), s.state = "Leader", NEW j \in s.conf.progress, NEW old
    PROVE  Keeps(s, CommitOrResume(s, j, old))
  <1> DEFINE c == MaybeCommit(s)
  <1>1. Keeps(s, c)
    BY MaybeCommitKeeps
  <1> HIDE DEF c
  <1>2. Keeps(c, BcastAppend(c))
    <2>1. IsRaft(c) /\ c.state = "Leader"
      BY <1>1 DEF Keeps
    <2> QED BY <2>1, BcastAppendKeeps
  <1>3. Keeps(s, BcastAppend(c))
    BY <1>1, <1>2, KeepsTrans
  <1> QED BY <1>1, <1>3, KeepsRefl, SendAppendKeeps DEF CommitOrResume, c

\* Raft::send_timeout_now, when the transferee has caught up.
LEMMA MaybeTimeoutNowKeeps ==
    ASSUME NEW s, IsRaft(s), NEW j
    PROVE  Keeps(s, MaybeTimeoutNow(s, j)) /\ Keeps(s, Send(s, PlainMsg(s, "MsgTimeoutNow", j)))
  <1> DEFINE m == PlainMsg(s, "MsgTimeoutNow", j)
  <1>1. MsgOK(s.conf, m) /\ Ordinary(s, m)
    BY LogTypes DEF MsgOK, Ordinary, PlainMsg, IsGrant, FromLeader
  <1> QED BY <1>1, SendKeeps, KeepsRefl DEF MaybeTimeoutNow

\* Raft::handle_append_response.
LEMMA HandleAppendResponseKeeps ==
    ASSUME NEW s, IsRaft(s), s.state = "Leader", NEW m, MsgOK(s.conf, m), m.type = "MsgAppendResponse"
    PROVE  Keeps(s, HandleAppendResponse(s, m))
  <1> DEFINE j == m.from
             pr == [s.prs[j] EXCEPT !.recent_active = TRUE]
             t == [s EXCEPT !.prs[j] = Acknowledged(pr, m.index)]
             u == CommitOrResume(t, j, IsPaused(pr))
             v == SendAppendAggressively(u, j)
  <1>1. DOMAIN s.prs = s.conf.progress
    BY DEF IsRaft
  <1>2. SUFFICES ASSUME j \in s.conf.progress, ~m.reject PROVE Keeps(s, HandleAppendAccept(s, m))
    BY <1>1, KeepsRefl, HandleAppendRejectKeeps DEF HandleAppendResponse
  <1>3. IsProgress(pr) /\ m.index \in Nat
    BY <1>2 DEF IsRaft, IsProgress, MsgOK
  <1> HIDE DEF pr
  <1>4. Keeps(s, t)
    BY <1>2, <1>3, AcknowledgedType, SetProgressKeeps
  <1> HIDE DEF t
  <1>5. Keeps(t, u) /\ IsRaft(t)
    <2>1. IsRaft(t) /\ t.state = "Leader" /\ j \in t.conf.progress
      BY <1>2, <1>4 DEF Keeps
    <2> QED BY <2>1, CommitOrResumeKeeps
  <1>6. Keeps(s, u)
    BY <1>4, <1>5, KeepsTrans
  <1> HIDE DEF u
  <1>7. Keeps(u, v)
    <2>1. IsRaft(u) /\ u.state = "Leader" /\ j \in u.conf.progress
      BY <1>2, <1>6 DEF Keeps
    <2> QED BY <2>1, SendAppendAggressivelyKeeps
  <1>8. Keeps(s, v)
    BY <1>6, <1>7, KeepsTrans
  <1> HIDE DEF v
  <1>9. Keeps(v, MaybeTimeoutNow(v, j))
    <2>1. IsRaft(v)
      BY <1>8 DEF Keeps
    <2> QED BY <2>1, MaybeTimeoutNowKeeps
  <1>10. Keeps(s, MaybeTimeoutNow(v, j))
    BY <1>8, <1>9, KeepsTrans
  <1> QED BY <1>4, <1>10 DEF HandleAppendAccept, pr, t, u, v

\* Raft::handle_heartbeat_response.
LEMMA HandleHeartbeatResponseKeeps ==
    ASSUME NEW s, IsRaft(s), s.state = "Leader", NEW m
    PROVE  Keeps(s, HandleHeartbeatResponse(s, m))
  <1> DEFINE j == m.from
             pr == FreeFirstIfFull([s.prs[j] EXCEPT !.recent_active = TRUE, !.paused = FALSE])
             woken == [s EXCEPT !.prs[j] = pr]
             sent == IF pr.matched < LastIndex(s) \/ pr.pending_request_snapshot # InvalidIndex
                       THEN SendAppend(woken, j) ELSE woken
  <1>1. DOMAIN s.prs = s.conf.progress
    BY DEF IsRaft
  <1>2. SUFFICES ASSUME j \in s.conf.progress PROVE Keeps(s, HandleHeartbeatResponse(s, m))
    BY <1>1, KeepsRefl DEF HandleHeartbeatResponse
  <1>3. IsProgress(pr)
    BY <1>2 DEF IsRaft, IsProgress, FreeFirstIfFull
  <1> HIDE DEF pr
  <1>4. Keeps(s, woken)
    BY <1>2, <1>3, SetProgressKeeps
  <1> HIDE DEF woken
  <1>5. Keeps(woken, SendAppend(woken, j))
    <2>1. IsRaft(woken) /\ woken.state = "Leader" /\ j \in woken.conf.progress
      BY <1>2, <1>4 DEF Keeps
    <2> QED BY <2>1, SendAppendKeeps
  <1>6. Keeps(s, sent)
    BY <1>4, <1>5, KeepsTrans
  <1> HIDE DEF sent
  <1>7. Keeps(sent, AckRead(sent, j, m.ctx))
    <2>1. IsRaft(sent) /\ sent.state = "Leader"
      BY <1>6 DEF Keeps
    <2> QED BY <2>1, AckReadKeeps
  <1>8. Keeps(s, AckRead(sent, j, m.ctx))
    BY <1>6, <1>7, KeepsTrans
  <1>9. HandleHeartbeatResponse(s, m) =
            IF s.config.lease_read \/ m.ctx = None THEN sent ELSE AckRead(sent, j, m.ctx)
    BY <1>1, <1>2 DEF HandleHeartbeatResponse, sent, woken, pr
  <1> QED BY <1>6, <1>8, <1>9

\* Writes to lead_transferee, leader_id and the clocks.
LEMMA SetTransfereeKeeps ==
    ASSUME NEW s, IsRaft(s), NEW x, NEW y
    PROVE  Keeps(s, [s EXCEPT !.lead_transferee = x]) /\ Keeps(s, [s EXCEPT !.expired = y, !.lead_transferee = x])
           /\ Keeps(s, [s EXCEPT !.expired = y]) /\ Keeps(s, [s EXCEPT !.expired = y, !.leader_id = x])
  <1> DEFINE F == RaftFields \ {"leader_id", "lead_transferee", "pending_conf_index", "reads",
                                  "read_states", "expired"}
  <1>1. ASSUME NEW t, \/ t = [s EXCEPT !.lead_transferee = x] \/ t = [s EXCEPT !.expired = y, !.lead_transferee = x]
                      \/ t = [s EXCEPT !.expired = y] \/ t = [s EXCEPT !.expired = y, !.leader_id = x]
        PROVE  Keeps(s, t)
    <2>1. DOMAIN t = DOMAIN s /\ \A f \in F : t[f] = s[f]
      BY <1>1 DEF IsRaft, RaftFields
    <2> QED BY <2>1, TouchKeeps
  <1> QED BY <1>1

\* Raft::handle_transfer_leader.
LEMMA HandleTransferLeaderKeeps ==
    ASSUME NEW s, IsRaft(s), s.state = "Leader", NEW m
    PROVE  Keeps(s, HandleTransferLeader(s, m))
  <1> DEFINE to == m.from
             t == [s EXCEPT !.expired = FALSE, !.lead_transferee = to]
             n == PlainMsg(s, "MsgTimeoutNow", to)
  <1>1. Keeps(s, t) /\ Keeps(s, [s EXCEPT !.lead_transferee = None])
    BY SetTransfereeKeeps
  <1> HIDE DEF t
  <1>2. IsRaft(t) /\ t.state = "Leader" /\ t.conf = s.conf /\ t.term = s.term /\ t.id = s.id
    BY <1>1 DEF Keeps
  <1>3. n = PlainMsg(t, "MsgTimeoutNow", to)
    BY <1>2 DEF PlainMsg
  <1>4. Keeps(s, Send(t, n))
    BY <1>1, <1>2, <1>3, MaybeTimeoutNowKeeps, KeepsTrans
  <1>5. to \in s.conf.progress => Keeps(s, SendAppend(t, to))
    BY <1>1, <1>2, SendAppendKeeps, KeepsTrans
  <1> QED BY <1>1, <1>4, <1>5, KeepsRefl DEF HandleTransferLeader, t

\* Raft::handle_snapshot_status.
LEMMA HandleSnapshotStatusKeeps ==
    ASSUME NEW s, IsRaft(s), s.state = "Leader", NEW j, NEW reject
    PROVE  Keeps(s, HandleSnapshotStatus(s, j, reject))
  <1> DEFINE pr == IF reject THEN SnapshotFailure(s.prs[j]) ELSE s.prs[j]
             p == [BecomeProbe(pr) EXCEPT !.paused = TRUE, !.pending_request_snapshot = InvalidIndex]
  <1>1. DOMAIN s.prs = s.conf.progress
    BY DEF IsRaft
  <1>2. SUFFICES ASSUME j \in s.conf.progress PROVE Keeps(s, [s EXCEPT !.prs[j] = p])
    BY <1>1, KeepsRefl DEF HandleSnapshotStatus
  <1>3. IsProgress(pr)
    BY <1>2 DEF IsRaft, IsProgress, SnapshotFailure
  <1> HIDE DEF pr
  <1>4. IsProgress(p)
    BY <1>3 DEF IsProgress, BecomeProbe, ResetState, InvalidIndex
  <1> QED BY <1>2, <1>4, SetProgressKeeps

\* Raft::handle_unreachable.
LEMMA HandleUnreachableKeeps ==
    ASSUME NEW s, IsRaft(s), s.state = "Leader", NEW j
    PROVE  Keeps(s, HandleUnreachable(s, j))
  <1> DEFINE p == BecomeProbe(s.prs[j])
  <1>1. DOMAIN s.prs = s.conf.progress
    BY DEF IsRaft
  <1>2. SUFFICES ASSUME j \in s.conf.progress PROVE Keeps(s, [s EXCEPT !.prs[j] = p])
    BY <1>1, KeepsRefl DEF HandleUnreachable
  <1>3. ASSUME NEW pr, IsProgress(pr) PROVE IsProgress(BecomeProbe(pr))
    BY <1>3 DEF IsProgress, BecomeProbe, ResetState
  <1>4. IsProgress(p)
    BY <1>2, <1>3 DEF IsRaft
  <1> QED BY <1>2, <1>4, SetProgressKeeps

\* MsgCheckQuorum of a leader that hears a quorum: the flags are cleared.
LEMMA HandleCheckQuorumKeeps ==
    ASSUME NEW s, IsRaft(s), s.state = "Leader", HasQuorum(s.conf, Active(s))
    PROVE  Keeps(s, HandleCheckQuorum(s))
  <1> DEFINE prs == [j \in DOMAIN s.prs |-> [s.prs[j] EXCEPT !.recent_active = (j = s.id)]]
             t == [s EXCEPT !.prs = prs]
  <1>1. HandleCheckQuorum(s) = t
    BY DEF HandleCheckQuorum
  <1>2. ASSUME NEW pr, IsProgress(pr), NEW b PROVE IsProgress([pr EXCEPT !.recent_active = b])
    BY <1>2 DEF IsProgress
  <1>3. DOMAIN prs = s.conf.progress /\ \A j \in s.conf.progress : IsProgress(prs[j])
    BY <1>2 DEF IsRaft
  <1> HIDE DEF prs
  <1>4. IsRaft(t)
    BY <1>3 DEF IsRaft, RaftFields
  <1>5. Keeps(s, t)
    BY <1>4, LogTypes DEF Keeps, IsRaft, RaftFields
  <1> QED BY <1>1, <1>5

(***************************************************************************)
(* Steps of a node that may change its role, its term, its vote and its    *)
(* log.                                                                    *)
(***************************************************************************)
\* What a node has counted was voted, in messages on the way (N) or its own.
VotesOK(N, L, s) ==
    /\ s.state = "Candidate" =>
          \A v \in DOMAIN s.votes :
              s.votes[v] => v \in s.conf.progress /\ Voted(N \cup s.msgs, L, v, s.id, s.term)
    /\ s.state = "Leader" => Backed(N \cup s.msgs, L, s.conf, s.id, s.term)

\* What a step from s to t may send: as leader in its term, a vote request of a
\* new term for itself, a vote for the candidate it has voted for.
NewMsgOK(s, t, m) ==
    /\ MsgOK(s.conf, m) /\ Sane(s.conf, m)
    /\ m.type \in FromLeader => m.from = t.id /\ m.term = t.term /\ t.state = "Leader"
    /\ m.type = "MsgRequestVote" => m.from = t.id /\ m.term = t.term /\ t.term > s.term /\ t.vote = t.id
    /\ IsGrant(m) => m.from = t.id /\ m.term = t.term /\ m.to = t.vote

\* What any step of a node may do: its term grows or its vote stays, and it leads
\* only after it was a candidate of the same term.
Steps(N, L, s, t) ==
    /\ IsRaft(t)
    /\ t.id = s.id /\ t.config = s.config /\ t.conf = s.conf
    /\ s.term <= t.term
    /\ t.term = s.term /\ s.vote # None => t.vote = s.vote
    /\ VotesOK(N, L, t)
    /\ t.state = "Leader" => /\ s.state \in {"Candidate", "Leader"}
                             /\ t.term = s.term /\ t.vote = s.vote
                             /\ t.persisted = s.persisted /\ t.snap = s.snap /\ t.first = s.first
    /\ s.msgs \subseteq t.msgs
    /\ \A m \in t.msgs \ s.msgs : NewMsgOK(s, t, m)

\* A vote is never taken back: messages are only added.
LEMMA VotedMore ==
    ASSUME NEW N, NEW M, N \subseteq M, NEW L, NEW v, NEW c, NEW t, Voted(N, L, v, c, t)
    PROVE  Voted(M, L, v, c, t)
  BY DEF Voted

\* A majority stays a majority when messages are added.
LEMMA BackedMore ==
    ASSUME NEW N, NEW M, N \subseteq M, NEW L, NEW K, FixedConf(K), NEW c, NEW t, Backed(N, L, K, c, t)
    PROVE  Backed(M, L, K, c, t)
  <1> DEFINE A == {v \in K.incoming : Voted(N, L, v, c, t)}
             B == {v \in K.incoming : Voted(M, L, v, c, t)}
  <1>1. A \subseteq B
    BY VotedMore
  <1>2. IsFiniteSet(B) /\ IsFiniteSet(K.incoming)
    <2>1. K.incoming \subseteq Server
      BY DEF FixedConf
    <2> QED BY <2>1, RaftAssumption, FS_Subset
  <1>3. Cardinality(A) <= Cardinality(B) /\ Cardinality(A) \in Nat /\ Cardinality(B) \in Nat
    BY <1>1, <1>2, FS_Subset, FS_CardinalityType
  <1>4. Majority(Cardinality(K.incoming)) \in Nat
    BY <1>2, FS_CardinalityType, MajorityIsMoreThanHalf
  <1>5. Cardinality(A) >= Majority(Cardinality(K.incoming))
    BY DEF Backed
  <1> HIDE DEF A, B
  <1>6. Cardinality(B) >= Majority(Cardinality(K.incoming))
    BY <1>3, <1>4, <1>5
  <1> QED BY <1>6 DEF Backed, B

\* A step followed by a method that keeps role, term, votes and log.
LEMMA StepsKeeps ==
    ASSUME NEW N, NEW L, NEW s, NEW t, NEW u, IsRaft(s), Steps(N, L, s, t), Keeps(t, u)
    PROVE  Steps(N, L, s, u)
  <1>1. N \cup t.msgs \subseteq N \cup u.msgs
    BY DEF Keeps
  <1>2. FixedConf(t.conf) /\ t.id \in t.conf.progress
    BY DEF Steps, IsRaft
  <1>3. /\ u.id = t.id /\ u.config = t.config /\ u.conf = t.conf /\ u.term = t.term /\ u.vote = t.vote
        /\ u.state = t.state /\ u.votes = t.votes /\ u.persisted = t.persisted /\ u.snap = t.snap
        /\ t.msgs \subseteq u.msgs
    BY DEF Keeps
  <1>4. VotesOK(N, L, t)
    BY DEF Steps
  <1>5. VotesOK(N, L, u)
    BY <1>1, <1>2, <1>3, <1>4, VotedMore, BackedMore DEF VotesOK
  <1>6. ASSUME NEW m \in u.msgs \ s.msgs PROVE NewMsgOK(s, u, m)
    <2>1. CASE m \in t.msgs
      BY <2>1, <1>3, <1>6 DEF Steps, NewMsgOK
    <2>2. CASE m \notin t.msgs
      BY <2>2, <1>2, <1>3 DEF Steps, Keeps, NewMsgOK, Ordinary, Sane, IsGrant
    <2> QED BY <2>1, <2>2
  <1> QED BY <1>3, <1>5, <1>6 DEF Steps, Keeps

\* Ignoring a message is a step.
LEMMA StepsRefl ==
    ASSUME NEW N, NEW L, NEW s, IsRaft(s), VotesOK(N, L, s)
    PROVE  Steps(N, L, s, s)
  BY DEF Steps, IsRaft

\* A method that keeps role, term, votes and log is a step.
LEMMA KeepsSteps ==
    ASSUME NEW N, NEW L, NEW s, NEW t, IsRaft(s), VotesOK(N, L, s), Keeps(s, t)
    PROVE  Steps(N, L, s, t)
  BY StepsRefl, StepsKeeps

\* A step that steps down silently, followed by any step.
LEMMA FollowSteps ==
    ASSUME NEW N, NEW L, NEW s, NEW t, NEW u, IsRaft(s), Steps(N, L, s, t), t.state = "Follower",
           t.msgs = s.msgs, Steps(N, L, t, u)
    PROVE  Steps(N, L, s, u)
  <1>1. s.term \in Nat /\ t.term \in Nat /\ u.term \in Nat
    BY DEF Steps, IsRaft
  <1>2. u.state # "Leader"
    BY DEF Steps
  <1>3. s.term <= t.term /\ t.term <= u.term
    BY DEF Steps
  <1>31. t.conf = s.conf /\ t.id = s.id
    BY DEF Steps
  <1>4. ASSUME NEW m \in u.msgs \ s.msgs PROVE NewMsgOK(s, u, m)
    <2>1. NewMsgOK(t, u, m)
      BY <1>4 DEF Steps
    <2> QED BY <2>1, <1>1, <1>3, <1>31 DEF NewMsgOK
  <1>5. u.term = s.term /\ s.vote # None => u.vote = s.vote
    BY <1>1, <1>3 DEF Steps
  <1> QED BY <1>1, <1>2, <1>3, <1>4, <1>5 DEF Steps

\* A change of log and cursors alone is a step.
LEMMA SameRoleSteps ==
    ASSUME NEW N, NEW L, NEW s, NEW t, IsRaft(s), VotesOK(N, L, s), IsRaft(t),
           t.id = s.id, t.config = s.config, t.conf = s.conf, t.term = s.term, t.vote = s.vote,
           t.state = s.state, t.votes = s.votes, t.msgs = s.msgs,
           s.state = "Leader" => t.persisted = s.persisted /\ t.snap = s.snap /\ t.first = s.first
    PROVE  Steps(N, L, s, t)
  <1>1. VotesOK(N, L, t)
    BY DEF VotesOK
  <1>2. s.term \in Nat /\ s.state \in {"Follower", "PreCandidate", "Candidate", "Leader"}
    BY DEF IsRaft
  <1> QED BY <1>1, <1>2 DEF Steps

\* Raft::append_entry.
LEMMA AppendEntrySteps ==
    ASSUME NEW N, NEW L, NEW s, IsRaft(s), VotesOK(N, L, s), s.state = "Leader",
           NEW e, e.type = "Normal", e.data \in Value \cup {Empty}
    PROVE  Steps(N, L, s, AppendEntry(s, e))
  <1> DEFINE x == [term |-> s.term, type |-> e.type, data |-> e.data]
             t == AppendEntry(s, e)
  <1>1. x \in NEntry
    BY DEF IsRaft, NEntry
  <1> HIDE DEF x
  <1>2. t = [s EXCEPT !.log = Append(s.log, x)]
    BY DEF AppendEntry, x
  <1>3. Append(s.log, x) \in Seq(NEntry) /\ Len(Append(s.log, x)) = Len(s.log) + 1
    BY <1>1 DEF IsRaft
  <1> HIDE DEF t
  <1>4. IsRaft(t)
    BY <1>2, <1>3 DEF IsRaft, RaftFields
  <1>5. /\ t.id = s.id /\ t.config = s.config /\ t.conf = s.conf /\ t.term = s.term /\ t.vote = s.vote
        /\ t.state = s.state /\ t.votes = s.votes /\ t.msgs = s.msgs
        /\ t.persisted = s.persisted /\ t.snap = s.snap /\ t.first = s.first
    BY <1>2 DEF IsRaft, RaftFields
  <1>6. Steps(N, L, s, t)
    BY <1>4, <1>5, SameRoleSteps
  <1> QED BY <1>6 DEF t

\* MsgPropose of a leader.
LEMMA HandleProposeSteps ==
    ASSUME NEW N, NEW L, NEW s, IsRaft(s), VotesOK(N, L, s), s.state = "Leader",
           NEW m, MsgOK(s.conf, m), m.type = "MsgPropose"
    PROVE  Steps(N, L, s, HandlePropose(s, m))
  <1>1. m.entry.type = "Normal" /\ m.entry.data \in Value \cup {Empty}
    BY DEF MsgOK
  <1> DEFINE t == AppendEntry(s, m.entry)
  <1>2. Steps(N, L, s, t) /\ t.state = s.state
    BY <1>1, AppendEntrySteps DEF AppendEntry, IsRaft, RaftFields
  <1> HIDE DEF t
  <1>3. IsRaft(t)
    BY <1>2 DEF Steps
  <1>4. Keeps(t, BcastAppend(t))
    BY <1>2, <1>3, BcastAppendKeeps
  <1>5. Steps(N, L, s, BcastAppend(t))
    BY <1>2, <1>4, StepsKeeps
  <1> QED BY <1>1, <1>5, StepsRefl DEF HandlePropose, t

\* Raft::reset: the vote is forgotten only with the term.
LEMMA ResetFields ==
    ASSUME NEW s, IsRaft(s), NEW t, NEW r, r = Reset(s, t)
    PROVE  /\ DOMAIN r = RaftFields
           /\ r.id = s.id /\ r.config = s.config /\ r.conf = s.conf /\ r.term = t
           /\ r.vote = (IF s.term # t THEN None ELSE s.vote) /\ r.state = s.state /\ r.votes = <<>>
           /\ r.log = s.log /\ r.first = s.first /\ r.snap = s.snap /\ r.committed = s.committed
           /\ r.persisted = s.persisted /\ r.applied = s.applied /\ r.prs = <<>>
           /\ r.pending_request_snapshot = 0 /\ r.msgs = s.msgs /\ r.reads = <<>>
  BY DEF IsRaft, RaftFields, Reset, InvalidIndex

\* Raft::become_follower, field by field.
LEMMA BecomeFollowerFields ==
    ASSUME NEW s, IsRaft(s), NEW t \in Nat, NEW x, NEW r, r = BecomeFollower(s, t, x)
    PROVE  /\ IsRaft(r)
           /\ r.id = s.id /\ r.config = s.config /\ r.conf = s.conf /\ r.term = t
           /\ r.vote = (IF s.term # t THEN None ELSE s.vote) /\ r.state = "Follower"
           /\ r.msgs = s.msgs /\ r.persisted = s.persisted /\ r.snap = s.snap
           /\ r.log = s.log /\ r.committed = s.committed /\ r.applied = s.applied /\ r.first = s.first
           /\ r.pending_request_snapshot = s.pending_request_snapshot /\ r.reads = <<>>
  <1> DEFINE q == Reset(s, t)
  <1>1. /\ DOMAIN q = RaftFields
        /\ q.id = s.id /\ q.config = s.config /\ q.conf = s.conf /\ q.term = t
        /\ q.vote = (IF s.term # t THEN None ELSE s.vote)
        /\ q.log = s.log /\ q.first = s.first /\ q.snap = s.snap /\ q.committed = s.committed
        /\ q.persisted = s.persisted /\ q.applied = s.applied /\ q.msgs = s.msgs /\ q.reads = <<>>
    BY ResetFields
  <1>2. r = [q EXCEPT !.leader_id = x, !.state = "Follower",
                      !.pending_request_snapshot = s.pending_request_snapshot]
    BY DEF BecomeFollower
  <1> HIDE DEF q
  <1>3. /\ DOMAIN r = RaftFields
        /\ r.id = s.id /\ r.config = s.config /\ r.conf = s.conf /\ r.term = t
        /\ r.vote = (IF s.term # t THEN None ELSE s.vote) /\ r.state = "Follower"
        /\ r.log = s.log /\ r.first = s.first /\ r.snap = s.snap /\ r.committed = s.committed
        /\ r.persisted = s.persisted /\ r.applied = s.applied /\ r.msgs = s.msgs
        /\ r.pending_request_snapshot = s.pending_request_snapshot /\ r.reads = <<>>
    BY <1>1, <1>2 DEF RaftFields
  <1>4. IsRaft(r)
    BY <1>3 DEF IsRaft
  <1> QED BY <1>3, <1>4

\* Stepping down, at once or after something else
LEMMA BecomeFollowerSteps ==
    ASSUME NEW N, NEW L, NEW s, IsRaft(s), NEW t \in Nat, t >= s.term, NEW x
    PROVE  /\ Steps(N, L, s, BecomeFollower(s, t, x))
           /\ BecomeFollower(s, t, x).state = "Follower" /\ BecomeFollower(s, t, x).msgs = s.msgs
           /\ BecomeFollower(s, t, x).term = t /\ BecomeFollower(s, t, x).conf = s.conf
           /\ BecomeFollower(s, t, x).id = s.id
  <1> DEFINE r == BecomeFollower(s, t, x)
  <1>1. /\ IsRaft(r)
        /\ r.id = s.id /\ r.config = s.config /\ r.conf = s.conf /\ r.term = t
        /\ r.vote = (IF s.term # t THEN None ELSE s.vote) /\ r.state = "Follower" /\ r.msgs = s.msgs
    BY BecomeFollowerFields
  <1> HIDE DEF r
  <1>2. VotesOK(N, L, r)
    BY <1>1 DEF VotesOK
  <1>3. Steps(N, L, s, r)
    BY <1>1, <1>2, LogTypes DEF Steps
  <1> QED BY <1>1, <1>3 DEF r

\* A step followed by become_follower in the same term.
LEMMA RetireSteps ==
    ASSUME NEW N, NEW L, NEW s, NEW t, IsRaft(s), Steps(N, L, s, t), t.state # "Leader", NEW x
    PROVE  Steps(N, L, s, BecomeFollower(t, t.term, x))
  <1> DEFINE r == BecomeFollower(t, t.term, x)
  <1>0. IsRaft(t) /\ t.term \in Nat
    BY DEF Steps, IsRaft
  <1>1. /\ IsRaft(r)
        /\ r.id = t.id /\ r.config = t.config /\ r.conf = t.conf /\ r.term = t.term
        /\ r.vote = t.vote /\ r.state = "Follower" /\ r.msgs = t.msgs
    BY <1>0, BecomeFollowerFields
  <1> HIDE DEF r
  <1>2. VotesOK(N, L, r)
    BY <1>1 DEF VotesOK
  <1>3. \A m \in r.msgs \ s.msgs : NewMsgOK(s, r, m)
    BY <1>1 DEF Steps, NewMsgOK
  <1>4. Steps(N, L, s, r)
    BY <1>1, <1>2, <1>3 DEF Steps
  <1> QED BY <1>4 DEF r

\* Raft::become_leader of a candidate that a majority has voted for.
LEMMA BecomeLeaderSteps ==
    ASSUME NEW N, NEW L, NEW s, IsRaft(s), s.state = "Candidate",
           Backed(N \cup s.msgs, L, s.conf, s.id, s.term)
    PROVE  Steps(N, L, s, BecomeLeader(s)) /\ BecomeLeader(s).state = "Leader"
  <1> DEFINE q == Reset(s, s.term)
             prs == LeaderProgress(s)
             r == [q EXCEPT !.leader_id = s.id, !.state = "Leader", !.prs = prs, !.pending_conf_index = LastIndex(s)]
  <1>1. /\ DOMAIN q = RaftFields
        /\ q.id = s.id /\ q.config = s.config /\ q.conf = s.conf /\ q.term = s.term
        /\ q.vote = s.vote /\ q.pending_request_snapshot = 0
        /\ q.log = s.log /\ q.first = s.first /\ q.snap = s.snap /\ q.committed = s.committed
        /\ q.persisted = s.persisted /\ q.applied = s.applied /\ q.msgs = s.msgs
    BY ResetFields
  <1> HIDE DEF q
  <1>2. DOMAIN prs = s.conf.progress /\ \A j \in s.conf.progress : IsProgress(prs[j])
    <2>1. LastIndex(s) + 1 \in Nat \ {0} /\ s.persisted \in Nat
      BY LogTypes DEF LastIndex
    <2>2. ASSUME NEW i \in Nat \ {0}, NEW p \in Nat
          PROVE  IsProgress(ResetProgress(i)) /\ IsProgress(BecomeReplicate([ResetProgress(i) EXCEPT !.matched = p]))
      BY DEF IsProgress, ResetProgress, NewProgress, InvalidIndex, BecomeReplicate, ResetState
    <2> QED BY <2>1, <2>2 DEF LeaderProgress
  <1> HIDE DEF prs
  <1>3. /\ DOMAIN r = RaftFields
        /\ r.id = s.id /\ r.config = s.config /\ r.conf = s.conf /\ r.term = s.term
        /\ r.vote = s.vote /\ r.state = "Leader" /\ r.prs = prs
        /\ r.log = s.log /\ r.first = s.first /\ r.snap = s.snap /\ r.committed = s.committed
        /\ r.persisted = s.persisted /\ r.applied = s.applied /\ r.msgs = s.msgs
        /\ r.pending_request_snapshot = 0
    BY <1>1 DEF RaftFields
  <1>4. AppendEntry(r, NormalEntry(Empty)) = BecomeLeader(s)
    BY DEF BecomeLeader, r, q, prs
  <1> HIDE DEF r
  <1>5. IsRaft(r)
    BY <1>2, <1>3 DEF IsRaft
  <1>6. VotesOK(N, L, r)
    BY <1>3 DEF VotesOK
  <1>7. NormalEntry(Empty).type = "Normal" /\ NormalEntry(Empty).data \in Value \cup {Empty}
    BY DEF NormalEntry
  <1>8. Steps(N, L, r, BecomeLeader(s))
    BY <1>3, <1>4, <1>5, <1>6, <1>7, AppendEntrySteps
  <1>9. BecomeLeader(s).state = "Leader"
    BY <1>3, <1>4 DEF AppendEntry, RaftFields
  <1>10. Steps(N, L, s, BecomeLeader(s))
    BY <1>3, <1>8 DEF Steps, NewMsgOK
  <1> QED BY <1>9, <1>10

\* become_leader and the broadcast after a won poll.
LEMMA WinElectionSteps ==
    ASSUME NEW N, NEW L, NEW s, IsRaft(s), s.state = "Candidate",
           Backed(N \cup s.msgs, L, s.conf, s.id, s.term)
    PROVE  Steps(N, L, s, WinElection(s))
  <1> DEFINE t == BecomeLeader(s)
  <1>1. Steps(N, L, s, t) /\ t.state = "Leader"
    BY BecomeLeaderSteps
  <1> HIDE DEF t
  <1>2. IsRaft(t)
    BY <1>1 DEF Steps
  <1>3. Keeps(t, BcastAppend(t))
    BY <1>1, <1>2, BcastAppendKeeps
  <1> QED BY <1>1, <1>3, StepsKeeps DEF WinElection, t

\* A node's own vote is no majority of two or more voters.
LEMMA OwnVoteNeverWins ==
    ASSUME NEW K, FixedConf(K), NEW i
    PROVE  VoteResult(K, RecordVote(<<>>, i, TRUE)) # "Won"
  <1> DEFINE votes == RecordVote(<<>>, i, TRUE)
             A == Answered(K.incoming, votes, TRUE)
             n == Cardinality(K.incoming)
  <1>1. A \subseteq {i}
    BY DEF Answered, RecordVote
  <1>2. IsFiniteSet({i}) /\ Cardinality({i}) = 1
    BY FS_Singleton
  <1>3. Cardinality(A) <= 1 /\ Cardinality(A) \in Nat
    BY <1>1, <1>2, FS_Subset, FS_CardinalityType
  <1>4. IsFiniteSet(K.incoming) /\ n \in Nat /\ n >= 2
    <2>1. K.incoming \subseteq Server /\ Cardinality(K.incoming) >= 2
      BY DEF FixedConf
    <2> QED BY <2>1, RaftAssumption, FS_Subset, FS_CardinalityType
  <1>5. K.incoming # {}
    BY <1>4, FS_EmptySet
  <1>6. Majority(n) >= 2 /\ Majority(n) \in Nat
    BY <1>4 DEF Majority
  <1> HIDE DEF A, n
  <1>7. ~(Cardinality(A) >= Majority(n))
    BY <1>3, <1>6
  <1>8. MajorityVote(K.incoming, votes) # "Won"
    BY <1>5, <1>7 DEF MajorityVote, A, n
  <1> QED BY <1>8 DEF VoteResult

\* There is another voter to ask.
LEMMA OtherVoter ==
    ASSUME NEW K, FixedConf(K), NEW i
    PROVE  VotersOf(K) \ {i} # {}
  <1>1. SUFFICES ASSUME K.incoming \subseteq {i} PROVE FALSE
    BY DEF VotersOf
  <1>2. IsFiniteSet({i}) /\ Cardinality({i}) = 1
    BY FS_Singleton
  <1>3. Cardinality(K.incoming) <= 1
    BY <1>1, <1>2, FS_Subset
  <1> QED BY <1>3, <1>2, <1>1, FS_Subset, FS_CardinalityType DEF FixedConf

\* Asking for votes, of either kind
LEMMA RequestVotesFields ==
    ASSUME NEW s, DOMAIN s = RaftFields, NEW type, NEW term, NEW transfer, NEW r,
           r = RequestVotes(s, type, term, transfer)
    PROVE  /\ DOMAIN r = RaftFields
           /\ \A f \in RaftFields \ {"msgs"} : r[f] = s[f]
           /\ r.msgs = s.msgs \cup {VoteRequest(s, type, j, term, transfer) : j \in VotersOf(s.conf) \ {s.id}}
  BY DEF RequestVotes, RaftFields

\* Raft::campaign for CAMPAIGN_ELECTION and CAMPAIGN_TRANSFER.
LEMMA CampaignElectionSteps ==
    ASSUME NEW N, NEW L, NEW s, IsRaft(s), s.state # "Leader", NEW transfer
    PROVE  Steps(N, L, s, CampaignElection(s, transfer))
  <1> DEFINE q == Reset(s, s.term + 1)
             b == BecomeCandidate(s)
             c == RecordOwn(b, s.id, TRUE)
             r == RequestVotes(c, "MsgRequestVote", c.term, transfer)
             new == {VoteRequest(c, "MsgRequestVote", j, c.term, transfer) : j \in VotersOf(c.conf) \ {c.id}}
  <1>0. s.term \in Nat /\ s.term + 1 \in Nat /\ s.term + 1 > s.term /\ s.term + 1 # s.term /\ s.term <= s.term + 1
    BY LogTypes
  <1>1. /\ DOMAIN q = RaftFields
        /\ q.id = s.id /\ q.config = s.config /\ q.conf = s.conf /\ q.term = s.term + 1
        /\ q.pending_request_snapshot = 0 /\ q.votes = <<>>
        /\ q.log = s.log /\ q.first = s.first /\ q.snap = s.snap /\ q.committed = s.committed
        /\ q.persisted = s.persisted /\ q.applied = s.applied /\ q.msgs = s.msgs
    BY ResetFields
  <1>2. b = [q EXCEPT !.vote = s.id, !.state = "Candidate"]
    BY DEF BecomeCandidate
  <1> HIDE DEF q, b
  <1>3. /\ DOMAIN b = RaftFields
        /\ b.id = s.id /\ b.config = s.config /\ b.conf = s.conf /\ b.term = s.term + 1
        /\ b.vote = s.id /\ b.state = "Candidate" /\ b.votes = <<>>
        /\ b.pending_request_snapshot = 0
        /\ b.log = s.log /\ b.first = s.first /\ b.snap = s.snap /\ b.committed = s.committed
        /\ b.persisted = s.persisted /\ b.applied = s.applied /\ b.msgs = s.msgs
    BY <1>1, <1>2 DEF RaftFields
  <1>4. c = [b EXCEPT !.votes = RecordVote(<<>>, s.id, TRUE)]
    BY <1>3 DEF RecordOwn
  <1> HIDE DEF c
  <1>5. /\ DOMAIN c = RaftFields
        /\ c.id = s.id /\ c.config = s.config /\ c.conf = s.conf /\ c.term = s.term + 1
        /\ c.vote = s.id /\ c.state = "Candidate" /\ c.votes = RecordVote(<<>>, s.id, TRUE)
        /\ c.pending_request_snapshot = 0
        /\ c.log = s.log /\ c.first = s.first /\ c.snap = s.snap /\ c.committed = s.committed
        /\ c.persisted = s.persisted /\ c.applied = s.applied /\ c.msgs = s.msgs
    BY <1>3, <1>4 DEF RaftFields
  <1>6. VoteResult(c.conf, c.votes) # "Won"
    <2>1. FixedConf(s.conf)
      BY DEF IsRaft
    <2> QED BY <2>1, <1>5, OwnVoteNeverWins
  <1>7. CampaignElection(s, transfer) = r
    BY <1>6 DEF CampaignElection, c, b
  <1>8. DOMAIN r = RaftFields /\ (\A f \in RaftFields \ {"msgs"} : r[f] = c[f]) /\ r.msgs = c.msgs \cup new
    <2>1. DOMAIN c = RaftFields
      BY <1>5
    <2> QED BY <2>1, RequestVotesFields
  <1>9. ASSUME NEW m \in new
        PROVE  /\ MsgOK(s.conf, m) /\ Sane(s.conf, m)
               /\ m.type = "MsgRequestVote" /\ m.from = s.id /\ m.term = s.term + 1
    <2>1. PICK j : m = VoteRequest(c, "MsgRequestVote", j, c.term, transfer)
      OBVIOUS
    <2>2. m.type = "MsgRequestVote" /\ m.from = s.id /\ m.term = s.term + 1
          /\ {"type", "from", "to", "term"} \subseteq DOMAIN m
      BY <2>1, <1>5 DEF VoteRequest
    <2>3. s.id \in s.conf.progress
      BY DEF IsRaft
    <2> QED BY <2>2, <2>3, <1>0 DEF MsgOK, Sane, FromLeader
  <1>10. \E m \in new : TRUE
    <2>1. FixedConf(s.conf)
      BY DEF IsRaft
    <2>2. PICK j : j \in VotersOf(c.conf) \ {c.id}
      BY <2>1, <1>5, OtherVoter
    <2> QED BY <2>2
  <1> HIDE DEF new, r
  <1>11. /\ r.id = s.id /\ r.config = s.config /\ r.conf = s.conf /\ r.term = s.term + 1
         /\ r.vote = s.id /\ r.state = "Candidate" /\ r.votes = RecordVote(<<>>, s.id, TRUE)
         /\ r.pending_request_snapshot = 0
         /\ r.log = s.log /\ r.first = s.first /\ r.snap = s.snap /\ r.committed = s.committed
         /\ r.persisted = s.persisted /\ r.applied = s.applied /\ r.msgs = s.msgs \cup new
    BY <1>5, <1>8 DEF RaftFields
  <1>12. IsRaft(r)
    BY <1>0, <1>8, <1>11 DEF IsRaft
  <1>13. VotesOK(N, L, r)
    <2>1. DOMAIN r.votes = {s.id} /\ s.id \in s.conf.progress
      BY <1>11 DEF RecordVote, IsRaft
    <2>2. \E m \in N \cup r.msgs : m.type = "MsgRequestVote" /\ m.from = s.id /\ m.term = r.term
      BY <1>9, <1>10, <1>11
    <2>3. Voted(N \cup r.msgs, L, s.id, s.id, r.term)
      BY <2>2 DEF Voted
    <2> QED BY <2>1, <2>3, <1>11 DEF VotesOK
  <1>14. \A m \in r.msgs \ s.msgs : NewMsgOK(s, r, m)
    BY <1>0, <1>9, <1>11 DEF NewMsgOK, IsGrant, FromLeader
  <1> QED BY <1>0, <1>7, <1>11, <1>12, <1>13, <1>14 DEF Steps

\* Raft::campaign for CAMPAIGN_PRE_ELECTION: the term stays.
LEMMA CampaignPreElectionSteps ==
    ASSUME NEW N, NEW L, NEW s, IsRaft(s), s.state # "Leader"
    PROVE  Steps(N, L, s, CampaignPreElection(s))
  <1> DEFINE b == BecomePreCandidate(s)
             c == RecordOwn(b, s.id, TRUE)
             r == RequestVotes(c, "MsgRequestPreVote", c.term + 1, FALSE)
             new == {VoteRequest(c, "MsgRequestPreVote", j, c.term + 1, FALSE) : j \in VotersOf(c.conf) \ {c.id}}
  <1>0. s.term \in Nat /\ s.term + 1 \in Nat
    BY LogTypes
  <1>3. /\ DOMAIN b = RaftFields
        /\ b.id = s.id /\ b.config = s.config /\ b.conf = s.conf /\ b.term = s.term
        /\ b.vote = s.vote /\ b.state = "PreCandidate" /\ b.votes = <<>>
        /\ b.pending_request_snapshot = s.pending_request_snapshot
        /\ b.log = s.log /\ b.first = s.first /\ b.snap = s.snap /\ b.committed = s.committed
        /\ b.persisted = s.persisted /\ b.applied = s.applied /\ b.msgs = s.msgs
    BY DEF BecomePreCandidate, RaftFields, IsRaft
  <1> HIDE DEF b
  <1>4. c = [b EXCEPT !.votes = RecordVote(<<>>, s.id, TRUE)]
    BY <1>3 DEF RecordOwn
  <1> HIDE DEF c
  <1>5. /\ DOMAIN c = RaftFields
        /\ c.id = s.id /\ c.config = s.config /\ c.conf = s.conf /\ c.term = s.term
        /\ c.vote = s.vote /\ c.state = "PreCandidate" /\ c.votes = RecordVote(<<>>, s.id, TRUE)
        /\ c.pending_request_snapshot = s.pending_request_snapshot
        /\ c.log = s.log /\ c.first = s.first /\ c.snap = s.snap /\ c.committed = s.committed
        /\ c.persisted = s.persisted /\ c.applied = s.applied /\ c.msgs = s.msgs
    BY <1>3, <1>4 DEF RaftFields
  <1>6. VoteResult(c.conf, c.votes) # "Won"
    <2>1. FixedConf(s.conf)
      BY DEF IsRaft
    <2> QED BY <2>1, <1>5, OwnVoteNeverWins
  <1>7. CampaignPreElection(s) = r
    BY <1>6 DEF CampaignPreElection, c, b
  <1>8. DOMAIN r = RaftFields /\ (\A f \in RaftFields \ {"msgs"} : r[f] = c[f]) /\ r.msgs = c.msgs \cup new
    <2>1. DOMAIN c = RaftFields
      BY <1>5
    <2> DEFINE x == c.term + 1
           no == FALSE
    <2> HIDE DEF x, no
    <2>2. \A q : q = RequestVotes(c, "MsgRequestPreVote", x, no) =>
             /\ DOMAIN q = RaftFields /\ \A f \in RaftFields \ {"msgs"} : q[f] = c[f]
             /\ q.msgs = c.msgs \cup {VoteRequest(c, "MsgRequestPreVote", j, x, no) : j \in VotersOf(c.conf) \ {c.id}}
      BY <2>1, RequestVotesFields
    <2> QED BY <2>2 DEF x, no
  <1>9. ASSUME NEW m \in new
        PROVE  MsgOK(s.conf, m) /\ m.type = "MsgRequestPreVote"
    <2>1. PICK j : m = VoteRequest(c, "MsgRequestPreVote", j, c.term + 1, FALSE)
      OBVIOUS
    <2>2. m.type = "MsgRequestPreVote" /\ m.term = s.term + 1
          /\ {"type", "from", "to", "term"} \subseteq DOMAIN m
      BY <2>1, <1>5 DEF VoteRequest
    <2> QED BY <2>2, <1>0 DEF MsgOK, FromLeader
  <1> HIDE DEF new, r
  <1>11. /\ r.id = s.id /\ r.config = s.config /\ r.conf = s.conf /\ r.term = s.term
         /\ r.vote = s.vote /\ r.state = "PreCandidate"
         /\ r.pending_request_snapshot = s.pending_request_snapshot
         /\ r.log = s.log /\ r.first = s.first /\ r.snap = s.snap /\ r.committed = s.committed
         /\ r.persisted = s.persisted /\ r.applied = s.applied /\ r.msgs = s.msgs \cup new
    BY <1>5, <1>8 DEF RaftFields
  <1>12. IsRaft(r)
    BY <1>8, <1>11 DEF IsRaft
  <1>13. VotesOK(N, L, r)
    BY <1>11 DEF VotesOK
  <1>14. \A m \in r.msgs \ s.msgs : NewMsgOK(s, r, m)
    BY <1>9, <1>11 DEF NewMsgOK, IsGrant, FromLeader, Sane
  <1> QED BY <1>0, <1>7, <1>11, <1>12, <1>13, <1>14 DEF Steps

\* Raft::hup.
LEMMA HupSteps ==
    ASSUME NEW N, NEW L, NEW s, IsRaft(s), VotesOK(N, L, s), NEW transfer
    PROVE  Steps(N, L, s, Hup(s, transfer))
  BY StepsRefl, CampaignElectionSteps, CampaignPreElectionSteps DEF Hup

\* Whoever is told that it has won has been voted for by a majority.
LEMMA WonIsBacked ==
    ASSUME NEW N, NEW L, NEW s, IsRaft(s), VotesOK(N, L, s), s.state = "Candidate",
           VoteResult(s.conf, s.votes) = "Won"
    PROVE  Backed(N \cup s.msgs, L, s.conf, s.id, s.term)
  <1> DEFINE V == s.conf.incoming
             A == Answered(V, s.votes, TRUE)
             B == {v \in V : Voted(N \cup s.msgs, L, v, s.id, s.term)}
  <1>1. IsFiniteSet(V) /\ V # {}
    <2>1. V \subseteq Server /\ Cardinality(V) >= 2
      BY DEF IsRaft, FixedConf
    <2> QED BY <2>1, RaftAssumption, FS_Subset, FS_EmptySet
  <1>2. Cardinality(A) >= Majority(Cardinality(V))
    BY <1>1 DEF VoteResult, MajorityVote
  <1>3. A \subseteq B
    BY DEF Answered, VotesOK
  <1>4. IsFiniteSet(B)
    BY <1>1, FS_Subset
  <1>5. Cardinality(A) <= Cardinality(B) /\ Cardinality(A) \in Nat /\ Cardinality(B) \in Nat
    BY <1>3, <1>4, FS_Subset, FS_CardinalityType
  <1>6. Majority(Cardinality(V)) \in Nat
    BY <1>1, FS_CardinalityType, MajorityIsMoreThanHalf
  <1> HIDE DEF A, B
  <1>7. Cardinality(B) >= Majority(Cardinality(V))
    BY <1>2, <1>5, <1>6
  <1> QED BY <1>7 DEF Backed, B

\* Raft::poll of a vote that was given.
LEMMA PollSteps ==
    ASSUME NEW N, NEW L, NEW s, IsRaft(s), VotesOK(N, L, s), s.state \in {"Candidate", "PreCandidate"},
           NEW from, NEW granted,
           s.state = "Candidate" /\ granted => from \in s.conf.progress /\ Voted(N \cup s.msgs, L, from, s.id, s.term)
    PROVE  Steps(N, L, s, Poll(s, from, granted))
  <1> DEFINE votes == RecordVote(s.votes, from, granted)
             p == RecordOwn(s, from, granted)
             result == VoteResult(s.conf, p.votes)
  <1>1. p = [s EXCEPT !.votes = votes]
    BY DEF RecordOwn
  <1>2. IsRaft(p)
    <2> HIDE DEF votes, p
    <2> QED BY <1>1 DEF IsRaft, RaftFields
  <1>3. /\ p.id = s.id /\ p.config = s.config /\ p.conf = s.conf /\ p.term = s.term /\ p.vote = s.vote
        /\ p.state = s.state /\ p.votes = votes /\ p.msgs = s.msgs /\ p.persisted = s.persisted /\ p.snap = s.snap /\ p.first = s.first
    <2> HIDE DEF votes, p
    <2> QED BY <1>1 DEF IsRaft, RaftFields
  <1> HIDE DEF p
  <1>4. VotesOK(N, L, p)
    BY <1>3 DEF VotesOK, RecordVote
  <1>5. \A u : Steps(N, L, p, u) => Steps(N, L, s, u)
    BY <1>3 DEF Steps, NewMsgOK
  <1>6. result \in {"Won", "Lost", "Pending"}
    BY DEF VoteResult
  <1> HIDE DEF result
  <1>7. p.term \in Nat /\ p.term >= p.term
    BY <1>2, LogTypes
  <1>8. Steps(N, L, p, p) /\ Steps(N, L, p, BecomeFollower(p, p.term, None)) /\ Steps(N, L, p, CampaignElection(p, FALSE))
    BY <1>2, <1>3, <1>4, <1>7, StepsRefl, BecomeFollowerSteps, CampaignElectionSteps
  <1>9. ASSUME s.state = "Candidate", result = "Won" PROVE Steps(N, L, p, WinElection(p))
    BY <1>2, <1>3, <1>4, <1>9, WonIsBacked, WinElectionSteps DEF result
  <1> QED BY <1>5, <1>6, <1>8, <1>9 DEF Poll, result, p

\* Raft::maybe_commit_by_vote.
LEMMA MaybeCommitByVoteSteps ==
    ASSUME NEW N, NEW L, NEW s, NEW t, IsRaft(s), Steps(N, L, s, t), NEW m
    PROVE  Steps(N, L, s, MaybeCommitByVote(t, m))
  <1> DEFINE c == LogMaybeCommit(t, m.commit, m.commit_term)
  <1>1. IsRaft(t)
    BY DEF Steps
  <1>2. SUFFICES ASSUME m.commit_term # 0, t.state # "Leader"
                 PROVE  Steps(N, L, s, c) /\ Steps(N, L, s, BecomeFollower(c, c.term, None))
    BY DEF MaybeCommitByVote
  <1>3. Keeps(t, c)
    BY <1>1, <1>2, LogMaybeCommitKeeps
  <1> HIDE DEF c
  <1>4. Steps(N, L, s, c) /\ c.state # "Leader"
    BY <1>2, <1>3, StepsKeeps DEF Keeps
  <1> QED BY <1>4, RetireSteps

\* The refusal of a vote.
LEMMA VoteRejectOK ==
    ASSUME NEW s, IsRaft(s), NEW m, m.type \in VoteRequests
    PROVE  Keeps(s, Send(s, VoteReject(s, m)))
  <1> DEFINE r == VoteReject(s, m)
  <1>1. r.type \in VoteResponses /\ r.term = s.term /\ r.reject = TRUE /\ {"type", "from", "to", "term"} \subseteq DOMAIN r
    BY DEF VoteReject, VoteResponseType, VoteResponses
  <1> HIDE DEF r
  <1>2. MsgOK(s.conf, r) /\ Ordinary(s, r)
    BY <1>1, LogTypes DEF MsgOK, Ordinary, IsGrant, FromLeader, VoteResponses
  <1>3. Keeps(s, Send(s, r))
    BY <1>2, SendKeeps
  <1> QED BY <1>3 DEF r

\* The vote requests of Raft::step: a vote is given to the candidate the node has
\* voted for, or to any if it has voted for none in the term.
LEMMA HandleVoteRequestSteps ==
    ASSUME NEW N, NEW L, NEW s, IsRaft(s), VotesOK(N, L, s), NEW m, m.type \in VoteRequests,
           MsgOK(s.conf, m), Sane(s.conf, m), m.type = "MsgRequestVote" => m.term = s.term
    PROVE  Steps(N, L, s, HandleVoteRequest(s, m))
  <1> DEFINE g == VoteGrant(s, m)
             t == [Send(s, g) EXCEPT !.vote = m.from, !.expired = FALSE]
  <1>1. CASE ~Grants(s, m)
    <2>1. Steps(N, L, s, Send(s, VoteReject(s, m)))
      BY VoteRejectOK, KeepsSteps
    <2> QED BY <1>1, <2>1, MaybeCommitByVoteSteps DEF HandleVoteRequest
  <1>2. CASE Grants(s, m) /\ m.type = "MsgRequestPreVote"
    <2>1. g.type = "MsgRequestPreVoteResponse" /\ g.term = m.term /\ {"type", "from", "to", "term"} \subseteq DOMAIN g
      BY <1>2 DEF VoteGrant, VoteResponseType
    <2> HIDE DEF g
    <2>2. MsgOK(s.conf, g) /\ Ordinary(s, g)
      BY <2>1 DEF MsgOK, Ordinary, IsGrant, FromLeader
    <2>3. Keeps(s, Send(s, g))
      BY <2>2, SendKeeps
    <2> QED BY <1>2, <2>3, KeepsSteps DEF HandleVoteRequest, g
  <1>3. CASE Grants(s, m) /\ m.type = "MsgRequestVote"
    <2>1. /\ g.type = "MsgRequestVoteResponse" /\ g.term = m.term /\ g.from = s.id /\ g.to = m.from /\ g.reject = FALSE
          /\ {"type", "from", "to", "term"} \subseteq DOMAIN g
      BY <1>3 DEF VoteGrant, VoteResponseType
    <2>2. s.vote = m.from \/ s.vote = None
      BY <1>3 DEF Grants, CanVote
    <2>3. s.state \in {"Candidate", "Leader"} => s.vote = m.from
      <3>1. s.id # None
        BY RaftAssumption DEF IsRaft, FixedConf
      <3> QED BY <2>2, <3>1 DEF IsRaft
    <2> HIDE DEF g
    <2>4. t = [s EXCEPT !.msgs = s.msgs \cup {g}, !.vote = m.from, !.expired = FALSE]
      BY DEF Send, IsRaft, RaftFields
    <2> HIDE DEF t
    <2>5. IsRaft(t)
      BY <2>3, <2>4 DEF IsRaft, RaftFields
    <2>6. /\ t.id = s.id /\ t.config = s.config /\ t.conf = s.conf /\ t.term = s.term /\ t.vote = m.from
          /\ t.state = s.state /\ t.votes = s.votes /\ t.persisted = s.persisted /\ t.snap = s.snap /\ t.first = s.first
          /\ t.msgs = s.msgs \cup {g}
      BY <2>4 DEF IsRaft, RaftFields
    <2>7. VotesOK(N, L, t)
      <3>1. N \cup s.msgs \subseteq N \cup t.msgs /\ FixedConf(s.conf)
        BY <2>6 DEF IsRaft
      <3> QED BY <3>1, <2>6, VotedMore, BackedMore DEF VotesOK
    <2>8. m.term \in Nat /\ m.term > 0 /\ m.from \in s.conf.progress /\ m.term = s.term
      BY <1>3 DEF MsgOK, Sane
    <2>9. NewMsgOK(s, t, g)
      BY <2>1, <2>6, <2>8 DEF NewMsgOK, MsgOK, Sane, IsGrant, FromLeader
    <2>10. s.state \in {"Follower", "PreCandidate", "Candidate", "Leader"} /\ s.term \in Nat
      BY DEF IsRaft
    <2>11. Steps(N, L, s, t)
      BY <2>2, <2>3, <2>5, <2>6, <2>7, <2>9, <2>10 DEF Steps
    <2> QED BY <1>3, <2>11 DEF HandleVoteRequest, t, g
  <1> QED BY <1>1, <1>2, <1>3 DEF VoteRequests

\* The vote responses of Raft::step_candidate.
LEMMA HandleVoteResponseSteps ==
    ASSUME NEW N, NEW L, NEW s, IsRaft(s), VotesOK(N, L, s), s.state \in {"Candidate", "PreCandidate"},
           NEW m, MsgOK(s.conf, m), m.from \in s.conf.progress, m.to = s.id,
           m.type = "MsgRequestVoteResponse" => m \in N /\ m.term \in {0, s.term}
    PROVE  Steps(N, L, s, HandleVoteResponse(s, m))
  <1> DEFINE expected == IF s.state = "PreCandidate" THEN "MsgRequestPreVoteResponse"
                                                     ELSE "MsgRequestVoteResponse"
  <1>1. SUFFICES ASSUME m.type = expected PROVE Steps(N, L, s, Poll(s, m.from, ~m.reject))
    BY StepsRefl, MaybeCommitByVoteSteps DEF HandleVoteResponse
  <1>2. ASSUME s.state = "Candidate", ~m.reject PROVE Voted(N \cup s.msgs, L, m.from, s.id, s.term)
    <2>1. m.type = "MsgRequestVoteResponse" /\ m \in N
      BY <1>1, <1>2
    <2>2. m.term = s.term
      BY <1>2, <2>1 DEF MsgOK
    <2> QED BY <1>2, <2>1, <2>2 DEF Voted, IsGrant
  <1> DEFINE granted == ~m.reject
  <1>3. s.state = "Candidate" /\ granted => m.from \in s.conf.progress /\ Voted(N \cup s.msgs, L, m.from, s.id, s.term)
    BY <1>2
  <1> HIDE DEF granted
  <1>4. Steps(N, L, s, Poll(s, m.from, granted))
    BY <1>3, PollSteps
  <1> QED BY <1>4 DEF granted

\* The answers to a MsgAppend are ordinary.
LEMMA AppendResponseOK ==
    ASSUME NEW s, IsRaft(s), NEW to, NEW i \in Nat, NEW h \in Nat, NEW x \in Nat
    PROVE  /\ MsgOK(s.conf, AppendResponse(s, to, i)) /\ Ordinary(s, AppendResponse(s, to, i))
           /\ MsgOK(s.conf, AppendReject(s, to, i, h)) /\ Ordinary(s, AppendReject(s, to, i, h))
           /\ MsgOK(s.conf, [AppendReject(s, to, i, h) EXCEPT !.request_snapshot = x])
           /\ Ordinary(s, [AppendReject(s, to, i, h) EXCEPT !.request_snapshot = x])
  <1> DEFINE F == {"type", "from", "to", "term", "index", "reject", "reject_hint", "log_term", "request_snapshot"}
             Good(r) == /\ DOMAIN r = F /\ r.type = "MsgAppendResponse" /\ r.term = s.term
                        /\ r.index = i /\ r.reject_hint \in Nat /\ r.log_term \in Int /\ r.request_snapshot \in Nat
  <1>1. s.term \in Nat /\ TermAt(s, h) \in Int
    BY LogTypes, TermAtType
  <1>2. ASSUME NEW r, Good(r) PROVE MsgOK(s.conf, r) /\ Ordinary(s, r)
    BY <1>1, <1>2 DEF MsgOK, Ordinary, IsGrant, FromLeader
  <1> DEFINE a == AppendResponse(s, to, i)
             z == TermAt(s, h)
             b == AppendReject(s, to, i, h)
  <1>3. Good(a)
    BY DEF AppendResponse, InvalidIndex
  <1>4. b = [a EXCEPT !.reject = TRUE, !.reject_hint = h, !.log_term = z]
    BY DEF AppendReject
  <1> HIDE DEF a, z, b
  <1>5. Good(b)
    BY <1>1, <1>3, <1>4 DEF z
  <1>6. Good([b EXCEPT !.request_snapshot = x])
    BY <1>5
  <1> HIDE DEF Good
  <1> QED BY <1>2, <1>3, <1>5, <1>6 DEF a, b

\* Raft::send_request_snapshot.
LEMMA SendRequestSnapshotKeeps ==
    ASSUME NEW s, IsRaft(s)
    PROVE  Keeps(s, SendRequestSnapshot(s))
  <1>1. LastIndex(s) \in Nat /\ s.committed \in Nat /\ s.pending_request_snapshot \in Nat
    BY DEF IsRaft, LastIndex
  <1> QED BY <1>1, AppendResponseOK, SendKeeps DEF SendRequestSnapshot

\* Raft::handle_heartbeat.
LEMMA HandleHeartbeatKeeps ==
    ASSUME NEW s, IsRaft(s), NEW m, MsgOK(s.conf, m), m.type = "MsgHeartbeat"
    PROVE  Keeps(s, HandleHeartbeat(s, m))
  <1> DEFINE c == CommitTo(s, m.commit)
             r == [type |-> "MsgHeartbeatResponse", from |-> s.id, to |-> m.from, term |-> s.term, ctx |-> m.ctx]
  <1>1. Keeps(s, c)
    BY CommitToKeeps DEF MsgOK
  <1> HIDE DEF c
  <1>2. IsRaft(c) /\ c.conf = s.conf
    BY <1>1 DEF Keeps
  <1>3. MsgOK(c.conf, r) /\ Ordinary(c, r)
    BY <1>2, LogTypes DEF MsgOK, Ordinary, IsGrant, FromLeader
  <1> HIDE DEF r
  <1>4. Keeps(c, Send(c, r)) /\ Keeps(c, SendRequestSnapshot(c))
    BY <1>2, <1>3, SendKeeps, SendRequestSnapshotKeeps
  <1>5. Keeps(s, Send(c, r)) /\ Keeps(s, SendRequestSnapshot(c))
    BY <1>1, <1>4, KeepsTrans
  <1> QED BY <1>5 DEF HandleHeartbeat, c, r

\* MsgReadIndexResp of a follower.
LEMMA HandleReadIndexRespKeeps ==
    ASSUME NEW s, IsRaft(s), NEW m, MsgOK(s.conf, m), m.type = "MsgReadIndexResp"
    PROVE  Keeps(s, HandleReadIndexResp(s, m))
  <1> DEFINE x == s.read_states \cup {[ctx |-> m.ctx, index |-> m.index]}
             t == [s EXCEPT !.read_states = x]
  <1> HIDE DEF x
  <1>1. DOMAIN t = DOMAIN s
        /\ \A f \in RaftFields \ {"leader_id", "lead_transferee", "pending_conf_index", "reads",
                                  "read_states", "expired"} : t[f] = s[f]
    BY DEF IsRaft, RaftFields
  <1> HIDE DEF t
  <1>2. Keeps(s, t)
    BY <1>1, TouchKeeps
  <1>3. IsRaft(t) /\ m.term # 0
    BY <1>2 DEF Keeps, MsgOK
  <1>4. Keeps(t, LogMaybeCommit(t, m.index, m.term))
    BY <1>3, LogMaybeCommitKeeps
  <1>5. Keeps(s, LogMaybeCommit(t, m.index, m.term))
    BY <1>2, <1>4, KeepsTrans
  <1> QED BY <1>5 DEF HandleReadIndexResp, t, x

\* Proposals, transfers and reads that a follower forwards to the leader.
LEMMA ForwardKeeps ==
    ASSUME NEW s, IsRaft(s), NEW m, MsgOK(s.conf, m), m.type \in {"MsgTransferLeader", "MsgPropose", "MsgReadIndex"}
    PROVE  Keeps(s, Forward(s, m))
  <1> DEFINE x == IF m.from = None THEN s.id ELSE m.from
             y == IF m.type = "MsgTransferLeader" THEN s.term ELSE 0
             r == [m EXCEPT !.to = s.leader_id, !.from = x, !.term = y]
  <1>1. y \in Nat
    BY LogTypes
  <1>2. {"type", "from", "to", "term"} \subseteq DOMAIN m
    BY DEF MsgOK
  <1>3. Forward(s, m) = IF s.leader_id = None THEN s ELSE Send(s, r)
    BY DEF Forward
  <1> HIDE DEF x, y
  <1>4. DOMAIN r = DOMAIN m /\ r.type = m.type /\ r.term = y /\ ("entry" \in DOMAIN m => r.entry = m.entry)
    BY <1>2
  <1> HIDE DEF r
  <1>5. MsgOK(s.conf, r) /\ Ordinary(s, r)
    BY <1>1, <1>2, <1>4 DEF MsgOK, Ordinary, IsGrant, FromLeader
  <1> QED BY <1>3, <1>5, SendKeeps, KeepsRefl

\* Raft::request_snapshot.
LEMMA RequestSnapshotKeeps ==
    ASSUME NEW s, IsRaft(s)
    PROVE  Keeps(s, RequestSnapshot(s))
  <1> DEFINE t == [s EXCEPT !.pending_request_snapshot = LastIndex(s)]
  <1>1. LastIndex(s) \in Nat
    BY LogTypes DEF LastIndex
  <1>2. IsRaft(t)
    BY <1>1 DEF IsRaft, RaftFields
  <1>3. Keeps(s, t)
    BY <1>2, LogTypes DEF Keeps, IsRaft, RaftFields
  <1> HIDE DEF t
  <1>4. Keeps(t, SendRequestSnapshot(t))
    BY <1>2, SendRequestSnapshotKeeps
  <1>5. Keeps(s, SendRequestSnapshot(t))
    BY <1>3, <1>4, KeepsTrans
  <1> QED BY <1>5 DEF RequestSnapshot, t

\* The first missing entry of find_conflict
LEMMA FindConflictType ==
    ASSUME NEW s, IsRaft(s), NEW i \in Nat, NEW ents \in Seq(NEntry), FindConflict(s, i, ents) # 0
    PROVE  \E k \in 1..Len(ents) : /\ FindConflict(s, i, ents) = i + k
                                   /\ \A l \in 1..(k - 1) : MatchTerm(s, i + l, ents[l].term)
  <1> DEFINE missing == {k \in 1..Len(ents) : ~MatchTerm(s, i + k, ents[k].term)}
             k == CHOOSE x \in missing : \A l \in missing : x <= l
  <1>1. missing # {} /\ FindConflict(s, i, ents) = i + k
    BY DEF FindConflict
  <1>2. missing \in SUBSET Nat /\ missing \subseteq 1..Len(ents) /\ Len(ents) \in Nat
    OBVIOUS
  <1>3. \A l \in 1..Len(ents) : l \notin missing => MatchTerm(s, i + l, ents[l].term)
    OBVIOUS
  <1> HIDE DEF missing
  <1>4. k \in missing /\ \A l \in missing : k <= l
    BY <1>1, <1>2, LeastElement
  <1> HIDE DEF k
  <1>5. k \in 1..Len(ents)
    BY <1>2, <1>4
  <1>6. ASSUME NEW l \in 1..(k - 1) PROVE MatchTerm(s, i + l, ents[l].term)
    <2>1. l \in 1..Len(ents) /\ ~(k <= l)
      BY <1>2, <1>5
    <2> QED BY <2>1, <1>3, <1>4
  <1> QED BY <1>1, <1>5, <1>6

\* RaftLog::maybe_append of a MsgAppend that matches: the log is cut at the first
\* conflict and extended.
LEMMA AppendMatchingSteps ==
    ASSUME NEW N, NEW L, NEW s, IsRaft(s), VotesOK(N, L, s), s.state = "Follower",
           NEW m, MsgOK(s.conf, m), m.type = "MsgAppend", m.index >= s.committed, MatchTerm(s, m.index, m.log_term)
    PROVE  Steps(N, L, s, AppendMatching(s, m))
  <1> DEFINE conflict == FindConflict(s, m.index, m.entries)
             log == SubSeq(s.log, 1, conflict - 1) \o SubSeq(m.entries, conflict - m.index, Len(m.entries))
             p == MinOf({s.persisted, conflict - 1})
             a == [s EXCEPT !.log = log, !.persisted = p]
             t == IF conflict = 0 THEN s ELSE a
             c == MinOf({m.commit, m.index + Len(m.entries)})
  <1>0. /\ m.index \in Nat /\ m.log_term \in Nat /\ m.commit \in Nat /\ m.entries \in Seq(NEntry)
        /\ m.entries # <<>> => m.log_term > 0 \/ m.index = 0
    BY DEF MsgOK
  <1>1. AppendMatching(s, m) = CommitTo(t, c)
    BY DEF AppendMatching
  <1>2. c \in Nat
    <2>1. Len(m.entries) \in Nat
      BY <1>0
    <2> QED BY <1>0, <2>1, MinOfTwo
  <1> HIDE DEF c
  <1>3. ASSUME conflict # 0 PROVE Steps(N, L, s, a)
    <2>1. PICK k \in 1..Len(m.entries) : /\ conflict = m.index + k
                                         /\ \A l \in 1..(k - 1) : MatchTerm(s, m.index + l, m.entries[l].term)
      BY <1>0, <1>3, FindConflictType
    <2> HIDE DEF conflict
    <2>2. m.index + k - 1 \in 0..Len(s.log)
      <3>1. CASE k = 1
        <4>1. m.entries # <<>>
          BY <2>1, <1>0
        <4>2. TermAt(s, m.index) = m.log_term
          BY DEF MatchTerm
        <4>3. m.index \in 0..Len(s.log)
          BY <4>1, <4>2, <1>0, TermAtType, LogTypes
        <4> QED BY <3>1, <4>3, <1>0
      <3>2. CASE k # 1
        <4>1. k - 1 \in 1..(k - 1) /\ k - 1 \in 1..Len(m.entries)
          BY <3>2, <1>0
        <4>2. TermAt(s, m.index + (k - 1)) = m.entries[k - 1].term
          BY <4>1, <2>1 DEF MatchTerm
        <4>3. m.entries[k - 1] \in NEntry
          BY <4>1, <1>0
        <4>4. m.entries[k - 1].term \in Nat /\ m.entries[k - 1].term > 0
          BY <4>3 DEF NEntry
        <4>5. m.index + (k - 1) \in 1..Len(s.log)
          BY <4>2, <4>4, TermAtType
        <4> QED BY <4>5, <1>0
      <3> QED BY <3>1, <3>2
    <2>3. conflict - 1 \in Nat /\ conflict - 1 <= Len(s.log) /\ conflict - 1 >= s.committed
      BY <2>1, <2>2, <1>0, LogTypes
    <2>4. p = IF s.persisted <= conflict - 1 THEN s.persisted ELSE conflict - 1
      BY <2>3, LogTypes, MinOfTwo
    <2>5. p \in Nat /\ p <= conflict - 1 /\ p >= s.applied
      BY <2>3, <2>4, LogTypes
    <2> HIDE DEF p
    <2>6. log \in Seq(NEntry) /\ Len(log) >= conflict - 1 /\ Len(log) \in Nat
      <3>1. s.log \in Seq(NEntry)
        BY DEF IsRaft
      <3>2. SubSeq(s.log, 1, conflict - 1) \in Seq(NEntry) /\ Len(SubSeq(s.log, 1, conflict - 1)) = conflict - 1
        BY <3>1, <2>3
      <3>3. SubSeq(m.entries, conflict - m.index, Len(m.entries)) \in Seq(NEntry)
        BY <2>1, <1>0
      <3> QED BY <3>2, <3>3, <2>3
    <2> HIDE DEF log
    <2>7. s.snap <= Len(log) /\ p <= Len(log)
      BY <2>3, <2>5, <2>6, LogTypes
    <2>8. IsRaft(a)
      BY <2>5, <2>6, <2>7 DEF IsRaft, RaftFields
    <2>9. /\ a.id = s.id /\ a.config = s.config /\ a.conf = s.conf /\ a.term = s.term /\ a.vote = s.vote
          /\ a.state = s.state /\ a.votes = s.votes /\ a.msgs = s.msgs
      BY DEF IsRaft, RaftFields
    <2> QED BY <2>8, <2>9, SameRoleSteps
  <1> HIDE DEF conflict, a
  <1>4. Steps(N, L, s, t)
    BY <1>3, StepsRefl
  <1> HIDE DEF t
  <1>5. Keeps(t, CommitTo(t, c))
    BY <1>2, <1>4, CommitToKeeps DEF Steps
  <1> QED BY <1>1, <1>4, <1>5, StepsKeeps

\* Raft::handle_append_entries.
LEMMA HandleAppendEntriesSteps ==
    ASSUME NEW N, NEW L, NEW s, IsRaft(s), VotesOK(N, L, s), s.state = "Follower",
           NEW m, MsgOK(s.conf, m), m.type = "MsgAppend"
    PROVE  Steps(N, L, s, HandleAppendEntries(s, m))
  <1>0. m.index \in Nat /\ m.log_term \in Nat /\ m.entries \in Seq(NEntry)
    BY DEF MsgOK
  <1>1. CASE s.pending_request_snapshot # InvalidIndex
    BY <1>1, SendRequestSnapshotKeeps, KeepsSteps DEF HandleAppendEntries
  <1> DEFINE early == AppendResponse(s, m.from, s.committed)
  <1>2. Steps(N, L, s, Send(s, early))
    <2>1. MsgOK(s.conf, early) /\ Ordinary(s, early)
      BY LogTypes, AppendResponseOK
    <2> QED BY <2>1, SendKeeps, KeepsSteps
  <1> DEFINE t == AppendMatching(s, m)
             ok == AppendResponse(s, m.from, m.index + Len(m.entries))
  <1>3. ASSUME m.index >= s.committed, MatchTerm(s, m.index, m.log_term) PROVE Steps(N, L, s, Send(t, ok))
    <2>1. Steps(N, L, s, t)
      BY <1>3, AppendMatchingSteps
    <2>2. t.term = s.term
      BY <1>3 DEF AppendMatching, CommitTo, IsRaft, RaftFields
    <2> HIDE DEF t
    <2>3. IsRaft(t) /\ t.id = s.id
      BY <2>1 DEF Steps
    <2>4. ok = AppendResponse(t, m.from, m.index + Len(m.entries))
      BY <2>2, <2>3 DEF AppendResponse
    <2>5. m.index + Len(m.entries) \in Nat
      BY <1>0
    <2>6. MsgOK(t.conf, ok) /\ Ordinary(t, ok)
      BY <2>3, <2>4, <2>5, AppendResponseOK
    <2>7. Keeps(t, Send(t, ok))
      BY <2>3, <2>6, SendKeeps
    <2> QED BY <2>1, <2>7, StepsKeeps
  <1> DEFINE hint == MinOf({m.index, LastIndex(s)})
             reject == AppendReject(s, m.from, m.index, FindConflictByTerm(s, hint, m.log_term))
  <1>4. Steps(N, L, s, Send(s, reject))
    <2>1. LastIndex(s) \in Nat
      BY LogTypes DEF LastIndex
    <2>2. hint \in Nat
      BY <1>0, <2>1, MinOfTwo
    <2> HIDE DEF hint
    <2>3. FindConflictByTerm(s, hint, m.log_term) \in Nat
      BY <1>0, <2>2, FindConflictByTermType
    <2>4. MsgOK(s.conf, reject) /\ Ordinary(s, reject)
      BY <1>0, <2>3, AppendResponseOK
    <2> QED BY <2>4, SendKeeps, KeepsSteps
  <1>5. m.index < s.committed \/ m.index >= s.committed
    BY <1>0, LogTypes
  <1> HIDE DEF early, t, ok, reject
  <1> QED BY <1>1, <1>2, <1>3, <1>4, <1>5 DEF HandleAppendEntries, early, t, ok, reject

\* Raft::handle_snapshot and restore.
LEMMA HandleSnapshotSteps ==
    ASSUME NEW N, NEW L, NEW s, IsRaft(s), VotesOK(N, L, s), s.state = "Follower",
           NEW m, MsgOK(s.conf, m), m.type = "MsgSnapshot"
    PROVE  Steps(N, L, s, HandleSnapshot(s, m))
  <1> DEFINE snap == m.snapshot
             r == RestoredFrom(s, snap)
             keeps == /\ s.id \in VotersOf(snap.conf) \cup snap.conf.learners
                      /\ snap.index >= s.committed
             f == IF keeps THEN CommitTo(s, snap.index) ELSE s
             ar == AppendResponse(r, m.from, LastIndex(r))
             af == AppendResponse(f, m.from, f.committed)
  <1>0. snap.index \in Nat /\ snap.conf = s.conf /\ snap.log \in Seq(NEntry) /\ Len(snap.log) = snap.index
    BY DEF MsgOK
  <1> HIDE DEF snap
  <1>1. ASSUME snap.index >= s.committed PROVE Steps(N, L, s, Send(r, ar))
    <2> DEFINE p == MinOf({s.persisted, s.committed})
    <2>1. p = IF s.persisted <= s.committed THEN s.persisted ELSE s.committed
      BY MinOfTwo, LogTypes
    <2>2. p \in Nat /\ p <= snap.index /\ s.applied <= p
      BY <1>0, <1>1, <2>1, LogTypes
    <2>3. r = [s EXCEPT !.log = snap.log, !.first = snap.index + 1, !.snap = snap.index,
                        !.committed = snap.index, !.persisted = p,
                        !.conf = s.conf, !.pending_request_snapshot = 0]
      BY <1>0 DEF RestoredFrom, InvalidIndex
    <2> HIDE DEF p, r
    <2>4. /\ DOMAIN r = RaftFields /\ r.log = snap.log /\ r.first = snap.index + 1 /\ r.snap = snap.index
          /\ r.committed = snap.index /\ r.persisted = p /\ r.applied = s.applied
          /\ r.pending_request_snapshot = 0
          /\ r.id = s.id /\ r.config = s.config /\ r.conf = s.conf /\ r.term = s.term /\ r.vote = s.vote
          /\ r.state = s.state /\ r.votes = s.votes /\ r.msgs = s.msgs
      BY <2>3 DEF IsRaft, RaftFields
    <2>5. snap.index + 1 \in Nat \ {0} /\ s.applied <= snap.index
      BY <1>0, <1>1, LogTypes
    <2>6. IsRaft(r)
      BY <1>0, <2>2, <2>4, <2>5 DEF IsRaft
    <2>7. Steps(N, L, s, r)
      BY <2>4, <2>6, SameRoleSteps
    <2>8. LastIndex(r) \in Nat
      BY <2>6, LogTypes DEF LastIndex
    <2>9. Keeps(r, Send(r, ar))
      BY <2>6, <2>8, AppendResponseOK, SendKeeps
    <2> QED BY <2>7, <2>9, StepsKeeps
  <1>2. Keeps(s, f)
    BY <1>0, CommitToKeeps, KeepsRefl
  <1> HIDE DEF f
  <1>3. Keeps(f, Send(f, af))
    <2>1. IsRaft(f)
      BY <1>2 DEF Keeps
    <2>2. f.committed \in Nat
      BY <2>1, LogTypes
    <2> QED BY <2>1, <2>2, AppendResponseOK, SendKeeps
  <1>4. Keeps(s, Send(f, af))
    BY <1>2, <1>3, KeepsTrans
  <1>5. Steps(N, L, s, Send(f, af))
    BY <1>4, KeepsSteps
  <1> HIDE DEF r, ar, af
  <1>6. HandleSnapshot(s, m) = IF NeedsSnapshot(s, snap) THEN Send(r, ar) ELSE Send(f, af)
    BY DEF HandleSnapshot, r, ar, f, af, snap
  <1> QED BY <1>1, <1>5, <1>6 DEF NeedsSnapshot

\* Whoever hears a leader of its term follows it.
LEMMA HearLeaderSteps ==
    ASSUME NEW N, NEW L, NEW s, IsRaft(s), VotesOK(N, L, s), s.state # "Leader", NEW m, m.term = s.term, NEW h, h = HearLeader(s, m)
    PROVE  Steps(N, L, s, h) /\ h.state = "Follower" /\ h.msgs = s.msgs /\ h.conf = s.conf /\ IsRaft(h) /\ VotesOK(N, L, h)
           /\ h.term = s.term
  <1>1. CASE s.state = "Follower"
    <2>1. h = [s EXCEPT !.expired = FALSE, !.leader_id = m.from]
      BY <1>1 DEF HearLeader
    <2> DEFINE no == FALSE
    <2> HIDE DEF no
    <2>11. h = [s EXCEPT !.expired = no, !.leader_id = m.from]
      BY <2>1 DEF no
    <2>12. h.msgs = s.msgs
      BY <2>1 DEF IsRaft, RaftFields
    <2>13. ASSUME NEW x, NEW y PROVE Keeps(s, [s EXCEPT !.expired = y, !.leader_id = x])
      BY SetTransfereeKeeps
    <2>14. Keeps(s, [s EXCEPT !.expired = no, !.leader_id = m.from])
      BY <2>13
    <2>2. Keeps(s, h) /\ h.msgs = s.msgs
      BY <2>11, <2>12, <2>14
    <2> QED BY <1>1, <2>2, KeepsSteps DEF Keeps, Steps
  <1>2. CASE s.state # "Follower"
    <2>1. h = BecomeFollower(s, m.term, m.from)
      BY <1>2 DEF HearLeader
    <2>2. s.term \in Nat /\ s.term >= s.term
      BY LogTypes
    <2> QED BY <2>1, <2>2, BecomeFollowerSteps DEF Steps
  <1> QED BY <1>1, <1>2

(***************************************************************************)
(* Raft::step.                                                             *)
(***************************************************************************)

\* A message that node s may be given
Receivable(N, s, m) ==
    /\ MsgOK(s.conf, m) /\ Sane(s.conf, m) /\ KnowsPeer(s, m)
    /\ m.type \in VoteResponses => m \in N /\ m.to = s.id

\* Raft::step_leader.
LEMMA StepLeaderSteps ==
    ASSUME NEW N, NEW L, NEW s, IsRaft(s), VotesOK(N, L, s), s.state = "Leader", NEW m, Receivable(N, s, m)
    PROVE  Steps(N, L, s, StepLeader(s, m))
  <1>0. MsgOK(s.conf, m)
    BY DEF Receivable
  <1>1. ASSUME m.type = "MsgAppendResponse" PROVE Steps(N, L, s, HandleAppendResponse(s, m))
    BY <1>0, <1>1, HandleAppendResponseKeeps, KeepsSteps
  <1>2. Steps(N, L, s, HandleHeartbeatResponse(s, m))
    BY HandleHeartbeatResponseKeeps, KeepsSteps
  <1>3. Steps(N, L, s, HandleTransferLeader(s, m))
    BY HandleTransferLeaderKeeps, KeepsSteps
  <1>4. ASSUME m.type = "MsgPropose" PROVE Steps(N, L, s, HandlePropose(s, m))
    BY <1>0, <1>4, HandleProposeSteps
  <1>5. Steps(N, L, s, HandleReadIndex(s, m))
    BY HandleReadIndexKeeps, KeepsSteps
  <1> QED BY <1>1, <1>2, <1>3, <1>4, <1>5, StepsRefl DEF StepLeader

\* The three messages of a leader to a node that does not lead.
LEMMA HeardSteps ==
    ASSUME NEW N, NEW L, NEW s, IsRaft(s), VotesOK(N, L, s), s.state # "Leader",
           NEW m, Receivable(N, s, m), m.term \in {0, s.term}
    PROVE  /\ m.type = "MsgAppend" => Steps(N, L, s, HandleAppendEntries(HearLeader(s, m), m))
           /\ m.type = "MsgHeartbeat" => Steps(N, L, s, HandleHeartbeat(HearLeader(s, m), m))
           /\ m.type = "MsgSnapshot" => Steps(N, L, s, HandleSnapshot(HearLeader(s, m), m))
  <1> DEFINE h == HearLeader(s, m)
  <1>1. SUFFICES ASSUME m.type \in FromLeader
                 PROVE  /\ m.type = "MsgAppend" => Steps(N, L, s, HandleAppendEntries(h, m))
                        /\ m.type = "MsgHeartbeat" => Steps(N, L, s, HandleHeartbeat(h, m))
                        /\ m.type = "MsgSnapshot" => Steps(N, L, s, HandleSnapshot(h, m))
    BY DEF FromLeader
  <1>2. MsgOK(s.conf, m) /\ m.term = s.term
    BY <1>1 DEF Receivable, MsgOK
  <1>3. Steps(N, L, s, h) /\ h.state = "Follower" /\ h.msgs = s.msgs /\ h.conf = s.conf /\ IsRaft(h) /\ VotesOK(N, L, h)
    BY <1>2, HearLeaderSteps
  <1> HIDE DEF h
  <1>4. m.type = "MsgAppend" => Steps(N, L, h, HandleAppendEntries(h, m))
    BY <1>2, <1>3, HandleAppendEntriesSteps
  <1>5. m.type = "MsgHeartbeat" => Steps(N, L, h, HandleHeartbeat(h, m))
    BY <1>2, <1>3, HandleHeartbeatKeeps, KeepsSteps
  <1>6. m.type = "MsgSnapshot" => Steps(N, L, h, HandleSnapshot(h, m))
    BY <1>2, <1>3, HandleSnapshotSteps
  <1> QED BY <1>3, <1>4, <1>5, <1>6, FollowSteps

\* Raft::step_follower.
LEMMA StepFollowerSteps ==
    ASSUME NEW N, NEW L, NEW s, IsRaft(s), VotesOK(N, L, s), s.state = "Follower",
           NEW m, Receivable(N, s, m), m.term \in {0, s.term}
    PROVE  Steps(N, L, s, StepFollower(s, m))
  <1>0. MsgOK(s.conf, m)
    BY DEF Receivable
  <1>1. /\ m.type = "MsgAppend" => Steps(N, L, s, HandleAppendEntries(HearLeader(s, m), m))
        /\ m.type = "MsgHeartbeat" => Steps(N, L, s, HandleHeartbeat(HearLeader(s, m), m))
        /\ m.type = "MsgSnapshot" => Steps(N, L, s, HandleSnapshot(HearLeader(s, m), m))
    BY HeardSteps
  <1>2. ASSUME m.type \in {"MsgTransferLeader", "MsgPropose", "MsgReadIndex"} PROVE Steps(N, L, s, Forward(s, m))
    BY <1>0, <1>2, ForwardKeeps, KeepsSteps
  <1>3. ASSUME m.type = "MsgReadIndexResp" PROVE Steps(N, L, s, HandleReadIndexResp(s, m))
    BY <1>0, <1>3, HandleReadIndexRespKeeps, KeepsSteps
  <1> DEFINE yes == TRUE
  <1> HIDE DEF yes
  <1>4. Steps(N, L, s, Hup(s, yes))
    BY HupSteps
  <1>5. Steps(N, L, s, Hup(s, TRUE))
    BY <1>4 DEF yes
  <1> QED BY <1>1, <1>2, <1>3, <1>5, StepsRefl DEF StepFollower

\* Raft::step_candidate.
LEMMA StepCandidateSteps ==
    ASSUME NEW N, NEW L, NEW s, IsRaft(s), VotesOK(N, L, s), s.state \in {"Candidate", "PreCandidate"},
           NEW m, Receivable(N, s, m), m.term \in {0, s.term} \/ m.type = "MsgRequestPreVoteResponse"
    PROVE  Steps(N, L, s, StepCandidate(s, m))
  <1>0. MsgOK(s.conf, m)
    BY DEF Receivable
  <1>1. m.type # "MsgRequestPreVoteResponse" =>
        /\ m.type = "MsgAppend" => Steps(N, L, s, HandleAppendEntries(HearLeader(s, m), m))
        /\ m.type = "MsgHeartbeat" => Steps(N, L, s, HandleHeartbeat(HearLeader(s, m), m))
        /\ m.type = "MsgSnapshot" => Steps(N, L, s, HandleSnapshot(HearLeader(s, m), m))
    BY HeardSteps
  <1>2. ASSUME m.type \in VoteResponses PROVE Steps(N, L, s, HandleVoteResponse(s, m))
    <2>1. m \in N /\ m.to = s.id /\ m.from \in s.conf.progress
      BY <1>2 DEF Receivable, KnowsPeer, Responses
    <2> QED BY <1>0, <2>1, HandleVoteResponseSteps
  <1> QED BY <1>1, <1>2, StepsRefl DEF StepCandidate

\* Raft::step after the terms are compared.
LEMMA DispatchSteps ==
    ASSUME NEW N, NEW L, NEW s, IsRaft(s), VotesOK(N, L, s), NEW m, Receivable(N, s, m),
           m.term \in {0, s.term} \/ m.type \in {"MsgRequestPreVote", "MsgRequestPreVoteResponse"}
    PROVE  Steps(N, L, s, Dispatch(s, m))
  <1>1. CASE m.type \in VoteRequests
    <2>1. m.type = "MsgRequestVote" => m.term = s.term
      BY DEF Receivable, MsgOK
    <2>2. Steps(N, L, s, HandleVoteRequest(s, m))
      BY <1>1, <2>1, HandleVoteRequestSteps DEF Receivable
    <2> QED BY <1>1, <2>2 DEF Dispatch
  <1>2. CASE m.type \notin VoteRequests
    <2>1. m.term \in {0, s.term} \/ m.type = "MsgRequestPreVoteResponse"
      BY <1>2 DEF VoteRequests
    <2>2. s.state \in {"Follower", "PreCandidate", "Candidate", "Leader"}
      BY DEF IsRaft
    <2>3. CASE s.state = "Leader"
      BY <1>2, <2>3, StepLeaderSteps DEF Dispatch
    <2>4. CASE s.state \in {"Candidate", "PreCandidate"}
      BY <1>2, <2>1, <2>4, StepCandidateSteps DEF Dispatch
    <2>5. CASE s.state = "Follower"
      <3>1. CASE m.term \in {0, s.term}
        BY <1>2, <2>5, <3>1, StepFollowerSteps DEF Dispatch
      <3>2. CASE m.type = "MsgRequestPreVoteResponse"
        BY <1>2, <2>5, <3>2, StepsRefl DEF Dispatch, StepFollower
      <3> QED BY <2>1, <3>1, <3>2
    <2> QED BY <2>2, <2>3, <2>4, <2>5
  <1> QED BY <1>1, <1>2

\* Raft::step of a message of an older term.
LEMMA StepLowerTermKeeps ==
    ASSUME NEW s, IsRaft(s), NEW m
    PROVE  Keeps(s, StepLowerTerm(s, m))
  <1>1. Keeps(s, Send(s, AppendResponse(s, m.from, 0)))
    BY AppendResponseOK, SendKeeps
  <1>2. ASSUME m.type = "MsgRequestPreVote"
        PROVE  Keeps(s, Send(s, [VoteReject(s, m) EXCEPT !.commit = 0, !.commit_term = 0]))
    <2> DEFINE r == [VoteReject(s, m) EXCEPT !.commit = 0, !.commit_term = 0]
    <2>1. r.type = "MsgRequestPreVoteResponse" /\ r.term = s.term /\ {"type", "from", "to", "term"} \subseteq DOMAIN r
      BY <1>2 DEF VoteReject, VoteResponseType
    <2> HIDE DEF r
    <2>2. MsgOK(s.conf, r) /\ Ordinary(s, r)
      BY <2>1, LogTypes DEF MsgOK, Ordinary, IsGrant, FromLeader
    <2>3. Keeps(s, Send(s, r))
      BY <2>2, SendKeeps
    <2> QED BY <2>3 DEF r
  <1> QED BY <1>1, <1>2, KeepsRefl DEF StepLowerTerm

\* Raft::step: a higher term makes a follower first.
LEMMA StepSteps ==
    ASSUME NEW N, NEW L, NEW s, IsRaft(s), VotesOK(N, L, s), NEW m, Receivable(N, s, m)
    PROVE  Steps(N, L, s, Step(s, m))
  <1>0. s.term \in Nat /\ m.term \in Nat
    BY LogTypes DEF Receivable, MsgOK
  <1>1. CASE m.term = 0 \/ m.term = s.term
    BY <1>1, DispatchSteps DEF Step
  <1>2. CASE ~(m.term = 0 \/ m.term = s.term) /\ m.term > s.term
    <2> DEFINE lead == IF m.type \in FromLeader THEN m.from ELSE None
               f == BecomeFollower(s, m.term, lead)
    <2> HIDE DEF lead
    <2>1. Steps(N, L, s, f) /\ f.state = "Follower" /\ f.msgs = s.msgs /\ f.term = m.term /\ f.conf = s.conf /\ f.id = s.id
      BY <1>0, <1>2, BecomeFollowerSteps
    <2> HIDE DEF f
    <2>2. IsRaft(f) /\ VotesOK(N, L, f) /\ Receivable(N, f, m)
      BY <2>1 DEF Steps, Receivable, KnowsPeer
    <2>3. Steps(N, L, f, Dispatch(f, m))
      BY <2>1, <2>2, DispatchSteps
    <2>4. Steps(N, L, s, Dispatch(f, m))
      BY <2>1, <2>3, FollowSteps
    <2>5. m.type \in {"MsgRequestPreVote", "MsgRequestPreVoteResponse"} => Steps(N, L, s, Dispatch(s, m))
      BY DispatchSteps
    <2>6. Steps(N, L, s, StepHigherTerm(s, m))
      BY <2>4, <2>5, StepsRefl DEF StepHigherTerm, f, lead
    <2> QED BY <1>2, <2>6 DEF Step
  <1>3. CASE ~(m.term = 0 \/ m.term = s.term) /\ ~(m.term > s.term)
    BY <1>3, StepLowerTermKeeps, KeepsSteps DEF Step
  <1> QED BY <1>1, <1>2, <1>3

(***************************************************************************)
(* One node steps.                                                         *)
(***************************************************************************)
\* A step of one node, whose messages leave and whose term and vote are on its disk
\* afterwards, keeps the invariant.
LEMMA NodeStepInv ==
    ASSUME NEW K, NEW L, Inv(K, L), NEW n \in K.progress,
           NEW s, IsRaft(s), s.id = n, s.conf = K, s.term = node[n].term, s.vote = node[n].vote, s.msgs = {},
           NEW t, Steps(net, L, s, t),
           NEW u, IsRaft(u), u.id = t.id, u.conf = t.conf, u.term = t.term, u.vote = t.vote,
           u.state = t.state, u.votes = t.votes,
           net' = net \cup t.msgs, node' = [node EXCEPT ![n] = u], limits' = limits,
           DOMAIN disk' = DOMAIN disk, \A k \in K.progress \ {n} : disk'[k] = disk[k],
           NodeInv(K, n)'
    PROVE  Inv(K, L)'
  <1>0. /\ FixedConf(K) /\ L \in K.progress \cup {None} /\ DOMAIN node = K.progress /\ DOMAIN disk = K.progress
        /\ limits.changes = {} /\ NodeInv(K, n)
    BY DEF Inv
  <1>1. s.term \in Nat
    BY DEF IsRaft
  <1>2. /\ t.id = n /\ t.conf = K /\ s.term <= t.term /\ t.term \in Nat
        /\ t.term = s.term /\ s.vote # None => t.vote = s.vote
        /\ VotesOK(net, L, t) /\ \A m \in t.msgs : NewMsgOK(s, t, m)
    BY <1>1 DEF Steps, IsRaft
  <1>3. node'[n] = u /\ DOMAIN node' = K.progress /\ \A k \in K.progress \ {n} : node'[k] = node[k]
    BY <1>0
  <1>4. \A k \in K.progress : NodeInv(K, k)'
    <2>1. ASSUME NEW k \in K.progress, k # n PROVE NodeInv(K, k)'
      <3>1. NodeInv(K, k) /\ node'[k] = node[k] /\ disk'[k] = disk[k]
        BY <2>1, <1>3 DEF Inv
      <3> QED BY <3>1 DEF NodeInv
    <2> QED BY <2>1
  <1>5. \A m \in net' : MsgOK(K, m) /\ Sane(K, m)
    BY <1>1, <1>2 DEF NewMsgOK, Inv
  <1>6. \A k \in K.progress : k # None
    BY <1>0, RaftAssumption DEF FixedConf
  <1>7. ASSUME NEW v \in K.progress, NEW c \in K.progress, NEW x \in Nat, Voted(net', L, v, c, x)
        PROVE  Voted(net, L, v, c, x) \/ (v = n /\ x = t.term /\ c = t.vote)
    <2>1. \A m \in t.msgs : /\ IsGrant(m) => m.from = n /\ m.term = t.term /\ m.to = t.vote
                            /\ m.type = "MsgRequestVote" => m.from = n /\ m.term = t.term /\ t.vote = n
      BY <1>2 DEF NewMsgOK
    <2> QED BY <2>1, <1>7 DEF Voted
  <1>8. ASSUME NEW v \in K.progress, NEW c \in K.progress, NEW x \in Nat, Voted(net, L, v, c, x)
        PROVE  /\ node[v].term >= x
               /\ node[v].term = x => node[v].vote = c
               /\ \A d \in K.progress : Voted(net, L, v, d, x) => d = c
    BY <1>8 DEF Inv, VoteInv
  <1>9. ASSUME NEW c \in K.progress, NEW x \in Nat, Voted(net, L, n, c, x)
        PROVE  t.term >= x /\ (t.term = x => t.vote = c)
    <2>1. s.term >= x /\ (s.term = x => s.vote = c) /\ c # None
      BY <1>6, <1>8, <1>9
    <2> QED BY <2>1, <1>1, <1>2
  <1>10. ASSUME NEW v \in K.progress, NEW c \in K.progress, NEW x \in Nat, Voted(net', L, v, c, x)
         PROVE  /\ node'[v].term >= x
                /\ node'[v].term = x => node'[v].vote = c
                /\ \A d \in K.progress : Voted(net', L, v, d, x) => d = c
    <2>1. CASE v # n
      <3>1. \A d \in K.progress : Voted(net', L, v, d, x) => Voted(net, L, v, d, x)
        BY <2>1, <1>7
      <3>2. Voted(net, L, v, c, x) /\ node'[v] = node[v]
        BY <2>1, <3>1, <1>3, <1>10
      <3>3. /\ node[v].term >= x /\ (node[v].term = x => node[v].vote = c)
            /\ \A d \in K.progress : Voted(net, L, v, d, x) => d = c
        BY <3>2, <1>8
      <3> QED BY <3>1, <3>2, <3>3
    <2>2. CASE v = n
      <3>1. \A d \in K.progress : Voted(net', L, n, d, x) => t.term >= x /\ (t.term = x => t.vote = d)
        BY <2>2, <1>2, <1>7, <1>9
      <3>2. \A d \in K.progress : Voted(net', L, n, d, x) /\ ~Voted(net, L, n, d, x) => t.term = x /\ d = t.vote
        BY <1>7
      <3>3. \A d \in K.progress : Voted(net', L, v, d, x) => d = c
        <4>1. SUFFICES ASSUME NEW d \in K.progress, Voted(net', L, n, d, x) PROVE d = c
          BY <2>2
        <4>2. Voted(net', L, n, c, x)
          BY <2>2, <1>10
        <4>3. CASE Voted(net, L, n, d, x) /\ Voted(net, L, n, c, x)
          BY <4>3, <1>8
        <4>4. CASE ~Voted(net, L, n, d, x) \/ ~Voted(net, L, n, c, x)
          BY <4>1, <4>2, <4>4, <3>1, <3>2
        <4> QED BY <4>3, <4>4
      <3> QED BY <2>2, <3>1, <3>3, <1>3, <1>10
    <2> QED BY <2>1, <2>2
  <1>11. net \subseteq net'
    OBVIOUS
  <1>12. ASSUME NEW k \in K.progress
         PROVE  /\ node'[k].state = "Candidate" =>
                     \A v \in DOMAIN node'[k].votes :
                         node'[k].votes[v] => v \in K.progress /\ Voted(net', L, v, k, node'[k].term)
                /\ node'[k].state = "Leader" => Backed(net', L, K, k, node'[k].term)
    <2>1. CASE k = n
      BY <2>1, <1>2, <1>3, ZenonT(40) DEF VotesOK
    <2>2. CASE k # n
      BY <2>2, <1>0, <1>3, <1>11, VotedMore, BackedMore DEF Inv, VoteInv
    <2> QED BY <2>1, <2>2
  <1>13. ASSUME NEW m \in net', m.type \in FromLeader PROVE Backed(net', L, K, m.from, m.term)
    <2>1. CASE m \in net
      BY <2>1, <1>0, <1>11, <1>13, BackedMore DEF Inv, VoteInv
    <2>2. CASE m \in t.msgs
      BY <2>2, <1>2, <1>13 DEF NewMsgOK, VotesOK
    <2> QED BY <2>1, <2>2
  <1>14. VoteInv(K, L)'
    BY <1>10, <1>12, <1>13 DEF VoteInv
  <1> QED BY <1>0, <1>3, <1>4, <1>5, <1>14 DEF Inv

\* What RawNode::ready and the application make of the state a handler leaves.
LEMMA AppliedRaft ==
    ASSUME NEW s, IsRaft(s), NEW u, u = [Applied(s) EXCEPT !.msgs = {}, !.read_states = {}]
    PROVE  /\ IsRaft(u) /\ u.id = s.id /\ u.conf = s.conf /\ u.term = s.term /\ u.vote = s.vote
           /\ u.state = s.state /\ u.votes = s.votes /\ u.msgs = {} /\ u.persisted = s.persisted
           /\ u.snap = s.snap /\ u.log = s.log /\ Applied(s).msgs = s.msgs /\ u.config = s.config
  <1> DEFINE a == IF limits.lazy THEN s.applied ELSE MinOf({s.committed, s.persisted})
  <1>1. a \in Nat /\ a <= s.committed /\ a <= s.persisted
    <2>1. s.committed \in Int /\ s.persisted \in Int
      BY LogTypes
    <2>2. MinOf({s.committed, s.persisted}) = IF s.committed <= s.persisted THEN s.committed ELSE s.persisted
      BY <2>1, MinOfTwo
    <2> QED BY <2>2, LogTypes
  <1>2. /\ DOMAIN Applied(s) = RaftFields /\ \A f \in RaftFields \ {"applied"} : Applied(s)[f] = s[f]
        /\ Applied(s).applied = a
    BY DEF Applied, IsRaft, RaftFields
  <1> HIDE DEF a
  <1>3. /\ DOMAIN u = RaftFields /\ \A f \in RaftFields \ {"applied", "msgs", "read_states"} : u[f] = s[f]
        /\ u.applied = a /\ u.msgs = {} /\ Applied(s).msgs = s.msgs
    BY <1>2 DEF RaftFields
  <1>4. /\ u.id = s.id /\ u.config = s.config /\ u.conf = s.conf /\ u.term = s.term /\ u.vote = s.vote
        /\ u.state = s.state /\ u.votes = s.votes /\ u.log = s.log /\ u.first = s.first /\ u.snap = s.snap
        /\ u.committed = s.committed /\ u.persisted = s.persisted /\ u.prs = s.prs
        /\ u.pending_request_snapshot = s.pending_request_snapshot
    BY <1>3 DEF RaftFields
  <1>5. IsRaft(u)
    BY <1>1, <1>3, <1>4 DEF IsRaft
  <1> QED BY <1>3, <1>4, <1>5

\* on_persist_ready: the log and the snapshot are on disk.
LEMMA PersistedRaft ==
    ASSUME NEW s, IsRaft(s), NEW u, u = Persisted(s)
    PROVE  /\ IsRaft(u) /\ u.id = s.id /\ u.conf = s.conf /\ u.term = s.term /\ u.vote = s.vote
           /\ u.state = s.state /\ u.votes = s.votes /\ u.msgs = s.msgs /\ u.persisted = Len(s.log)
           /\ u.snap = s.snap /\ u.log = s.log /\ u.committed = s.committed
  <1> DEFINE a == IF s.applied < s.snap THEN s.snap ELSE s.applied
             p == Len(s.log)
  <1>1. a \in Nat /\ p \in Nat /\ a <= s.committed /\ a <= p /\ s.snap <= p
    BY LogTypes
  <1>2. u = [s EXCEPT !.persisted = p, !.applied = a]
    BY DEF Persisted
  <1> HIDE DEF a
  <1>3. /\ DOMAIN u = RaftFields /\ \A f \in RaftFields \ {"applied", "persisted"} : u[f] = s[f]
        /\ u.applied = a /\ u.persisted = p
    BY <1>2 DEF RaftFields, IsRaft
  <1>4. /\ u.id = s.id /\ u.config = s.config /\ u.conf = s.conf /\ u.term = s.term /\ u.vote = s.vote
        /\ u.state = s.state /\ u.votes = s.votes /\ u.log = s.log /\ u.first = s.first /\ u.snap = s.snap
        /\ u.committed = s.committed /\ u.prs = s.prs /\ u.msgs = s.msgs
        /\ u.pending_request_snapshot = s.pending_request_snapshot
    BY <1>3 DEF RaftFields
  <1>5. IsRaft(u)
    BY <1>1, <1>3, <1>4 DEF IsRaft
  <1> QED BY <1>3, <1>4, <1>5

\* A step whose Ready is written before its messages are sent, which is what
\* RawNode::ready asks of everyone but the leader, keeps the invariant.
LEMMA ProcessReadyInv ==
    ASSUME NEW K, NEW L, Inv(K, L), NEW n \in K.progress, NEW t, Steps(net, L, node[n], t), ProcessReady(n, t)
    PROVE  Inv(K, L)'
  <1> DEFINE x == IF t.state = "Leader" THEN t ELSE Persisted(t)
             u == [Applied(x) EXCEPT !.msgs = {}, !.read_states = {}]
  <1>0. DOMAIN node = K.progress /\ DOMAIN disk = K.progress /\ NodeInv(K, n) /\ IsRaft(node[n])
        /\ node[n].id = n /\ node[n].conf = K
    BY DEF Inv, NodeInv
  <1>1. IsRaft(t) /\ t.id = n /\ t.conf = K
    BY <1>0 DEF Steps
  <1>2. /\ IsRaft(x) /\ x.id = t.id /\ x.conf = t.conf /\ x.term = t.term /\ x.vote = t.vote
        /\ x.state = t.state /\ x.votes = t.votes /\ x.msgs = t.msgs /\ x.snap = t.snap /\ x.log = t.log
        /\ x.persisted = IF t.state = "Leader" THEN t.persisted ELSE Len(t.log)
    BY <1>1, PersistedRaft
  <1>3. /\ net' = net \cup Applied(x).msgs /\ node' = [node EXCEPT ![n] = u] /\ limits' = limits
        /\ disk' = IF t.state = "Leader" THEN disk ELSE [disk EXCEPT ![n] = Synced(t)]
    BY DEF ProcessReady, Publish
  <1> HIDE DEF x
  <1>4. /\ IsRaft(u) /\ u.id = x.id /\ u.conf = x.conf /\ u.term = x.term /\ u.vote = x.vote
        /\ u.state = x.state /\ u.votes = x.votes /\ u.msgs = {} /\ u.persisted = x.persisted
        /\ u.snap = x.snap /\ u.log = x.log /\ Applied(x).msgs = x.msgs
    <2>1. IsRaft(x)
      BY <1>2
    <2> QED BY <2>1, AppliedRaft
  <1> HIDE DEF u
  <1>5. node'[n] = u /\ DOMAIN disk' = DOMAIN disk /\ \A k \in K.progress \ {n} : disk'[k] = disk[k]
    BY <1>0, <1>3
  <1>6. NodeInv(K, n)'
    <2>1. CASE t.state = "Leader"
      <3>1. disk'[n] = disk[n] /\ t.term = node[n].term /\ t.vote = node[n].vote /\ t.persisted = node[n].persisted
            /\ t.snap = node[n].snap
        BY <2>1, <1>3 DEF Steps
      <3> QED BY <2>1, <3>1, <1>0, <1>1, <1>2, <1>4, <1>5 DEF NodeInv
    <2>2. CASE t.state # "Leader"
      <3>1. disk'[n] = Synced(t)
        BY <2>2, <1>0, <1>3
      <3>2. /\ DOMAIN Synced(t) = {"term", "vote", "commit", "log"} /\ Synced(t).term = t.term /\ Synced(t).vote = t.vote
            /\ Synced(t).commit = t.committed /\ Synced(t).log = t.log
        BY DEF Synced
      <3>3. t.log \in Seq(NEntry) /\ t.committed \in Nat /\ t.snap <= t.committed /\ t.snap <= Len(t.log)
        BY <1>1 DEF IsRaft
      <3> QED BY <2>2, <3>1, <3>2, <3>3, <1>1, <1>2, <1>4, <1>5 DEF NodeInv
    <2> QED BY <2>1, <2>2
  <1>7. /\ u.id = t.id /\ u.conf = t.conf /\ u.term = t.term /\ u.vote = t.vote /\ u.state = t.state
        /\ u.votes = t.votes /\ net' = net \cup t.msgs /\ IsRaft(u)
    BY <1>2, <1>3, <1>4
  <1>8. node' = [node EXCEPT ![n] = u] /\ limits' = limits
    BY <1>3
  <1> DEFINE s == node[n]
  <1>9. IsRaft(s) /\ s.id = n /\ s.conf = K /\ s.term = node[n].term /\ s.vote = node[n].vote /\ s.msgs = {}
        /\ Steps(net, L, s, t)
    BY <1>0 DEF NodeInv
  <1> HIDE DEF s
  <1> QED BY <1>5, <1>6, <1>7, <1>8, <1>9, NodeStepInv

(***************************************************************************)
(* The actions.                                                            *)
(***************************************************************************)
\* What the invariant says of one node.
LEMMA NodeOK ==
    ASSUME NEW K, NEW L, Inv(K, L), NEW n \in K.progress
    PROVE  /\ IsRaft(node[n]) /\ node[n].id = n /\ node[n].conf = K /\ node[n].msgs = {}
           /\ VotesOK(net, L, node[n])
  <1>1. /\ IsRaft(node[n]) /\ node[n].id = n /\ node[n].conf = K /\ node[n].msgs = {}
    BY DEF Inv, NodeInv
  <1>2. net \cup node[n].msgs = net
    BY <1>1
  <1>3. VotesOK(net, L, node[n])
    BY <1>1, <1>2 DEF VotesOK, Inv, VoteInv
  <1> QED BY <1>1, <1>3

\* A node's election clock.
LEMMA SetExpiredKeeps ==
    ASSUME NEW s, IsRaft(s), NEW y
    PROVE  Keeps(s, [s EXCEPT !.expired = y])
  BY SetTransfereeKeeps

\* Raft::tick_election keeps the invariant.
LEMMA ElectionTimeoutInv ==
    ASSUME NEW K, NEW L, Inv(K, L), NEW n \in K.progress, ElectionTimeout(n)
    PROVE  Inv(K, L)'
  <1> DEFINE no == FALSE
             s == node[n]
             e == [s EXCEPT !.expired = no]
             t == Hup(e, no)
  <1>1. ProcessReady(n, t)
    BY DEF ElectionTimeout
  <1> HIDE DEF no
  <1>2. IsRaft(s) /\ VotesOK(net, L, s)
    BY NodeOK
  <1> HIDE DEF s
  <1>3. Keeps(s, e) /\ e.msgs = s.msgs
    BY <1>2, SetExpiredKeeps DEF IsRaft, RaftFields
  <1> HIDE DEF e
  <1>4. IsRaft(e) /\ VotesOK(net, L, e)
    BY <1>2, <1>3, KeepsSteps DEF Keeps, Steps
  <1>5. Steps(net, L, e, t)
    BY <1>4, HupSteps
  <1>6. Steps(net, L, s, t)
    <2>1. /\ e.id = s.id /\ e.config = s.config /\ e.conf = s.conf /\ e.term = s.term /\ e.vote = s.vote
          /\ e.state = s.state /\ e.msgs = s.msgs /\ e.persisted = s.persisted /\ e.snap = s.snap /\ e.first = s.first
      BY <1>3 DEF Keeps
    <2> HIDE DEF t
    <2> QED BY <2>1, <1>5 DEF Steps, NewMsgOK
  <1> HIDE DEF t
  <1> QED BY <1>1, <1>6, ProcessReadyInv DEF s

\* RawNode::campaign keeps it.
LEMMA CampaignInv ==
    ASSUME NEW K, NEW L, Inv(K, L), NEW n \in K.progress, Campaign(n)
    PROVE  Inv(K, L)'
  <1> DEFINE no == FALSE
             t == Hup(node[n], no)
  <1>1. ProcessReady(n, t)
    BY DEF Campaign
  <1> HIDE DEF no
  <1>2. Steps(net, L, node[n], t)
    BY NodeOK, HupSteps
  <1> HIDE DEF t
  <1> QED BY <1>1, <1>2, ProcessReadyInv

\* Every method that keeps role, term, votes and log keeps it.
LEMMA KeepsReadyInv ==
    ASSUME NEW K, NEW L, Inv(K, L), NEW n \in K.progress, NEW t, Keeps(node[n], t), ProcessReady(n, t)
    PROVE  Inv(K, L)'
  <1>1. Steps(net, L, node[n], t)
    BY NodeOK, KeepsSteps
  <1> QED BY <1>1, ProcessReadyInv

\* The time without a leader's message that ends a lease keeps it.
LEMMA LeaseExpiresInv ==
    ASSUME NEW K, NEW L, Inv(K, L), NEW n \in K.progress, LeaseExpires(n)
    PROVE  Inv(K, L)'
  <1> DEFINE yes == TRUE
             t == [node[n] EXCEPT !.expired = yes]
  <1>1. ProcessReady(n, t)
    BY DEF LeaseExpires
  <1> HIDE DEF yes
  <1>2. Keeps(node[n], t)
    BY NodeOK, SetExpiredKeeps
  <1> HIDE DEF t
  <1> QED BY <1>1, <1>2, KeepsReadyInv

\* Raft::tick_heartbeat's election timeout, check_quorum included, keeps it.
LEMMA LeaderTimeoutInv ==
    ASSUME NEW K, NEW L, Inv(K, L), NEW n \in K.progress, LeaderTimeout(n)
    PROVE  Inv(K, L)'
  <1> DEFINE s == node[n]
             q == IF s.config.check_quorum THEN HandleCheckQuorum(s) ELSE s
             t == [q EXCEPT !.lead_transferee = None]
  <1>1. ProcessReady(n, t)
    BY DEF LeaderTimeout
  <1>2. IsRaft(s) /\ VotesOK(net, L, s) /\ s.state = "Leader"
    BY NodeOK DEF LeaderTimeout
  <1> HIDE DEF s
  <1>3. Steps(net, L, s, HandleCheckQuorum(s))
    <2>1. CASE HasQuorum(s.conf, Active(s))
      BY <2>1, <1>2, HandleCheckQuorumKeeps, KeepsSteps
    <2>2. CASE ~HasQuorum(s.conf, Active(s))
      <3>1. s.term \in Nat /\ s.term >= s.term
        BY <1>2, LogTypes
      <3> QED BY <2>2, <3>1, <1>2, BecomeFollowerSteps DEF HandleCheckQuorum
    <2> QED BY <2>1, <2>2
  <1>4. Steps(net, L, s, q)
    BY <1>2, <1>3, StepsRefl
  <1> HIDE DEF q
  <1>5. Keeps(q, t)
    BY <1>4, SetTransfereeKeeps DEF Steps
  <1> HIDE DEF t
  <1>6. Steps(net, L, s, t)
    BY <1>2, <1>4, <1>5, StepsKeeps
  <1> QED BY <1>1, <1>6, ProcessReadyInv DEF s

\* Raft::tick_heartbeat's MsgBeat keeps it.
LEMMA BeatInv ==
    ASSUME NEW K, NEW L, Inv(K, L), NEW n \in K.progress, Beat(n)
    PROVE  Inv(K, L)'
  <1> DEFINE t == BcastHeartbeat(node[n])
  <1>1. ProcessReady(n, t) /\ node[n].state = "Leader"
    BY DEF Beat
  <1>2. Keeps(node[n], t)
    BY <1>1, NodeOK, BcastHeartbeatKeeps DEF BcastHeartbeat
  <1> HIDE DEF t
  <1> QED BY <1>1, <1>2, KeepsReadyInv

\* RawNode::step of any message the node may be given keeps it.
LEMMA StepInv ==
    ASSUME NEW K, NEW L, Inv(K, L), NEW n \in K.progress, NEW m, Receivable(net, node[n], m),
           ProcessReady(n, Step(node[n], m))
    PROVE  Inv(K, L)'
  <1> DEFINE t == Step(node[n], m)
  <1>1. Steps(net, L, node[n], t)
    BY NodeOK, StepSteps
  <1> HIDE DEF t
  <1>2. ProcessReady(n, t)
    BY DEF t
  <1> QED BY <1>1, <1>2, ProcessReadyInv

\* RawNode::propose keeps it.
LEMMA ProposeInv ==
    ASSUME NEW K, NEW L, Inv(K, L), NEW n \in K.progress, NEW v \in Value, Propose(n, v)
    PROVE  Inv(K, L)'
  <1> DEFINE m == [type |-> "MsgPropose", from |-> n, to |-> n, term |-> 0, entry |-> NormalEntry(v)]
  <1>1. ProcessReady(n, Step(node[n], m))
    BY DEF Propose, ProposeEntry
  <1>2. Receivable(net, node[n], m)
    BY DEF Receivable, MsgOK, Sane, KnowsPeer, Responses, VoteResponses, FromLeader, NormalEntry
  <1> HIDE DEF m
  <1> QED BY <1>1, <1>2, StepInv

\* RawNode::transfer_leader keeps it.
LEMMA TransferLeaderInv ==
    ASSUME NEW K, NEW L, Inv(K, L), NEW n \in K.progress, NEW to, TransferLeader(n, to)
    PROVE  Inv(K, L)'
  <1> DEFINE m == [type |-> "MsgTransferLeader", from |-> to, to |-> n, term |-> 0]
  <1>1. ProcessReady(n, Step(node[n], m))
    BY DEF TransferLeader
  <1>2. Receivable(net, node[n], m)
    BY DEF Receivable, MsgOK, Sane, KnowsPeer, Responses, VoteResponses, FromLeader
  <1> HIDE DEF m
  <1> QED BY <1>1, <1>2, StepInv

\* A message that arrives, in any order and any number of times, keeps it.
LEMMA ReceiveInv ==
    ASSUME NEW K, NEW L, Inv(K, L), NEW types, Receive(types)
    PROVE  Inv(K, L)'
  <1>1. PICK m \in net : m.to \in Nodes /\ KnowsPeer(node[m.to], m) /\ ProcessReady(m.to, Step(node[m.to], m))
    BY DEF Receive
  <1> DEFINE n == m.to
  <1>2. n \in K.progress
    BY <1>1 DEF Nodes, Inv
  <1>3. node[n].id = n /\ node[n].conf = K
    BY <1>2, NodeOK
  <1>4. Receivable(net, node[n], m)
    BY <1>1, <1>2, <1>3 DEF Receivable, Inv
  <1> QED BY <1>1, <1>2, <1>4, StepInv

\* RawNode::report_unreachable and report_snapshot keep it.
LEMMA ReportInv ==
    ASSUME NEW K, NEW L, Inv(K, L), NEW n \in K.progress, NEW j, NEW failed,
           ReportUnreachable(n, j) \/ ReportSnapshot(n, j, failed)
    PROVE  Inv(K, L)'
  <1>1. CASE ReportUnreachable(n, j)
    <2> DEFINE t == HandleUnreachable(node[n], j)
    <2>1. ProcessReady(n, t) /\ node[n].state = "Leader"
      BY <1>1 DEF ReportUnreachable
    <2>2. Keeps(node[n], t)
      BY <2>1, NodeOK, HandleUnreachableKeeps
    <2> HIDE DEF t
    <2> QED BY <2>1, <2>2, KeepsReadyInv
  <1>2. CASE ReportSnapshot(n, j, failed)
    <2> DEFINE t == HandleSnapshotStatus(node[n], j, failed)
    <2>1. ProcessReady(n, t) /\ node[n].state = "Leader"
      BY <1>2 DEF ReportSnapshot
    <2>2. Keeps(node[n], t)
      BY <2>1, NodeOK, HandleSnapshotStatusKeeps
    <2> HIDE DEF t
    <2> QED BY <2>1, <2>2, KeepsReadyInv
  <1> QED BY <1>1, <1>2

\* RawNode::request_snapshot keeps it.
LEMMA RequestSnapshotForInv ==
    ASSUME NEW K, NEW L, Inv(K, L), NEW n \in K.progress, RequestSnapshotFor(n)
    PROVE  Inv(K, L)'
  <1> DEFINE t == RequestSnapshot(node[n])
  <1>1. ProcessReady(n, t)
    BY DEF RequestSnapshotFor
  <1>2. Keeps(node[n], t)
    BY NodeOK, RequestSnapshotKeeps
  <1> HIDE DEF t
  <1> QED BY <1>1, <1>2, KeepsReadyInv

\* A read changes neither role nor log, so nothing needs to be written for it.
LEMMA ReadIndexKeeps ==
    ASSUME NEW s, IsRaft(s), NEW m, MsgOK(s.conf, m), m.type = "MsgReadIndex", m.term = 0
    PROVE  Keeps(s, Step(s, m))
  <1>1. Keeps(s, HandleReadIndex(s, m)) \/ s.state # "Leader"
    BY HandleReadIndexKeeps
  <1>2. Keeps(s, Forward(s, m)) /\ Keeps(s, s)
    BY ForwardKeeps, KeepsRefl
  <1>3. s.state \in {"Follower", "PreCandidate", "Candidate", "Leader"}
    BY DEF IsRaft
  <1>4. StepLeader(s, m) = HandleReadIndex(s, m) /\ StepFollower(s, m) = Forward(s, m) /\ StepCandidate(s, m) = s
    BY DEF StepLeader, StepFollower, StepCandidate, VoteResponses
  <1>5. Step(s, m) = Dispatch(s, m) /\ m.type \notin VoteRequests
    BY DEF Step, VoteRequests
  <1>6. CASE s.state = "Leader"
    BY <1>1, <1>4, <1>5, <1>6 DEF Dispatch
  <1>7. CASE s.state = "Follower"
    BY <1>2, <1>4, <1>5, <1>7 DEF Dispatch
  <1>8. CASE s.state \in {"Candidate", "PreCandidate"}
    BY <1>2, <1>4, <1>5, <1>8 DEF Dispatch
  <1> QED BY <1>3, <1>6, <1>7, <1>8

\* Messages and ReadStates are taken from a node.
LEMMA DrainedRaft ==
    ASSUME NEW s, IsRaft(s), NEW u, u = [s EXCEPT !.msgs = {}, !.read_states = {}]
    PROVE  /\ IsRaft(u) /\ u.id = s.id /\ u.conf = s.conf /\ u.term = s.term /\ u.vote = s.vote
           /\ u.state = s.state /\ u.votes = s.votes /\ u.msgs = {} /\ u.persisted = s.persisted /\ u.snap = s.snap
  <1>1. /\ DOMAIN u = RaftFields /\ \A f \in RaftFields \ {"msgs", "read_states"} : u[f] = s[f]
        /\ u.msgs = {}
    BY DEF RaftFields, IsRaft
  <1>2. /\ u.id = s.id /\ u.config = s.config /\ u.conf = s.conf /\ u.term = s.term /\ u.vote = s.vote
        /\ u.state = s.state /\ u.votes = s.votes /\ u.log = s.log /\ u.first = s.first /\ u.snap = s.snap
        /\ u.committed = s.committed /\ u.persisted = s.persisted /\ u.prs = s.prs /\ u.applied = s.applied
        /\ u.pending_request_snapshot = s.pending_request_snapshot
    BY <1>1 DEF RaftFields
  <1>3. IsRaft(u)
    BY <1>1, <1>2 DEF IsRaft
  <1> QED BY <1>1, <1>2, <1>3

\* RawNode::read_index keeps it.
LEMMA ReadIndexInv ==
    ASSUME NEW K, NEW L, Inv(K, L), NEW n \in K.progress, ReadIndex(n)
    PROVE  Inv(K, L)'
  <1> DEFINE c == Len(reads.asked) + 1
             m == [type |-> "MsgReadIndex", from |-> None, to |-> n, term |-> 0, ctx |-> c]
             s == node[n]
             t == Step(s, m)
             u == [t EXCEPT !.msgs = {}, !.read_states = {}]
  <1>1. net' = net \cup t.msgs /\ node' = [node EXCEPT ![n] = u] /\ limits' = limits /\ disk' = disk
    BY DEF ReadIndex
  <1> HIDE DEF c
  <1>2. MsgOK(K, m) /\ m.type = "MsgReadIndex" /\ m.term = 0
    BY DEF MsgOK, FromLeader
  <1> HIDE DEF m
  <1>3. IsRaft(s) /\ s.id = n /\ s.conf = K /\ s.msgs = {} /\ VotesOK(net, L, s)
    BY NodeOK
  <1>31. s.term = node[n].term /\ s.vote = node[n].vote
    OBVIOUS
  <1>32. NodeInv(K, n) /\ DOMAIN node = K.progress
    BY DEF Inv
  <1> HIDE DEF s
  <1>4. Keeps(s, t)
    BY <1>2, <1>3, ReadIndexKeeps
  <1> HIDE DEF t
  <1>5. IsRaft(t) /\ t.id = s.id /\ t.conf = s.conf /\ t.term = s.term /\ t.vote = s.vote /\ t.persisted = s.persisted
        /\ t.snap = s.snap
    BY <1>4 DEF Keeps
  <1>6. /\ IsRaft(u) /\ u.id = t.id /\ u.conf = t.conf /\ u.term = t.term /\ u.vote = t.vote
        /\ u.state = t.state /\ u.votes = t.votes /\ u.msgs = {} /\ u.persisted = t.persisted /\ u.snap = t.snap
    BY <1>5, DrainedRaft
  <1> HIDE DEF u
  <1>7. node'[n] = u /\ disk'[n] = disk[n]
    BY <1>1, <1>32
  <1>8. NodeInv(K, n)'
    BY <1>3, <1>32, <1>5, <1>6, <1>7 DEF NodeInv, s
  <1>9. Steps(net, L, s, t)
    BY <1>3, <1>4, KeepsSteps
  <1>10. DOMAIN disk' = DOMAIN disk /\ \A k \in K.progress \ {n} : disk'[k] = disk[k]
    BY <1>1
  <1> QED BY <1>1, <1>3, <1>31, <1>6, <1>8, <1>9, <1>10, NodeStepInv

\* Applying committed entries (advance_apply) keeps it.
LEMMA ApplyInv ==
    ASSUME NEW K, NEW L, Inv(K, L), NEW n \in K.progress, Apply(n)
    PROVE  Inv(K, L)'
  <1> DEFINE s == node[n]
             next == s.applied + 1
             t == [s EXCEPT !.applied = next]
  <1>1. IsRaft(s) /\ VotesOK(net, L, s)
    BY NodeOK
  <1>2. next <= MinOf({s.committed, s.persisted})
    BY DEF Apply
  <1>3. next \in Nat /\ next > 0 /\ next <= s.committed /\ next <= s.persisted /\ next <= Len(s.log)
    <2>1. s.committed \in Int /\ s.persisted \in Int /\ s.applied \in Nat /\ s.persisted <= Len(s.log) /\ Len(s.log) \in Int
      BY <1>1, LogTypes
    <2>2. MinOf({s.committed, s.persisted}) = IF s.committed <= s.persisted THEN s.committed ELSE s.persisted
      BY <2>1, MinOfTwo
    <2> HIDE DEF s
    <2> QED BY <2>1, <2>2, <1>2
  <1>4. s.log[next].type # "ConfChange"
    <2>1. s.log[next] \in NEntry
      BY <1>1, <1>3, EntryType
    <2> QED BY <2>1 DEF NEntry
  <1>5. ~s.conf.auto_leave
    BY <1>1 DEF IsRaft, FixedConf
  <1>6. CommitApply(s, next) = t
    BY <1>5 DEF CommitApply
  <1>7. ProcessReady(n, t)
    BY <1>4, <1>6 DEF Apply
  <1> HIDE DEF s, next
  <1>8. IsRaft(t)
    BY <1>1, <1>3 DEF IsRaft, RaftFields
  <1>9. /\ t.id = s.id /\ t.config = s.config /\ t.conf = s.conf /\ t.term = s.term /\ t.vote = s.vote
        /\ t.state = s.state /\ t.votes = s.votes /\ t.msgs = s.msgs
        /\ t.persisted = s.persisted /\ t.snap = s.snap /\ t.first = s.first
    BY <1>1 DEF IsRaft, RaftFields
  <1> HIDE DEF t
  <1>10. Steps(net, L, s, t)
    BY <1>1, <1>8, <1>9, SameRoleSteps
  <1> QED BY <1>7, <1>10, ProcessReadyInv DEF s

\* MemStorage::compact keeps it.
LEMMA CompactInv ==
    ASSUME NEW K, NEW L, Inv(K, L), NEW n \in K.progress, NEW i, Compact(n, i)
    PROVE  Inv(K, L)'
  <1> DEFINE s == node[n]
             u == [s EXCEPT !.first = i]
  <1>1. IsRaft(s) /\ s.id = n /\ s.conf = K /\ s.msgs = {} /\ VotesOK(net, L, s)
    BY NodeOK
  <1>2. node' = [node EXCEPT ![n] = u] /\ net' = net \cup s.msgs /\ limits' = limits /\ disk' = disk
    BY <1>1 DEF Compact
  <1>3. i \in Nat \ {0}
    <2>1. i \in (s.first + 1)..MinOf({s.applied, disk[n].commit}) /\ s.first \in Nat
      BY <1>1, LogTypes DEF Compact
    <2> QED BY <2>1
  <1>4. NodeInv(K, n) /\ DOMAIN node = K.progress /\ s.term = node[n].term /\ s.vote = node[n].vote
    BY DEF Inv
  <1> HIDE DEF s
  <1>5. IsRaft(u)
    BY <1>1, <1>3 DEF IsRaft, RaftFields
  <1>6. /\ u.id = s.id /\ u.config = s.config /\ u.conf = s.conf /\ u.term = s.term /\ u.vote = s.vote
        /\ u.state = s.state /\ u.votes = s.votes /\ u.msgs = s.msgs
        /\ u.persisted = s.persisted /\ u.snap = s.snap
    BY <1>1 DEF IsRaft, RaftFields
  <1> HIDE DEF u
  <1>7. Steps(net, L, s, s)
    BY <1>1, StepsRefl
  <1>8. node'[n] = u /\ disk'[n] = disk[n]
    BY <1>2, <1>4
  <1>9. NodeInv(K, n)'
    BY <1>1, <1>4, <1>5, <1>6, <1>8 DEF NodeInv, s
  <1>10. DOMAIN disk' = DOMAIN disk /\ \A k \in K.progress \ {n} : disk'[k] = disk[k]
    BY <1>2
  <1> QED BY <1>1, <1>2, <1>4, <1>5, <1>6, <1>7, <1>9, <1>10, NodeStepInv

\* Raft::on_persist_entries: the entries up to p are on disk; the rest keeps
\* role, term, vote and log.
LEMMA OnPersistEntriesKeeps ==
    ASSUME NEW s, IsRaft(s), s.state = "Leader", NEW p \in Nat, p >= s.persisted, p <= Len(s.log)
    PROVE  \E q : /\ IsRaft(q) /\ q.id = s.id /\ q.conf = s.conf /\ q.term = s.term /\ q.vote = s.vote
                  /\ q.state = s.state /\ q.votes = s.votes /\ q.msgs = s.msgs /\ q.snap = s.snap
                  /\ q.persisted = p /\ q.log = s.log
                  /\ q.first = s.first /\ q.committed = s.committed /\ q.applied = s.applied
                  /\ Keeps(q, OnPersistEntries(s, p))
  <1> DEFINE pr == MaybeUpdate(s.prs[s.id], p)
             q == [s EXCEPT !.persisted = p, !.prs[s.id] = pr]
             c == MaybeCommit(q)
  <1>1. IsProgress(pr)
    <2>1. IsProgress(s.prs[s.id])
      BY DEF IsRaft
    <2> QED BY <2>1 DEF IsProgress, MaybeUpdate, NeedUpdate
  <1>2. OnPersistEntries(s, p) =
            IF ~NeedUpdate(s.prs[s.id], p) THEN q
            ELSE IF c.committed # s.committed /\ ShouldBcastCommit(c) THEN BcastAppend(c) ELSE c
    BY DEF OnPersistEntries
  <1> HIDE DEF pr
  <1>3. IsRaft(q)
    BY <1>1 DEF IsRaft, RaftFields
  <1>4. /\ q.id = s.id /\ q.conf = s.conf /\ q.term = s.term /\ q.vote = s.vote
        /\ q.state = s.state /\ q.votes = s.votes /\ q.msgs = s.msgs /\ q.snap = s.snap
        /\ q.persisted = p /\ q.log = s.log
        /\ q.first = s.first /\ q.committed = s.committed /\ q.applied = s.applied
    BY DEF IsRaft, RaftFields
  <1> HIDE DEF q
  <1>5. Keeps(q, c)
    BY <1>3, <1>4, MaybeCommitKeeps
  <1> HIDE DEF c
  <1>6. IsRaft(c) /\ c.state = "Leader"
    BY <1>4, <1>5 DEF Keeps
  <1>7. Keeps(q, BcastAppend(c))
    BY <1>3, <1>5, <1>6, BcastAppendKeeps, KeepsTrans
  <1>8. Keeps(q, OnPersistEntries(s, p))
    BY <1>2, <1>3, <1>5, <1>7, KeepsRefl
  <1> QED BY <1>3, <1>4, <1>8

\* RawNode::on_persist_ready of a leader whose messages have already left keeps
\* it.
LEMMA PersistInv ==
    ASSUME NEW K, NEW L, Inv(K, L), NEW n \in K.progress, Persist(n)
    PROVE  Inv(K, L)'
  <1> DEFINE s == node[n]
  <1>1. IsRaft(s) /\ s.id = n /\ s.conf = K /\ s.msgs = {} /\ VotesOK(net, L, s) /\ s.state = "Leader"
    BY NodeOK DEF Persist
  <1>2. NodeInv(K, n) /\ DOMAIN node = K.progress /\ DOMAIN disk = K.progress
    BY DEF Inv
  <1> DEFINE After(p) == IF p > s.persisted THEN OnPersistEntries(s, p) ELSE s
             Sync(p, c) == [Synced(After(p)) EXCEPT !.commit = c, !.log = SubSeq(After(p).log, 1, p)]
  <1>30. PICK p \in s.persisted..Len(s.log) :
            \E c \in disk[n].commit..MinOf({p, s.committed}) :
                Publish(n, Applied(After(p))) /\ disk' = [disk EXCEPT ![n] = Sync(p, c)]
    BY DEF Persist
  <1>3. PICK c \in disk[n].commit..MinOf({p, s.committed}) :
            Publish(n, Applied(After(p))) /\ disk' = [disk EXCEPT ![n] = Sync(p, c)]
    BY <1>30
  <1> DEFINE t == IF p > s.persisted THEN OnPersistEntries(s, p) ELSE s
             d == [Synced(t) EXCEPT !.commit = c, !.log = SubSeq(t.log, 1, p)]
             u == [Applied(t) EXCEPT !.msgs = {}, !.read_states = {}]
  <1>4. s.persisted \in Nat /\ Len(s.log) \in Nat /\ p \in Nat /\ p >= s.persisted /\ p <= Len(s.log)
    BY <1>1, LogTypes
  <1>5. PICK q : /\ IsRaft(q) /\ q.id = s.id /\ q.conf = s.conf /\ q.term = s.term /\ q.vote = s.vote
                 /\ q.state = s.state /\ q.votes = s.votes /\ q.msgs = s.msgs /\ q.snap = s.snap
                 /\ q.persisted = p /\ q.log = s.log
                 /\ Keeps(q, t)
    <2>1. CASE p > s.persisted
      BY <2>1, <1>1, <1>4, OnPersistEntriesKeeps
    <2>2. CASE ~(p > s.persisted)
      <3>1. s.persisted = p
        BY <2>2, <1>4
      <3> QED BY <2>2, <3>1, <1>1, KeepsRefl
    <2> QED BY <2>1, <2>2
  <1>6. /\ net' = net \cup Applied(t).msgs /\ node' = [node EXCEPT ![n] = u] /\ limits' = limits
        /\ disk' = [disk EXCEPT ![n] = d]
    BY <1>3 DEF Publish
  <1>7. s.term = node[n].term /\ s.vote = node[n].vote /\ s.snap = node[n].snap /\ s.persisted = node[n].persisted
    OBVIOUS
  <1>8. disk[n].commit \in Nat /\ s.snap <= disk[n].commit /\ s.snap <= s.persisted /\ s.snap \in Nat
    BY <1>1, <1>2, LogTypes DEF NodeInv
  <1> HIDE DEF s, t
  <1>9. /\ IsRaft(t) /\ t.id = n /\ t.conf = K /\ t.term = s.term /\ t.vote = s.vote
        /\ t.state = q.state /\ t.votes = q.votes /\ t.snap = s.snap /\ t.persisted = p /\ t.log = s.log
    BY <1>1, <1>5 DEF Keeps
  <1>10. /\ IsRaft(u) /\ u.id = t.id /\ u.conf = t.conf /\ u.term = t.term /\ u.vote = t.vote
         /\ u.state = t.state /\ u.votes = t.votes /\ u.msgs = {} /\ u.persisted = t.persisted
         /\ u.snap = t.snap /\ Applied(t).msgs = t.msgs
    <2>1. IsRaft(t)
      BY <1>9
    <2> QED BY <2>1, AppliedRaft
  <1> HIDE DEF u
  <1>11. /\ DOMAIN d = {"term", "vote", "commit", "log"} /\ d.term = t.term /\ d.vote = t.vote
         /\ d.commit = c /\ d.log = SubSeq(t.log, 1, p)
    BY DEF Synced
  <1>12. c \in Nat /\ c >= disk[n].commit
    BY <1>8
  <1>13. SubSeq(t.log, 1, p) \in Seq(NEntry) /\ Len(SubSeq(t.log, 1, p)) = p
    <2>1. t.log \in Seq(NEntry) /\ Len(t.log) = Len(s.log)
      BY <1>9 DEF IsRaft
    <2> QED BY <2>1, <1>4
  <1> HIDE DEF d
  <1>14. node'[n] = u /\ disk'[n] = d /\ DOMAIN disk' = DOMAIN disk /\ \A k \in K.progress \ {n} : disk'[k] = disk[k]
    BY <1>2, <1>6
  <1>15. NodeInv(K, n)'
    <2>1. s.snap <= c /\ s.snap <= p
      BY <1>4, <1>8, <1>12
    <2> QED BY <2>1, <1>9, <1>10, <1>11, <1>12, <1>13, <1>14 DEF NodeInv
  <1>16. Steps(net, L, q, t)
    <2>1. VotesOK(net, L, q)
      BY <1>1, <1>5 DEF VotesOK
    <2> QED BY <2>1, <1>5, KeepsSteps
  <1>17. /\ q.id = n /\ q.conf = K /\ q.term = node[n].term /\ q.vote = node[n].vote /\ q.msgs = {} /\ IsRaft(q)
         /\ net' = net \cup t.msgs
    BY <1>1, <1>5, <1>6, <1>7, <1>10
  <1> QED BY <1>6, <1>10, <1>14, <1>15, <1>16, <1>17, NodeStepInv

\* What a storage holds
Stored(hs, store) ==
    /\ hs.term \in Nat /\ hs.commit \in Nat /\ hs.log \in Seq(NEntry)
    /\ store.first \in Nat \ {0} /\ store.snap \in Nat /\ store.applied \in Nat
    /\ store.snap <= hs.commit /\ store.snap <= Len(hs.log)
    /\ store.applied <= hs.commit /\ store.applied <= Len(hs.log)

\* u is a node that has just read its storage.
Fresh(u, i, config, K, hs, store) ==
    /\ IsRaft(u) /\ u.id = i /\ u.config = config /\ u.conf = K /\ u.term = hs.term /\ u.vote = hs.vote
    /\ u.state = "Follower" /\ u.votes = <<>> /\ u.msgs = {} /\ u.log = hs.log /\ u.committed = hs.commit
    /\ u.snap = store.snap /\ u.persisted = Len(hs.log) /\ u.applied = store.applied /\ u.first = store.first
    /\ u.pending_request_snapshot = 0 /\ u.reads = <<>>

\* Raft::new
LEMMA NewRaftType ==
    ASSUME NEW i, NEW config, config \in ConfigType, NEW K, FixedConf(K), i \in K.progress,
           NEW hs, NEW store, Stored(hs, store)
    PROVE  Fresh(NewRaft(i, config, K, hs, store), i, config, K, hs, store)
  <1> DEFINE u == NewRaft(i, config, K, hs, store)
  <1> DEFINE b == [id |-> i, config |-> config, term |-> hs.term, vote |-> hs.vote, state |-> "Follower",
                   leader_id |-> None, lead_transferee |-> None,
                   log |-> hs.log, first |-> store.first, snap |-> store.snap,
                   committed |-> hs.commit, persisted |-> Len(hs.log), applied |-> store.applied,
                   conf |-> K, votes |-> <<>>, prs |-> <<>>,
                   pending_conf_index |-> 0, pending_request_snapshot |-> InvalidIndex,
                   reads |-> <<>>, read_states |-> {}, expired |-> FALSE, msgs |-> {}]
  <1>1. u = BecomeFollower(b, hs.term, None)
    BY DEF NewRaft
  <1> HIDE DEF u
  <1>2. /\ DOMAIN b = RaftFields /\ b.id = i /\ b.config = config /\ b.conf = K /\ b.term = hs.term /\ b.vote = hs.vote
        /\ b.state = "Follower" /\ b.votes = <<>> /\ b.msgs = {} /\ b.log = hs.log /\ b.committed = hs.commit
        /\ b.snap = store.snap /\ b.persisted = Len(hs.log) /\ b.applied = store.applied /\ b.first = store.first
        /\ b.pending_request_snapshot = 0
    BY DEF RaftFields, InvalidIndex
  <1> HIDE DEF b
  <1>3. Len(hs.log) \in Nat /\ Len(hs.log) <= Len(hs.log)
    BY DEF Stored
  <1>4. IsRaft(b)
    BY <1>2, <1>3 DEF IsRaft, Stored
  <1>5. u.votes = <<>>
    BY <1>1, <1>2 DEF BecomeFollower, Reset, RaftFields
  <1>6. /\ IsRaft(u)
        /\ u.id = b.id /\ u.config = b.config /\ u.conf = b.conf /\ u.term = hs.term
        /\ u.vote = (IF b.term # hs.term THEN None ELSE b.vote) /\ u.state = "Follower"
        /\ u.msgs = b.msgs /\ u.persisted = b.persisted /\ u.snap = b.snap
        /\ u.log = b.log /\ u.committed = b.committed /\ u.applied = b.applied /\ u.first = b.first
        /\ u.pending_request_snapshot = b.pending_request_snapshot /\ u.reads = <<>>
    <2>1. hs.term \in Nat
      BY DEF Stored
    <2> QED BY <2>1, <1>1, <1>4, BecomeFollowerFields
  <1>7. Fresh(u, i, config, K, hs, store)
    BY <1>2, <1>5, <1>6 DEF Fresh
  <1> QED BY <1>7 DEF u

\* A crash and a restart from disk keep it: the node comes back with the term and
\* the vote it had given.
LEMMA RestartInv ==
    ASSUME NEW K, NEW L, Inv(K, L), NEW n \in K.progress, Restart(n)
    PROVE  Inv(K, L)'
  <1> DEFINE s == node[n]
             hs == disk[n]
             a == MinOf({s.applied, hs.commit})
             store == [first |-> s.first, snap |-> s.snap, applied |-> a]
             u == NewRaft(n, s.config, s.conf, hs, store)
             t == BecomeFollower(s, s.term, None)
  <1>1. IsRaft(s) /\ s.id = n /\ s.conf = K /\ s.msgs = {} /\ VotesOK(net, L, s)
    BY NodeOK
  <1>2. NodeInv(K, n) /\ DOMAIN node = K.progress /\ DOMAIN disk = K.progress
    BY DEF Inv
  <1>3. node' = [node EXCEPT ![n] = u] /\ net' = net /\ disk' = disk /\ limits' = limits
    BY DEF Restart
  <1>4. /\ DOMAIN hs = {"term", "vote", "commit", "log"} /\ hs.term = s.term /\ hs.vote = s.vote
        /\ hs.commit \in Nat /\ s.snap <= hs.commit /\ hs.log \in Seq(NEntry) /\ Len(hs.log) = s.persisted
        /\ s.snap <= s.persisted
    BY <1>2 DEF NodeInv
  <1>5. s.config \in ConfigType /\ FixedConf(K) /\ s.first \in Nat \ {0} /\ n \in K.progress
    BY <1>1 DEF IsRaft
  <1>6. s.term = node[n].term /\ s.vote = node[n].vote
    OBVIOUS
  <1> HIDE DEF s, hs
  <1>7. s.applied \in Nat /\ s.applied <= s.persisted /\ s.snap \in Nat /\ s.persisted \in Nat /\ s.term \in Nat /\ s.term >= s.term
    BY <1>1, LogTypes
  <1>8. a \in Nat /\ a <= hs.commit /\ a <= s.persisted
    <2>1. a = IF s.applied <= hs.commit THEN s.applied ELSE hs.commit
      BY <1>4, <1>7, MinOfTwo
    <2> QED BY <2>1, <1>4, <1>7
  <1> HIDE DEF a
  <1>9. store.first = s.first /\ store.snap = s.snap /\ store.applied = a
    OBVIOUS
  <1> HIDE DEF store
  <1>10. /\ IsRaft(u) /\ u.id = n /\ u.conf = K /\ u.term = hs.term /\ u.vote = hs.vote
         /\ u.state = "Follower" /\ u.votes = <<>> /\ u.msgs = {}
         /\ u.snap = store.snap /\ u.persisted = Len(hs.log)
    <2>1. Stored(hs, store)
      BY <1>4, <1>5, <1>7, <1>8, <1>9 DEF Stored
    <2> DEFINE g == s.config
    <2>2. u = NewRaft(n, g, K, hs, store) /\ g \in ConfigType
      BY <1>1, <1>5
    <2> HIDE DEF u, g
    <2>3. FixedConf(K) /\ n \in K.progress
      BY <1>5
    <2> HIDE DEF hs, store, s
    <2>4. Fresh(u, n, g, K, hs, store)
      BY <2>1, <2>2, <2>3, NewRaftType
    <2> QED BY <2>4 DEF Fresh
  <1> HIDE DEF u
  <1>11. /\ Steps(net, L, s, t) /\ t.state = "Follower" /\ t.msgs = s.msgs /\ t.term = s.term /\ t.conf = K /\ t.id = n
         /\ t.vote = s.vote /\ t.votes = <<>>
    <2>1. Steps(net, L, s, t) /\ t.state = "Follower" /\ t.msgs = s.msgs /\ t.term = s.term /\ t.conf = K /\ t.id = n
      BY <1>1, <1>7, BecomeFollowerSteps
    <2>2. t.vote = s.vote
      BY <1>1, <1>7, BecomeFollowerFields
    <2>3. t.votes = <<>>
      BY <1>1 DEF BecomeFollower, Reset, IsRaft, RaftFields
    <2> QED BY <2>1, <2>2, <2>3
  <1> HIDE DEF t
  <1>12. node'[n] = u /\ disk'[n] = hs /\ DOMAIN disk' = DOMAIN disk /\ \A k \in K.progress \ {n} : disk'[k] = disk[k]
    BY <1>2, <1>3 DEF hs
  <1>13. NodeInv(K, n)'
    BY <1>4, <1>9, <1>10, <1>12 DEF NodeInv
  <1>14. net' = net \cup t.msgs /\ u.id = t.id /\ u.conf = t.conf /\ u.term = t.term /\ u.vote = t.vote
         /\ u.state = t.state /\ u.votes = t.votes
    BY <1>1, <1>3, <1>4, <1>10, <1>11
  <1> QED BY <1>1, <1>3, <1>6, <1>10, <1>11, <1>12, <1>13, <1>14, NodeStepInv

(***************************************************************************)
(* The theorem.                                                            *)
(***************************************************************************)
\* Every action of the specification keeps the invariant.
LEMMA NextInv ==
    ASSUME NEW K, NEW L, Inv(K, L), [Next]_vars
    PROVE  Inv(K, L)'
  <1>0. Nodes = K.progress
    BY DEF Nodes, Inv
  <1>1. CASE UNCHANGED vars
    BY <1>1 DEF vars, Inv, NodeInv, VoteInv
  <1>2. ASSUME NEW n \in Nodes, ProposeConfChange(n) PROVE FALSE
    <2>1. limits.changes = {}
      BY DEF Inv
    <2>2. Changes(n) = {}
      BY <2>1 DEF Changes
    <2> QED BY <1>2, <2>2 DEF ProposeConfChange
  <1>3. CASE \E types : Receive(types)
    BY <1>3, ReceiveInv
  <1>4. CASE Next
    <2>1. CASE \E n \in Nodes :
        \/ ElectionTimeout(n)
        \/ Campaign(n)
        \/ LeaseExpires(n)
        \/ LeaderTimeout(n)
        \/ Beat(n)
        \/ \E v \in Value : Propose(n, v)
        \/ ProposeConfChange(n)
        \/ \E to \in Nodes : TransferLeader(n, to)
        \/ ReadIndex(n)
        \/ \E j \in Nodes : ReportUnreachable(n, j)
        \/ \E j \in Nodes, failed \in BOOLEAN : ReportSnapshot(n, j, failed)
        \/ RequestSnapshotFor(n)
        \/ Persist(n)
        \/ Apply(n)
        \/ \E i \in 1..limits.log : Compact(n, i)
        \/ Restart(n)
      <3>1. PICK n \in K.progress :
        \/ ElectionTimeout(n)
        \/ Campaign(n)
        \/ LeaseExpires(n)
        \/ LeaderTimeout(n)
        \/ Beat(n)
        \/ \E v \in Value : Propose(n, v)
        \/ ProposeConfChange(n)
        \/ \E to \in Nodes : TransferLeader(n, to)
        \/ ReadIndex(n)
        \/ \E j \in Nodes : ReportUnreachable(n, j)
        \/ \E j \in Nodes, failed \in BOOLEAN : ReportSnapshot(n, j, failed)
        \/ RequestSnapshotFor(n)
        \/ Persist(n)
        \/ Apply(n)
        \/ \E i \in 1..limits.log : Compact(n, i)
        \/ Restart(n)
        BY <2>1, <1>0
      <3>2. CASE ElectionTimeout(n)
        BY <3>2, ElectionTimeoutInv
      <3>3. CASE Campaign(n)
        BY <3>3, CampaignInv
      <3>4. CASE LeaseExpires(n)
        BY <3>4, LeaseExpiresInv
      <3>5. CASE LeaderTimeout(n)
        BY <3>5, LeaderTimeoutInv
      <3>6. CASE Beat(n)
        BY <3>6, BeatInv
      <3>7. CASE \E v \in Value : Propose(n, v)
        BY <3>7, ProposeInv
      <3>8. CASE ProposeConfChange(n)
        BY <3>8, <1>0, <1>2
      <3>9. CASE \E to \in Nodes : TransferLeader(n, to)
        BY <3>9, TransferLeaderInv
      <3>10. CASE ReadIndex(n)
        BY <3>10, ReadIndexInv
      <3>11. CASE \E j \in Nodes : ReportUnreachable(n, j)
        BY <3>11, ReportInv
      <3>12. CASE \E j \in Nodes, failed \in BOOLEAN : ReportSnapshot(n, j, failed)
        BY <3>12, ReportInv
      <3>13. CASE RequestSnapshotFor(n)
        BY <3>13, RequestSnapshotForInv
      <3>14. CASE Persist(n)
        BY <3>14, PersistInv
      <3>15. CASE Apply(n)
        BY <3>15, ApplyInv
      <3>16. CASE \E i \in 1..limits.log : Compact(n, i)
        BY <3>16, CompactInv
      <3>17. CASE Restart(n)
        BY <3>17, RestartInv
      <3> QED BY <3>1, <3>2, <3>3, <3>4, <3>5, <3>6, <3>7, <3>8, <3>9, <3>10, <3>11, <3>12, <3>13, <3>14,
                 <3>15, <3>16, <3>17
    <2> QED BY <1>3, <1>4, <2>1
            DEF Next, ReceiveVoteRequest, ReceiveVoteResponse, ReceiveAppend, ReceiveAppendResponse, ReceiveHeartbeat,
                ReceiveHeartbeatResponse, ReceiveSnapshot, ReceiveTimeoutNow, ReceiveForwarded, ReceiveReadIndexResp
  <1> QED BY <1>1, <1>4

\* Two majorities share a voter, which has voted once.
LEMMA BackedUnique ==
    ASSUME NEW K, FixedConf(K), NEW N, NEW L, NEW c \in K.progress, NEW d \in K.progress, NEW x,
           Backed(N, L, K, c, x), Backed(N, L, K, d, x),
           \A v \in K.progress : Voted(N, L, v, c, x) /\ Voted(N, L, v, d, x) => c = d
    PROVE  c = d
  <1> DEFINE A == {v \in K.incoming : Voted(N, L, v, c, x)}
             B == {v \in K.incoming : Voted(N, L, v, d, x)}
  <1>1. K.incoming \subseteq K.progress /\ IsFiniteSet(K.incoming)
    <2>1. K.incoming \subseteq Server /\ K.incoming \subseteq K.progress
      BY DEF FixedConf
    <2> QED BY <2>1, RaftAssumption, FS_Subset
  <1>2. Cardinality(A) >= Majority(Cardinality(K.incoming)) /\ Cardinality(B) >= Majority(Cardinality(K.incoming))
    BY DEF Backed
  <1>3. A \cap B # {}
    BY <1>1, <1>2, MajoritiesOverlap
  <1>4. PICK v \in K.progress : Voted(N, L, v, c, x) /\ Voted(N, L, v, d, x)
    BY <1>1, <1>3
  <1> QED BY <1>4

\* Two leaders of one term would be backed by majorities that share a voter, and a
\* voter votes once in a term.
LEMMA InvElectionSafety ==
    ASSUME NEW K, NEW L, Inv(K, L)
    PROVE  ElectionSafety
  <1>0. /\ DOMAIN node = K.progress /\ FixedConf(K) /\ VoteInv(K, L)
        /\ \A m \in net : MsgOK(K, m) /\ Sane(K, m)
    BY DEF Inv
  <1>1. ASSUME NEW c \in K.progress, NEW d \in K.progress, NEW x \in Nat, Backed(net, L, K, c, x), Backed(net, L, K, d, x)
        PROVE  c = d
    <2>1. \A v \in K.progress : Voted(net, L, v, c, x) /\ Voted(net, L, v, d, x) => c = d
      BY <1>0 DEF VoteInv
    <2> QED BY <1>0, <1>1, <2>1, BackedUnique
  <1>2. ASSUME NEW n \in K.progress, node[n].state = "Leader" PROVE node[n].term \in Nat /\ Backed(net, L, K, n, node[n].term)
    BY <1>2, <1>0 DEF VoteInv, Inv, NodeInv, IsRaft
  <1>3. ASSUME NEW m \in net, m.type \in FromLeader
        PROVE  m.from \in K.progress /\ m.term \in Nat /\ Backed(net, L, K, m.from, m.term)
    BY <1>3, <1>0 DEF VoteInv, MsgOK, Sane
  <1>4. \A i, j \in Nodes :
          node[i].state = "Leader" /\ node[j].state = "Leader" /\ node[i].term = node[j].term => i = j
    BY <1>0, <1>1, <1>2 DEF Nodes
  <1>5. \A m1, m2 \in {m \in net : m.type \in FromLeader} : m1.term = m2.term => m1.from = m2.from
    BY <1>1, <1>3
  <1>6. \A m \in net, i \in Nodes :
          m.type \in FromLeader /\ node[i].state = "Leader" /\ node[i].term = m.term => m.from = i
    BY <1>0, <1>1, <1>2, <1>3 DEF Nodes
  <1> QED BY <1>4, <1>5, <1>6 DEF ElectionSafety

(***************************************************************************)
(* Log matching.                                                           *)
(***************************************************************************)
\* Of logs, for each term the one its leader has had (the longest of it).
Logs == [Nat -> Seq(NEntry)]

\* A log of term T at most: up to any of its entries, it is the log that the leader
\* of that entry's term has had.
Fits(G, T, log) ==
    \A k \in 1..Len(log) : log[k].term <= T /\ SamePrefix(log, G[log[k].term], k)

\* What a leader with this log may have sent, then or with a shorter log.
Copies(log, m) ==
    /\ m.type = "MsgAppend" =>
          /\ m.log_term > 0 => m.index \in 1..Len(log) /\ log[m.index].term = m.log_term
          /\ m.entries # <<>> => /\ m.index + Len(m.entries) <= Len(log)
                                 /\ \A k \in 1..Len(m.entries) : m.entries[k] = log[m.index + k]
    /\ m.type = "MsgSnapshot" => SamePrefix(m.snapshot.log, log, m.snapshot.index)

\* What a step of a node may do to its log: a leader appends one entry of its term, a
\* follower takes over a prefix of the log of its term's leader, and a candidate
\* keeps its own.
Moves(G, s, t) ==
    /\ t.state = "Leader" => /\ s.state \in {"Candidate", "Leader"}
                             /\ \/ s.state = "Leader" /\ t.log = s.log
                                \/ \E e \in NEntry : e.term = s.term /\ t.log = Append(s.log, e)
    /\ t.state # "Leader" => \/ t.log = s.log
                             \/ t.state = "Follower" /\ SamePrefix(t.log, G[t.term], Len(t.log))
    /\ t.state = "Candidate" => \/ t.term > s.term
                                \/ s.state = "Candidate" /\ t.term = s.term
    /\ \A m \in t.msgs \ s.msgs : Copies(t.log, m)

\* What a node may be told: the logs fit together, and the message is from one.
Fitting(G, s, m) ==
    /\ G \in Logs /\ Fits(G, s.term, s.log) /\ \A T \in Nat : Fits(G, T, G[T])
    /\ Copies(G[m.term], m)

\* Two logs that fit agree up to any position where they agree in the term.
LEMMA FitsAgree ==
    ASSUME NEW G, NEW T1, NEW T2, NEW l1 \in Seq(NEntry), NEW l2 \in Seq(NEntry), Fits(G, T1, l1), Fits(G, T2, l2),
           NEW p \in 1..Len(l1), p <= Len(l2), l1[p].term = l2[p].term
    PROVE  SamePrefix(l1, l2, p)
  <1>1. p \in 1..Len(l2) /\ p \in Nat
    OBVIOUS
  <1> DEFINE g == G[l1[p].term]
  <1>2. SamePrefix(l1, g, p) /\ SamePrefix(l2, g, p)
    BY <1>1 DEF Fits
  <1> HIDE DEF g
  <1> QED BY <1>2 DEF SamePrefix

\* A log that fits at a term fits at a later one.
LEMMA FitsLater ==
    ASSUME NEW G, NEW T1 \in Nat, NEW T2 \in Nat, T1 <= T2, NEW log \in Seq(NEntry), Fits(G, T1, log)
    PROVE  Fits(G, T2, log)
  <1>0. \A k \in 1..Len(log) : log[k] \in NEntry
    OBVIOUS
  <1>1. \A k \in 1..Len(log) : log[k].term \in Nat
    BY <1>0 DEF NEntry
  <1> QED BY <1>1 DEF Fits

\* A prefix of a log that fits fits.
LEMMA FitsPrefix ==
    ASSUME NEW G, NEW T, NEW l1 \in Seq(NEntry), NEW l2 \in Seq(NEntry), Fits(G, T, l2), SamePrefix(l1, l2, Len(l1))
    PROVE  Fits(G, T, l1)
  <1>1. SUFFICES ASSUME NEW k \in 1..Len(l1) PROVE l1[k].term <= T /\ SamePrefix(l1, G[l1[k].term], k)
    BY DEF Fits
  <1>2. Len(l1) \in Nat /\ Len(l2) \in Nat /\ Len(l1) <= Len(l2) /\ \A i \in 1..Len(l1) : l1[i] = l2[i]
    BY DEF SamePrefix
  <1>3. k \in 1..Len(l2) /\ l1[k] = l2[k] /\ k <= Len(l1)
    BY <1>2
  <1> DEFINE g == G[l1[k].term]
  <1>4. l1[k].term <= T /\ SamePrefix(l2, g, k)
    BY <1>3 DEF Fits
  <1> HIDE DEF g
  <1>5. SamePrefix(l1, g, k)
    BY <1>2, <1>3, <1>4 DEF SamePrefix
  <1> QED BY <1>4, <1>5 DEF g

\* Ordinary messages repeat the log of their sender.
LEMMA OrdinaryCopies ==
    ASSUME NEW s, IsRaft(s), NEW m, MsgOK(s.conf, m), Ordinary(s, m)
    PROVE  Copies(s.log, m)
  <1>1. CASE m.type = "MsgAppend"
    <2>1. Carries(s.log, m) /\ m.log_term \in Nat
      BY <1>1 DEF Ordinary, MsgOK
    <2> QED BY <1>1, <2>1 DEF Carries, Copies
  <1>2. CASE m.type = "MsgSnapshot"
    <2>1. /\ m.snapshot.index <= Len(s.log) /\ \A k \in 1..m.snapshot.index : m.snapshot.log[k] = s.log[k]
          /\ Len(m.snapshot.log) = m.snapshot.index /\ m.snapshot.index \in Nat
      BY <1>2 DEF Ordinary, MsgOK
    <2> QED BY <1>2, <2>1 DEF Copies, SamePrefix
  <1> QED BY <1>1, <1>2 DEF Copies

\* A method that keeps role, term, votes and log is a move.
LEMMA KeepsMoves ==
    ASSUME NEW G, NEW s, IsRaft(s), NEW t, Keeps(s, t)
    PROVE  Moves(G, s, t)
  <1>1. \A m \in t.msgs \ s.msgs : Copies(s.log, m)
    BY OrdinaryCopies DEF Keeps
  <1>2. t.state = s.state /\ t.log = s.log /\ t.term = s.term /\ s.state \in {"Follower", "PreCandidate", "Candidate", "Leader"}
    BY DEF Keeps, IsRaft
  <1> QED BY <1>1, <1>2 DEF Moves

\* A move followed by such a method is a move.
LEMMA MovesKeeps ==
    ASSUME NEW G, NEW s, NEW t, NEW u, IsRaft(t), s.msgs \subseteq t.msgs, Moves(G, s, t), Keeps(t, u)
    PROVE  Moves(G, s, u)
  <1>1. \A m \in u.msgs \ t.msgs : Copies(t.log, m)
    BY OrdinaryCopies DEF Keeps
  <1>2. u.state = t.state /\ u.term = t.term /\ u.log = t.log
    BY DEF Keeps
  <1> QED BY <1>1, <1>2 DEF Moves

\* A node that steps down silently before it moves
LEMMA FollowMoves ==
    ASSUME NEW G, NEW s, NEW t, NEW u, s.term \in Nat, t.term \in Nat, u.term \in Nat, s.term <= t.term,
           t.state = "Follower", t.log = s.log, t.msgs = s.msgs, Moves(G, t, u)
    PROVE  Moves(G, s, u)
  BY DEF Moves

\* A node that steps down after it has moved
LEMMA RetireMoves ==
    ASSUME NEW G, NEW s, NEW t, IsRaft(t), Moves(G, s, t), t.state # "Leader", NEW x
    PROVE  Moves(G, s, BecomeFollower(t, t.term, x))
  <1> DEFINE r == BecomeFollower(t, t.term, x)
  <1>1. r.state = "Follower" /\ r.msgs = t.msgs /\ r.log = t.log /\ r.term = t.term
    BY BecomeFollowerFields, LogTypes
  <1> HIDE DEF r
  <1>2. Moves(G, s, r)
    BY <1>1 DEF Moves
  <1> QED BY <1>2 DEF r

\* Stepping down at once
LEMMA BecomeFollowerMoves ==
    ASSUME NEW G, NEW s, IsRaft(s), NEW t \in Nat, NEW x
    PROVE  Moves(G, s, BecomeFollower(s, t, x))
  <1> DEFINE r == BecomeFollower(s, t, x)
  <1>1. r.state = "Follower" /\ r.msgs = s.msgs /\ r.log = s.log
    BY BecomeFollowerFields
  <1> HIDE DEF r
  <1>2. Moves(G, s, r)
    BY <1>1 DEF Moves
  <1> QED BY <1>2 DEF r

\* Raft::append_entry appends one entry of the leader's term.
LEMMA AppendEntryMoves ==
    ASSUME NEW G, NEW s, IsRaft(s), s.state = "Leader", NEW e, e.type = "Normal", e.data \in Value \cup {Empty}
    PROVE  Moves(G, s, AppendEntry(s, e))
  <1> DEFINE x == [term |-> s.term, type |-> e.type, data |-> e.data]
             t == AppendEntry(s, e)
  <1>1. x \in NEntry /\ x.term = s.term
    BY DEF IsRaft, NEntry
  <1> HIDE DEF x
  <1>2. t = [s EXCEPT !.log = Append(s.log, x)]
    BY DEF AppendEntry, x
  <1> HIDE DEF t
  <1>3. t.state = s.state /\ t.msgs = s.msgs /\ t.log = Append(s.log, x)
    BY <1>2 DEF IsRaft, RaftFields
  <1>4. Moves(G, s, t)
    BY <1>1, <1>3 DEF Moves
  <1> QED BY <1>4 DEF t

\* MsgPropose of a leader moves its log.
LEMMA HandleProposeMoves ==
    ASSUME NEW G, NEW s, IsRaft(s), s.state = "Leader", NEW N, NEW L, VotesOK(N, L, s),
           NEW m, MsgOK(s.conf, m), m.type = "MsgPropose"
    PROVE  Moves(G, s, HandlePropose(s, m))
  <1>1. m.entry.type = "Normal" /\ m.entry.data \in Value \cup {Empty}
    BY DEF MsgOK
  <1> DEFINE t == AppendEntry(s, m.entry)
  <1>2. Moves(G, s, t) /\ t.state = s.state /\ t.msgs = s.msgs
    BY <1>1, AppendEntryMoves DEF AppendEntry, IsRaft, RaftFields
  <1>3. IsRaft(t)
    BY <1>1, AppendEntrySteps DEF Steps
  <1> HIDE DEF t
  <1>4. Keeps(t, BcastAppend(t))
    BY <1>2, <1>3, BcastAppendKeeps
  <1>5. Moves(G, s, BcastAppend(t)) /\ Moves(G, s, s)
    BY <1>2, <1>3, <1>4, MovesKeeps, KeepsRefl, KeepsMoves
  <1> QED BY <1>1, <1>5 DEF HandlePropose, t

\* Raft::become_leader, field by field.
LEMMA BecomeLeaderFields ==
    ASSUME NEW s, IsRaft(s), s.term > 0, NEW t, t = BecomeLeader(s)
    PROVE  /\ DOMAIN t = RaftFields
           /\ t.id = s.id /\ t.config = s.config /\ t.conf = s.conf /\ t.term = s.term /\ t.vote = s.vote
           /\ t.state = "Leader" /\ t.first = s.first /\ t.snap = s.snap /\ t.committed = s.committed
           /\ t.persisted = s.persisted /\ t.applied = s.applied /\ t.msgs = s.msgs
           /\ t.prs = LeaderProgress(s) /\ t.reads = <<>> /\ t.pending_request_snapshot = 0
           /\ \E e \in NEntry : e.term = s.term /\ t.log = Append(s.log, e)
  <1> DEFINE q == Reset(s, s.term)
             prs == LeaderProgress(s)
             r == [q EXCEPT !.leader_id = s.id, !.state = "Leader", !.prs = prs, !.pending_conf_index = LastIndex(s)]
             x == [term |-> r.term, type |-> "Normal", data |-> Empty]
  <1>1. /\ DOMAIN q = RaftFields
        /\ q.id = s.id /\ q.config = s.config /\ q.conf = s.conf /\ q.term = s.term
        /\ q.vote = s.vote /\ q.pending_request_snapshot = 0
        /\ q.log = s.log /\ q.first = s.first /\ q.snap = s.snap /\ q.committed = s.committed
        /\ q.persisted = s.persisted /\ q.applied = s.applied /\ q.msgs = s.msgs
    BY ResetFields
  <1>2. q.reads = <<>>
    BY DEF Reset, IsRaft, RaftFields
  <1>3. t = AppendEntry(r, NormalEntry(Empty))
    BY DEF BecomeLeader, r, q, prs
  <1> HIDE DEF q, prs
  <1>4. /\ DOMAIN r = RaftFields
        /\ r.id = s.id /\ r.config = s.config /\ r.conf = s.conf /\ r.term = s.term
        /\ r.vote = s.vote /\ r.state = "Leader" /\ r.prs = prs /\ r.reads = <<>>
        /\ r.log = s.log /\ r.first = s.first /\ r.snap = s.snap /\ r.committed = s.committed
        /\ r.persisted = s.persisted /\ r.applied = s.applied /\ r.msgs = s.msgs
        /\ r.pending_request_snapshot = 0
    BY <1>1, <1>2 DEF RaftFields
  <1> HIDE DEF r
  <1>5. t = [r EXCEPT !.log = Append(r.log, x)]
    BY <1>3 DEF AppendEntry, NormalEntry
  <1>6. x \in NEntry /\ x.term = s.term
    <2>1. s.term \in Nat \ {0}
      BY DEF IsRaft
    <2> QED BY <2>1, <1>4 DEF NEntry
  <1> HIDE DEF x
  <1>7. /\ DOMAIN t = RaftFields
        /\ t.id = r.id /\ t.config = r.config /\ t.conf = r.conf /\ t.term = r.term
        /\ t.vote = r.vote /\ t.state = "Leader" /\ t.prs = prs /\ t.reads = <<>>
        /\ t.log = Append(r.log, x) /\ t.first = r.first /\ t.snap = r.snap /\ t.committed = r.committed
        /\ t.persisted = r.persisted /\ t.applied = r.applied /\ t.msgs = r.msgs
        /\ t.pending_request_snapshot = 0
    BY <1>4, <1>5 DEF RaftFields
  <1>8. \E e \in NEntry : e.term = s.term /\ t.log = Append(s.log, e)
    BY <1>4, <1>6, <1>7
  <1> QED BY <1>4, <1>7, <1>8 DEF prs

\* Whoever wins an election appends an entry of its term to its log.
LEMMA WinElectionMoves ==
    ASSUME NEW G, NEW N, NEW L, NEW s, IsRaft(s), s.state = "Candidate",
           Backed(N \cup s.msgs, L, s.conf, s.id, s.term)
    PROVE  Moves(G, s, WinElection(s))
  <1> DEFINE t == BecomeLeader(s)
  <1>1. s.term > 0
    BY DEF IsRaft
  <1>2. t.state = "Leader" /\ t.msgs = s.msgs /\ \E e \in NEntry : e.term = s.term /\ t.log = Append(s.log, e)
    BY <1>1, BecomeLeaderFields
  <1>3. IsRaft(t)
    BY BecomeLeaderSteps DEF Steps
  <1> HIDE DEF t
  <1>4. Moves(G, s, t)
    BY <1>2 DEF Moves
  <1>5. Keeps(t, BcastAppend(t))
    BY <1>2, <1>3, BcastAppendKeeps
  <1> QED BY <1>2, <1>3, <1>4, <1>5, MovesKeeps DEF WinElection, t

\* Raft::campaign, field by field: one's own vote is not enough, so votes are asked
\* for, in the next term.
LEMMA CampaignElectionFields ==
    ASSUME NEW s, IsRaft(s), NEW transfer, NEW r, r = CampaignElection(s, transfer)
    PROVE  /\ DOMAIN r = RaftFields
           /\ r.id = s.id /\ r.config = s.config /\ r.conf = s.conf /\ r.term = s.term + 1
           /\ r.vote = s.id /\ r.state = "Candidate"
           /\ r.log = s.log /\ r.first = s.first /\ r.snap = s.snap /\ r.committed = s.committed
           /\ r.persisted = s.persisted /\ r.applied = s.applied /\ r.pending_request_snapshot = 0
           /\ s.msgs \subseteq r.msgs
           /\ \A m \in r.msgs \ s.msgs :
                 \E j, c : /\ m = VoteRequest(c, "MsgRequestVote", j, s.term + 1, transfer)
                           /\ c.log = s.log /\ c.first = s.first /\ c.snap = s.snap /\ c.committed = s.committed
  <1> DEFINE q == Reset(s, s.term + 1)
             b == BecomeCandidate(s)
             c == RecordOwn(b, s.id, TRUE)
  <1>1. /\ DOMAIN q = RaftFields
        /\ q.id = s.id /\ q.config = s.config /\ q.conf = s.conf /\ q.term = s.term + 1
        /\ q.pending_request_snapshot = 0 /\ q.votes = <<>>
        /\ q.log = s.log /\ q.first = s.first /\ q.snap = s.snap /\ q.committed = s.committed
        /\ q.persisted = s.persisted /\ q.applied = s.applied /\ q.msgs = s.msgs
    BY ResetFields
  <1>2. b = [q EXCEPT !.vote = s.id, !.state = "Candidate"]
    BY DEF BecomeCandidate
  <1> HIDE DEF q, b
  <1>3. /\ DOMAIN b = RaftFields
        /\ b.id = s.id /\ b.config = s.config /\ b.conf = s.conf /\ b.term = s.term + 1
        /\ b.vote = s.id /\ b.state = "Candidate" /\ b.votes = <<>>
        /\ b.pending_request_snapshot = 0
        /\ b.log = s.log /\ b.first = s.first /\ b.snap = s.snap /\ b.committed = s.committed
        /\ b.persisted = s.persisted /\ b.applied = s.applied /\ b.msgs = s.msgs
    BY <1>1, <1>2 DEF RaftFields
  <1>4. c = [b EXCEPT !.votes = RecordVote(<<>>, s.id, TRUE)]
    BY <1>3 DEF RecordOwn
  <1> HIDE DEF c
  <1>5. /\ DOMAIN c = RaftFields
        /\ c.id = s.id /\ c.config = s.config /\ c.conf = s.conf /\ c.term = s.term + 1
        /\ c.vote = s.id /\ c.state = "Candidate" /\ c.votes = RecordVote(<<>>, s.id, TRUE)
        /\ c.pending_request_snapshot = 0
        /\ c.log = s.log /\ c.first = s.first /\ c.snap = s.snap /\ c.committed = s.committed
        /\ c.persisted = s.persisted /\ c.applied = s.applied /\ c.msgs = s.msgs
    BY <1>3, <1>4 DEF RaftFields
  <1>6. VoteResult(c.conf, c.votes) # "Won"
    <2>1. FixedConf(s.conf)
      BY DEF IsRaft
    <2> QED BY <2>1, <1>5, OwnVoteNeverWins
  <1>7. r = RequestVotes(c, "MsgRequestVote", c.term, transfer)
    BY <1>6 DEF CampaignElection, c, b
  <1>8. /\ DOMAIN r = RaftFields /\ (\A f \in RaftFields \ {"msgs"} : r[f] = c[f])
        /\ r.msgs = c.msgs \cup {VoteRequest(c, "MsgRequestVote", j, c.term, transfer) : j \in VotersOf(c.conf) \ {c.id}}
    <2>1. DOMAIN c = RaftFields
      BY <1>5
    <2> QED BY <2>1, <1>7, RequestVotesFields
  <1>9. /\ r.id = s.id /\ r.config = s.config /\ r.conf = s.conf /\ r.term = s.term + 1
        /\ r.vote = s.id /\ r.state = "Candidate"
        /\ r.log = s.log /\ r.first = s.first /\ r.snap = s.snap /\ r.committed = s.committed
        /\ r.persisted = s.persisted /\ r.applied = s.applied /\ r.pending_request_snapshot = 0
    BY <1>5, <1>8 DEF RaftFields
  <1>10. ASSUME NEW m \in r.msgs \ s.msgs
         PROVE  \E j, d : /\ m = VoteRequest(d, "MsgRequestVote", j, s.term + 1, transfer)
                          /\ d.log = s.log /\ d.first = s.first /\ d.snap = s.snap /\ d.committed = s.committed
    <2>1. PICK j \in VotersOf(c.conf) \ {c.id} : m = VoteRequest(c, "MsgRequestVote", j, c.term, transfer)
      BY <1>5, <1>8
    <2> QED BY <2>1, <1>5
  <1> QED BY <1>5, <1>8, <1>9, <1>10

\* Raft::campaign before an election, field by field.
LEMMA CampaignPreElectionFields ==
    ASSUME NEW s, IsRaft(s), NEW r, r = CampaignPreElection(s)
    PROVE  /\ DOMAIN r = RaftFields
           /\ r.id = s.id /\ r.config = s.config /\ r.conf = s.conf /\ r.term = s.term
           /\ r.vote = s.vote /\ r.state = "PreCandidate"
           /\ r.log = s.log /\ r.first = s.first /\ r.snap = s.snap /\ r.committed = s.committed
           /\ r.persisted = s.persisted /\ r.applied = s.applied
           /\ r.pending_request_snapshot = s.pending_request_snapshot
           /\ s.msgs \subseteq r.msgs
           /\ \A m \in r.msgs \ s.msgs :
                 \E j, c, x : /\ m = VoteRequest(c, "MsgRequestPreVote", j, s.term + 1, x)
                              /\ c.log = s.log /\ c.first = s.first /\ c.snap = s.snap /\ c.committed = s.committed
  <1> DEFINE b == BecomePreCandidate(s)
             c == RecordOwn(b, s.id, TRUE)
             no == FALSE
             y == c.term + 1
  <1>3. /\ DOMAIN b = RaftFields
        /\ b.id = s.id /\ b.config = s.config /\ b.conf = s.conf /\ b.term = s.term
        /\ b.vote = s.vote /\ b.state = "PreCandidate" /\ b.votes = <<>>
        /\ b.pending_request_snapshot = s.pending_request_snapshot
        /\ b.log = s.log /\ b.first = s.first /\ b.snap = s.snap /\ b.committed = s.committed
        /\ b.persisted = s.persisted /\ b.applied = s.applied /\ b.msgs = s.msgs
    BY DEF BecomePreCandidate, RaftFields, IsRaft
  <1> HIDE DEF b
  <1>4. c = [b EXCEPT !.votes = RecordVote(<<>>, s.id, TRUE)]
    BY <1>3 DEF RecordOwn
  <1> HIDE DEF c
  <1>5. /\ DOMAIN c = RaftFields
        /\ c.id = s.id /\ c.config = s.config /\ c.conf = s.conf /\ c.term = s.term
        /\ c.vote = s.vote /\ c.state = "PreCandidate" /\ c.votes = RecordVote(<<>>, s.id, TRUE)
        /\ c.pending_request_snapshot = s.pending_request_snapshot
        /\ c.log = s.log /\ c.first = s.first /\ c.snap = s.snap /\ c.committed = s.committed
        /\ c.persisted = s.persisted /\ c.applied = s.applied /\ c.msgs = s.msgs
    BY <1>3, <1>4 DEF RaftFields
  <1>6. VoteResult(c.conf, c.votes) # "Won"
    <2>1. FixedConf(s.conf)
      BY DEF IsRaft
    <2> QED BY <2>1, <1>5, OwnVoteNeverWins
  <1>7. r = RequestVotes(c, "MsgRequestPreVote", y, no)
    BY <1>6 DEF CampaignPreElection, c, b
  <1>70. y = s.term + 1
    BY <1>5
  <1> HIDE DEF no, y
  <1>8. /\ DOMAIN r = RaftFields /\ (\A f \in RaftFields \ {"msgs"} : r[f] = c[f])
        /\ r.msgs = c.msgs \cup {VoteRequest(c, "MsgRequestPreVote", j, y, no) : j \in VotersOf(c.conf) \ {c.id}}
    <2>1. DOMAIN c = RaftFields
      BY <1>5
    <2> QED BY <2>1, <1>7, RequestVotesFields
  <1>9. /\ r.id = s.id /\ r.config = s.config /\ r.conf = s.conf /\ r.term = s.term
        /\ r.vote = s.vote /\ r.state = "PreCandidate"
        /\ r.log = s.log /\ r.first = s.first /\ r.snap = s.snap /\ r.committed = s.committed
        /\ r.persisted = s.persisted /\ r.applied = s.applied
        /\ r.pending_request_snapshot = s.pending_request_snapshot
    BY <1>5, <1>8 DEF RaftFields
  <1>10. ASSUME NEW m \in r.msgs \ s.msgs
         PROVE  \E j, d, x : /\ m = VoteRequest(d, "MsgRequestPreVote", j, s.term + 1, x)
                             /\ d.log = s.log /\ d.first = s.first /\ d.snap = s.snap /\ d.committed = s.committed
    <2>1. PICK j \in VotersOf(c.conf) \ {c.id} : m = VoteRequest(c, "MsgRequestPreVote", j, y, no)
      BY <1>5, <1>8
    <2> QED BY <2>1, <1>5, <1>70
  <1> QED BY <1>5, <1>8, <1>9, <1>10

\* Raft::campaign keeps the log.
LEMMA CampaignMoves ==
    ASSUME NEW G, NEW s, IsRaft(s), NEW transfer
    PROVE  Moves(G, s, CampaignElection(s, transfer)) /\ Moves(G, s, CampaignPreElection(s))
  <1>2. \A d, j, x, y : Copies(s.log, VoteRequest(d, "MsgRequestVote", j, x, y)) /\ Copies(s.log, VoteRequest(d, "MsgRequestPreVote", j, x, y))
    BY DEF VoteRequest, Copies
  <1>3. Moves(G, s, CampaignElection(s, transfer))
    <2> DEFINE r == CampaignElection(s, transfer)
    <2>1. /\ r.state = "Candidate" /\ r.log = s.log /\ r.term = s.term + 1
          /\ \A m \in r.msgs \ s.msgs : \E j, c : m = VoteRequest(c, "MsgRequestVote", j, s.term + 1, transfer)
      BY CampaignElectionFields
    <2> HIDE DEF r
    <2>2. \A m \in r.msgs \ s.msgs : Copies(r.log, m)
      BY <2>1, <1>2
    <2>3. s.term + 1 > s.term
      BY LogTypes
    <2>4. Moves(G, s, r)
      BY <2>1, <2>2, <2>3 DEF Moves
    <2> QED BY <2>4 DEF r
  <1>4. Moves(G, s, CampaignPreElection(s))
    <2> DEFINE r == CampaignPreElection(s)
    <2>1. /\ r.state = "PreCandidate" /\ r.log = s.log
          /\ \A m \in r.msgs \ s.msgs : \E j, c, x : m = VoteRequest(c, "MsgRequestPreVote", j, s.term + 1, x)
      BY CampaignPreElectionFields
    <2> HIDE DEF r
    <2>2. \A m \in r.msgs \ s.msgs : Copies(r.log, m)
      BY <2>1, <1>2
    <2>4. Moves(G, s, r)
      BY <2>1, <2>2 DEF Moves
    <2> QED BY <2>4 DEF r
  <1> QED BY <1>3, <1>4

\* Raft::hup keeps the log.
LEMMA HupMoves ==
    ASSUME NEW G, NEW s, IsRaft(s), NEW transfer
    PROVE  Moves(G, s, Hup(s, transfer))
  BY KeepsRefl, KeepsMoves, CampaignMoves DEF Hup

\* An answer to count
Answers(N, L, s, from, granted) ==
    s.state = "Candidate" /\ granted => from \in s.conf.progress /\ Voted(N \cup s.msgs, L, from, s.id, s.term)

\* A vote is counted.
LEMMA RecordOwnFields ==
    ASSUME NEW N, NEW L, NEW s, IsRaft(s), VotesOK(N, L, s), NEW from, NEW granted, Answers(N, L, s, from, granted),
           NEW p, p = RecordOwn(s, from, granted)
    PROVE  /\ IsRaft(p) /\ VotesOK(N, L, p)
           /\ \A f \in RaftFields \ {"votes"} : p[f] = s[f]
  <1> DEFINE votes == RecordVote(s.votes, from, granted)
  <1>1. p = [s EXCEPT !.votes = votes]
    BY DEF RecordOwn
  <1>2. IsRaft(p)
    <2> HIDE DEF votes
    <2> QED BY <1>1 DEF IsRaft, RaftFields
  <1>3. p.votes = votes /\ \A f \in RaftFields \ {"votes"} : p[f] = s[f]
    <2> HIDE DEF votes
    <2> QED BY <1>1 DEF IsRaft, RaftFields
  <1>4. p.id = s.id /\ p.conf = s.conf /\ p.term = s.term /\ p.state = s.state /\ p.msgs = s.msgs
    BY <1>3 DEF RaftFields
  <1>5. VotesOK(N, L, p)
    BY <1>3, <1>4 DEF VotesOK, RecordVote, Answers
  <1> QED BY <1>2, <1>3, <1>5

\* Raft::poll keeps the log, or wins the election.
LEMMA PollMoves ==
    ASSUME NEW G, NEW N, NEW L, NEW s, IsRaft(s), VotesOK(N, L, s), s.state \in {"Candidate", "PreCandidate"},
           NEW from, NEW granted,
           s.state = "Candidate" /\ granted => from \in s.conf.progress /\ Voted(N \cup s.msgs, L, from, s.id, s.term)
    PROVE  Moves(G, s, Poll(s, from, granted))
  <1> DEFINE p == RecordOwn(s, from, granted)
             result == VoteResult(s.conf, p.votes)
             no == FALSE
  <1>0. Answers(N, L, s, from, granted)
    BY DEF Answers
  <1>1. IsRaft(p) /\ VotesOK(N, L, p) /\ \A f \in RaftFields \ {"votes"} : p[f] = s[f]
    BY <1>0, RecordOwnFields
  <1> HIDE DEF p, no
  <1>2. p.state = s.state /\ p.conf = s.conf /\ p.term = s.term /\ p.log = s.log /\ p.msgs = s.msgs /\ p.term \in Nat
    BY <1>1, LogTypes DEF RaftFields
  <1>3. \A u : Moves(G, p, u) => Moves(G, s, u)
    BY <1>2 DEF Moves
  <1>4. result \in {"Won", "Lost", "Pending"}
    BY DEF VoteResult
  <1> HIDE DEF result
  <1>5. Moves(G, p, p) /\ Moves(G, p, BecomeFollower(p, p.term, None)) /\ Moves(G, p, CampaignElection(p, no))
    BY <1>1, <1>2, KeepsRefl, KeepsMoves, BecomeFollowerMoves, CampaignMoves
  <1>6. ASSUME s.state = "Candidate", result = "Won" PROVE Moves(G, p, WinElection(p))
    BY <1>1, <1>2, <1>6, WonIsBacked, WinElectionMoves DEF result
  <1> QED BY <1>3, <1>4, <1>5, <1>6 DEF Poll, result, p, no

\* Raft::maybe_commit_by_vote keeps the log.
LEMMA MaybeCommitByVoteMoves ==
    ASSUME NEW G, NEW s, NEW t, IsRaft(t), s.msgs \subseteq t.msgs, Moves(G, s, t), NEW m
    PROVE  Moves(G, s, MaybeCommitByVote(t, m))
  <1> DEFINE c == LogMaybeCommit(t, m.commit, m.commit_term)
  <1>2. SUFFICES ASSUME m.commit_term # 0, t.state # "Leader"
                 PROVE  Moves(G, s, c) /\ Moves(G, s, BecomeFollower(c, c.term, None))
    BY DEF MaybeCommitByVote
  <1>3. Keeps(t, c)
    BY <1>2, LogMaybeCommitKeeps
  <1> HIDE DEF c
  <1>4. Moves(G, s, c) /\ c.state # "Leader" /\ IsRaft(c)
    BY <1>2, <1>3, MovesKeeps DEF Keeps
  <1> QED BY <1>4, RetireMoves

\* Raft::step keeps the log on a vote request.
LEMMA HandleVoteRequestMoves ==
    ASSUME NEW G, NEW s, IsRaft(s), NEW m, m.type \in VoteRequests, MsgOK(s.conf, m)
    PROVE  Moves(G, s, HandleVoteRequest(s, m))
  <1> DEFINE g == VoteGrant(s, m)
             no == FALSE
             t == [Send(s, g) EXCEPT !.vote = m.from, !.expired = no]
             r == Send(s, VoteReject(s, m))
  <1>1. Moves(G, s, MaybeCommitByVote(r, m))
    <2>1. Keeps(s, r)
      BY VoteRejectOK
    <2> HIDE DEF r
    <2>2. IsRaft(r) /\ s.msgs \subseteq r.msgs /\ Moves(G, s, r)
      BY <2>1, KeepsMoves DEF Keeps
    <2> QED BY <2>2, MaybeCommitByVoteMoves
  <1>2. g.type \in VoteResponses
    BY DEF VoteGrant, VoteResponseType, VoteResponses
  <1> HIDE DEF g, no
  <1>3. \A log : Copies(log, g)
    BY <1>2 DEF Copies, VoteResponses
  <1>4. /\ t.state = s.state /\ t.log = s.log /\ t.term = s.term /\ t.msgs = s.msgs \cup {g}
        /\ Send(s, g).state = s.state /\ Send(s, g).log = s.log /\ Send(s, g).term = s.term /\ Send(s, g).msgs = s.msgs \cup {g}
        /\ s.state \in {"Follower", "PreCandidate", "Candidate", "Leader"}
    BY DEF Send, IsRaft, RaftFields
  <1>5. Moves(G, s, t) /\ Moves(G, s, Send(s, g))
    BY <1>3, <1>4 DEF Moves
  <1> QED BY <1>1, <1>5 DEF HandleVoteRequest, g, no, t, r

\* The answers to vote requests: only winning changes the log.
LEMMA HandleVoteResponseMoves ==
    ASSUME NEW G, NEW N, NEW L, NEW s, IsRaft(s), VotesOK(N, L, s), s.state \in {"Candidate", "PreCandidate"},
           NEW m, MsgOK(s.conf, m), m.from \in s.conf.progress, m.to = s.id,
           m.type = "MsgRequestVoteResponse" => m \in N /\ m.term \in {0, s.term}
    PROVE  Moves(G, s, HandleVoteResponse(s, m))
  <1> DEFINE expected == IF s.state = "PreCandidate" THEN "MsgRequestPreVoteResponse"
                                                     ELSE "MsgRequestVoteResponse"
             granted == ~m.reject
             t == Poll(s, m.from, granted)
  <1>1. SUFFICES ASSUME m.type = expected PROVE Moves(G, s, MaybeCommitByVote(t, m))
    BY KeepsRefl, KeepsMoves DEF HandleVoteResponse
  <1>2. ASSUME s.state = "Candidate", ~m.reject PROVE Voted(N \cup s.msgs, L, m.from, s.id, s.term)
    <2>1. m.type = "MsgRequestVoteResponse" /\ m \in N
      BY <1>1, <1>2
    <2>2. m.term = s.term
      BY <1>2, <2>1 DEF MsgOK
    <2> QED BY <1>2, <2>1, <2>2 DEF Voted, IsGrant
  <1>3. s.state = "Candidate" /\ granted => m.from \in s.conf.progress /\ Voted(N \cup s.msgs, L, m.from, s.id, s.term)
    BY <1>2
  <1> HIDE DEF granted
  <1>4. Moves(G, s, t) /\ Steps(N, L, s, t)
    BY <1>3, PollMoves, PollSteps
  <1> HIDE DEF t
  <1>5. IsRaft(t) /\ s.msgs \subseteq t.msgs
    BY <1>4 DEF Steps
  <1> QED BY <1>4, <1>5, MaybeCommitByVoteMoves

\* Where the log has an entry of the term of a leader's log, it is that log so far.
LEMMA MatchingPrefix ==
    ASSUME NEW G, NEW s, IsRaft(s), NEW m, Fitting(G, s, m), s.term \in Nat, m.term \in Nat,
           NEW p \in Nat, p > 0, p <= Len(G[m.term]), TermAt(s, p) = G[m.term][p].term
    PROVE  SamePrefix(s.log, G[m.term], p)
  <1> DEFINE g == G[m.term]
  <1>1. g \in Seq(NEntry) /\ Fits(G, m.term, g) /\ Fits(G, s.term, s.log) /\ s.log \in Seq(NEntry)
    BY DEF Fitting, Logs, IsRaft
  <1>2. p \in 1..Len(g) /\ TermAt(s, p) = g[p].term
    BY <1>1
  <1> HIDE DEF g
  <1>3. g[p].term > 0
    <2>1. g[p] \in NEntry
      BY <1>1, <1>2
    <2> QED BY <2>1 DEF NEntry
  <1>4. p \in 1..Len(s.log) /\ s.log[p].term = g[p].term
    BY <1>2, <1>3, TermAtType
  <1>5. SamePrefix(s.log, g, p)
    BY <1>1, <1>2, <1>4, FitsAgree
  <1> QED BY <1>5 DEF g

\* What RaftLog::maybe_append of a MsgAppend that matches does: up to the first
\* conflict the log is the leader's, and so is what replaces the rest.
Appended(G, s, m, t, conflict, last) ==
    /\ conflict = 0 => /\ t.log = s.log /\ t.persisted = s.persisted
                       /\ m.entries # <<>> \/ m.log_term > 0 => SamePrefix(s.log, G[m.term], last)
    /\ conflict # 0 => /\ conflict \in Nat /\ m.index < conflict /\ conflict <= last
                       /\ SamePrefix(s.log, G[m.term], conflict - 1)
                       /\ ~MatchTerm(s, conflict, G[m.term][conflict].term)
                       /\ Len(t.log) = last /\ SamePrefix(t.log, G[m.term], last)
    /\ t.state = s.state /\ t.term = s.term /\ t.msgs = s.msgs
    /\ t.first = s.first /\ t.snap = s.snap /\ t.applied = s.applied
    /\ t.pending_request_snapshot = s.pending_request_snapshot
    /\ t.committed = (IF MinOf({m.commit, last}) > s.committed THEN MinOf({m.commit, last}) ELSE s.committed)

\* RaftLog::maybe_append of a MsgAppend that matches.
LEMMA AppendMatchingLog ==
    ASSUME NEW G, NEW s, IsRaft(s), NEW m, MsgOK(s.conf, m), m.type = "MsgAppend", MatchTerm(s, m.index, m.log_term),
           Fitting(G, s, m)
    PROVE  Appended(G, s, m, AppendMatching(s, m), FindConflict(s, m.index, m.entries), m.index + Len(m.entries))
  <1> SUFFICES ASSUME NEW t, t = AppendMatching(s, m), NEW conflict, conflict = FindConflict(s, m.index, m.entries),
                         NEW last, last = m.index + Len(m.entries)
                  PROVE  Appended(G, s, m, t, conflict, last)
    OBVIOUS
  <1> DEFINE g == G[m.term]
             log == SubSeq(s.log, 1, conflict - 1) \o SubSeq(m.entries, conflict - m.index, Len(m.entries))
             p == MinOf({s.persisted, conflict - 1})
             a == [s EXCEPT !.log = log, !.persisted = p]
             b == IF conflict = 0 THEN s ELSE a
             c == MinOf({m.commit, last})
  <1>0. /\ m.index \in Nat /\ m.log_term \in Nat /\ m.commit \in Nat /\ m.entries \in Seq(NEntry) /\ m.term \in Nat
        /\ m.entries # <<>> => m.log_term > 0 \/ m.index = 0
        /\ s.term \in Nat /\ s.log \in Seq(NEntry)
    BY DEF MsgOK, IsRaft
  <1>1. g \in Seq(NEntry)
    BY <1>0 DEF Fitting, Logs
  <1>2. /\ m.log_term > 0 => m.index \in 1..Len(g) /\ g[m.index].term = m.log_term
        /\ m.entries # <<>> => /\ last <= Len(g) /\ \A k \in 1..Len(m.entries) : m.entries[k] = g[m.index + k]
    BY DEF Fitting, Copies
  <1>3. t = CommitTo(b, c)
    BY DEF AppendMatching
  <1> HIDE DEF c, log, p
  <1>4. /\ b.log = (IF conflict = 0 THEN s.log ELSE log) /\ b.persisted = (IF conflict = 0 THEN s.persisted ELSE p)
        /\ b.state = s.state /\ b.term = s.term /\ b.msgs = s.msgs /\ b.committed = s.committed
        /\ b.first = s.first /\ b.snap = s.snap /\ b.applied = s.applied
        /\ b.pending_request_snapshot = s.pending_request_snapshot /\ DOMAIN b = RaftFields
    BY DEF IsRaft, RaftFields
  <1> HIDE DEF b
  <1>5. /\ t.log = b.log /\ t.persisted = b.persisted
        /\ t.state = b.state /\ t.term = b.term /\ t.msgs = b.msgs /\ t.first = b.first /\ t.snap = b.snap
        /\ t.applied = b.applied /\ t.pending_request_snapshot = b.pending_request_snapshot
        /\ t.committed = IF c > b.committed THEN c ELSE b.committed
    BY <1>3, <1>4 DEF CommitTo, RaftFields
  <1>6. \A k \in Nat : k > 0 /\ k <= Len(g) /\ TermAt(s, k) = g[k].term => SamePrefix(s.log, g, k)
    BY <1>0, MatchingPrefix
  <1>7. m.log_term > 0 => SamePrefix(s.log, g, m.index)
    BY <1>0, <1>1, <1>2, <1>6 DEF MatchTerm
  <1>70. Len(m.entries) \in Nat /\ (m.entries = <<>> <=> Len(m.entries) = 0)
    BY <1>0
  <1>8. ASSUME conflict = 0, m.entries # <<>> \/ m.log_term > 0 PROVE SamePrefix(s.log, g, last)
    <2>1. CASE m.entries = <<>>
      BY <2>1, <1>0, <1>7, <1>8
    <2>2. CASE m.entries # <<>>
      <3> DEFINE k == Len(m.entries)
      <3>1. k \in 1..Len(m.entries) /\ last \in Nat /\ last > 0 /\ last = m.index + k
        BY <2>2, <1>0, <1>70
      <3>2. MatchTerm(s, m.index + k, m.entries[k].term)
        <4>1. \A x \in 1..Len(m.entries) : ~MatchTerm(s, m.index + x, m.entries[x].term) => FALSE
          <5> DEFINE missing == {x \in 1..Len(m.entries) : ~MatchTerm(s, m.index + x, m.entries[x].term)}
          <5>1. SUFFICES ASSUME missing # {} PROVE FALSE
            OBVIOUS
          <5>2. conflict = m.index + CHOOSE x \in missing : \A y \in missing : x <= y
            BY <5>1 DEF FindConflict
          <5>3. missing \in SUBSET Nat /\ missing \subseteq 1..Len(m.entries)
            OBVIOUS
          <5> HIDE DEF missing
          <5>4. (CHOOSE x \in missing : \A y \in missing : x <= y) \in missing
            BY <5>1, <5>3, LeastElement
          <5> DEFINE z == CHOOSE x \in missing : \A y \in missing : x <= y
          <5>5. conflict = m.index + z /\ z \in missing
            BY <5>2, <5>4
          <5> HIDE DEF z
          <5>6. z \in 1..Len(m.entries)
            BY <5>3, <5>5
          <5> QED BY <5>5, <5>6, <1>0, <1>8, <1>70
        <4> QED BY <4>1, <3>1
      <3>3. TermAt(s, last) = g[last].term
        BY <3>1, <3>2, <1>2, <2>2 DEF MatchTerm
      <3> QED BY <3>1, <3>3, <1>2, <1>6, <2>2
    <2> QED BY <2>1, <2>2
  <1>9. ASSUME conflict # 0
        PROVE  /\ conflict \in Nat /\ m.index < conflict /\ conflict <= last
               /\ SamePrefix(s.log, g, conflict - 1)
               /\ ~MatchTerm(s, conflict, g[conflict].term)
               /\ Len(log) = last /\ SamePrefix(log, g, last)
    <2> DEFINE missing == {x \in 1..Len(m.entries) : ~MatchTerm(s, m.index + x, m.entries[x].term)}
               k == CHOOSE x \in missing : \A y \in missing : x <= y
    <2>1. missing # {} /\ conflict = m.index + k
      BY <1>9 DEF FindConflict
    <2>2. missing \in SUBSET Nat /\ missing \subseteq 1..Len(m.entries)
      OBVIOUS
    <2>3. \A x \in 1..Len(m.entries) : x \in missing <=> ~MatchTerm(s, m.index + x, m.entries[x].term)
      OBVIOUS
    <2> HIDE DEF missing
    <2>4. k \in missing /\ \A y \in missing : k <= y
      BY <2>1, <2>2, LeastElement
    <2> HIDE DEF k
    <2>5. /\ k \in 1..Len(m.entries) /\ ~MatchTerm(s, m.index + k, m.entries[k].term)
          /\ \A x \in 1..(k - 1) : MatchTerm(s, m.index + x, m.entries[x].term)
      <3>1. k \in 1..Len(m.entries)
        BY <2>2, <2>4
      <3>2. ASSUME NEW x \in 1..(k - 1) PROVE MatchTerm(s, m.index + x, m.entries[x].term)
        <4>1. x \in 1..Len(m.entries) /\ ~(k <= x)
          BY <3>1, <1>70
        <4> QED BY <4>1, <2>3, <2>4
      <3> QED BY <3>1, <3>2, <2>3, <2>4
    <2>50. /\ m.index \in Nat /\ Len(m.entries) \in Nat /\ k \in Nat /\ k >= 1 /\ k <= Len(m.entries)
           /\ conflict = m.index + k /\ last = m.index + Len(m.entries)
      BY <2>1, <2>5, <1>0, <1>70
    <2>6. /\ conflict \in Nat /\ m.index < conflict /\ conflict <= last /\ last <= Len(g) /\ m.entries # <<>>
          /\ \A x \in 1..Len(m.entries) : m.entries[x] = g[m.index + x]
      BY <1>0, <1>2, <1>70, <2>1, <2>5
    <2>7. SamePrefix(s.log, g, conflict - 1)
      <3>1. CASE k = 1
        <4>1. conflict - 1 = m.index
          BY <3>1, <2>1, <1>0
        <4>2. CASE m.log_term > 0
          BY <4>1, <4>2, <1>7
        <4>3. CASE ~(m.log_term > 0)
          <5>1. m.index = 0
            BY <4>3, <2>6, <1>0
          <5> QED BY <5>1, <4>1, <1>0, <1>1 DEF SamePrefix
        <4> QED BY <4>2, <4>3
      <3>2. CASE k # 1
        <4>1. k - 1 \in 1..(k - 1) /\ k - 1 \in 1..Len(m.entries) /\ conflict - 1 = m.index + (k - 1)
              /\ conflict - 1 \in Nat /\ conflict - 1 > 0 /\ conflict - 1 <= Len(g)
          <5>1. Len(g) \in Nat
            BY <1>1
          <5> HIDE DEF g
          <5> QED BY <3>2, <2>50, <2>6, <5>1
        <4>2. TermAt(s, conflict - 1) = g[conflict - 1].term
          BY <4>1, <2>5, <2>6 DEF MatchTerm
        <4> QED BY <4>1, <4>2, <1>6
      <3> QED BY <3>1, <3>2
    <2>8. ~MatchTerm(s, conflict, g[conflict].term)
      BY <2>1, <2>5, <2>6
    <2> DEFINE h == SubSeq(s.log, 1, conflict - 1)
               e == SubSeq(m.entries, k, Len(m.entries))
    <2>9. h \in Seq(NEntry) /\ Len(h) = conflict - 1 /\ \A x \in 1..(conflict - 1) : h[x] = g[x]
      <3>1. conflict - 1 <= Len(s.log) /\ \A x \in 1..(conflict - 1) : s.log[x] = g[x]
        BY <2>7 DEF SamePrefix
      <3> QED BY <3>1, <2>6, <1>0
    <2>10. /\ e \in Seq(NEntry) /\ Len(e) = Len(m.entries) - k + 1
           /\ \A x \in 1..Len(e) : e[x] = m.entries[k + x - 1]
      BY <2>5, <1>0, <1>70
    <2>11. log = h \o e
      <3>1. conflict - m.index = k
        BY <2>1, <2>5, <1>0, <1>70
      <3> QED BY <3>1 DEF log
    <2> HIDE DEF h, e
    <2> DEFINE i == m.index
               n == Len(m.entries)
    <2>110. /\ i \in Nat /\ n \in Nat /\ k \in Nat /\ k >= 1 /\ k <= n /\ conflict = i + k /\ last = i + n
            /\ Len(h) = conflict - 1 /\ Len(e) = n - k + 1 /\ h \in Seq(NEntry) /\ e \in Seq(NEntry)
      BY <2>50, <2>9, <2>10
    <2> HIDE DEF i, n
    <2>12. Len(log) = last
      <3>1. Len(h \o e) = Len(h) + Len(e)
        <4>1. h \in Seq(NEntry) /\ e \in Seq(NEntry)
          BY <2>110
        <4> QED BY <4>1
      <3>2. Len(log) = Len(h) + Len(e)
        BY <3>1, <2>11
      <3> QED BY <3>2, <2>110
    <2>13. ASSUME NEW x \in 1..last PROVE log[x] = g[x]
      <3>1. CASE x <= conflict - 1
        BY <3>1, <2>6, <2>9, <2>10, <2>11, <1>70
      <3>2. CASE ~(x <= conflict - 1)
        <4> DEFINE y == x - (conflict - 1)
        <4>0. x \in Nat /\ x <= last /\ x > Len(h) /\ y = x - Len(h) /\ y \in 1..Len(e)
          BY <3>2, <2>110
        <4>1. y \in 1..Len(e) /\ log[x] = e[y]
          BY <4>0, <2>11, <2>110
        <4>2. k + y - 1 \in 1..n /\ i + (k + y - 1) = x
          BY <4>0, <2>110
        <4>3. e[y] = m.entries[k + y - 1]
          BY <4>1, <2>10
        <4> QED BY <4>1, <4>2, <4>3, <2>6 DEF i, n
      <3> QED BY <3>1, <3>2
    <2>14. SamePrefix(log, g, last)
      BY <2>6, <2>12, <2>13, <1>0, <1>70 DEF SamePrefix
    <2> QED BY <2>6, <2>7, <2>8, <2>12, <2>14
  <1> QED BY <1>4, <1>5, <1>8, <1>9 DEF c, Appended

\* Raft::handle_append_entries takes over a prefix of the leader's log or keeps its own.
LEMMA HandleAppendEntriesMoves ==
    ASSUME NEW G, NEW N, NEW L, NEW s, IsRaft(s), VotesOK(N, L, s), s.state = "Follower",
           NEW m, MsgOK(s.conf, m), m.type = "MsgAppend", m.term = s.term, Fitting(G, s, m)
    PROVE  Moves(G, s, HandleAppendEntries(s, m))
  <1>0. m.index \in Nat /\ m.log_term \in Nat /\ m.entries \in Seq(NEntry)
    BY DEF MsgOK
  <1>1. CASE s.pending_request_snapshot # InvalidIndex
    BY <1>1, SendRequestSnapshotKeeps, KeepsMoves DEF HandleAppendEntries
  <1> DEFINE early == AppendResponse(s, m.from, s.committed)
  <1>2. Moves(G, s, Send(s, early))
    <2>1. MsgOK(s.conf, early) /\ Ordinary(s, early)
      BY LogTypes, AppendResponseOK
    <2> QED BY <2>1, SendKeeps, KeepsMoves
  <1> DEFINE t == AppendMatching(s, m)
             ok == AppendResponse(s, m.from, m.index + Len(m.entries))
  <1>3. ASSUME m.index >= s.committed, MatchTerm(s, m.index, m.log_term) PROVE Moves(G, s, Send(t, ok))
    <2>1. Steps(N, L, s, t)
      BY <1>3, AppendMatchingSteps
    <2> DEFINE conflict == FindConflict(s, m.index, m.entries)
               last == m.index + Len(m.entries)
    <2>20. Appended(G, s, m, t, conflict, last)
      BY <1>3, AppendMatchingLog
    <2> HIDE DEF conflict, last, t
    <2>2. /\ conflict = 0 => t.log = s.log
          /\ conflict # 0 => Len(t.log) = last /\ SamePrefix(t.log, G[m.term], last)
          /\ t.state = s.state /\ t.term = s.term /\ t.msgs = s.msgs
      BY <2>20 DEF Appended
    <2>3. IsRaft(t) /\ t.id = s.id /\ s.msgs \subseteq t.msgs
      BY <2>1 DEF Steps
    <2>4. ok = AppendResponse(t, m.from, m.index + Len(m.entries))
      BY <2>2, <2>3 DEF AppendResponse
    <2>5. m.index + Len(m.entries) \in Nat
      BY <1>0
    <2>6. MsgOK(t.conf, ok) /\ Ordinary(t, ok)
      BY <2>3, <2>4, <2>5, AppendResponseOK
    <2> HIDE DEF ok
    <2>7. Keeps(t, Send(t, ok))
      BY <2>3, <2>6, SendKeeps
    <2>8. Moves(G, s, t)
      BY <2>2 DEF Moves
    <2> QED BY <2>3, <2>7, <2>8, MovesKeeps
  <1> DEFINE hint == MinOf({m.index, LastIndex(s)})
             reject == AppendReject(s, m.from, m.index, FindConflictByTerm(s, hint, m.log_term))
  <1>4. Moves(G, s, Send(s, reject))
    <2>1. LastIndex(s) \in Nat
      BY LogTypes DEF LastIndex
    <2>2. hint \in Nat
      BY <1>0, <2>1, MinOfTwo
    <2> HIDE DEF hint
    <2>3. FindConflictByTerm(s, hint, m.log_term) \in Nat
      BY <1>0, <2>2, FindConflictByTermType
    <2>4. MsgOK(s.conf, reject) /\ Ordinary(s, reject)
      BY <1>0, <2>3, AppendResponseOK
    <2> QED BY <2>4, SendKeeps, KeepsMoves
  <1>5. m.index < s.committed \/ m.index >= s.committed
    BY <1>0, LogTypes
  <1> HIDE DEF early, t, ok, reject
  <1> QED BY <1>1, <1>2, <1>3, <1>4, <1>5 DEF HandleAppendEntries, early, t, ok, reject

\* Raft::handle_snapshot and restore: the log of the snapshot is a prefix of the
\* leader's.
LEMMA HandleSnapshotMoves ==
    ASSUME NEW G, NEW N, NEW L, NEW s, IsRaft(s), VotesOK(N, L, s), s.state = "Follower",
           NEW m, MsgOK(s.conf, m), m.type = "MsgSnapshot", m.term = s.term, Fitting(G, s, m)
    PROVE  Moves(G, s, HandleSnapshot(s, m))
  <1> DEFINE snap == m.snapshot
             r == RestoredFrom(s, snap)
             keeps == /\ s.id \in VotersOf(snap.conf) \cup snap.conf.learners
                      /\ snap.index >= s.committed
             f == IF keeps THEN CommitTo(s, snap.index) ELSE s
             ar == AppendResponse(r, m.from, LastIndex(r))
             af == AppendResponse(f, m.from, f.committed)
  <1>0. /\ snap.index \in Nat /\ snap.conf = s.conf /\ snap.log \in Seq(NEntry) /\ Len(snap.log) = snap.index
        /\ SamePrefix(snap.log, G[s.term], snap.index)
    BY DEF MsgOK, Fitting, Copies
  <1> HIDE DEF snap
  <1>1. Moves(G, s, Send(r, ar))
    <2>1. r.log = snap.log /\ r.state = s.state /\ r.term = s.term /\ r.msgs = s.msgs /\ DOMAIN r = RaftFields
      BY DEF RestoredFrom, IsRaft, RaftFields
    <2>2. ar.type = "MsgAppendResponse"
      BY DEF AppendResponse
    <2> HIDE DEF r, ar
    <2> DEFINE v == Send(r, ar)
    <2>3. v.log = snap.log /\ v.state = s.state /\ v.term = s.term /\ v.msgs = s.msgs \cup {ar}
      BY <2>1 DEF Send, RaftFields
    <2> HIDE DEF v
    <2>4. Copies(v.log, ar)
      BY <2>2 DEF Copies
    <2>5. Moves(G, s, v)
      BY <1>0, <2>3, <2>4 DEF Moves
    <2> QED BY <2>5 DEF v
  <1>2. Keeps(s, f)
    BY <1>0, CommitToKeeps, KeepsRefl
  <1> HIDE DEF f
  <1>3. Keeps(f, Send(f, af))
    <2>1. IsRaft(f)
      BY <1>2 DEF Keeps
    <2>2. f.committed \in Nat
      BY <2>1, LogTypes
    <2> QED BY <2>1, <2>2, AppendResponseOK, SendKeeps
  <1>4. Keeps(s, Send(f, af))
    BY <1>2, <1>3, KeepsTrans
  <1>5. Moves(G, s, Send(f, af))
    BY <1>4, KeepsMoves
  <1> HIDE DEF r, ar, af
  <1>6. HandleSnapshot(s, m) = IF NeedsSnapshot(s, snap) THEN Send(r, ar) ELSE Send(f, af)
    BY DEF HandleSnapshot, r, ar, f, af, snap
  <1> QED BY <1>1, <1>5, <1>6

\* The three messages of a leader to a node that does not lead.
LEMMA HeardMoves ==
    ASSUME NEW G, NEW N, NEW L, NEW s, IsRaft(s), VotesOK(N, L, s), s.state # "Leader",
           NEW m, Receivable(N, s, m), m.term \in {0, s.term}, Fitting(G, s, m)
    PROVE  /\ m.type = "MsgAppend" => Moves(G, s, HandleAppendEntries(HearLeader(s, m), m))
           /\ m.type = "MsgHeartbeat" => Moves(G, s, HandleHeartbeat(HearLeader(s, m), m))
           /\ m.type = "MsgSnapshot" => Moves(G, s, HandleSnapshot(HearLeader(s, m), m))
  <1> DEFINE h == HearLeader(s, m)
  <1>1. SUFFICES ASSUME m.type \in FromLeader
                 PROVE  /\ m.type = "MsgAppend" => Moves(G, s, HandleAppendEntries(h, m))
                        /\ m.type = "MsgHeartbeat" => Moves(G, s, HandleHeartbeat(h, m))
                        /\ m.type = "MsgSnapshot" => Moves(G, s, HandleSnapshot(h, m))
    BY DEF FromLeader
  <1>2. MsgOK(s.conf, m) /\ m.term = s.term
    BY <1>1 DEF Receivable, MsgOK
  <1>3. h.state = "Follower" /\ h.msgs = s.msgs /\ h.conf = s.conf /\ IsRaft(h) /\ VotesOK(N, L, h) /\ h.term = s.term
    BY <1>2, HearLeaderSteps
  <1>30. h.log = s.log /\ s.term \in Nat /\ s.term <= s.term
    <2>1. BecomeFollower(s, m.term, m.from).log = s.log
      BY <1>2, LogTypes, BecomeFollowerFields
    <2> QED BY <2>1, LogTypes DEF HearLeader, IsRaft, RaftFields
  <1> HIDE DEF h
  <1>31. Fitting(G, h, m) /\ m.term = h.term
    BY <1>2, <1>3, <1>30 DEF Fitting
  <1>4. m.type = "MsgAppend" => Moves(G, h, HandleAppendEntries(h, m))
    BY <1>2, <1>3, <1>31, HandleAppendEntriesMoves
  <1>5. m.type = "MsgHeartbeat" => Moves(G, h, HandleHeartbeat(h, m))
    BY <1>2, <1>3, HandleHeartbeatKeeps, KeepsMoves
  <1>6. m.type = "MsgSnapshot" => Moves(G, h, HandleSnapshot(h, m))
    BY <1>2, <1>3, <1>31, HandleSnapshotMoves
  <1>7. \A u : u.term \in Nat /\ Moves(G, h, u) => Moves(G, s, u)
    BY <1>3, <1>30, FollowMoves
  <1>8. /\ m.type = "MsgAppend" => Steps(N, L, s, HandleAppendEntries(h, m))
        /\ m.type = "MsgHeartbeat" => Steps(N, L, s, HandleHeartbeat(h, m))
        /\ m.type = "MsgSnapshot" => Steps(N, L, s, HandleSnapshot(h, m))
    BY HeardSteps DEF h
  <1>9. \A u : Steps(N, L, s, u) => u.term \in Nat
    BY LogTypes DEF Steps
  <1> QED BY <1>4, <1>5, <1>6, <1>7, <1>8, <1>9

\* Raft::step_leader.
LEMMA StepLeaderMoves ==
    ASSUME NEW G, NEW N, NEW L, NEW s, IsRaft(s), VotesOK(N, L, s), s.state = "Leader", NEW m, Receivable(N, s, m)
    PROVE  Moves(G, s, StepLeader(s, m))
  <1>0. MsgOK(s.conf, m)
    BY DEF Receivable
  <1>1. ASSUME m.type = "MsgAppendResponse" PROVE Moves(G, s, HandleAppendResponse(s, m))
    BY <1>0, <1>1, HandleAppendResponseKeeps, KeepsMoves
  <1>2. Moves(G, s, HandleHeartbeatResponse(s, m))
    BY HandleHeartbeatResponseKeeps, KeepsMoves
  <1>3. Moves(G, s, HandleTransferLeader(s, m))
    BY HandleTransferLeaderKeeps, KeepsMoves
  <1>4. ASSUME m.type = "MsgPropose" PROVE Moves(G, s, HandlePropose(s, m))
    BY <1>0, <1>4, HandleProposeMoves
  <1>5. Moves(G, s, HandleReadIndex(s, m))
    BY HandleReadIndexKeeps, KeepsMoves
  <1> QED BY <1>1, <1>2, <1>3, <1>4, <1>5, KeepsRefl, KeepsMoves DEF StepLeader

\* Raft::step_follower.
LEMMA StepFollowerMoves ==
    ASSUME NEW G, NEW N, NEW L, NEW s, IsRaft(s), VotesOK(N, L, s), s.state = "Follower",
           NEW m, Receivable(N, s, m), m.term \in {0, s.term}, Fitting(G, s, m)
    PROVE  Moves(G, s, StepFollower(s, m))
  <1>0. MsgOK(s.conf, m)
    BY DEF Receivable
  <1>1. /\ m.type = "MsgAppend" => Moves(G, s, HandleAppendEntries(HearLeader(s, m), m))
        /\ m.type = "MsgHeartbeat" => Moves(G, s, HandleHeartbeat(HearLeader(s, m), m))
        /\ m.type = "MsgSnapshot" => Moves(G, s, HandleSnapshot(HearLeader(s, m), m))
    BY HeardMoves
  <1>2. ASSUME m.type \in {"MsgTransferLeader", "MsgPropose", "MsgReadIndex"} PROVE Moves(G, s, Forward(s, m))
    BY <1>0, <1>2, ForwardKeeps, KeepsMoves
  <1>3. ASSUME m.type = "MsgReadIndexResp" PROVE Moves(G, s, HandleReadIndexResp(s, m))
    BY <1>0, <1>3, HandleReadIndexRespKeeps, KeepsMoves
  <1> DEFINE yes == TRUE
  <1> HIDE DEF yes
  <1>4. Moves(G, s, Hup(s, yes))
    BY HupMoves
  <1>5. Moves(G, s, Hup(s, TRUE))
    BY <1>4 DEF yes
  <1> QED BY <1>1, <1>2, <1>3, <1>5, KeepsRefl, KeepsMoves DEF StepFollower

\* Raft::step_candidate.
LEMMA StepCandidateMoves ==
    ASSUME NEW G, NEW N, NEW L, NEW s, IsRaft(s), VotesOK(N, L, s), s.state \in {"Candidate", "PreCandidate"},
           NEW m, Receivable(N, s, m), m.term \in {0, s.term} \/ m.type = "MsgRequestPreVoteResponse", Fitting(G, s, m)
    PROVE  Moves(G, s, StepCandidate(s, m))
  <1>0. MsgOK(s.conf, m)
    BY DEF Receivable
  <1>1. m.type # "MsgRequestPreVoteResponse" =>
        /\ m.type = "MsgAppend" => Moves(G, s, HandleAppendEntries(HearLeader(s, m), m))
        /\ m.type = "MsgHeartbeat" => Moves(G, s, HandleHeartbeat(HearLeader(s, m), m))
        /\ m.type = "MsgSnapshot" => Moves(G, s, HandleSnapshot(HearLeader(s, m), m))
    BY HeardMoves
  <1>2. ASSUME m.type \in VoteResponses PROVE Moves(G, s, HandleVoteResponse(s, m))
    <2>1. m \in N /\ m.to = s.id /\ m.from \in s.conf.progress
      BY <1>2 DEF Receivable, KnowsPeer, Responses
    <2>2. m.type = "MsgRequestVoteResponse" => m \in N /\ m.term \in {0, s.term}
      BY <2>1
    <2> QED BY <1>0, <2>1, <2>2, HandleVoteResponseMoves
  <1> QED BY <1>1, <1>2, KeepsRefl, KeepsMoves DEF StepCandidate

\* Raft::step after the terms are compared.
LEMMA DispatchMoves ==
    ASSUME NEW G, NEW N, NEW L, NEW s, IsRaft(s), VotesOK(N, L, s), NEW m, Receivable(N, s, m), Fitting(G, s, m),
           m.term \in {0, s.term} \/ m.type \in {"MsgRequestPreVote", "MsgRequestPreVoteResponse"}
    PROVE  Moves(G, s, Dispatch(s, m))
  <1>1. CASE m.type \in VoteRequests
    BY <1>1, HandleVoteRequestMoves DEF Dispatch, Receivable
  <1>2. CASE m.type \notin VoteRequests
    <2>1. m.term \in {0, s.term} \/ m.type = "MsgRequestPreVoteResponse"
      BY <1>2 DEF VoteRequests
    <2>2. s.state \in {"Follower", "PreCandidate", "Candidate", "Leader"}
      BY DEF IsRaft
    <2>3. CASE s.state = "Leader"
      BY <1>2, <2>3, StepLeaderMoves DEF Dispatch
    <2>4. CASE s.state \in {"Candidate", "PreCandidate"}
      BY <1>2, <2>1, <2>4, StepCandidateMoves DEF Dispatch
    <2>5. CASE s.state = "Follower"
      <3>1. CASE m.term \in {0, s.term}
        BY <1>2, <2>5, <3>1, StepFollowerMoves DEF Dispatch
      <3>2. CASE m.type = "MsgRequestPreVoteResponse"
        BY <1>2, <2>5, <3>2, KeepsRefl, KeepsMoves DEF Dispatch, StepFollower
      <3> QED BY <2>1, <3>1, <3>2
    <2> QED BY <2>2, <2>3, <2>4, <2>5
  <1> QED BY <1>1, <1>2

\* Raft::step: a higher term makes a follower first.
LEMMA StepMoves ==
    ASSUME NEW G, NEW N, NEW L, NEW s, IsRaft(s), VotesOK(N, L, s), NEW m, Receivable(N, s, m), Fitting(G, s, m)
    PROVE  Moves(G, s, Step(s, m))
  <1>0. s.term \in Nat /\ m.term \in Nat
    BY LogTypes DEF Receivable, MsgOK
  <1>00. s.log \in Seq(NEntry)
    BY DEF IsRaft
  <1>1. CASE m.term = 0 \/ m.term = s.term
    BY <1>1, DispatchMoves DEF Step
  <1>2. CASE ~(m.term = 0 \/ m.term = s.term) /\ m.term > s.term
    <2> DEFINE lead == IF m.type \in FromLeader THEN m.from ELSE None
               f == BecomeFollower(s, m.term, lead)
    <2> HIDE DEF lead
    <2>1. Steps(N, L, s, f) /\ f.state = "Follower" /\ f.msgs = s.msgs /\ f.term = m.term /\ f.conf = s.conf /\ f.id = s.id
      BY <1>0, <1>2, BecomeFollowerSteps
    <2>10. f.log = s.log
      BY <1>0, BecomeFollowerFields
    <2> HIDE DEF f
    <2>2. IsRaft(f) /\ VotesOK(N, L, f) /\ Receivable(N, f, m)
      BY <2>1 DEF Steps, Receivable, KnowsPeer
    <2>20. Fits(G, f.term, f.log)
      <3>1. Fits(G, s.term, s.log) /\ s.term <= m.term
        BY <1>0, <1>2 DEF Fitting
      <3> QED BY <3>1, <1>0, <1>00, <2>1, <2>10, FitsLater
    <2>21. Fitting(G, f, m)
      BY <2>20 DEF Fitting
    <2>3. Moves(G, f, Dispatch(f, m)) /\ Steps(N, L, f, Dispatch(f, m))
      BY <2>1, <2>2, <2>21, DispatchMoves, DispatchSteps
    <2> DEFINE u == Dispatch(f, m)
    <2>30. u.term \in Nat
      BY <2>3, LogTypes DEF Steps
    <2> HIDE DEF u
    <2>4. Moves(G, s, u)
      <3>1. s.term <= f.term /\ f.term \in Nat /\ Moves(G, f, u)
        BY <1>0, <1>2, <2>1, <2>3 DEF u
      <3> QED BY <3>1, <1>0, <2>1, <2>10, <2>30, FollowMoves
    <2>5. m.type \in {"MsgRequestPreVote", "MsgRequestPreVoteResponse"} => Moves(G, s, Dispatch(s, m))
      BY DispatchMoves
    <2>6. Moves(G, s, StepHigherTerm(s, m))
      BY <2>4, <2>5, KeepsRefl, KeepsMoves DEF StepHigherTerm, f, lead, u
    <2> QED BY <1>2, <2>6 DEF Step
  <1>3. CASE ~(m.term = 0 \/ m.term = s.term) /\ ~(m.term > s.term)
    BY <1>3, StepLowerTermKeeps, KeepsMoves DEF Step
  <1> QED BY <1>1, <1>2, <1>3

(***************************************************************************)
(* The logs of all nodes.                                                  *)
(***************************************************************************)
\* Whose log G[x] is: who was elected leader of the term, and is not a candidate of
\* it any more.
Owned(K, L, c, x) ==
    /\ c \in K.progress /\ Backed(net, L, K, c, x) /\ node[c].term >= x
    /\ node[c].term = x => node[c].state # "Candidate"

\* The log of one node: it fits, its disk has the part of it that is persisted, the
\* log of a leader is the log of its term, and a candidate has none of its term yet.
LogInv(G, n) ==
    /\ Fits(G, node[n].term, node[n].log)
    /\ SamePrefix(disk[n].log, node[n].log, node[n].persisted)
    /\ node[n].state = "Leader" => node[n].log = G[node[n].term]
    /\ node[n].state = "Candidate" => \A k \in 1..Len(node[n].log) : node[n].log[k].term < node[n].term

\* The inductive invariant of log matching, for the logs G of all leaders there were.
MatchInv(K, L, G) ==
    /\ G \in Logs /\ \A x \in Nat : Fits(G, x, G[x])
    /\ \A x \in Nat : G[x] # <<>> => \E c : Owned(K, L, c, x)
    /\ \A n \in K.progress : LogInv(G, n)
    /\ \A m \in net : Copies(G[m.term], m)

\* G2 is G after the leader of term T has appended.
Grows(G, T, G2) ==
    /\ G \in Logs /\ G2 \in Logs /\ T \in Nat
    /\ \A x \in Nat \ {T} : G2[x] = G[x]
    /\ SamePrefix(G[T], G2[T], Len(G[T]))

\* What fits goes on to fit when a leader appends.
LEMMA FitsGrow ==
    ASSUME NEW G, NEW T, NEW G2, Grows(G, T, G2), NEW x, NEW log \in Seq(NEntry), Fits(G, x, log)
    PROVE  Fits(G2, x, log)
  <1>1. SUFFICES ASSUME NEW k \in 1..Len(log) PROVE log[k].term <= x /\ SamePrefix(log, G2[log[k].term], k)
    BY DEF Fits
  <1>2. log[k].term <= x /\ SamePrefix(log, G[log[k].term], k)
    BY DEF Fits
  <1>3. log[k] \in NEntry
    OBVIOUS
  <1>4. log[k].term \in Nat
    BY <1>3 DEF NEntry
  <1>5. CASE log[k].term # T
    BY <1>2, <1>4, <1>5 DEF Grows
  <1>6. CASE log[k].term = T
    <2> DEFINE a == G[T]
               b == G2[T]
    <2>1. a \in Seq(NEntry) /\ b \in Seq(NEntry) /\ SamePrefix(a, b, Len(a)) /\ SamePrefix(log, a, k)
      BY <1>2, <1>6 DEF Grows, Logs
    <2> HIDE DEF a, b
    <2>2. k \in Nat /\ Len(a) \in Nat
      BY <2>1
    <2>3. SamePrefix(log, b, k)
      BY <2>1, <2>2 DEF SamePrefix
    <2> QED BY <1>2, <1>6, <2>3 DEF b
  <1> QED BY <1>5, <1>6

\* What repeats a log repeats whatever the log grows to.
LEMMA CopiesGrow ==
    ASSUME NEW K, NEW m, MsgOK(K, m), NEW l1 \in Seq(NEntry), NEW l2 \in Seq(NEntry), SamePrefix(l1, l2, Len(l1)), Copies(l1, m)
    PROVE  Copies(l2, m)
  <1>1. Len(l1) \in Nat /\ Len(l2) \in Nat /\ Len(l1) <= Len(l2) /\ \A k \in 1..Len(l1) : l1[k] = l2[k]
    BY DEF SamePrefix
  <1>2. CASE m.type = "MsgAppend"
    <2>1. m.index \in Nat /\ m.entries \in Seq(NEntry) /\ m.log_term \in Nat
      BY <1>2 DEF MsgOK
    <2>2. /\ m.log_term > 0 => m.index \in 1..Len(l1) /\ l1[m.index].term = m.log_term
          /\ m.entries # <<>> => /\ m.index + Len(m.entries) <= Len(l1)
                                 /\ \A k \in 1..Len(m.entries) : m.entries[k] = l1[m.index + k]
      BY <1>2 DEF Copies
    <2> DEFINE i == m.index
               n == Len(m.entries)
    <2>3. i \in Nat /\ n \in Nat
      BY <2>1
    <2>4. m.log_term > 0 => i \in 1..Len(l2) /\ l2[i].term = m.log_term
      BY <1>1, <2>2
    <2>5. m.entries # <<>> => i + n <= Len(l2) /\ \A k \in 1..n : m.entries[k] = l2[i + k]
      <3>1. SUFFICES ASSUME m.entries # <<>> PROVE i + n <= Len(l2) /\ \A k \in 1..n : m.entries[k] = l2[i + k]
        OBVIOUS
      <3>2. i + n <= Len(l1) /\ \A k \in 1..n : m.entries[k] = l1[i + k]
        BY <2>2, <3>1
      <3> HIDE DEF i, n
      <3>3. \A k \in 1..n : i + k \in 1..Len(l1)
        BY <1>1, <2>3, <3>2
      <3>4. i + n <= Len(l2)
        BY <1>1, <2>3, <3>2
      <3>5. \A k \in 1..n : l1[i + k] = l2[i + k]
        BY <1>1, <3>3
      <3> QED BY <3>2, <3>4, <3>5
    <2> QED BY <1>2, <2>4, <2>5 DEF Copies
  <1>3. CASE m.type = "MsgSnapshot"
    <2> DEFINE i == m.snapshot.index
               sl == m.snapshot.log
    <2>1. i \in Nat /\ SamePrefix(sl, l1, i)
      BY <1>3 DEF MsgOK, Copies
    <2> HIDE DEF i, sl
    <2>2. SamePrefix(sl, l2, i)
      BY <1>1, <2>1 DEF SamePrefix
    <2> QED BY <1>3, <2>2 DEF Copies, i, sl
  <1> QED BY <1>2, <1>3 DEF Copies

\* Node n, which is s after what it is told of its disk, goes on to t, and to u with
\* its Ready.
Advances(K, L, G, n, s, t, u) ==
    /\ n \in K.progress
    /\ IsRaft(s) /\ s.id = n /\ s.conf = K /\ s.msgs = {}
    /\ s.term = node[n].term /\ s.state = node[n].state /\ s.log = node[n].log
    /\ Steps(net, L, s, t) /\ Moves(G, s, t)
    /\ u.term = t.term /\ u.state = t.state /\ u.log = t.log
    /\ net' = net \cup t.msgs /\ node' = [node EXCEPT ![n] = u]
    /\ \A k \in K.progress \ {n} : disk'[k] = disk[k]
    /\ SamePrefix(disk'[n].log, u.log, u.persisted)

\* The owner of a log stays the owner.
LEMMA OwnedStep ==
    ASSUME NEW K, NEW L, Inv(K, L), Inv(K, L)', NEW G, NEW n, NEW s, NEW t, NEW u, Advances(K, L, G, n, s, t, u),
           NEW c, NEW x \in Nat, Owned(K, L, c, x)
    PROVE  Owned(K, L, c, x)'
  <1>0. FixedConf(K) /\ DOMAIN node = K.progress /\ n \in K.progress /\ net \subseteq net' /\ node' = [node EXCEPT ![n] = u]
    BY DEF Inv, Advances
  <1>1. c \in K.progress /\ Backed(net', L, K, c, x)
    BY <1>0, BackedMore DEF Owned
  <1>2. CASE c # n
    BY <1>0, <1>1, <1>2 DEF Owned
  <1>3. CASE c = n
    <2>1. /\ node'[c] = u /\ node[c].term = s.term /\ node[c].state = s.state /\ u.term = t.term /\ u.state = t.state
          /\ s.term \in Nat /\ t.term \in Nat /\ s.term <= t.term
      BY <1>0, <1>3 DEF Advances, Steps, IsRaft
    <2>2. s.term >= x /\ (s.term = x => s.state # "Candidate")
      BY <2>1 DEF Owned
    <2>3. t.state = "Candidate" => \/ t.term > s.term
                                   \/ s.state = "Candidate" /\ t.term = s.term
      BY DEF Advances, Moves
    <2>4. u.term >= x /\ (u.term = x => u.state # "Candidate")
      BY <2>1, <2>2, <2>3
    <2> QED BY <1>1, <2>1, <2>4 DEF Owned
  <1> QED BY <1>2, <1>3

\* A leader is backed.
LEMMA LeaderBacked ==
    ASSUME NEW K, NEW L, Inv(K, L)', NEW n \in K.progress, node'[n].state = "Leader"
    PROVE  Backed(net', L, K, n, node'[n].term)
  <1>1. VoteInv(K, L)'
    BY DEF Inv
  <1> QED BY <1>1 DEF VoteInv

\* Nobody else leads, or has led, in the term of a leader.
LEMMA LeaderAlone ==
    ASSUME NEW K, NEW L, Inv(K, L)', NEW n \in K.progress, node'[n].state = "Leader",
           NEW c \in K.progress, Backed(net', L, K, c, node'[n].term)
    PROVE  c = n
  <1>1. FixedConf(K) /\ VoteInv(K, L)' /\ node'[n].term \in Nat
    BY DEF Inv, NodeInv, IsRaft
  <1>2. Backed(net', L, K, n, node'[n].term)
    BY <1>1 DEF VoteInv
  <1>3. \A v \in K.progress : Voted(net', L, v, c, node'[n].term) /\ Voted(net', L, v, n, node'[n].term) => c = n
    BY <1>1 DEF VoteInv
  <1> QED BY <1>1, <1>2, <1>3, BackedUnique

\* A leader's log is what its term's log grows to.
LEMMA LeaderGrows ==
    ASSUME NEW K, NEW L, Inv(K, L), Inv(K, L)', NEW G, MatchInv(K, L, G), NEW n, NEW s, NEW t, NEW u,
           Advances(K, L, G, n, s, t, u), t.state = "Leader", NEW G2, G2 = [G EXCEPT ![t.term] = t.log]
    PROVE  Grows(G, t.term, G2) /\ Fits(G2, t.term, t.log) /\ G2[t.term] = t.log
           /\ SamePrefix(s.log, t.log, Len(s.log))
  <1> DEFINE T == t.term
  <1>0. /\ T \in Nat /\ t.log \in Seq(NEntry) /\ s.log \in Seq(NEntry) /\ s.term = T /\ n \in K.progress
        /\ s.log = node[n].log /\ s.state = node[n].state /\ node[n].term = T /\ s.state \in {"Candidate", "Leader"}
        /\ G \in Logs /\ DOMAIN node = K.progress
    BY DEF Advances, Steps, IsRaft, MatchInv, Inv
  <1>1. G2 \in Logs /\ G2[T] = t.log /\ \A x \in Nat \ {T} : G2[x] = G[x]
    BY <1>0 DEF Logs
  <1>2. t.log = s.log \/ \E e \in NEntry : e.term = T /\ t.log = Append(s.log, e)
    BY <1>0 DEF Advances, Moves
  <1>3. SamePrefix(s.log, t.log, Len(s.log))
    BY <1>0, <1>2 DEF SamePrefix
  <1>4. G[T] = s.log \/ G[T] = <<>>
    <2>1. CASE s.state = "Leader"
      BY <2>1, <1>0 DEF MatchInv, LogInv
    <2>2. CASE s.state = "Candidate"
      <3>1. SUFFICES ASSUME G[T] # <<>> PROVE FALSE
        OBVIOUS
      <3>2. PICK c : Owned(K, L, c, T)
        BY <1>0, <3>1 DEF MatchInv
      <3>3. c \in K.progress /\ Backed(net', L, K, c, T)
        BY <3>2, BackedMore DEF Owned, Inv, Advances
      <3>4. node'[n].state = "Leader" /\ node'[n].term = T
        BY <1>0 DEF Advances
      <3>5. c = n
        BY <1>0, <3>3, <3>4, LeaderAlone
      <3> QED BY <2>2, <3>2, <3>5, <1>0 DEF Owned
    <2> QED BY <2>1, <2>2, <1>0
  <1>5. Grows(G, T, G2)
    <2>1. SamePrefix(G[T], t.log, Len(G[T]))
      BY <1>0, <1>3, <1>4 DEF SamePrefix
    <2> QED BY <1>0, <1>1, <2>1 DEF Grows
  <1>6. Fits(G2, T, s.log)
    <2>1. Fits(G, T, s.log)
      BY <1>0 DEF MatchInv, LogInv
    <2> QED BY <1>0, <1>5, <2>1, FitsGrow
  <1>7. Fits(G2, T, t.log)
    <2>1. CASE t.log = s.log
      BY <2>1, <1>6
    <2>2. CASE \E e \in NEntry : e.term = T /\ t.log = Append(s.log, e)
      <3>1. PICK e \in NEntry : e.term = T /\ t.log = Append(s.log, e)
        BY <2>2
      <3> DEFINE a == s.log
                 b == t.log
      <3>2. a \in Seq(NEntry) /\ b = Append(a, e) /\ Fits(G2, T, a) /\ G2[T] = b
        BY <1>0, <1>1, <1>6, <3>1
      <3> HIDE DEF a, b, T
      <3>3. Len(b) = Len(a) + 1 /\ Len(a) \in Nat /\ (\A k \in 1..Len(a) : b[k] = a[k]) /\ b[Len(a) + 1] = e
        BY <3>2
      <3>4. ASSUME NEW k \in 1..Len(b) PROVE b[k].term <= T /\ SamePrefix(b, G2[b[k].term], k)
        <4>1. CASE k \in 1..Len(a)
          <5> DEFINE g == G2[a[k].term]
          <5>1. a[k].term <= T /\ SamePrefix(a, g, k) /\ b[k] = a[k]
            BY <4>1, <3>2, <3>3 DEF Fits
          <5> HIDE DEF g
          <5>2. SamePrefix(b, g, k)
            BY <4>1, <5>1, <3>3 DEF SamePrefix
          <5> QED BY <5>1, <5>2 DEF g
        <4>2. CASE k \notin 1..Len(a)
          <5>1. k = Len(a) + 1
            BY <4>2, <3>3
          <5>2. b[k].term = T /\ T \in Nat
            BY <5>1, <3>1, <3>3, <1>0 DEF T
          <5>3. SamePrefix(b, b, k)
            BY <5>1, <3>3 DEF SamePrefix
          <5>4. T <= T
            BY <5>2
          <5> QED BY <5>2, <5>3, <5>4, <3>2, Zenon
        <4> QED BY <4>1, <4>2
      <3>5. Fits(G2, T, b)
        BY <3>4 DEF Fits
      <3> QED BY <3>5 DEF b
    <2> QED BY <2>1, <2>2, <1>2
  <1> QED BY <1>1, <1>3, <1>5, <1>7

\* The step of one node keeps the log of this node in order.
LEMMA OwnLogStep ==
    ASSUME NEW K, NEW L, Inv(K, L), Inv(K, L)', NEW G, MatchInv(K, L, G), NEW n, NEW s, NEW t, NEW u,
           Advances(K, L, G, n, s, t, u), NEW G2,
           IF t.state = "Leader" THEN G2 = [G EXCEPT ![t.term] = t.log] ELSE G2 = G
    PROVE  LogInv(G2, n)'
  <1>0. /\ t.term \in Nat /\ t.log \in Seq(NEntry) /\ s.log \in Seq(NEntry) /\ s.term \in Nat /\ s.term <= t.term
        /\ n \in K.progress /\ G \in Logs /\ LogInv(G, n)
        /\ s.log = node[n].log /\ s.state = node[n].state /\ s.term = node[n].term
    BY DEF Advances, Steps, IsRaft, MatchInv
  <1>1. /\ node'[n] = u /\ u.term = t.term /\ u.state = t.state /\ u.log = t.log
        /\ SamePrefix(disk'[n].log, u.log, u.persisted)
    BY <1>0 DEF Advances, Inv
  <1>2. CASE t.state = "Leader"
    <2>1. Fits(G2, t.term, t.log) /\ G2[t.term] = t.log
      BY <1>2, LeaderGrows
    <2> QED BY <1>1, <1>2, <2>1 DEF LogInv
  <1>3. CASE t.state # "Leader"
    <2>1. \/ t.log = s.log
          \/ t.state = "Follower" /\ SamePrefix(t.log, G[t.term], Len(t.log))
      BY <1>3 DEF Advances, Moves
    <2>2. Fits(G, t.term, s.log)
      BY <1>0, FitsLater DEF LogInv
    <2>3. Fits(G, t.term, t.log)
      <3>1. CASE t.log = s.log
        BY <3>1, <2>2
      <3>2. CASE SamePrefix(t.log, G[t.term], Len(t.log))
        <4>1. Fits(G, t.term, G[t.term]) /\ G[t.term] \in Seq(NEntry)
          BY <1>0 DEF MatchInv, Logs
        <4> QED BY <4>1, <3>2, <1>0, FitsPrefix
      <3> QED BY <2>1, <3>1, <3>2
    <2>4. ASSUME t.state = "Candidate", NEW k \in 1..Len(t.log) PROVE t.log[k].term < t.term
      <3>1. t.log = s.log
        BY <2>1, <2>4
      <3>2. s.log[k] \in NEntry
        BY <1>0, <3>1
      <3>3. s.log[k].term \in Nat /\ s.log[k].term <= s.term
        BY <1>0, <3>1, <3>2 DEF NEntry, LogInv, Fits
      <3>4. CASE t.term > s.term
        BY <3>1, <3>3, <3>4, <1>0
      <3>5. CASE s.state = "Candidate" /\ t.term = s.term
        BY <3>1, <3>5, <1>0 DEF LogInv
      <3> QED BY <3>4, <3>5, <2>4 DEF Advances, Moves
    <2>5. G2 = G
      BY <1>3
    <2> QED BY <1>1, <1>3, <2>3, <2>4, <2>5 DEF LogInv
  <1> QED BY <1>2, <1>3

\* The step of one node keeps the logs matching.
LEMMA NodeStepMatch ==
    ASSUME NEW K, NEW L, Inv(K, L), Inv(K, L)', NEW G, MatchInv(K, L, G), NEW n, NEW s, NEW t, NEW u,
           Advances(K, L, G, n, s, t, u), NEW G2,
           IF t.state = "Leader" THEN G2 = [G EXCEPT ![t.term] = t.log] ELSE G2 = G
    PROVE  MatchInv(K, L, G2)'
  <1>0. /\ t.term \in Nat /\ t.log \in Seq(NEntry) /\ n \in K.progress /\ G \in Logs /\ DOMAIN node = K.progress
        /\ node'[n] = u /\ u.term = t.term /\ u.state = t.state /\ u.log = t.log
        /\ net' = net \cup t.msgs /\ s.msgs = {}
    BY DEF Advances, Steps, IsRaft, MatchInv, Inv
  <1>1. Grows(G, t.term, G2)
    <2>1. CASE t.state = "Leader"
      BY <2>1, LeaderGrows
    <2>2. CASE t.state # "Leader"
      <3>1. G[t.term] \in Seq(NEntry)
        BY <1>0 DEF Logs
      <3>2. SamePrefix(G[t.term], G[t.term], Len(G[t.term]))
        BY <3>1 DEF SamePrefix
      <3>3. G2 = G
        BY <2>2
      <3> QED BY <3>2, <3>3, <1>0 DEF Grows
    <2> QED BY <2>1, <2>2
  <1>2. G2 \in Logs
    BY <1>1 DEF Grows
  <1>3. ASSUME NEW x \in Nat PROVE Fits(G2, x, G2[x])
    <2>1. CASE x = t.term /\ t.state = "Leader"
      BY <2>1, LeaderGrows
    <2>2. CASE ~(x = t.term /\ t.state = "Leader")
      <3>1. G2[x] = G[x]
        BY <2>2, <1>0, <1>1 DEF Grows
      <3>2. Fits(G, x, G[x]) /\ G[x] \in Seq(NEntry)
        BY <1>0 DEF MatchInv, Logs
      <3> QED BY <3>1, <3>2, <1>1, FitsGrow
    <2> QED BY <2>1, <2>2
  <1>4. ASSUME NEW x \in Nat, G2[x] # <<>> PROVE (\E c : Owned(K, L, c, x))'
    <2>1. CASE x = t.term /\ t.state = "Leader"
      <3>0. node'[n].term = x /\ node'[n].state = "Leader" /\ x >= x
        BY <2>1, <1>0
      <3>1. Backed(net', L, K, n, node'[n].term)
        BY <3>0, <1>0, LeaderBacked
      <3>2. Owned(K, L, n, x)'
        BY <3>0, <3>1, <1>0 DEF Owned
      <3> QED BY <3>2
    <2>2. CASE ~(x = t.term /\ t.state = "Leader")
      <3>1. G[x] # <<>>
        BY <2>2, <1>0, <1>1, <1>4 DEF Grows
      <3>2. PICK c : Owned(K, L, c, x)
        BY <3>1 DEF MatchInv
      <3>3. Owned(K, L, c, x)'
        BY <3>2, OwnedStep
      <3> QED BY <3>3
    <2> QED BY <2>1, <2>2
  <1>5. ASSUME NEW k \in K.progress PROVE LogInv(G2, k)'
    <2>1. CASE k = n
      BY <2>1, OwnLogStep
    <2>2. CASE k # n
      <3>1. node'[k] = node[k] /\ disk'[k] = disk[k] /\ LogInv(G, k)
        BY <2>2, <1>0 DEF Advances, MatchInv
      <3>2. node[k].log \in Seq(NEntry) /\ node[k].term \in Nat
        BY DEF Inv, NodeInv, IsRaft
      <3>3. Fits(G2, node[k].term, node[k].log)
        BY <3>1, <3>2, <1>1, FitsGrow DEF LogInv
      <3>4. ASSUME node[k].state = "Leader" PROVE node[k].log = G2[node[k].term]
        <4>1. node[k].log = G[node[k].term]
          BY <3>1, <3>4 DEF LogInv
        <4>2. CASE node[k].term = t.term /\ t.state = "Leader"
          <5>0. node'[k].state = "Leader" /\ node'[k].term = node'[n].term
            BY <4>2, <3>1, <3>4, <1>0
          <5>1. Backed(net', L, K, k, node'[n].term)
            BY <5>0, LeaderBacked
          <5>2. k = n
            BY <4>2, <5>1, <1>0, LeaderAlone
          <5> QED BY <5>2, <2>2
        <4>3. CASE ~(node[k].term = t.term /\ t.state = "Leader")
          BY <4>1, <4>3, <3>2, <1>0, <1>1 DEF Grows
        <4> QED BY <4>2, <4>3
      <3> QED BY <3>1, <3>3, <3>4 DEF LogInv
    <2> QED BY <2>1, <2>2
  <1>6. ASSUME NEW m \in net' PROVE Copies(G2[m.term], m)
    <2>0. MsgOK(K, m) /\ m.term \in Nat
      BY DEF Inv, MsgOK
    <2>1. CASE m \in net
      <3>1. G[m.term] \in Seq(NEntry) /\ G2[m.term] \in Seq(NEntry) /\ Copies(G[m.term], m)
        BY <2>0, <2>1, <1>0, <1>2 DEF MatchInv, Logs
      <3>2. SamePrefix(G[m.term], G2[m.term], Len(G[m.term]))
        <4>1. CASE m.term = t.term
          BY <4>1, <1>1 DEF Grows
        <4>2. CASE m.term # t.term
          BY <4>2, <2>0, <3>1, <1>1 DEF Grows, SamePrefix
        <4> QED BY <4>1, <4>2
      <3> QED BY <3>1, <3>2, <2>0, CopiesGrow
    <2>2. CASE m \notin net
      <3>1. m \in t.msgs \ s.msgs
        BY <2>2, <1>0
      <3>2. Copies(t.log, m) /\ NewMsgOK(s, t, m)
        BY <3>1 DEF Advances, Moves, Steps
      <3>3. CASE m.type \in {"MsgAppend", "MsgSnapshot"}
        <4>1. m.term = t.term /\ t.state = "Leader"
          BY <3>2, <3>3 DEF NewMsgOK, FromLeader
        <4>2. G2[t.term] = t.log
          BY <4>1, LeaderGrows
        <4> QED BY <3>2, <4>1, <4>2
      <3>4. CASE m.type \notin {"MsgAppend", "MsgSnapshot"}
        BY <3>4 DEF Copies
      <3> QED BY <3>3, <3>4
    <2> QED BY <2>1, <2>2
  <1> QED BY <1>2, <1>3, <1>4, <1>5, <1>6 DEF MatchInv

(***************************************************************************)
(* Every action but a restart is such a step of a node.                    *)
(***************************************************************************)
Advance(K, L, G) == \E n, s, t, u : Advances(K, L, G, n, s, t, u)

\* What is left of state t once its Ready is processed
Done(t) == [Applied(IF t.state = "Leader" THEN t ELSE Persisted(t)) EXCEPT !.msgs = {}, !.read_states = {}]

\* A step that ends with a Ready.
LEMMA ReadyAdvances ==
    ASSUME NEW K, NEW L, Inv(K, L), NEW G, MatchInv(K, L, G), NEW n \in K.progress,
           NEW t, Steps(net, L, node[n], t), Moves(G, node[n], t), ProcessReady(n, t)
    PROVE  Advances(K, L, G, n, node[n], t, Done(t))
  <1> DEFINE x == IF t.state = "Leader" THEN t ELSE Persisted(t)
             u == [Applied(x) EXCEPT !.msgs = {}, !.read_states = {}]
             s == node[n]
  <1> SUFFICES Advances(K, L, G, n, s, t, u)
    BY DEF Done
  <1>0. DOMAIN node = K.progress /\ DOMAIN disk = K.progress /\ NodeInv(K, n) /\ LogInv(G, n)
    BY DEF Inv, MatchInv
  <1>1. IsRaft(t) /\ IsRaft(s) /\ s.id = n /\ s.conf = K /\ s.msgs = {}
    BY <1>0 DEF Steps, NodeInv
  <1>2. /\ IsRaft(x) /\ x.term = t.term /\ x.state = t.state /\ x.msgs = t.msgs /\ x.log = t.log
        /\ x.persisted = IF t.state = "Leader" THEN t.persisted ELSE Len(t.log)
    BY <1>1, PersistedRaft
  <1>3. /\ net' = net \cup Applied(x).msgs /\ node' = [node EXCEPT ![n] = u]
        /\ disk' = IF t.state = "Leader" THEN disk ELSE [disk EXCEPT ![n] = Synced(t)]
    BY DEF ProcessReady, Publish
  <1> HIDE DEF x
  <1>4. /\ u.term = x.term /\ u.state = x.state /\ u.persisted = x.persisted /\ u.log = x.log /\ Applied(x).msgs = x.msgs
    <2>1. IsRaft(x)
      BY <1>2
    <2> QED BY <2>1, AppliedRaft
  <1> HIDE DEF u
  <1>5. \A k \in K.progress \ {n} : disk'[k] = disk[k]
    BY <1>0, <1>3
  <1>6. SamePrefix(disk'[n].log, u.log, u.persisted)
    <2>0. t.log \in Seq(NEntry)
      BY <1>1 DEF IsRaft
    <2>1. CASE t.state = "Leader"
      <3> DEFINE d == disk[n].log
                 p == s.persisted
      <3>1. disk'[n].log = d /\ t.persisted = p /\ u.persisted = p /\ u.log = t.log
        BY <2>1, <1>2, <1>3, <1>4 DEF Steps
      <3>2. SamePrefix(d, s.log, p) /\ p \in Nat /\ s.log \in Seq(NEntry) /\ d \in Seq(NEntry)
        BY <1>0, <1>1 DEF LogInv, IsRaft, NodeInv
      <3>3. t.log = s.log \/ \E e \in NEntry : t.log = Append(s.log, e)
        BY <2>1 DEF Moves
      <3>4. SamePrefix(s.log, t.log, Len(s.log))
        BY <3>2, <3>3 DEF SamePrefix
      <3> HIDE DEF d, p
      <3>5. SamePrefix(d, t.log, p)
        BY <2>0, <3>2, <3>4 DEF SamePrefix
      <3> QED BY <3>1, <3>5
    <2>2. CASE t.state # "Leader"
      <3>1. disk'[n] = Synced(t)
        BY <2>2, <1>0, <1>3
      <3>2. disk'[n].log = t.log /\ u.log = t.log /\ u.persisted = Len(t.log)
        BY <2>2, <3>1, <1>2, <1>4 DEF Synced
      <3> QED BY <2>0, <3>2 DEF SamePrefix
    <2> QED BY <2>1, <2>2
  <1>7. s.term = node[n].term /\ s.state = node[n].state /\ s.log = node[n].log /\ Steps(net, L, s, t) /\ Moves(G, s, t)
    OBVIOUS
  <1> HIDE DEF s
  <1>8. /\ u.term = t.term /\ u.state = t.state /\ u.log = t.log /\ net' = net \cup t.msgs
        /\ node' = [node EXCEPT ![n] = u]
    BY <1>2, <1>3, <1>4
  <1> QED BY <1>1, <1>5, <1>6, <1>7, <1>8 DEF Advances

\* The same, of some step.
LEMMA ProcessReadyAdvance ==
    ASSUME NEW K, NEW L, Inv(K, L), NEW G, MatchInv(K, L, G), NEW n \in K.progress,
           NEW t, Steps(net, L, node[n], t), Moves(G, node[n], t), ProcessReady(n, t)
    PROVE  Advance(K, L, G)
  BY ReadyAdvances DEF Advance

\* A method that keeps role, term, votes and log, and its Ready.
LEMMA KeepsReadyAdvance ==
    ASSUME NEW K, NEW L, Inv(K, L), NEW G, MatchInv(K, L, G), NEW n \in K.progress,
           NEW t, Keeps(node[n], t), ProcessReady(n, t)
    PROVE  Advance(K, L, G)
  <1>1. Steps(net, L, node[n], t) /\ Moves(G, node[n], t)
    BY NodeOK, KeepsSteps, KeepsMoves
  <1> QED BY <1>1, ProcessReadyAdvance

\* Raft::tick_election and RawNode::campaign.
LEMMA CampaignAdvance ==
    ASSUME NEW K, NEW L, Inv(K, L), NEW G, MatchInv(K, L, G), NEW n \in K.progress, ElectionTimeout(n) \/ Campaign(n)
    PROVE  Advance(K, L, G)
  <1> DEFINE no == FALSE
             s == node[n]
             e == [s EXCEPT !.expired = no]
  <1>1. ProcessReady(n, Hup(e, no)) \/ ProcessReady(n, Hup(s, no))
    BY DEF ElectionTimeout, Campaign
  <1> HIDE DEF no
  <1>2. IsRaft(s) /\ VotesOK(net, L, s)
    BY NodeOK
  <1>3. Keeps(s, e) /\ e.msgs = s.msgs
    <2> HIDE DEF s
    <2> QED BY <1>2, SetExpiredKeeps DEF IsRaft, RaftFields
  <1>4. CASE ProcessReady(n, Hup(s, no))
    <2>1. Steps(net, L, s, Hup(s, no)) /\ Moves(G, s, Hup(s, no))
      BY <1>2, HupSteps, HupMoves
    <2> QED BY <1>4, <2>1, ProcessReadyAdvance
  <1>5. CASE ProcessReady(n, Hup(e, no))
    <2> DEFINE t == Hup(e, no)
    <2> HIDE DEF e
    <2>1. IsRaft(e) /\ VotesOK(net, L, e)
      BY <1>2, <1>3, KeepsSteps DEF Keeps, Steps
    <2>2. Steps(net, L, e, t) /\ Moves(G, e, t)
      BY <2>1, HupSteps, HupMoves
    <2> HIDE DEF t
    <2>3. /\ e.id = s.id /\ e.config = s.config /\ e.conf = s.conf /\ e.term = s.term /\ e.vote = s.vote
          /\ e.state = s.state /\ e.msgs = s.msgs /\ e.persisted = s.persisted /\ e.snap = s.snap /\ e.log = s.log
          /\ e.first = s.first
      BY <1>3 DEF Keeps
    <2> HIDE DEF s
    <2>4. Steps(net, L, s, t) /\ Moves(G, s, t)
      BY <2>2, <2>3 DEF Steps, NewMsgOK, Moves
    <2> QED BY <1>5, <2>4, ProcessReadyAdvance DEF s, t
  <1> QED BY <1>1, <1>4, <1>5

\* What a leader does at the election timeout
TimedOut(s) ==
    LET q == IF s.config.check_quorum THEN HandleCheckQuorum(s) ELSE s
    IN  [q EXCEPT !.lead_transferee = None]

\* It stays leader or steps down.
LEMMA TimedOutMoves ==
    ASSUME NEW G, NEW L, NEW s, IsRaft(s), VotesOK(net, L, s), s.state = "Leader", s.msgs = {}
    PROVE  Steps(net, L, s, TimedOut(s)) /\ Moves(G, s, TimedOut(s))
  <1> DEFINE q == IF s.config.check_quorum THEN HandleCheckQuorum(s) ELSE s
             t == [q EXCEPT !.lead_transferee = None]
  <1>1. TimedOut(s) = t
    BY DEF TimedOut
  <1>2. IsRaft(s) /\ VotesOK(net, L, s) /\ s.state = "Leader" /\ s.msgs = {}
    OBVIOUS
  <1>3. Steps(net, L, s, HandleCheckQuorum(s)) /\ Moves(G, s, HandleCheckQuorum(s))
    <2>1. CASE HasQuorum(s.conf, Active(s))
      BY <2>1, <1>2, HandleCheckQuorumKeeps, KeepsSteps, KeepsMoves
    <2>2. CASE ~HasQuorum(s.conf, Active(s))
      <3>1. s.term \in Nat /\ s.term >= s.term
        BY <1>2, LogTypes
      <3> QED BY <2>2, <3>1, <1>2, BecomeFollowerSteps, BecomeFollowerMoves DEF HandleCheckQuorum
    <2> QED BY <2>1, <2>2
  <1>4. Steps(net, L, s, q) /\ Moves(G, s, q)
    BY <1>2, <1>3, StepsRefl, KeepsRefl, KeepsMoves
  <1> HIDE DEF q
  <1>5. Keeps(q, t) /\ IsRaft(q) /\ s.msgs \subseteq q.msgs
    BY <1>4, SetTransfereeKeeps DEF Steps
  <1> HIDE DEF t
  <1>6. Steps(net, L, s, t) /\ Moves(G, s, t)
    BY <1>2, <1>4, <1>5, StepsKeeps, MovesKeeps
  <1> QED BY <1>1, <1>6

\* Raft::tick_heartbeat's election timeout.
LEMMA LeaderTimeoutAdvance ==
    ASSUME NEW K, NEW L, Inv(K, L), NEW G, MatchInv(K, L, G), NEW n \in K.progress, LeaderTimeout(n)
    PROVE  Advance(K, L, G)
  <1>1. ProcessReady(n, TimedOut(node[n])) /\ node[n].state = "Leader"
    BY DEF LeaderTimeout, TimedOut
  <1>2. IsRaft(node[n]) /\ VotesOK(net, L, node[n]) /\ node[n].msgs = {}
    BY NodeOK
  <1>3. Steps(net, L, node[n], TimedOut(node[n])) /\ Moves(G, node[n], TimedOut(node[n]))
    BY <1>1, <1>2, TimedOutMoves
  <1> QED BY <1>1, <1>3, ProcessReadyAdvance

\* RawNode::step of any message the node may be given.
LEMMA StepAdvance ==
    ASSUME NEW K, NEW L, Inv(K, L), NEW G, MatchInv(K, L, G), NEW n \in K.progress, NEW m, Receivable(net, node[n], m),
           Copies(G[m.term], m), ProcessReady(n, Step(node[n], m))
    PROVE  Advance(K, L, G)
  <1> DEFINE t == Step(node[n], m)
             s == node[n]
  <1>1. IsRaft(s) /\ VotesOK(net, L, s) /\ Receivable(net, s, m)
    BY NodeOK
  <1>2. Fitting(G, s, m)
    BY DEF Fitting, MatchInv, LogInv
  <1>3. Steps(net, L, s, t) /\ Moves(G, s, t)
    <2> HIDE DEF s
    <2>1. t = Step(s, m)
      BY DEF s
    <2> HIDE DEF t
    <2> QED BY <2>1, <1>1, <1>2, StepSteps, StepMoves
  <1> HIDE DEF t
  <1>4. ProcessReady(n, t)
    BY DEF t
  <1> QED BY <1>3, <1>4, ProcessReadyAdvance

\* RawNode::propose and transfer_leader.
LEMMA CallAdvance ==
    ASSUME NEW K, NEW L, Inv(K, L), NEW G, MatchInv(K, L, G), NEW n \in K.progress,
           (\E v \in Value : Propose(n, v)) \/ (\E to : TransferLeader(n, to))
    PROVE  Advance(K, L, G)
  <1>1. CASE \E v \in Value : Propose(n, v)
    <2>1. PICK v \in Value : Propose(n, v)
      BY <1>1
    <2> DEFINE m == [type |-> "MsgPropose", from |-> n, to |-> n, term |-> 0, entry |-> NormalEntry(v)]
    <2>2. ProcessReady(n, Step(node[n], m))
      BY <2>1 DEF Propose, ProposeEntry
    <2>3. Receivable(net, node[n], m) /\ Copies(G[m.term], m)
      BY DEF Receivable, MsgOK, Sane, KnowsPeer, Responses, VoteResponses, FromLeader, NormalEntry, Copies
    <2> HIDE DEF m
    <2> QED BY <2>2, <2>3, StepAdvance
  <1>2. CASE \E to : TransferLeader(n, to)
    <2>1. PICK to : TransferLeader(n, to)
      BY <1>2
    <2> DEFINE m == [type |-> "MsgTransferLeader", from |-> to, to |-> n, term |-> 0]
    <2>2. ProcessReady(n, Step(node[n], m))
      BY <2>1 DEF TransferLeader
    <2>3. Receivable(net, node[n], m) /\ Copies(G[m.term], m)
      BY DEF Receivable, MsgOK, Sane, KnowsPeer, Responses, VoteResponses, FromLeader, Copies
    <2> HIDE DEF m
    <2> QED BY <2>2, <2>3, StepAdvance
  <1> QED BY <1>1, <1>2

\* A message that arrives.
LEMMA ReceiveAdvance ==
    ASSUME NEW K, NEW L, Inv(K, L), NEW G, MatchInv(K, L, G), NEW types, Receive(types)
    PROVE  Advance(K, L, G)
  <1>1. PICK m \in net : m.to \in Nodes /\ KnowsPeer(node[m.to], m) /\ ProcessReady(m.to, Step(node[m.to], m))
    BY DEF Receive
  <1> DEFINE n == m.to
  <1>2. n \in K.progress
    BY <1>1 DEF Nodes, Inv
  <1>3. node[n].id = n /\ node[n].conf = K
    BY <1>2, NodeOK
  <1>4. Receivable(net, node[n], m) /\ Copies(G[m.term], m)
    BY <1>1, <1>2, <1>3 DEF Receivable, Inv, MatchInv
  <1> QED BY <1>1, <1>2, <1>4, StepAdvance

\* The actions that keep role, term, votes and log, by design.
LEMMA QuietAdvance ==
    ASSUME NEW K, NEW L, Inv(K, L), NEW G, MatchInv(K, L, G), NEW n \in K.progress,
           \/ LeaseExpires(n)
           \/ Beat(n)
           \/ \E j : ReportUnreachable(n, j)
           \/ \E j, failed : ReportSnapshot(n, j, failed)
           \/ RequestSnapshotFor(n)
    PROVE  Advance(K, L, G)
  <1>1. CASE LeaseExpires(n)
    <2> DEFINE yes == TRUE
               t == [node[n] EXCEPT !.expired = yes]
    <2>1. ProcessReady(n, t)
      BY <1>1 DEF LeaseExpires
    <2> HIDE DEF yes
    <2>2. Keeps(node[n], t)
      BY NodeOK, SetExpiredKeeps
    <2> HIDE DEF t
    <2> QED BY <2>1, <2>2, KeepsReadyAdvance
  <1>2. CASE Beat(n)
    <2> DEFINE t == BcastHeartbeat(node[n])
    <2>1. ProcessReady(n, t) /\ node[n].state = "Leader"
      BY <1>2 DEF Beat
    <2>2. Keeps(node[n], t)
      BY <2>1, NodeOK, BcastHeartbeatKeeps DEF BcastHeartbeat
    <2> HIDE DEF t
    <2> QED BY <2>1, <2>2, KeepsReadyAdvance
  <1>3. CASE \E j : ReportUnreachable(n, j)
    <2>0. PICK j : ReportUnreachable(n, j)
      BY <1>3
    <2> DEFINE t == HandleUnreachable(node[n], j)
    <2>1. ProcessReady(n, t) /\ node[n].state = "Leader"
      BY <2>0 DEF ReportUnreachable
    <2>2. Keeps(node[n], t)
      BY <2>1, NodeOK, HandleUnreachableKeeps
    <2> HIDE DEF t
    <2> QED BY <2>1, <2>2, KeepsReadyAdvance
  <1>4. CASE \E j, failed : ReportSnapshot(n, j, failed)
    <2>0. PICK j, failed : ReportSnapshot(n, j, failed)
      BY <1>4
    <2> DEFINE t == HandleSnapshotStatus(node[n], j, failed)
    <2>1. ProcessReady(n, t) /\ node[n].state = "Leader"
      BY <2>0 DEF ReportSnapshot
    <2>2. Keeps(node[n], t)
      BY <2>1, NodeOK, HandleSnapshotStatusKeeps
    <2> HIDE DEF t
    <2> QED BY <2>1, <2>2, KeepsReadyAdvance
  <1>5. CASE RequestSnapshotFor(n)
    <2> DEFINE t == RequestSnapshot(node[n])
    <2>1. ProcessReady(n, t)
      BY <1>5 DEF RequestSnapshotFor
    <2>2. Keeps(node[n], t)
      BY NodeOK, RequestSnapshotKeeps
    <2> HIDE DEF t
    <2> QED BY <2>1, <2>2, KeepsReadyAdvance
  <1> QED BY <1>1, <1>2, <1>3, <1>4, <1>5

\* What a method that keeps role, term, votes and log makes of a node, handed out.
LEMMA DrainedAdvance ==
    ASSUME NEW K, NEW L, Inv(K, L), NEW G, MatchInv(K, L, G), NEW n \in K.progress,
           NEW s, IsRaft(s), s.id = n, s.conf = K, s.msgs = {}, VotesOK(net, L, s),
           s.term = node[n].term, s.state = node[n].state, s.log = node[n].log,
           NEW t, Keeps(s, t), NEW u, u.term = t.term, u.state = t.state, u.log = t.log,
           net' = net \cup t.msgs, node' = [node EXCEPT ![n] = u],
           \A k \in K.progress \ {n} : disk'[k] = disk[k], SamePrefix(disk'[n].log, u.log, u.persisted)
    PROVE  Advance(K, L, G)
  <1>1. Steps(net, L, s, t) /\ Moves(G, s, t)
    BY KeepsSteps, KeepsMoves
  <1>2. Advances(K, L, G, n, s, t, u)
    BY <1>1 DEF Advances
  <1> QED BY <1>2 DEF Advance

\* RawNode::read_index.
LEMMA ReadIndexAdvance ==
    ASSUME NEW K, NEW L, Inv(K, L), NEW G, MatchInv(K, L, G), NEW n \in K.progress, ReadIndex(n)
    PROVE  Advance(K, L, G)
  <1> DEFINE c == Len(reads.asked) + 1
             m == [type |-> "MsgReadIndex", from |-> None, to |-> n, term |-> 0, ctx |-> c]
             s == node[n]
             t == Step(s, m)
             u == [t EXCEPT !.msgs = {}, !.read_states = {}]
  <1>1. net' = net \cup t.msgs /\ node' = [node EXCEPT ![n] = u] /\ disk' = disk
    BY DEF ReadIndex
  <1> HIDE DEF c
  <1>2. MsgOK(K, m) /\ m.type = "MsgReadIndex" /\ m.term = 0
    BY DEF MsgOK, FromLeader
  <1> HIDE DEF m
  <1>3. IsRaft(s) /\ s.id = n /\ s.conf = K /\ s.msgs = {} /\ VotesOK(net, L, s)
    BY NodeOK
  <1>4. s.term = node[n].term /\ s.state = node[n].state /\ s.log = node[n].log /\ SamePrefix(disk[n].log, s.log, s.persisted)
    BY DEF MatchInv, LogInv
  <1> HIDE DEF s
  <1>5. Keeps(s, t)
    BY <1>2, <1>3, ReadIndexKeeps
  <1> HIDE DEF t
  <1>6. IsRaft(t) /\ t.persisted = s.persisted /\ t.log = s.log
    BY <1>5 DEF Keeps
  <1>7. u.term = t.term /\ u.state = t.state /\ u.log = t.log /\ u.persisted = t.persisted
    BY <1>6 DEF IsRaft, RaftFields
  <1> HIDE DEF u
  <1>8. SamePrefix(disk'[n].log, u.log, u.persisted) /\ \A k \in K.progress \ {n} : disk'[k] = disk[k]
    BY <1>1, <1>4, <1>6, <1>7
  <1> QED BY <1>1, <1>3, <1>4, <1>5, <1>7, <1>8, DrainedAdvance

\* What applying an entry leaves alone
Applies(s, t) ==
    /\ IsRaft(t) /\ t.id = s.id /\ t.conf = s.conf /\ t.term = s.term /\ t.state = s.state /\ t.msgs = s.msgs
    /\ t.log = s.log /\ t.first = s.first /\ t.snap = s.snap /\ t.committed = s.committed /\ t.persisted = s.persisted
    /\ t.prs = s.prs /\ t.reads = s.reads /\ t.pending_request_snapshot = s.pending_request_snapshot
    /\ t.applied > s.applied

\* Applying committed entries moves nothing else.
LEMMA ApplyReady ==
    ASSUME NEW K, NEW L, Inv(K, L), NEW G, NEW n \in K.progress, Apply(n)
    PROVE  \E t : ProcessReady(n, t) /\ Steps(net, L, node[n], t) /\ Moves(G, node[n], t) /\ Applies(node[n], t)
  <1> DEFINE s == node[n]
             next == s.applied + 1
             t == [s EXCEPT !.applied = next]
  <1>1. IsRaft(s) /\ VotesOK(net, L, s)
    BY NodeOK
  <1>2. next <= MinOf({s.committed, s.persisted})
    BY DEF Apply
  <1>3. next \in Nat /\ next > 0 /\ next <= s.committed /\ next <= s.persisted /\ next <= Len(s.log)
    <2>1. s.committed \in Int /\ s.persisted \in Int /\ s.applied \in Nat /\ s.persisted <= Len(s.log) /\ Len(s.log) \in Int
      BY <1>1, LogTypes
    <2>2. MinOf({s.committed, s.persisted}) = IF s.committed <= s.persisted THEN s.committed ELSE s.persisted
      BY <2>1, MinOfTwo
    <2> HIDE DEF s
    <2> QED BY <2>1, <2>2, <1>2
  <1>4. s.log[next].type # "ConfChange"
    <2>1. s.log[next] \in NEntry
      BY <1>1, <1>3, EntryType
    <2> QED BY <2>1 DEF NEntry
  <1>5. ~s.conf.auto_leave
    BY <1>1 DEF IsRaft, FixedConf
  <1>6. CommitApply(s, next) = t
    BY <1>5 DEF CommitApply
  <1>7. ProcessReady(n, t)
    BY <1>4, <1>6 DEF Apply
  <1> HIDE DEF s, next
  <1>8. IsRaft(t)
    BY <1>1, <1>3 DEF IsRaft, RaftFields
  <1>9. /\ t.id = s.id /\ t.config = s.config /\ t.conf = s.conf /\ t.term = s.term /\ t.vote = s.vote
        /\ t.state = s.state /\ t.votes = s.votes /\ t.msgs = s.msgs /\ t.log = s.log
        /\ t.persisted = s.persisted /\ t.snap = s.snap /\ t.first = s.first
    BY <1>1 DEF IsRaft, RaftFields
  <1>0. Applies(s, t)
    <2>1. s.applied \in Nat
      BY <1>1, LogTypes
    <2> QED BY <2>1, <1>1, <1>8 DEF IsRaft, RaftFields, Applies, next
  <1> HIDE DEF t
  <1>10. Steps(net, L, s, t)
    BY <1>1, <1>8, <1>9, SameRoleSteps
  <1>11. Moves(G, s, t)
    <2>1. s.state \in {"Follower", "PreCandidate", "Candidate", "Leader"}
      BY <1>1 DEF IsRaft
    <2> QED BY <2>1, <1>9 DEF Moves
  <1> QED BY <1>0, <1>7, <1>10, <1>11 DEF s

\* Applying committed entries.
LEMMA ApplyAdvance ==
    ASSUME NEW K, NEW L, Inv(K, L), NEW G, MatchInv(K, L, G), NEW n \in K.progress, Apply(n)
    PROVE  Advance(K, L, G)
  BY ApplyReady, ProcessReadyAdvance

\* MemStorage::compact.
LEMMA CompactAdvance ==
    ASSUME NEW K, NEW L, Inv(K, L), NEW G, MatchInv(K, L, G), NEW n \in K.progress, NEW i, Compact(n, i)
    PROVE  Advance(K, L, G)
  <1> DEFINE s == node[n]
             u == [s EXCEPT !.first = i]
  <1>1. IsRaft(s) /\ s.id = n /\ s.conf = K /\ s.msgs = {} /\ VotesOK(net, L, s)
    BY NodeOK
  <1>2. node' = [node EXCEPT ![n] = u] /\ net' = net \cup s.msgs /\ disk' = disk
    BY <1>1 DEF Compact
  <1>3. s.term = node[n].term /\ s.state = node[n].state /\ s.log = node[n].log /\ SamePrefix(disk[n].log, s.log, s.persisted)
    BY DEF MatchInv, LogInv
  <1> HIDE DEF s
  <1>4. u.term = s.term /\ u.state = s.state /\ u.log = s.log /\ u.persisted = s.persisted
    BY <1>1 DEF IsRaft, RaftFields
  <1> HIDE DEF u
  <1>5. Keeps(s, s) /\ \A k \in K.progress \ {n} : disk'[k] = disk[k]
    BY <1>1, <1>2, KeepsRefl
  <1>6. SamePrefix(disk'[n].log, u.log, u.persisted)
    BY <1>2, <1>3, <1>4
  <1> QED BY <1>1, <1>2, <1>3, <1>4, <1>5, <1>6, DrainedAdvance

\* Leader n has its log up to p and a commit index c on disk; q is what it was, but
\* for this, and t what it makes of it.
Flushes(K, n, p, c, q, t) ==
    /\ node[n].state = "Leader" /\ p \in node[n].persisted..Len(node[n].log)
    /\ c \in Nat /\ disk[n].commit <= c /\ c <= p /\ c <= node[n].committed
    /\ IsRaft(q) /\ q.id = n /\ q.conf = K /\ q.term = node[n].term /\ q.vote = node[n].vote
    /\ q.state = node[n].state /\ q.votes = node[n].votes /\ q.msgs = {} /\ q.snap = node[n].snap
    /\ q.persisted = p /\ q.log = node[n].log /\ q.first = node[n].first /\ q.committed = node[n].committed
    /\ Keeps(q, t) /\ (t = node[n] \/ t = OnPersistEntries(node[n], p))
    /\ net' = net \cup t.msgs /\ node' = [node EXCEPT ![n] = Done(t)]
    /\ chosen' = IF t.committed > Len(chosen) THEN SubSeq(t.log, 1, t.committed) ELSE chosen
    /\ disk'[n].log = SubSeq(t.log, 1, p) /\ disk'[n].commit = c
    /\ \A k \in K.progress \ {n} : disk'[k] = disk[k]

\* RawNode::on_persist_ready of a leader, in these terms
LEMMA PersistFlushes ==
    ASSUME NEW K, NEW L, Inv(K, L), NEW n \in K.progress, Persist(n)
    PROVE  \E p, c, q, t : Flushes(K, n, p, c, q, t)
  <1> DEFINE s == node[n]
  <1>1. IsRaft(s) /\ s.id = n /\ s.conf = K /\ s.msgs = {} /\ VotesOK(net, L, s) /\ s.state = "Leader"
    BY NodeOK DEF Persist
  <1>2. DOMAIN node = K.progress /\ DOMAIN disk = K.progress
    BY DEF Inv
  <1> DEFINE After(p) == IF p > s.persisted THEN OnPersistEntries(s, p) ELSE s
             Sync(p, c) == [Synced(After(p)) EXCEPT !.commit = c, !.log = SubSeq(After(p).log, 1, p)]
  <1>30. PICK p \in s.persisted..Len(s.log) :
            \E c \in disk[n].commit..MinOf({p, s.committed}) :
                Publish(n, Applied(After(p))) /\ disk' = [disk EXCEPT ![n] = Sync(p, c)]
    BY DEF Persist
  <1>3. PICK c \in disk[n].commit..MinOf({p, s.committed}) :
            Publish(n, Applied(After(p))) /\ disk' = [disk EXCEPT ![n] = Sync(p, c)]
    BY <1>30
  <1> DEFINE t == IF p > s.persisted THEN OnPersistEntries(s, p) ELSE s
             d == [Synced(t) EXCEPT !.commit = c, !.log = SubSeq(t.log, 1, p)]
             u == [Applied(t) EXCEPT !.msgs = {}, !.read_states = {}]
  <1>4. s.persisted \in Nat /\ Len(s.log) \in Nat /\ p \in Nat /\ p >= s.persisted /\ p <= Len(s.log)
    BY <1>1, LogTypes
  <1>5. PICK q : /\ IsRaft(q) /\ q.id = s.id /\ q.conf = s.conf /\ q.term = s.term /\ q.vote = s.vote
                 /\ q.state = s.state /\ q.votes = s.votes /\ q.msgs = s.msgs /\ q.snap = s.snap
                 /\ q.persisted = p /\ q.log = s.log /\ q.first = s.first /\ q.committed = s.committed
                 /\ Keeps(q, t)
    <2>1. CASE p > s.persisted
      BY <2>1, <1>1, <1>4, OnPersistEntriesKeeps
    <2>2. CASE ~(p > s.persisted)
      <3>1. s.persisted = p
        BY <2>2, <1>4
      <3> QED BY <2>2, <3>1, <1>1, KeepsRefl
    <2> QED BY <2>1, <2>2
  <1>6. /\ net' = net \cup Applied(t).msgs /\ node' = [node EXCEPT ![n] = u] /\ disk' = [disk EXCEPT ![n] = d]
        /\ chosen' = IF Applied(t).committed > Len(chosen) THEN SubSeq(Applied(t).log, 1, Applied(t).committed) ELSE chosen
    BY <1>3 DEF Publish
  <1>7. t = s \/ t = OnPersistEntries(s, p)
    OBVIOUS
  <1>8. c \in Nat /\ disk[n].commit <= c /\ c <= p /\ c <= s.committed
    <2>1. disk[n].commit \in Nat /\ s.committed \in Nat
      BY <1>1, LogTypes DEF Inv, NodeInv
    <2>2. MinOf({p, s.committed}) = IF p <= s.committed THEN p ELSE s.committed
      BY <2>1, <1>4, MinOfTwo
    <2> QED BY <2>1, <2>2, <1>4
  <1> HIDE DEF s, t
  <1>9. IsRaft(t) /\ t.state = "Leader"
    BY <1>1, <1>5 DEF Keeps
  <1>10. u = Done(t)
    BY <1>9 DEF Done
  <1>11. Applied(t).msgs = t.msgs /\ Applied(t).committed = t.committed /\ Applied(t).log = t.log
    BY <1>9 DEF Applied, IsRaft, RaftFields
  <1>12. d.log = SubSeq(t.log, 1, p) /\ d.commit = c
    BY DEF Synced
  <1> HIDE DEF d, u
  <1>13. disk'[n] = d /\ \A k \in K.progress \ {n} : disk'[k] = disk[k]
    BY <1>2, <1>6
  <1>14. Flushes(K, n, p, c, q, t)
    BY <1>1, <1>4, <1>5, <1>6, <1>7, <1>8, <1>10, <1>11, <1>12, <1>13 DEF Flushes, s
  <1> QED BY <1>14

\* The leader goes on.
LEMMA FlushAdvances ==
    ASSUME NEW K, NEW L, Inv(K, L), NEW G, MatchInv(K, L, G), NEW n \in K.progress,
           NEW p, NEW c, NEW q, NEW t, Flushes(K, n, p, c, q, t)
    PROVE  Advances(K, L, G, n, q, t, Done(t))
  <1> DEFINE u == Done(t)
             s == node[n]
  <1>1. /\ IsRaft(q) /\ q.id = n /\ q.conf = K /\ q.term = s.term /\ q.vote = s.vote
        /\ q.state = s.state /\ q.votes = s.votes /\ q.msgs = {} /\ q.snap = s.snap
        /\ q.persisted = p /\ q.log = s.log /\ s.state = "Leader" /\ Keeps(q, t)
    BY DEF Flushes
  <1>2. /\ p \in s.persisted..Len(s.log) /\ net' = net \cup t.msgs /\ node' = [node EXCEPT ![n] = u]
        /\ disk'[n].log = SubSeq(t.log, 1, p) /\ \A k \in K.progress \ {n} : disk'[k] = disk[k]
    BY DEF Flushes
  <1>3. IsRaft(s) /\ s.id = n /\ s.conf = K /\ s.msgs = {} /\ VotesOK(net, L, s)
    BY NodeOK
  <1> HIDE DEF s
  <1>4. IsRaft(t) /\ t.persisted = p /\ t.log = s.log /\ t.state = "Leader"
    BY <1>1 DEF Keeps
  <1>5. u = [Applied(t) EXCEPT !.msgs = {}, !.read_states = {}]
    BY <1>4 DEF Done
  <1> HIDE DEF u
  <1>6. u.term = t.term /\ u.state = t.state /\ u.persisted = t.persisted /\ u.log = t.log
    BY <1>4, <1>5, AppliedRaft
  <1>7. s.persisted \in Nat /\ Len(s.log) \in Nat /\ p \in Nat /\ p <= Len(s.log)
    BY <1>2, <1>3, LogTypes
  <1>8. SamePrefix(SubSeq(t.log, 1, p), t.log, p)
    <2>1. t.log \in Seq(NEntry) /\ Len(t.log) = Len(s.log)
      BY <1>4 DEF IsRaft
    <2> QED BY <2>1, <1>7 DEF SamePrefix
  <1>9. VotesOK(net, L, q)
    BY <1>1, <1>3 DEF VotesOK
  <1>10. Steps(net, L, q, t) /\ Moves(G, q, t)
    BY <1>1, <1>9, KeepsSteps, KeepsMoves
  <1>11. SamePrefix(disk'[n].log, u.log, u.persisted)
    BY <1>2, <1>4, <1>6, <1>8
  <1>12. Advances(K, L, G, n, q, t, u)
    BY <1>1, <1>2, <1>6, <1>10, <1>11 DEF Advances, s
  <1> QED BY <1>12 DEF u

\* RawNode::on_persist_ready of a leader.
LEMMA PersistAdvance ==
    ASSUME NEW K, NEW L, Inv(K, L), NEW G, MatchInv(K, L, G), NEW n \in K.progress, Persist(n)
    PROVE  Advance(K, L, G)
  BY PersistFlushes, FlushAdvances DEF Advance

\* A node that comes back has the log that was on its disk.
LEMMA RestartedRaft ==
    ASSUME NEW K, NEW L, Inv(K, L), NEW n \in K.progress, Restart(n)
    PROVE  LET s == node[n]
               a == MinOf({s.applied, disk[n].commit})
               store == [first |-> s.first, snap |-> s.snap, applied |-> a]
           IN  /\ a \in Nat /\ a <= s.applied /\ a <= disk[n].commit
               /\ Fresh(node'[n], n, s.config, K, disk[n], store)
               /\ node'[n] = NewRaft(n, s.config, K, disk[n], store)
  <1> DEFINE s == node[n]
             hs == disk[n]
             a == MinOf({s.applied, hs.commit})
             store == [first |-> s.first, snap |-> s.snap, applied |-> a]
             g == s.config
             u == NewRaft(n, g, K, hs, store)
  <1>1. IsRaft(s) /\ s.conf = K
    BY NodeOK
  <1>2. NodeInv(K, n) /\ DOMAIN node = K.progress
    BY DEF Inv
  <1>3. node'[n] = u
    BY <1>1, <1>2 DEF Restart
  <1>4. /\ hs.term = s.term /\ hs.commit \in Nat /\ s.snap <= hs.commit /\ hs.log \in Seq(NEntry)
        /\ Len(hs.log) = s.persisted /\ s.snap <= s.persisted
    BY <1>2 DEF NodeInv
  <1>5. g \in ConfigType /\ FixedConf(K) /\ s.first \in Nat \ {0}
    BY <1>1 DEF IsRaft
  <1> HIDE DEF s, hs
  <1>7. s.applied \in Nat /\ s.applied <= s.persisted /\ s.snap \in Nat /\ s.persisted \in Nat /\ s.term \in Nat
    BY <1>1, LogTypes
  <1>8. a \in Nat /\ a <= hs.commit /\ a <= s.persisted /\ a <= s.applied
    <2>1. a = IF s.applied <= hs.commit THEN s.applied ELSE hs.commit
      BY <1>4, <1>7, MinOfTwo
    <2> QED BY <2>1, <1>4, <1>7
  <1> HIDE DEF a
  <1>9. store.first = s.first /\ store.snap = s.snap /\ store.applied = a
    OBVIOUS
  <1> HIDE DEF store
  <1>10. Stored(hs, store)
    BY <1>4, <1>5, <1>7, <1>8, <1>9 DEF Stored
  <1> HIDE DEF g
  <1>11. Fresh(u, n, g, K, hs, store)
    BY <1>5, <1>10, NewRaftType
  <1> HIDE DEF u
  <1>12. /\ a \in Nat /\ a <= s.applied /\ a <= hs.commit
         /\ Fresh(node'[n], n, g, K, hs, store)
         /\ node'[n] = u
    BY <1>3, <1>8, <1>11
  <1> QED BY <1>12 DEF s, hs, a, store, g, u

\* A crash and a restart keep the logs matching.
LEMMA RestartMatch ==
    ASSUME NEW K, NEW L, Inv(K, L), Inv(K, L)', NEW G, MatchInv(K, L, G), NEW n \in K.progress, Restart(n)
    PROVE  MatchInv(K, L, G)'
  <1> DEFINE u == node'[n]
             dl == disk[n].log
  <1>1. u.term = disk[n].term /\ u.state = "Follower" /\ u.log = dl /\ u.persisted = Len(dl)
    BY RestartedRaft, ZenonT(40) DEF Fresh
  <1>2. /\ DOMAIN node = K.progress /\ net' = net /\ disk' = disk /\ NodeInv(K, n) /\ LogInv(G, n)
        /\ \A k \in K.progress \ {n} : node'[k] = node[k]
    BY DEF Inv, MatchInv, Restart
  <1>3. u.term = node[n].term /\ dl \in Seq(NEntry) /\ Len(dl) = node[n].persisted /\ node[n].log \in Seq(NEntry)
    BY <1>1, <1>2 DEF NodeInv, IsRaft
  <1> HIDE DEF u
  <1>4. Fits(G, u.term, dl)
    <2>1. Fits(G, u.term, node[n].log) /\ SamePrefix(dl, node[n].log, Len(dl))
      BY <1>2, <1>3 DEF LogInv
    <2> QED BY <2>1, <1>3, FitsPrefix
  <1>5. LogInv(G, n)'
    <2>1. SamePrefix(dl, dl, Len(dl))
      BY <1>3 DEF SamePrefix
    <2>2. disk'[n].log = dl
      BY <1>2
    <2> HIDE DEF dl
    <2> QED BY <2>1, <2>2, <1>1, <1>4 DEF LogInv, u
  <1>6. ASSUME NEW k \in K.progress, k # n PROVE LogInv(G, k)'
    BY <1>2, <1>6 DEF MatchInv, LogInv
  <1>7. ASSUME NEW c, NEW x \in Nat, Owned(K, L, c, x) PROVE Owned(K, L, c, x)'
    <2>1. CASE c = n
      BY <2>1, <1>1, <1>2, <1>3, <1>7 DEF Owned, u
    <2>2. CASE c # n
      BY <2>2, <1>2, <1>7 DEF Owned
    <2> QED BY <2>1, <2>2
  <1>8. \A x \in Nat : G[x] # <<>> => (\E c : Owned(K, L, c, x))'
    BY <1>7 DEF MatchInv
  <1> QED BY <1>2, <1>5, <1>6, <1>8 DEF MatchInv

\* Every action keeps the logs matching.
LEMMA NextMatch ==
    ASSUME NEW K, NEW L, Inv(K, L), NEW G, MatchInv(K, L, G), [Next]_vars
    PROVE  \E G2 : MatchInv(K, L, G2)'
  <1>0. Nodes = K.progress /\ Inv(K, L)'
    BY NextInv DEF Nodes, Inv
  <1>1. CASE UNCHANGED vars
    <2>1. MatchInv(K, L, G)'
      BY <1>1 DEF vars, MatchInv, LogInv, Owned
    <2> QED BY <2>1
  <1>2. ASSUME NEW n \in Nodes, ProposeConfChange(n) PROVE FALSE
    <2>1. limits.changes = {}
      BY DEF Inv
    <2>2. Changes(n) = {}
      BY <2>1 DEF Changes
    <2> QED BY <1>2, <2>2 DEF ProposeConfChange
  <1>3. ASSUME NEW n \in K.progress, Restart(n) PROVE \E G2 : MatchInv(K, L, G2)'
    BY <1>0, <1>3, RestartMatch
  <1>4. ASSUME Advance(K, L, G) PROVE \E G2 : MatchInv(K, L, G2)'
    <2>1. PICK n, s, t, u : Advances(K, L, G, n, s, t, u)
      BY <1>4 DEF Advance
    <2> DEFINE G2 == IF t.state = "Leader" THEN [G EXCEPT ![t.term] = t.log] ELSE G
    <2>2. IF t.state = "Leader" THEN G2 = [G EXCEPT ![t.term] = t.log] ELSE G2 = G
      OBVIOUS
    <2> HIDE DEF G2
    <2>3. MatchInv(K, L, G2)'
      BY <2>1, <2>2, <1>0, NodeStepMatch
    <2> QED BY <2>3
  <1>5. CASE \E types : Receive(types)
    BY <1>4, <1>5, ReceiveAdvance
  <1>6. CASE Next
    <2>1. CASE \E n \in Nodes :
        \/ ElectionTimeout(n)
        \/ Campaign(n)
        \/ LeaseExpires(n)
        \/ LeaderTimeout(n)
        \/ Beat(n)
        \/ \E v \in Value : Propose(n, v)
        \/ ProposeConfChange(n)
        \/ \E to \in Nodes : TransferLeader(n, to)
        \/ ReadIndex(n)
        \/ \E j \in Nodes : ReportUnreachable(n, j)
        \/ \E j \in Nodes, failed \in BOOLEAN : ReportSnapshot(n, j, failed)
        \/ RequestSnapshotFor(n)
        \/ Persist(n)
        \/ Apply(n)
        \/ \E i \in 1..limits.log : Compact(n, i)
        \/ Restart(n)
      <3>1. PICK n \in K.progress :
        \/ ElectionTimeout(n) \/ Campaign(n)
        \/ \/ LeaseExpires(n)
           \/ Beat(n)
           \/ \E j : ReportUnreachable(n, j)
           \/ \E j, failed : ReportSnapshot(n, j, failed)
           \/ RequestSnapshotFor(n)
        \/ LeaderTimeout(n)
        \/ (\E v \in Value : Propose(n, v)) \/ (\E to : TransferLeader(n, to))
        \/ ProposeConfChange(n)
        \/ ReadIndex(n)
        \/ Persist(n)
        \/ Apply(n)
        \/ \E i : Compact(n, i)
        \/ Restart(n)
        BY <2>1, <1>0
      <3>2. CASE ElectionTimeout(n) \/ Campaign(n)
        BY <3>2, <1>4, CampaignAdvance
      <3>3. CASE \/ LeaseExpires(n)
                 \/ Beat(n)
                 \/ \E j : ReportUnreachable(n, j)
                 \/ \E j, failed : ReportSnapshot(n, j, failed)
                 \/ RequestSnapshotFor(n)
        BY <3>3, <1>4, QuietAdvance
      <3>4. CASE LeaderTimeout(n)
        BY <3>4, <1>4, LeaderTimeoutAdvance
      <3>5. CASE (\E v \in Value : Propose(n, v)) \/ (\E to : TransferLeader(n, to))
        BY <3>5, <1>4, CallAdvance
      <3>6. CASE ProposeConfChange(n)
        BY <3>6, <1>0, <1>2
      <3>7. CASE ReadIndex(n)
        BY <3>7, <1>4, ReadIndexAdvance
      <3>8. CASE Persist(n)
        BY <3>8, <1>4, PersistAdvance
      <3>9. CASE Apply(n)
        BY <3>9, <1>4, ApplyAdvance
      <3>10. CASE \E i : Compact(n, i)
        BY <3>10, <1>4, CompactAdvance
      <3>11. CASE Restart(n)
        BY <3>11, <1>3
      <3> QED BY <3>1, <3>2, <3>3, <3>4, <3>5, <3>6, <3>7, <3>8, <3>9, <3>10, <3>11
    <2> QED BY <1>5, <1>6, <2>1
            DEF Next, ReceiveVoteRequest, ReceiveVoteResponse, ReceiveAppend, ReceiveAppendResponse, ReceiveHeartbeat,
                ReceiveHeartbeatResponse, ReceiveSnapshot, ReceiveTimeoutNow, ReceiveForwarded, ReceiveReadIndexResp
  <1> QED BY <1>1, <1>6

(***************************************************************************)
(* How a group begins.                                                     *)
(***************************************************************************)
\* The group never changes its configuration, and one voter is not enough.
Unchanging == \A sc \in Scenarios : sc.changes = {} /\ sc.voters >= 2

\* Node n of a group that begins with the leader L, or none, has read its storage.
Begun(K, L, n, hs, store) ==
    /\ disk[n] = hs
    /\ IsRaft(node[n]) /\ node[n].id = n /\ node[n].conf = K /\ node[n].term = hs.term /\ node[n].vote = hs.vote
    /\ node[n].votes = <<>> /\ node[n].msgs = {} /\ node[n].log = hs.log /\ node[n].committed = hs.commit
    /\ node[n].snap = store.snap /\ node[n].persisted = Len(hs.log) /\ node[n].applied = store.applied
    /\ node[n].first = store.first /\ node[n].pending_request_snapshot = 0 /\ node[n].reads = <<>>
    /\ node[n].state = IF n = L THEN "Leader" ELSE "Follower"
    /\ n = L => \A j \in K.progress : /\ node[n].prs[j].matched = 1 /\ node[n].prs[j].next_idx = 2
                                      /\ node[n].prs[j].pending_snapshot = 0
                                      /\ node[n].prs[j].pending_request_snapshot = 0

BeginDisk(L) == IF L = None THEN FreshDisk ELSE SettledDisk(L)
BeginStore(L) == IF L = None THEN FreshStore ELSE [FreshStore EXCEPT !.applied = 1]

\* A group that begins with the leader L, or none
Begins(K, L) ==
    /\ FixedConf(K) /\ L \in K.progress \cup {None}
    /\ DOMAIN node = K.progress /\ DOMAIN disk = K.progress /\ limits.changes = {} /\ net = {}
    /\ chosen = BeginDisk(L).log /\ reads = [asked |-> <<>>, served |-> {}]
    /\ \E sc \in Scenarios : budget = sc.budget
    /\ \A n \in K.progress : Begun(K, L, n, BeginDisk(L), BeginStore(L))

\* The leader of a group that begins settled.
LEMMA SettledRaft ==
    ASSUME NEW s, IsRaft(s), s.state = "Follower", s.vote = s.id, s.term = 1
    PROVE  LET u == SettledLeader(s)
           IN  /\ IsRaft(u) /\ \A x \in RaftFields \ {"state", "leader_id", "prs"} : u[x] = s[x]
               /\ u.state = "Leader"
               /\ \A j \in s.conf.progress : /\ u.prs[j].matched = 1 /\ u.prs[j].next_idx = 2
                                             /\ u.prs[j].pending_snapshot = 0
                                             /\ u.prs[j].pending_request_snapshot = 0
  <1> DEFINE u == SettledLeader(s)
             prs == [j \in s.conf.progress |->
                        [BecomeReplicate([NewProgress(1) EXCEPT !.matched = 1]) EXCEPT !.recent_active = (j # s.id)]]
  <1>1. u = [s EXCEPT !.state = "Leader", !.leader_id = s.id, !.prs = prs]
    BY DEF SettledLeader
  <1>2. ASSUME NEW b PROVE LET p == [BecomeReplicate([NewProgress(1) EXCEPT !.matched = 1]) EXCEPT !.recent_active = b]
                           IN  /\ IsProgress(p) /\ p.matched = 1 /\ p.next_idx = 2 /\ p.pending_snapshot = 0
                               /\ p.pending_request_snapshot = 0
    BY DEF IsProgress, BecomeReplicate, ResetState, NewProgress, InvalidIndex
  <1>3. /\ DOMAIN prs = s.conf.progress
        /\ \A j \in s.conf.progress : /\ IsProgress(prs[j]) /\ prs[j].matched = 1 /\ prs[j].next_idx = 2
                                      /\ prs[j].pending_snapshot = 0 /\ prs[j].pending_request_snapshot = 0
    BY <1>2
  <1> HIDE DEF prs, u
  <1>4. /\ DOMAIN u = RaftFields /\ u.id = s.id /\ u.config = s.config /\ u.conf = s.conf /\ u.term = s.term /\ u.vote = s.vote
        /\ u.state = "Leader" /\ u.votes = s.votes /\ u.msgs = s.msgs /\ u.snap = s.snap /\ u.prs = prs
        /\ u.persisted = s.persisted /\ u.log = s.log /\ u.first = s.first /\ u.committed = s.committed
        /\ u.applied = s.applied /\ u.pending_request_snapshot = s.pending_request_snapshot
    BY <1>1 DEF IsRaft, RaftFields
  <1>5. IsRaft(u)
    BY <1>3, <1>4 DEF IsRaft
  <1>6. \A x \in RaftFields \ {"state", "leader_id", "prs"} : u[x] = s[x]
    BY <1>1 DEF IsRaft, RaftFields
  <1> QED BY <1>3, <1>4, <1>5, <1>6 DEF u

\* Init, in these terms
LEMMA InitBegins ==
    ASSUME Unchanging, Init
    PROVE  \E K, L : Begins(K, L)
  <1>1. PICK sc \in Scenarios, vs \in SUBSET Server, n1 \in Server : \E ls \in SUBSET (Server \ vs) :
        LET conf == InitialConf(vs, ls)
            config(n) == [sc.config EXCEPT !.priority = IF sc.favoured /\ n = n1 THEN 1 ELSE 0]
            settled(n) == NewRaft(n, config(n), conf, SettledDisk(n1), [FreshStore EXCEPT !.applied = 1])
        IN  /\ Cardinality(vs) = sc.voters /\ Cardinality(ls) = sc.learners /\ n1 \in vs
            /\ disk = [n \in vs \cup ls |-> IF sc.settled THEN SettledDisk(n1) ELSE FreshDisk]
            /\ node = [n \in vs \cup ls |->
                          IF ~sc.settled THEN NewRaft(n, config(n), conf, FreshDisk, FreshStore)
                          ELSE IF n = n1 THEN SettledLeader(settled(n))
                          ELSE [settled(n) EXCEPT !.leader_id = n1]]
            /\ net = {}
            /\ chosen = IF sc.settled THEN SettledDisk(n1).log ELSE <<>>
            /\ reads = [asked |-> <<>>, served |-> {}]
            /\ limits = [term |-> sc.term, log |-> sc.log, lazy |-> sc.lazy, changes |-> sc.changes]
            /\ budget = sc.budget
    BY Zenon DEF Init
  <1> DEFINE config(n) == [sc.config EXCEPT !.priority = IF sc.favoured /\ n = n1 THEN 1 ELSE 0]
             st == [FreshStore EXCEPT !.applied = 1]
  <1>2. PICK ls \in SUBSET (Server \ vs) :
            /\ Cardinality(vs) = sc.voters /\ n1 \in vs
            /\ disk = [n \in vs \cup ls |-> IF sc.settled THEN SettledDisk(n1) ELSE FreshDisk]
            /\ node = [n \in vs \cup ls |->
                          IF ~sc.settled THEN NewRaft(n, config(n), InitialConf(vs, ls), FreshDisk, FreshStore)
                          ELSE IF n = n1 THEN SettledLeader(NewRaft(n, config(n), InitialConf(vs, ls), SettledDisk(n1), st))
                          ELSE [NewRaft(n, config(n), InitialConf(vs, ls), SettledDisk(n1), st) EXCEPT !.leader_id = n1]]
            /\ net = {}
            /\ chosen = (IF sc.settled THEN SettledDisk(n1).log ELSE <<>>)
            /\ reads = [asked |-> <<>>, served |-> {}]
            /\ limits = [term |-> sc.term, log |-> sc.log, lazy |-> sc.lazy, changes |-> sc.changes]
            /\ budget = sc.budget
    BY <1>1
  <1> DEFINE K == InitialConf(vs, ls)
             L == IF sc.settled THEN n1 ELSE None
             fresh(n) == NewRaft(n, config(n), K, FreshDisk, FreshStore)
             sd == SettledDisk(n1)
             settled(n) == NewRaft(n, config(n), K, sd, st)
  <1>3. /\ sc.changes = {} /\ sc.voters >= 2 /\ sc.config \in ConfigType
    BY RaftAssumption DEF Unchanging, ScenarioType
  <1>4. \A n : config(n) \in ConfigType
    BY <1>3 DEF ConfigType
  <1>5. K = [incoming |-> vs, outgoing |-> {}, learners |-> ls, learners_next |-> {}, auto_leave |-> FALSE, progress |-> vs \cup ls]
    <2> DEFINE e == EmptyTracker
               no == FALSE
    <2>1. e = [incoming |-> {}, outgoing |-> {}, learners |-> {}, learners_next |-> {}, auto_leave |-> no, progress |-> {}]
      BY DEF EmptyTracker
    <2>2. K = [e EXCEPT !.incoming = vs, !.learners = ls, !.progress = vs \cup ls]
      BY DEF InitialConf
    <2> HIDE DEF e, no, K
    <2>3. K = [incoming |-> vs, outgoing |-> {}, learners |-> ls, learners_next |-> {}, auto_leave |-> no, progress |-> vs \cup ls]
      BY <2>1, <2>2
    <2> QED BY <2>3 DEF no
  <1>6. FixedConf(K) /\ K.progress = vs \cup ls /\ K.incoming = vs
    BY <1>2, <1>3, <1>5 DEF FixedConf
  <1>7. Stored(FreshDisk, FreshStore)
    BY DEF Stored, FreshDisk, FreshStore
  <1>8. sd = [term |-> 1, vote |-> n1, commit |-> 1, log |-> <<[term |-> 1, type |-> "Normal", data |-> Empty]>>]
    BY DEF SettledDisk
  <1>9. st = [first |-> 1, snap |-> 0, applied |-> 1]
    BY DEF FreshStore
  <1>10. [term |-> 1, type |-> "Normal", data |-> Empty] \in NEntry
    BY DEF NEntry
  <1>11. sd.log \in Seq(NEntry) /\ Len(sd.log) = 1
    BY <1>8, <1>10
  <1>12. Stored(sd, st)
    BY <1>8, <1>9, <1>11 DEF Stored
  <1> HIDE DEF K, st, sd, config
  <1>13. \A n \in K.progress : /\ Fresh(fresh(n), n, config(n), K, FreshDisk, FreshStore)
                               /\ Fresh(settled(n), n, config(n), K, sd, st)
    BY <1>4, <1>6, <1>7, <1>12, NewRaftType
  <1>14. /\ DOMAIN node = K.progress /\ DOMAIN disk = K.progress /\ limits.changes = {} /\ net = {}
         /\ reads = [asked |-> <<>>, served |-> {}] /\ budget = sc.budget
    BY <1>2, <1>3, <1>6
  <1>15. L \in K.progress \cup {None}
    BY <1>2, <1>6
  <1>16. CASE ~sc.settled
    <2>1. L = None
      BY <1>16
    <2>2. BeginDisk(L) = FreshDisk /\ BeginStore(L) = FreshStore /\ chosen = FreshDisk.log
      BY <1>2, <1>16, <2>1 DEF BeginDisk, BeginStore, FreshDisk
    <2>3. ASSUME NEW n \in K.progress PROVE Begun(K, L, n, FreshDisk, FreshStore)
      <3>1. node[n] = fresh(n) /\ disk[n] = FreshDisk
        BY <1>2, <1>6, <1>16 DEF K
      <3> DEFINE f == fresh(n)
      <3>2. Fresh(f, n, config(n), K, FreshDisk, FreshStore)
        BY <1>13
      <3> HIDE DEF f
      <3>3. node[n] = f /\ n # L
        <4>1. n # None
          BY <1>6, RaftAssumption DEF FixedConf
        <4> QED BY <3>1, <2>1, <4>1 DEF f
      <3> QED BY <3>1, <3>2, <3>3 DEF Fresh, Begun
    <2>4. Begins(K, L)
      BY <1>6, <1>14, <1>15, <2>2, <2>3 DEF Begins
    <2> QED BY <2>4
  <1>17. CASE sc.settled
    <2>0. sd.term = 1 /\ sd.vote = n1
      BY <1>8
    <2>2. L = n1 /\ n1 # None /\ n1 \in K.progress
      BY <1>2, <1>6, <1>17, RaftAssumption
    <2>3. BeginDisk(L) = sd /\ BeginStore(L) = st /\ chosen = sd.log
      BY <1>2, <1>17, <2>2 DEF BeginDisk, BeginStore, sd, st
    <2>4. ASSUME NEW n \in K.progress PROVE Begun(K, L, n, sd, st)
      <3> DEFINE f == settled(n)
      <3>1. /\ node[n] = (IF n = n1 THEN SettledLeader(f) ELSE [f EXCEPT !.leader_id = n1]) /\ disk[n] = sd
        BY <1>2, <1>6, <1>17 DEF K, sd
      <3>2. Fresh(f, n, config(n), K, sd, st)
        BY <1>13
      <3> HIDE DEF f
      <3>3. IsRaft(f) /\ f.id = n /\ f.term = 1 /\ f.vote = n1 /\ f.state = "Follower" /\ f.conf = K
        BY <2>0, <3>2 DEF Fresh
      <3> DEFINE u == node[n]
      <3>4. /\ IsRaft(u) /\ \A x \in RaftFields \ {"state", "leader_id", "prs"} : u[x] = f[x]
            /\ u.state = (IF n = n1 THEN "Leader" ELSE "Follower")
            /\ n = n1 => \A j \in K.progress : /\ u.prs[j].matched = 1 /\ u.prs[j].next_idx = 2
                                               /\ u.prs[j].pending_snapshot = 0
                                               /\ u.prs[j].pending_request_snapshot = 0
        <4>1. CASE n = n1
          BY <4>1, <3>1, <3>3, SettledRaft
        <4>2. CASE n # n1
          <5>1. u = [f EXCEPT !.leader_id = n1]
            BY <4>2, <3>1
          <5> HIDE DEF u
          <5>2. \A x \in RaftFields \ {"leader_id"} : u[x] = f[x]
            BY <5>1, <3>3 DEF IsRaft, RaftFields
          <5>3. DOMAIN u = DOMAIN f
            BY <5>1
          <5>4. Keeps(f, u) /\ u.msgs = f.msgs
            BY <5>2, <5>3, <3>3, TouchKeeps DEF RaftFields
          <5> QED BY <4>2, <5>2, <5>4, <3>3 DEF Keeps
        <4> QED BY <4>1, <4>2
      <3> HIDE DEF u
      <3>5. /\ u.id = f.id /\ u.conf = f.conf /\ u.term = f.term /\ u.vote = f.vote /\ u.votes = f.votes /\ u.msgs = f.msgs
            /\ u.log = f.log /\ u.committed = f.committed /\ u.snap = f.snap /\ u.persisted = f.persisted
            /\ u.applied = f.applied /\ u.first = f.first /\ u.reads = f.reads
            /\ u.pending_request_snapshot = f.pending_request_snapshot
        BY <3>4 DEF RaftFields
      <3>6. Begun(K, n1, n, sd, st)
        BY <3>1, <3>2, <3>4, <3>5 DEF Begun, Fresh, u
      <3> QED BY <3>6, <2>2
    <2>5. Begins(K, L)
      BY <1>6, <1>14, <1>15, <2>3, <2>4 DEF Begins
    <2> QED BY <2>5
  <1> QED BY <1>16, <1>17

\* The group begins in the invariant.
LEMMA BeginsInv ==
    ASSUME NEW K, NEW L, Begins(K, L)
    PROVE  Inv(K, L)
  <1> DEFINE hs == BeginDisk(L)
             store == BeginStore(L)
  <1>1. /\ FixedConf(K) /\ L \in K.progress \cup {None} /\ net = {}
        /\ \A n \in K.progress : Begun(K, L, n, hs, store)
    BY DEF Begins
  <1>2. /\ DOMAIN hs = {"term", "vote", "commit", "log"} /\ hs.commit = Len(hs.log) /\ hs.log \in Seq(NEntry)
        /\ store.snap = 0 /\ Len(hs.log) \in Nat
        /\ L # None => hs.term = 1 /\ hs.vote = L
    <2>1. [term |-> 1, type |-> "Normal", data |-> Empty] \in NEntry
      BY DEF NEntry
    <2>2. CASE L = None
      BY <2>2 DEF BeginDisk, BeginStore, FreshDisk, FreshStore
    <2>3. CASE L # None
      BY <2>1, <2>3 DEF BeginDisk, BeginStore, SettledDisk, FreshStore
    <2> QED BY <2>2, <2>3
  <1> HIDE DEF hs, store
  <1>3. ASSUME NEW n \in K.progress PROVE NodeInv(K, n)
    BY <1>1, <1>2 DEF Begun, NodeInv
  <1>4. \A v, c, x : Voted(net, L, v, c, x) <=> L # None /\ c = L /\ x = 1
    BY <1>1 DEF Voted
  <1>5. ASSUME L # None PROVE Backed(net, L, K, L, 1)
    <2>1. {v \in K.incoming : Voted(net, L, v, L, 1)} = K.incoming
      BY <1>4, <1>5
    <2>2. IsFiniteSet(K.incoming) /\ Cardinality(K.incoming) >= 2
      BY <1>1, RaftAssumption, FS_Subset DEF FixedConf
    <2>3. Cardinality(K.incoming) \in Nat
      BY <2>2, FS_CardinalityType
    <2>4. Cardinality(K.incoming) >= Majority(Cardinality(K.incoming))
      BY <2>2, <2>3 DEF Majority
    <2> QED BY <2>1, <2>4 DEF Backed
  <1>6. \A n \in K.progress : /\ node[n].state = (IF n = L THEN "Leader" ELSE "Follower")
                              /\ L # None => node[n].term = 1 /\ node[n].vote = L
    BY <1>1, <1>2 DEF Begun
  <1>7. None \notin K.progress
    BY <1>1, RaftAssumption DEF FixedConf
  <1>8. VoteInv(K, L)
    BY <1>1, <1>4, <1>5, <1>6, <1>7 DEF VoteInv
  <1> QED BY <1>1, <1>3, <1>8 DEF Inv, Begins

\* The logs of leaders that a group begins with: none, or the first leader's.
BeginLogs(L) == [x \in Nat |-> IF L # None /\ x = 1 THEN SettledDisk(L).log ELSE <<>>]

\* The group begins with logs that match.
LEMMA BeginsMatch ==
    ASSUME NEW K, NEW L, Begins(K, L), Inv(K, L)
    PROVE  MatchInv(K, L, BeginLogs(L))
  <1> DEFINE G == BeginLogs(L)
             hs == BeginDisk(L)
             store == BeginStore(L)
             e == [term |-> 1, type |-> "Normal", data |-> Empty]
  <1>1. /\ FixedConf(K) /\ L \in K.progress \cup {None} /\ net = {}
        /\ \A n \in K.progress : Begun(K, L, n, hs, store)
    BY DEF Begins
  <1>2. e \in NEntry /\ e.term = 1
    BY DEF NEntry
  <1> HIDE DEF e
  <1>3. /\ hs.log = (IF L = None THEN <<>> ELSE <<e>>)
        /\ hs.term = (IF L = None THEN 0 ELSE 1)
        /\ \A x \in Nat : G[x] = (IF L # None /\ x = 1 THEN <<e>> ELSE <<>>)
    BY DEF BeginDisk, FreshDisk, SettledDisk, BeginLogs, e
  <1>4. G \in Logs
    <2>1. G \in [Nat -> Seq(NEntry)]
      <3>1. G = [x \in Nat |-> IF L # None /\ x = 1 THEN SettledDisk(L).log ELSE <<>>]
        BY DEF BeginLogs
      <3>2. SettledDisk(L).log = <<e>>
        BY DEF SettledDisk, e
      <3>3. <<e>> \in Seq(NEntry) /\ <<>> \in Seq(NEntry)
        BY <1>2
      <3> HIDE DEF G
      <3> QED BY <3>1, <3>2, <3>3
    <2> QED BY <2>1 DEF Logs
  <1> HIDE DEF G, hs, store
  <1>5. \A x \in Nat : Fits(G, x, <<>>)
    BY DEF Fits
  <1>6. ASSUME L # None PROVE Fits(G, 1, <<e>>)
    <2>1. Len(<<e>>) = 1 /\ <<e>>[1] = e /\ G[1] = <<e>>
      BY <1>3, <1>6
    <2> DEFINE l == <<e>>
    <2> HIDE DEF l
    <2>2. SamePrefix(l, l, 1)
      BY <2>1 DEF SamePrefix, l
    <2>3. Len(l) = 1 /\ l[1].term = 1 /\ G[1] = l
      BY <2>1, <1>2 DEF l
    <2>4. \A k \in 1..Len(l) : k = 1
      BY <2>3
    <2>5. Fits(G, 1, l)
      BY <2>2, <2>3, <2>4 DEF Fits
    <2> QED BY <2>5 DEF l
  <1>7. \A x \in Nat : Fits(G, x, G[x])
    BY <1>3, <1>5, <1>6
  <1>8. ASSUME NEW x \in Nat, G[x] # <<>> PROVE Owned(K, L, L, x)
    <2>1. L # None /\ x = 1 /\ L \in K.progress
      BY <1>1, <1>3, <1>8
    <2>2. node[L].state = "Leader" /\ node[L].term = 1
      BY <1>1, <1>3, <2>1 DEF Begun
    <2>3. VoteInv(K, L)
      BY DEF Inv
    <2>4. Backed(net, L, K, L, 1)
      BY <2>1, <2>2, <2>3 DEF VoteInv
    <2> QED BY <2>1, <2>2, <2>4 DEF Owned
  <1>9. None \notin K.progress
    BY <1>1, RaftAssumption DEF FixedConf
  <1>10. ASSUME NEW n \in K.progress PROVE LogInv(G, n)
    <2>1. /\ disk[n] = hs /\ node[n].log = hs.log /\ node[n].term = hs.term /\ node[n].persisted = Len(hs.log)
          /\ node[n].state = IF n = L THEN "Leader" ELSE "Follower"
      BY <1>1 DEF Begun
    <2>2. Fits(G, node[n].term, node[n].log)
      BY <2>1, <1>3, <1>5, <1>6
    <2>3. hs.log \in Seq(NEntry)
      BY <1>2, <1>3
    <2>4. SamePrefix(hs.log, hs.log, Len(hs.log))
      BY <2>3 DEF SamePrefix
    <2>5. n = L => node[n].log = G[node[n].term]
      BY <2>1, <1>3, <1>9
    <2> QED BY <2>1, <2>2, <2>4, <2>5 DEF LogInv
  <1>11. \A m \in net : Copies(G[m.term], m)
    BY <1>1
  <1> QED BY <1>4, <1>7, <1>8, <1>10, <1>11 DEF MatchInv, G

\* All logs fit, so any two of them match.
LEMMA MatchInvLogMatching ==
    ASSUME NEW K, NEW L, Inv(K, L), NEW G, MatchInv(K, L, G)
    PROVE  LogMatching
  <1>1. ASSUME NEW n \in Nodes
        PROVE  /\ node[n].log \in Seq(NEntry) /\ Fits(G, node[n].term, node[n].log)
               /\ disk[n].log \in Seq(NEntry) /\ Fits(G, node[n].term, disk[n].log)
    <2>1. n \in K.progress /\ NodeInv(K, n) /\ LogInv(G, n)
      BY DEF Inv, MatchInv, Nodes
    <2>2. /\ node[n].log \in Seq(NEntry) /\ disk[n].log \in Seq(NEntry) /\ Len(disk[n].log) = node[n].persisted
          /\ Fits(G, node[n].term, node[n].log) /\ SamePrefix(disk[n].log, node[n].log, node[n].persisted)
      BY <2>1 DEF NodeInv, IsRaft, LogInv
    <2> QED BY <2>2, FitsPrefix
  <1>2. \A l \in AllLogs : l \in Seq(NEntry) /\ \E T : Fits(G, T, l)
    BY <1>1 DEF AllLogs
  <1>3. SUFFICES ASSUME NEW l1 \in AllLogs, NEW l2 \in AllLogs, NEW k \in 1..MinOf({Len(l1), Len(l2)}),
                        l1[k].term = l2[k].term
                 PROVE  SamePrefix(l1, l2, k)
    BY DEF LogMatching
  <1>4. l1 \in Seq(NEntry) /\ l2 \in Seq(NEntry)
    BY <1>2
  <1>5. Len(l1) \in Nat /\ Len(l2) \in Nat
    BY <1>4
  <1>6. k \in 1..Len(l1) /\ k <= Len(l2)
    BY <1>5, MinOfTwo
  <1>7. PICK T1, T2 : Fits(G, T1, l1) /\ Fits(G, T2, l2)
    BY <1>2
  <1> QED BY <1>3, <1>4, <1>6, <1>7, FitsAgree

\* At most one node leads in a term, for a group of any size of at least two voters
\* and any learners, any logs, terms and scenarios without configuration changes,
\* over messages that are lost, duplicated and reordered, and crashes and restarts
\* between any two steps: what Raft::poll, the vote of Raft::step and the HardState
\* that RawNode::ready has written before a vote is sent are for.
THEOREM RaftElectionSafety == ASSUME Unchanging PROVE Spec => []ElectionSafety
  <1> DEFINE IInv == \E K, L : Inv(K, L)
  <1>1. Init => IInv
    BY InitBegins, BeginsInv
  <1>2. IInv /\ [Next]_vars => IInv'
    <2>1. SUFFICES ASSUME NEW K, NEW L, Inv(K, L), [Next]_vars PROVE Inv(K, L)'
      OBVIOUS
    <2> QED BY <2>1, NextInv
  <1>3. IInv => ElectionSafety
    BY InvElectionSafety
  <1> QED BY <1>1, <1>2, <1>3, PTL DEF Spec

\* Two logs with an entry of the same term at the same index agree up to it, whether
\* in memory or on disk, of a leader that has sent what it has not persisted or of a
\* node that came back with less than it had: what the test of the previous entry in
\* RaftLog::maybe_append, the truncation of Unstable::truncate_and_append and
\* Raft::restore are for.
THEOREM RaftLogMatching == ASSUME Unchanging PROVE Spec => []LogMatching
  <1> DEFINE IInv == \E K, L, G : Inv(K, L) /\ MatchInv(K, L, G)
  <1>1. Init => IInv
    BY InitBegins, BeginsInv, BeginsMatch
  <1>2. IInv /\ [Next]_vars => IInv'
    <2>1. SUFFICES ASSUME NEW K, NEW L, NEW G, Inv(K, L), MatchInv(K, L, G), [Next]_vars
                   PROVE  Inv(K, L)' /\ \E G2 : MatchInv(K, L, G2)'
      OBVIOUS
    <2> QED BY <2>1, NextInv, NextMatch
  <1>3. IInv => LogMatching
    BY MatchInvLogMatching
  <1> QED BY <1>1, <1>2, <1>3, PTL DEF Spec
=============================================================================
