-------------------------- MODULE RaftSafetyProofs --------------------------
(***************************************************************************)
(* What is committed is safe, for every group that does not change its     *)
(* configuration and in which nobody calls RawNode::request_snapshot.      *)
(*                                                                         *)
(* A[v][t] is how much node v has acknowledged to the leader of term t,    *)
(* next to the history G of the leaders' logs.  It grows with what a node  *)
(* puts on its disk before it answers.  An index that a majority has       *)
(* acknowledged in term t is chosen; one that a majority of nodes has left *)
(* behind, in a later term and without acknowledging it, is blocked and    *)
(* never will be.  The invariant Safe says that the logs of later leaders  *)
(* hold whatever of term t is not blocked (LogsSafe), that disks hold what *)
(* their nodes have acknowledged unless it is blocked (Has), that voters   *)
(* vote only for those who hold that (CandOK), and that what is committed  *)
(* was chosen (ChosenSafe) and is what nodes and messages take for         *)
(* committed (StoreOK, Told).                                              *)
(*                                                                         *)
(* Three parts follow the code.  What a leader relies on, Leads, is kept by *)
(* each method of a leader.  What a follower or candidate may do when it is *)
(* told the truth, Obeys, is what each of their methods does.  Every action *)
(* is such a step with its Ready, and such a step keeps Safe (Goes).       *)
(***************************************************************************)
EXTENDS RaftProofs

(***************************************************************************)
(* What leaders send and commit.                                           *)
(***************************************************************************)
\* S holds a majority of the voters.
MajorityOf(K, S) == Cardinality(K.incoming \cap S) >= Majority(Cardinality(K.incoming))

\* The log is compacted no further than it is applied, or a snapshot was restored.
Trimmed(s) == s.snap <= s.applied /\ (s.first <= s.applied \/ s.first = s.snap + 1)

\* The Progress of a follower that has acknowledged x, for a leader whose log ends at
\* last.
Paced(x, last, pr) ==
    /\ pr.matched <= x
    /\ pr.next_idx <= last + 1 \/ pr.next_idx <= x + 1
    /\ pr.pending_snapshot <= last

\* The entry at the commit index is of the leader's term and acknowledged by a
\* majority.
Quorate(a, s) ==
    /\ s.committed \in 1..Len(s.log) /\ s.log[s.committed].term = s.term
    /\ MajorityOf(s.conf, {v \in s.conf.progress : a[v] >= s.committed})

\* The commit information of a vote message is true.
Informs(s, m) == m.commit_term > 0 => m.commit \in 1..s.committed /\ s.log[m.commit].term = m.commit_term

\* What a leader may tell those that have acknowledged a.
Serves(a, s, m) ==
    /\ m.type \in FromLeader => m.to \in s.conf.progress
    /\ m.type = "MsgAppend" => /\ m.commit <= s.committed
                               /\ m.log_term = 0 /\ m.index > 0 => m.index <= a[m.to] /\ m.entries = <<>>
    /\ m.type = "MsgHeartbeat" => m.commit <= s.committed /\ m.commit <= a[m.to]
    /\ m.type = "MsgSnapshot" => /\ m.snapshot.index <= s.committed
                                 /\ m.snapshot.term = IF m.snapshot.index = 0 THEN 0 ELSE s.log[m.snapshot.index].term
    /\ m.type = "MsgReadIndexResp" => m.term = s.term /\ m.index \in Nat /\ m.index <= s.committed
    /\ m.type = "MsgAppendResponse" /\ ~m.reject => m.index = 0
    /\ m.type \in VoteRequests \cup VoteResponses => Informs(s, m)

\* The reads a leader has queued are for what was committed.
Queued(s) ==
    /\ \E S : s.reads \in Seq(S)
    /\ \A k \in 1..Len(s.reads) : /\ "index" \in DOMAIN s.reads[k] /\ s.reads[k].index \in Nat
                                  /\ s.reads[k].index <= s.committed

\* What holds of a leader between any two method calls, when c was committed before
\* and a is acknowledged.
Leads(a, c, s) ==
    /\ IsRaft(s) /\ s.state = "Leader" /\ a \in [s.conf.progress -> Nat] /\ c \in Nat
    /\ s.committed <= Len(s.log) /\ (s.committed = c \/ (c <= s.committed /\ Quorate(a, s)))
    /\ Trimmed(s) /\ s.pending_request_snapshot = 0
    /\ \A j \in s.conf.progress : Paced(a[j], Len(s.log), s.prs[j])
    /\ Queued(s)
    /\ \A m \in s.msgs : MsgOK(s.conf, m) /\ Serves(a, s, m)

\* More voters than a majority are a majority.
LEMMA MajorityMore ==
    ASSUME NEW K, FixedConf(K), NEW S, NEW T, S \subseteq T, MajorityOf(K, S)
    PROVE  MajorityOf(K, T)
  <1> DEFINE A == K.incoming \cap S
             B == K.incoming \cap T
  <1>1. A \subseteq B /\ IsFiniteSet(B) /\ IsFiniteSet(K.incoming)
    <2>1. K.incoming \subseteq Server
      BY DEF FixedConf
    <2> QED BY <2>1, RaftAssumption, FS_Subset
  <1>2. Cardinality(A) <= Cardinality(B) /\ Cardinality(A) \in Nat /\ Cardinality(B) \in Nat
    BY <1>1, FS_Subset, FS_CardinalityType
  <1>3. Majority(Cardinality(K.incoming)) \in Nat
    BY <1>1, FS_CardinalityType, MajorityIsMoreThanHalf
  <1>4. Cardinality(A) >= Majority(Cardinality(K.incoming))
    BY DEF MajorityOf
  <1> HIDE DEF A, B
  <1>5. Cardinality(B) >= Majority(Cardinality(K.incoming))
    BY <1>2, <1>3, <1>4
  <1> QED BY <1>5 DEF MajorityOf, B

\* What was true to say stays true when the commit index grows.
LEMMA ServesMore ==
    ASSUME NEW a, NEW s, NEW t, IsRaft(s), IsRaft(t), t.conf = s.conf, t.term = s.term,
           s.committed <= t.committed, s.committed <= Len(s.log), SamePrefix(s.log, t.log, Len(s.log)),
           NEW m, MsgOK(s.conf, m), Serves(a, s, m)
    PROVE  Serves(a, t, m)
  <1>1. s.committed \in Nat /\ t.committed \in Nat /\ Len(s.log) \in Nat
    BY LogTypes
  <1>2. \A k \in 1..s.committed : t.log[k] = s.log[k]
    BY <1>1 DEF SamePrefix
  <1>3. CASE m.type = "MsgAppend" \/ m.type = "MsgHeartbeat"
    BY <1>1, <1>3 DEF Serves, MsgOK, FromLeader, VoteRequests, VoteResponses
  <1>4. CASE m.type = "MsgSnapshot"
    BY <1>1, <1>2, <1>4 DEF Serves, MsgOK, FromLeader, VoteRequests, VoteResponses
  <1>5. CASE m.type \in VoteRequests \cup VoteResponses
    <2>1. Informs(t, m)
      BY <1>1, <1>2, <1>5 DEF Serves, Informs
    <2> QED BY <2>1, <1>5 DEF Serves, FromLeader, VoteRequests, VoteResponses
  <1>6. CASE m.type = "MsgReadIndexResp"
    BY <1>1, <1>6 DEF Serves, MsgOK, FromLeader, VoteRequests, VoteResponses
  <1> QED BY <1>3, <1>4, <1>5, <1>6 DEF Serves, FromLeader, VoteRequests, VoteResponses

\* A method that keeps role, term and log and says nothing wrong goes on leading.
LEMMA LeadsKeeps ==
    ASSUME NEW a, NEW c, NEW s, NEW t, Leads(a, c, s), Keeps(s, t), t.committed = s.committed \/ Quorate(a, t),
           t.pending_request_snapshot = 0, \A j \in s.conf.progress : Paced(a[j], Len(s.log), t.prs[j]),
           Queued(t), \A m \in t.msgs \ s.msgs : Serves(a, t, m)
    PROVE  Leads(a, c, t)
  <1>1. /\ IsRaft(s) /\ IsRaft(t) /\ t.conf = s.conf /\ t.term = s.term /\ t.state = "Leader" /\ t.log = s.log
        /\ s.committed <= t.committed /\ a \in [s.conf.progress -> Nat] /\ c \in Nat
        /\ \A m \in t.msgs \ s.msgs : MsgOK(s.conf, m)
    BY DEF Leads, Keeps
  <1>2. t.committed <= Len(t.log)
    BY <1>1, LogTypes DEF Leads, Quorate
  <1>3. s.committed = c \/ (c <= s.committed /\ Quorate(a, s))
    BY DEF Leads
  <1>4. t.committed = c \/ (c <= t.committed /\ Quorate(a, t))
    <2>1. CASE t.committed = s.committed
      <3>1. Quorate(a, s) => Quorate(a, t)
        BY <1>1, <2>1 DEF Quorate
      <3> QED BY <2>1, <3>1, <1>3
    <2>2. CASE Quorate(a, t)
      <3>1. s.committed \in Nat /\ t.committed \in Nat
        BY <1>1, LogTypes
      <3> QED BY <1>1, <1>3, <2>2, <3>1 DEF Quorate
    <2> QED BY <2>1, <2>2
  <1>5. Trimmed(t)
    BY DEF Leads, Keeps, Trimmed
  <1>6. ASSUME NEW m \in t.msgs PROVE MsgOK(t.conf, m) /\ Serves(a, t, m)
    <2>1. CASE m \in s.msgs
      <3>1. MsgOK(s.conf, m) /\ Serves(a, s, m) /\ s.committed <= Len(s.log)
        BY <2>1 DEF Leads
      <3>2. SamePrefix(s.log, t.log, Len(s.log))
        BY <1>1, LogTypes DEF SamePrefix
      <3> QED BY <1>1, <3>1, <3>2, ServesMore
    <2>2. CASE m \notin s.msgs
      BY <2>2, <1>1
    <2> QED BY <2>1, <2>2
  <1> QED BY <1>1, <1>2, <1>4, <1>5, <1>6 DEF Leads

\* A change of nothing that matters here
LEMMA LeadsTouch ==
    ASSUME NEW a, NEW c, NEW s, NEW t, Leads(a, c, s), Keeps(s, t), t.committed = s.committed, t.prs = s.prs,
           t.pending_request_snapshot = s.pending_request_snapshot, t.reads = s.reads,
           \A m \in t.msgs \ s.msgs : Serves(a, t, m)
    PROVE  Leads(a, c, t)
  <1>1. Queued(t)
    BY DEF Leads, Queued
  <1> QED BY <1>1, LeadsKeeps DEF Leads

\* RaftCore::send of something true.
LEMMA SendLeads ==
    ASSUME NEW a, NEW c, NEW s, Leads(a, c, s), NEW m, MsgOK(s.conf, m), Ordinary(s, m), Serves(a, s, m)
    PROVE  Leads(a, c, Send(s, m))
  <1> DEFINE t == Send(s, m)
  <1>1. IsRaft(s)
    BY DEF Leads
  <1>2. Keeps(s, t)
    BY <1>1, SendKeeps
  <1>3. /\ t.committed = s.committed /\ t.prs = s.prs /\ t.pending_request_snapshot = s.pending_request_snapshot
        /\ t.reads = s.reads /\ t.msgs = s.msgs \cup {m} /\ t.log = s.log /\ t.term = s.term /\ t.conf = s.conf
    BY <1>1 DEF Send, IsRaft, RaftFields
  <1> HIDE DEF t
  <1>4. Serves(a, t, m)
    BY <1>3 DEF Serves, Informs
  <1>5. Leads(a, c, t)
    BY <1>2, <1>3, <1>4, LeadsTouch
  <1> QED BY <1>5 DEF t

\* A write to one Progress.
LEMMA SetProgressLeads ==
    ASSUME NEW a, NEW c, NEW s, Leads(a, c, s), NEW j \in s.conf.progress, NEW pr, IsProgress(pr),
           Paced(a[j], Len(s.log), pr)
    PROVE  Leads(a, c, [s EXCEPT !.prs[j] = pr])
  <1> DEFINE t == [s EXCEPT !.prs[j] = pr]
  <1>1. IsRaft(s) /\ s.state = "Leader"
    BY DEF Leads
  <1>2. Keeps(s, t)
    BY <1>1, SetProgressKeeps
  <1>3. /\ t.committed = s.committed /\ t.prs = [s.prs EXCEPT ![j] = pr] /\ t.reads = s.reads /\ t.msgs = s.msgs
        /\ t.pending_request_snapshot = s.pending_request_snapshot /\ DOMAIN s.prs = s.conf.progress
    BY <1>1 DEF IsRaft, RaftFields
  <1> HIDE DEF t
  <1>4. \A k \in s.conf.progress : Paced(a[k], Len(s.log), t.prs[k])
    BY <1>3 DEF Leads
  <1>5. Queued(t)
    BY <1>3 DEF Leads, Queued
  <1>6. Leads(a, c, t)
    BY <1>2, <1>3, <1>4, <1>5, LeadsKeeps DEF Leads
  <1> QED BY <1>6 DEF t

\* RaftLog::term from the commit index on tells the truth.
LEMMA TermAtTidy ==
    ASSUME NEW s, IsRaft(s), s.first <= s.committed \/ s.first = s.snap + 1, s.committed <= Len(s.log),
           NEW i \in Nat, i >= s.committed
    PROVE  /\ i \in 1..Len(s.log) => TermAt(s, i) = s.log[i].term
           /\ i \notin 1..Len(s.log) => TermAt(s, i) = 0
  BY LogTypes DEF TermAt

\* RaftCore::prepare_send_snapshot.
LEMMA MaybeSendSnapshotLeads ==
    ASSUME NEW a, NEW c, NEW s, Leads(a, c, s), NEW j \in s.conf.progress
    PROVE  Leads(a, c, MaybeSendSnapshot(s, j))
  <1> DEFINE m == SnapshotMsg(s, j)
             pr == BecomeSnapshot(s.prs[j], s.applied)
             t == Send(s, m)
  <1>0. IsRaft(s) /\ s.state = "Leader" /\ Trimmed(s) /\ s.committed <= Len(s.log) /\ a \in [s.conf.progress -> Nat]
    BY DEF Leads
  <1>1. SubSeq(s.log, 1, s.applied) \in Seq(NEntry) /\ Len(SubSeq(s.log, 1, s.applied)) = s.applied
        /\ \A k \in 1..s.applied : SubSeq(s.log, 1, s.applied)[k] = s.log[k]
    BY <1>0 DEF IsRaft
  <1>2. s.term \in Nat /\ s.term > 0
    BY <1>0 DEF IsRaft
  <1>3. MsgOK(s.conf, m)
    BY <1>0, <1>1, <1>2, LogTypes DEF MsgOK, SnapshotMsg, Snapshot
  <1>4. Ordinary(s, m)
    BY <1>0, <1>1, LogTypes DEF Ordinary, SnapshotMsg, Snapshot, IsGrant
  <1>5. TermAt(s, s.applied) = IF s.applied = 0 THEN 0 ELSE s.log[s.applied].term
    BY <1>0, LogTypes DEF TermAt, Trimmed
  <1>6. Serves(a, s, m)
    BY <1>0, <1>5, LogTypes DEF Serves, SnapshotMsg, Snapshot, FromLeader, VoteRequests, VoteResponses
  <1>7. Leads(a, c, t)
    BY <1>3, <1>4, <1>6, SendLeads
  <1>8. IsProgress(s.prs[j]) /\ Paced(a[j], Len(s.log), s.prs[j])
    BY <1>0 DEF IsRaft, Leads
  <1>9. IsProgress(pr) /\ Paced(a[j], Len(s.log), pr)
    BY <1>0, <1>8, LogTypes DEF IsProgress, BecomeSnapshot, ResetState, Paced
  <1>10. t.log = s.log /\ t.conf = s.conf
    BY <1>0 DEF Send, IsRaft, RaftFields
  <1> HIDE DEF t, pr
  <1>11. Leads(a, c, [t EXCEPT !.prs[j] = pr])
    BY <1>7, <1>9, <1>10, SetProgressLeads
  <1> QED BY <1>11 DEF MaybeSendSnapshot, t, pr

\* RaftCore::maybe_send_append.
LEMMA MaybeSendAppendLeads ==
    ASSUME NEW a, NEW c, NEW s, Leads(a, c, s), NEW j \in s.conf.progress, NEW allow_empty
    PROVE  Leads(a, c, MaybeSendAppend(s, j, allow_empty))
  <1> DEFINE pr == s.prs[j]
             n == pr.next_idx
             last == MinOf({n + s.config.max_msg - 1, LastIndex(s)})
             ents == Slice(s, n, last)
             m == AppendMsg(s, j, n - 1, ents)
             pr2 == IF ents = <<>> THEN pr ELSE UpdateState(pr, last)
             t == [Send(s, m) EXCEPT !.prs[j] = pr2]
  <1>0. IsRaft(s) /\ s.state = "Leader" /\ a \in [s.conf.progress -> Nat] /\ s.committed <= Len(s.log)
    BY DEF Leads
  <1>1. IsProgress(pr) /\ Paced(a[j], Len(s.log), pr) /\ a[j] \in Nat /\ Len(s.log) \in Nat
    BY <1>0, LogTypes DEF IsRaft, Leads
  <1>2. MaybeSendAppend(s, j, allow_empty) \in {s, MaybeSendSnapshot(s, j)}
        \/ (MaybeSendAppend(s, j, allow_empty) = t /\ ~IsCompacted(s, n))
    BY Zenon DEF MaybeSendAppend
  <1>3. ASSUME MaybeSendAppend(s, j, allow_empty) = t, ~IsCompacted(s, n) PROVE Leads(a, c, t)
    <2>1. Keeps(s, t)
      <3>1. Keeps(s, MaybeSendAppend(s, j, allow_empty))
        BY <1>0, MaybeSendAppendKeeps
      <3> HIDE DEF t
      <3> QED BY <1>3, <3>1
    <2>2. n \in Nat /\ n > 0 /\ last \in Int /\ last <= Len(s.log)
      <3>1. s.config.max_msg \in Nat
        BY <1>0 DEF IsRaft, ConfigType
      <3>2. n \in Nat /\ n > 0 /\ LastIndex(s) = Len(s.log)
        BY <1>1 DEF IsProgress, LastIndex
      <3>3. n + s.config.max_msg - 1 \in Int /\ LastIndex(s) \in Int
        BY <1>1, <3>1, <3>2
      <3>4. last = IF n + s.config.max_msg - 1 <= LastIndex(s) THEN n + s.config.max_msg - 1 ELSE LastIndex(s)
        BY <3>3, MinOfTwo
      <3> HIDE DEF n, last
      <3> QED BY <1>1, <3>2, <3>3, <3>4
    <2>3. n > Len(s.log) => ents = <<>>
      <3>1. s.log \in Seq(NEntry)
        BY <1>0 DEF IsRaft
      <3> HIDE DEF n, last
      <3> QED BY <1>1, <2>2, <3>1 DEF Slice
    <2>4. TermAt(s, n - 1) = 0 /\ n - 1 > 0 => n - 1 > Len(s.log)
      <3>1. n >= s.first /\ s.first \in Nat
        BY <1>0, <1>3, <2>2, LogTypes DEF IsCompacted
      <3>2. n - 1 \in Nat
        BY <2>2
      <3>3. TermAt(s, n - 1) = 0 => n - 1 = 0 \/ n - 1 < s.first - 1 \/ n - 1 > Len(s.log)
        <4> HIDE DEF n
        <4> QED BY <1>0, <3>2, TermAtType
      <3> HIDE DEF n
      <3> QED BY <3>1, <3>2, <3>3, <2>2
    <2>5. n - 1 > Len(s.log) => n - 1 <= a[j]
      BY <1>1, <2>2 DEF Paced
    <2>6. Paced(a[j], Len(s.log), pr2)
      <3>1. UpdateState(pr, last).matched = pr.matched /\ UpdateState(pr, last).pending_snapshot = pr.pending_snapshot
            /\ UpdateState(pr, last).next_idx \in {n, last + 1}
        <4> HIDE DEF last
        <4> QED BY <1>1 DEF IsProgress, UpdateState
      <3> HIDE DEF last, ents
      <3> QED BY <1>1, <2>2, <3>1 DEF Paced
    <2>7. /\ t.committed = s.committed /\ t.prs = [s.prs EXCEPT ![j] = pr2] /\ t.reads = s.reads
          /\ t.msgs = s.msgs \cup {m} /\ t.pending_request_snapshot = s.pending_request_snapshot
          /\ t.conf = s.conf /\ t.term = s.term /\ t.log = s.log
      BY <1>0 DEF IsRaft, RaftFields, Send
    <2>8. /\ m.type = "MsgAppend" /\ m.to = j /\ m.commit = s.committed /\ m.index = n - 1
          /\ m.log_term = TermAt(s, n - 1) /\ m.entries = ents
      BY DEF AppendMsg
    <2> HIDE DEF t, m, pr2, ents, last
    <2>9. Serves(a, t, m)
      <3>1. m.log_term = 0 /\ m.index > 0 => m.index <= a[m.to] /\ m.entries = <<>>
        <4> HIDE DEF n
        <4> QED BY <1>1, <2>2, <2>3, <2>4, <2>5, <2>8
      <3>2. m.commit <= t.committed
        BY <1>0, <2>7, <2>8, LogTypes
      <3> QED BY <2>7, <2>8, <3>1, <3>2 DEF Serves, FromLeader, VoteRequests, VoteResponses
    <2>10. \A k \in s.conf.progress : Paced(a[k], Len(s.log), t.prs[k])
      <3>1. DOMAIN s.prs = s.conf.progress
        BY <1>0 DEF IsRaft
      <3> QED BY <2>6, <2>7, <3>1 DEF Leads
    <2>11. Queued(t)
      BY <2>7 DEF Leads, Queued
    <2>12. \A x \in t.msgs \ s.msgs : Serves(a, t, x)
      BY <2>7, <2>9
    <2>13. t.pending_request_snapshot = 0
      BY <2>7 DEF Leads
    <2> QED BY <2>1, <2>7, <2>10, <2>11, <2>12, <2>13, LeadsKeeps
  <1> HIDE DEF t
  <1> QED BY <1>2, <1>3, MaybeSendSnapshotLeads

\* What sending leaves alone
OnlySends(s, t) ==
    /\ t.committed = s.committed /\ t.log = s.log /\ t.term = s.term /\ t.conf = s.conf
    /\ t.reads = s.reads /\ t.pending_request_snapshot = s.pending_request_snapshot

\* maybe_send_append touches only messages and one Progress.
LEMMA MaybeSendAppendFields ==
    ASSUME NEW s, IsRaft(s), NEW j, NEW allow_empty
    PROVE  OnlySends(s, MaybeSendAppend(s, j, allow_empty))
  <1>1. ASSUME NEW t, NEW m, NEW pr, t \in {s, [Send(s, m) EXCEPT !.prs[j] = pr]}
        PROVE  OnlySends(s, t)
    BY <1>1 DEF OnlySends, Send, IsRaft, RaftFields
  <1>2. \E m, pr : MaybeSendAppend(s, j, allow_empty) \in {s, [Send(s, m) EXCEPT !.prs[j] = pr]}
    BY Zenon DEF MaybeSendAppend, MaybeSendSnapshot
  <1> QED BY <1>1, <1>2

\* RaftCore::send_append_aggressively.
LEMMA SendAppendAggressivelyLeads ==
    ASSUME NEW a, NEW c, NEW s, Leads(a, c, s), NEW j \in s.conf.progress
    PROVE  Leads(a, c, SendAppendAggressively(s, j))
  <1>0. IsRaft(s)
    BY DEF Leads
  <1>1. PICK N \in Nat : \E f : /\ SendAppendAggressively(s, j) = f[N] /\ f[0] = s
                                 /\ \A k \in Nat : k < N => f[k + 1] = SendMore(f[k], j)
    BY <1>0, AggressiveRun
  <1>11. PICK f : /\ SendAppendAggressively(s, j) = f[N] /\ f[0] = s
                 /\ \A k \in Nat : k < N => f[k + 1] = SendMore(f[k], j)
    BY <1>1
  <1> DEFINE T == {k \in Nat : k <= N => Leads(a, c, f[k]) /\ f[k].conf = s.conf}
  <1>2. 0 \in T
    BY <1>11
  <1>3. ASSUME NEW k \in Nat, k \in T PROVE k + 1 \in T
    <2>1. SUFFICES ASSUME k + 1 <= N PROVE Leads(a, c, f[k + 1]) /\ f[k + 1].conf = s.conf
      OBVIOUS
    <2>2. Leads(a, c, f[k]) /\ f[k].conf = s.conf /\ f[k + 1] = SendMore(f[k], j)
      <3>1. k < N /\ k <= N
        BY <2>1
      <3> QED BY <1>11, <1>3, <3>1, Zenon
    <2>3. IsRaft(f[k])
      BY <2>2 DEF Leads
    <2> HIDE DEF Leads
    <2>4. Leads(a, c, SendMore(f[k], j)) /\ SendMore(f[k], j).conf = f[k].conf
      <3>1. Leads(a, c, SendMore(f[k], j))
        BY <2>2, MaybeSendAppendLeads DEF SendMore
      <3>2. SendMore(f[k], j).conf = f[k].conf
        <4>1. OnlySends(f[k], SendMore(f[k], j))
          BY <2>3, MaybeSendAppendFields DEF SendMore
        <4> QED BY <4>1 DEF OnlySends
      <3> QED BY <3>1, <3>2
    <2> QED BY <2>2, <2>4, Zenon
  <1>4. N \in T
    BY <1>2, <1>3, SetInduction
  <1> QED BY <1>11, <1>4

\* Raft::bcast_append.
LEMMA BcastMaybeLeads ==
    ASSUME NEW a, NEW c, NEW s, Leads(a, c, s), NEW allow_empty
    PROVE  Leads(a, c, BcastMaybe(s, allow_empty))
  <1> DEFINE w(j) == MaybeSendAppend(s, j, allow_empty)
             new == UNION {w(j).msgs : j \in Peers(s)}
             prs == [j \in DOMAIN s.prs |-> IF j = s.id THEN s.prs[j] ELSE w(j).prs[j]]
             t == BcastMaybe(s, allow_empty)
  <1>0. IsRaft(s) /\ s.state = "Leader" /\ DOMAIN s.prs = s.conf.progress /\ s.committed <= Len(s.log)
    BY DEF Leads, IsRaft
  <1>1. Keeps(s, t)
    BY <1>0, BcastMaybeKeeps
  <1>2. /\ t.committed = s.committed /\ t.prs = prs /\ t.reads = s.reads /\ t.msgs = s.msgs \cup new
        /\ t.pending_request_snapshot = s.pending_request_snapshot /\ t.log = s.log /\ t.term = s.term
        /\ t.conf = s.conf
    BY <1>0 DEF BcastMaybe, IsRaft, RaftFields
  <1> HIDE DEF t
  <1>3. ASSUME NEW j \in s.conf.progress
        PROVE  /\ Leads(a, c, w(j)) /\ w(j).committed = s.committed /\ w(j).log = s.log /\ w(j).term = s.term
               /\ w(j).conf = s.conf
    BY <1>0, MaybeSendAppendLeads, MaybeSendAppendFields DEF OnlySends
  <1> HIDE DEF w
  <1>4. \A j \in s.conf.progress : Paced(a[j], Len(s.log), t.prs[j])
    <2>1. SUFFICES ASSUME NEW j \in s.conf.progress PROVE Paced(a[j], Len(s.log), prs[j])
      BY <1>2
    <2>2. Paced(a[j], Len(s.log), s.prs[j]) /\ Paced(a[j], Len(s.log), w(j).prs[j])
      BY <1>3 DEF Leads
    <2> QED BY <1>0, <2>2
  <1>5. ASSUME NEW m \in t.msgs \ s.msgs PROVE Serves(a, t, m)
    <2>1. PICK j \in s.conf.progress : m \in w(j).msgs
      BY <1>2, <1>5 DEF Peers
    <2>2. Serves(a, w(j), m)
      BY <1>3, <2>1 DEF Leads
    <2> QED BY <1>2, <1>3, <2>2 DEF Serves, Informs
  <1>6. Queued(t) /\ t.pending_request_snapshot = 0
    BY <1>2 DEF Leads, Queued
  <1> QED BY <1>1, <1>2, <1>4, <1>5, <1>6, LeadsKeeps DEF t

\* Raft::bcast_heartbeat_with_ctx.
LEMMA BcastHeartbeatLeads ==
    ASSUME NEW a, NEW c, NEW s, Leads(a, c, s), NEW ctx
    PROVE  Leads(a, c, BcastHeartbeatWithCtx(s, ctx))
  <1> DEFINE new == {HeartbeatMsg(s, j, ctx) : j \in Peers(s)}
             t == BcastHeartbeatWithCtx(s, ctx)
  <1>0. IsRaft(s) /\ s.state = "Leader" /\ DOMAIN s.prs = s.conf.progress /\ a \in [s.conf.progress -> Nat]
    BY DEF Leads, IsRaft
  <1>1. Keeps(s, t)
    BY <1>0, BcastHeartbeatKeeps
  <1>2. /\ t.committed = s.committed /\ t.prs = s.prs /\ t.reads = s.reads /\ t.msgs = s.msgs \cup new
        /\ t.pending_request_snapshot = s.pending_request_snapshot /\ t.log = s.log /\ t.term = s.term
        /\ t.conf = s.conf
    BY <1>0 DEF BcastHeartbeatWithCtx, IsRaft, RaftFields
  <1> HIDE DEF t
  <1>3. ASSUME NEW m \in new PROVE Serves(a, t, m)
    <2>1. PICK j \in s.conf.progress : m = HeartbeatMsg(s, j, ctx)
      BY <1>3 DEF Peers
    <2>2. m.type = "MsgHeartbeat" /\ m.to = j /\ m.commit = MinOf({s.prs[j].matched, s.committed})
      BY <2>1 DEF HeartbeatMsg
    <2>3. s.prs[j].matched \in Nat /\ s.committed \in Nat /\ s.prs[j].matched <= a[j] /\ a[j] \in Nat
      BY <1>0, LogTypes DEF IsRaft, IsProgress, Leads, Paced
    <2>4. m.commit <= s.committed /\ m.commit <= a[j]
      BY <2>2, <2>3, MinOfTwo
    <2> QED BY <1>2, <2>2, <2>4 DEF Serves, FromLeader, VoteRequests, VoteResponses
  <1>4. \A m \in t.msgs \ s.msgs : Serves(a, t, m)
    BY <1>2, <1>3
  <1>5. Leads(a, c, t)
    BY <1>1, <1>2, <1>4, LeadsTouch
  <1> QED BY <1>5 DEF t

\* Raft::maybe_commit commits what a majority has acknowledged.
LEMMA MaybeCommitLeads ==
    ASSUME NEW a, NEW c, NEW s, Leads(a, c, s)
    PROVE  Leads(a, c, MaybeCommit(s))
  <1> DEFINE V == s.conf.incoming
             acked == [j \in VotersOf(s.conf) |-> s.prs[j].matched]
             i == CommittedIndex(s.conf, FALSE, acked, <<>>)
             t == [s EXCEPT !.committed = i]
             o == CHOOSE o \in DescendingOrders(V, acked) : TRUE
             q == QuorumIndex(V, acked, o)
  <1>0. /\ IsRaft(s) /\ s.state = "Leader" /\ DOMAIN s.prs = s.conf.progress /\ a \in [s.conf.progress -> Nat]
        /\ s.term > 0 /\ FixedConf(s.conf)
    BY DEF Leads, IsRaft
  <1>1. SUFFICES ASSUME i > s.committed, MatchTerm(s, i, s.term), MaybeCommit(s) = t PROVE Leads(a, c, t)
    BY Zenon DEF MaybeCommit, LogMaybeCommit
  <1>2. i \in 1..Len(s.log) /\ s.log[i].term = s.term
    <2> HIDE DEF i
    <2> QED BY <1>0, <1>1, TermAtType, LogTypes DEF MatchTerm
  <1>3. V \subseteq s.conf.progress /\ IsFiniteSet(V) /\ V # {} /\ s.conf.outgoing = {} /\ VotersOf(s.conf) = V
    <2>1. V \subseteq s.conf.progress /\ s.conf.progress \subseteq Server /\ s.conf.outgoing = {} /\ Cardinality(V) >= 2
      BY <1>0 DEF FixedConf
    <2>2. IsFiniteSet(V)
      BY <2>1, RaftAssumption, FS_Subset
    <2> QED BY <2>1, <2>2, FS_EmptySet DEF VotersOf
  <1>4. \A v \in V : acked[v] \in Nat /\ acked[v] = s.prs[v].matched /\ s.prs[v].matched <= a[v] /\ a[v] \in Nat
    BY <1>0, <1>3 DEF IsRaft, IsProgress, Leads, Paced
  <1> HIDE DEF acked
  <1>5. o \in DescendingOrders(V, acked)
    <2>1. DescendingOrders(V, acked) # {}
      BY <1>3, <1>4, OrderExists
    <2> QED BY <2>1
  <1>6. q \in Nat /\ i <= q
    <2>1. q \in Nat
      BY <1>3, <1>4, <1>5, QuorumIndexType
    <2>2. MajorityCommitted(V, FALSE, acked, <<>>) = q /\ MajorityCommitted(s.conf.outgoing, FALSE, acked, <<>>) = IndexMax
      BY <1>3 DEF MajorityCommitted, MajorityCommittedIn
    <2>3. i = MinOf({q, IndexMax})
      BY <2>2 DEF CommittedIndex
    <2> HIDE DEF q, i
    <2>4. q \in Int /\ IndexMax \in Int
      BY <2>1, IndexMaxAssumption
    <2>5. i = IF q <= IndexMax THEN q ELSE IndexMax
      BY <2>3, <2>4, MinOfTwo
    <2> QED BY <2>1, <2>4, <2>5
  <1> HIDE DEF o, i
  <1>7. 2 * Cardinality({v \in V : acked[v] >= i}) > Cardinality(V)
    <2>1. i \in Nat
      BY <1>2
    <2> QED BY <1>3, <1>4, <1>5, <1>6, <2>1, QuorumIndexExact
  <1>8. MajorityOf(s.conf, {v \in s.conf.progress : a[v] >= i})
    <2> DEFINE A == {v \in V : acked[v] >= i}
               B == V \cap {v \in s.conf.progress : a[v] >= i}
    <2>1. A \subseteq B /\ B \subseteq V
      BY <1>2, <1>3, <1>4
    <2>2. IsFiniteSet(B) /\ IsFiniteSet(A) /\ Cardinality(A) <= Cardinality(B) /\ Cardinality(A) \in Nat /\ Cardinality(B) \in Nat
      BY <1>3, <2>1, FS_Subset, FS_CardinalityType
    <2>3. Cardinality(V) \in Nat
      BY <1>3, FS_CardinalityType
    <2>4. 2 * Cardinality(A) > Cardinality(V)
      BY <1>7
    <2> HIDE DEF A, B
    <2>5. Cardinality(B) >= Majority(Cardinality(V))
      BY <2>2, <2>3, <2>4 DEF Majority
    <2> QED BY <2>5 DEF MajorityOf, B
  <1>9. Keeps(s, t)
    BY <1>0, <1>1, <1>2, LogTypes, SetCommittedKeeps
  <1>10. /\ t.committed = i /\ t.prs = s.prs /\ t.reads = s.reads /\ t.msgs = s.msgs /\ t.log = s.log
         /\ t.pending_request_snapshot = s.pending_request_snapshot /\ t.term = s.term /\ t.conf = s.conf
    BY <1>0 DEF IsRaft, RaftFields
  <1> HIDE DEF t
  <1>11. Quorate(a, t)
    BY <1>2, <1>8, <1>10 DEF Quorate
  <1>12. Queued(t)
    <2>1. ASSUME NEW k \in 1..Len(t.reads) PROVE /\ "index" \in DOMAIN t.reads[k] /\ t.reads[k].index \in Nat
                                                 /\ t.reads[k].index <= t.committed
      BY <1>0, <1>1, <1>2, <1>10, <2>1, LogTypes DEF Leads, Queued
    <2> QED BY <1>10, <2>1 DEF Leads, Queued
  <1>13. \A j \in s.conf.progress : Paced(a[j], Len(s.log), t.prs[j])
    BY <1>10 DEF Leads
  <1>14. t.pending_request_snapshot = 0
    BY <1>10 DEF Leads
  <1> QED BY <1>9, <1>10, <1>11, <1>12, <1>13, <1>14, LeadsKeeps

\* A write to the ReadOnly queue
LEMMA SetReadsLeads ==
    ASSUME NEW a, NEW c, NEW s, Leads(a, c, s), NEW r, NEW t, t = [s EXCEPT !.reads = r], Queued(t)
    PROVE  Leads(a, c, t) /\ t.conf = s.conf /\ t.committed = s.committed
  <1>0. IsRaft(s)
    BY DEF Leads
  <1>1. Keeps(s, t)
    BY <1>0, SetReadsKeeps
  <1>2. /\ t.committed = s.committed /\ t.prs = s.prs /\ t.msgs = s.msgs
        /\ t.pending_request_snapshot = s.pending_request_snapshot
    BY <1>0 DEF IsRaft, RaftFields
  <1>3. t.pending_request_snapshot = 0 /\ (\A j \in s.conf.progress : Paced(a[j], Len(s.log), t.prs[j]))
    BY <1>2 DEF Leads
  <1>4. t.conf = s.conf
    BY <1>1 DEF Keeps
  <1>5. \A m \in t.msgs \ s.msgs : Serves(a, t, m)
    BY <1>2
  <1> HIDE DEF Queued
  <1> QED BY <1>1, <1>2, <1>3, <1>4, <1>5, LeadsKeeps

\* The elements of a ReadOnly queue that was built out of another
LEMMA QueuedFrom ==
    ASSUME NEW s, NEW t, Queued(s), t.committed = s.committed, NEW S, t.reads \in Seq(S),
           \A k \in 1..Len(t.reads) : \E l \in 1..Len(s.reads) :
               t.reads[k] = s.reads[l] \/ (DOMAIN t.reads[k] = DOMAIN s.reads[l] /\ t.reads[k].index = s.reads[l].index)
    PROVE  Queued(t)
  BY DEF Queued

\* Raft::handle_ready_read_index of reads for what is committed.
LEMMA AnswerReadsLeads ==
    ASSUME NEW a, NEW c, NEW s, Leads(a, c, s), NEW rs, \A r \in rs : r.index \in Nat /\ r.index <= s.committed
    PROVE  Leads(a, c, AnswerReads(s, rs))
  <1> DEFINE own == {r \in rs : r.from \in {None, s.id}}
             new == {[type |-> "MsgReadIndexResp", from |-> s.id, to |-> r.from,
                      term |-> s.term, ctx |-> r.ctx, index |-> r.index] : r \in rs \ own}
             t == AnswerReads(s, rs)
  <1>0. IsRaft(s) /\ s.state = "Leader"
    BY DEF Leads
  <1>1. Keeps(s, t)
    BY <1>0, AnswerReadsKeeps
  <1>2. /\ t.committed = s.committed /\ t.prs = s.prs /\ t.reads = s.reads /\ t.msgs = s.msgs \cup new
        /\ t.pending_request_snapshot = s.pending_request_snapshot /\ t.term = s.term
    BY <1>0 DEF AnswerReads, IsRaft, RaftFields
  <1> HIDE DEF t
  <1>3. \A m \in new : Serves(a, t, m)
    BY <1>2 DEF Serves, FromLeader, VoteRequests, VoteResponses
  <1>4. \A m \in t.msgs \ s.msgs : Serves(a, t, m)
    BY <1>2, <1>3
  <1>5. Leads(a, c, t)
    BY <1>1, <1>2, <1>4, LeadsTouch
  <1> QED BY <1>5 DEF t

\* ReadOnly::recv_ack and advance.
LEMMA AckReadLeads ==
    ASSUME NEW a, NEW c, NEW s, Leads(a, c, s), NEW from, NEW ctx
    PROVE  Leads(a, c, AckRead(s, from, ctx))
  <1> DEFINE pending == {i \in DOMAIN s.reads : s.reads[i].ctx = ctx}
             acked == [s EXCEPT !.reads = [i \in DOMAIN @ |->
                    IF i \in pending THEN [@[i] EXCEPT !.acks = @ \cup {from}] ELSE @[i]]]
             ready == {i \in pending : HasQuorum(s.conf, acked.reads[i].acks)}
             k == CHOOSE i \in ready : TRUE
             r2 == SubSeq(acked.reads, k + 1, Len(acked.reads))
             cut == [acked EXCEPT !.reads = r2]
             rs == {acked.reads[i] : i \in 1..k}
             r1 == acked.reads
  <1>0. IsRaft(s) /\ s.state = "Leader" /\ Queued(s)
    BY DEF Leads
  <1>1. AckRead(s, from, ctx) = IF ready = {} THEN acked ELSE AnswerReads(cut, rs)
    BY Zenon DEF AckRead, AdvanceReads
  <1>2. PICK S : s.reads \in Seq(S)
    BY <1>0 DEF Queued
  <1>3. /\ r1 \in Seq({r1[i] : i \in DOMAIN s.reads}) /\ Len(r1) = Len(s.reads) /\ DOMAIN s.reads = 1..Len(s.reads)
        /\ \A i \in 1..Len(s.reads) :
              r1[i] = s.reads[i] \/ (DOMAIN r1[i] = DOMAIN s.reads[i] /\ r1[i].index = s.reads[i].index)
    <2>1. DOMAIN s.reads = 1..Len(s.reads) /\ Len(s.reads) \in Nat
      BY <1>2
    <2>2. \A i \in 1..Len(s.reads) : "index" \in DOMAIN s.reads[i]
      BY <1>0 DEF Queued
    <2>30. DOMAIN r1 = DOMAIN s.reads
      BY <1>0 DEF IsRaft, RaftFields
    <2>3. \A i \in 1..Len(s.reads) :
              r1[i] = s.reads[i] \/ (DOMAIN r1[i] = DOMAIN s.reads[i] /\ r1[i].index = s.reads[i].index)
      BY <1>0, <2>1, <2>2 DEF IsRaft, RaftFields
    <2>40. r1 = [i \in DOMAIN r1 |-> r1[i]]
      BY <1>0 DEF IsRaft, RaftFields
    <2>4. r1 \in [1..Len(s.reads) -> {r1[i] : i \in DOMAIN s.reads}]
      <3> HIDE DEF acked
      <3> QED BY <2>1, <2>30, <2>40
    <2> HIDE DEF r1
    <2>5. r1 \in Seq({r1[i] : i \in DOMAIN s.reads})
      BY <2>1, <2>4
    <2> QED BY <2>1, <2>3, <2>4, <2>5
  <1>4. acked.reads = r1 /\ acked.committed = s.committed /\ DOMAIN acked = RaftFields
    BY <1>0 DEF IsRaft, RaftFields
  <1>5. Queued(acked)
    <2> HIDE DEF acked
    <2>1. \A i \in 1..Len(r1) : \E l \in 1..Len(s.reads) :
              r1[i] = s.reads[l] \/ (DOMAIN r1[i] = DOMAIN s.reads[l] /\ r1[i].index = s.reads[l].index)
      BY <1>3
    <2> QED BY <1>0, <1>3, <1>4, <2>1, QueuedFrom
  <1>6. Leads(a, c, acked) /\ acked.conf = s.conf
    <2> DEFINE r == acked.reads
    <2>1. acked = [s EXCEPT !.reads = r]
      BY <1>0 DEF IsRaft, RaftFields
    <2> HIDE DEF r, acked
    <2> QED BY <1>5, <2>1, SetReadsLeads
  <1>7. ASSUME ready # {} PROVE Leads(a, c, AnswerReads(cut, rs))
    <2>1. k \in 1..Len(r1)
      <3>1. k \in ready
        BY <1>7
      <3> QED BY <3>1, <1>3
    <2> HIDE DEF k, acked
    <2>2. Len(r1) \in Nat /\ \A i \in 1..Len(r1) : r1[i].index \in Nat /\ r1[i].index <= acked.committed
      BY <1>3, <1>4, <1>5 DEF Queued
    <2>3. /\ r2 \in Seq({r1[i] : i \in DOMAIN s.reads}) /\ Len(r2) = Len(r1) - k
          /\ \A i \in 1..Len(r2) : r2[i] = r1[k + i] /\ k + i \in 1..Len(r1)
      BY <1>3, <1>4, <2>1, <2>2
    <2> HIDE DEF r2
    <2>4. cut.reads = r2 /\ cut.committed = acked.committed
      BY <1>4 DEF RaftFields
    <2> HIDE DEF cut
    <2>5. Queued(cut)
      <3>0. cut.reads \in Seq({r1[i] : i \in DOMAIN s.reads})
        BY <2>3, <2>4
      <3>1. \A i \in 1..Len(cut.reads) : \E l \in 1..Len(acked.reads) : cut.reads[i] = acked.reads[l]
        BY <2>3, <2>4
      <3> DEFINE S2 == {r1[i] : i \in DOMAIN s.reads}
      <3> HIDE DEF S2
      <3> QED BY <1>5, <2>4, <3>0, <3>1, QueuedFrom DEF S2
    <2>6. Leads(a, c, cut)
      BY <1>6, <2>5, SetReadsLeads DEF cut
    <2>7. \A r \in rs : r.index \in Nat /\ r.index <= cut.committed
      BY <1>4, <2>1, <2>2, <2>4
    <2> QED BY <2>6, <2>7, AnswerReadsLeads
  <1> QED BY <1>1, <1>6, <1>7

\* A leader's MsgReadIndex
LEMMA HandleReadIndexLeads ==
    ASSUME NEW a, NEW c, NEW s, Leads(a, c, s), NEW m
    PROVE  Leads(a, c, HandleReadIndex(s, m))
  <1> DEFINE b == AddRequest(s, m)
             e == [ctx |-> m.ctx, from |-> m.from, index |-> s.committed, acks |-> {s.id}]
             rs == {[ctx |-> m.ctx, from |-> m.from, index |-> s.committed, acks |-> {}]}
  <1>0. IsRaft(s) /\ s.committed \in Nat /\ Queued(s)
    BY LogTypes DEF Leads
  <1>1. Leads(a, c, b)
    <2> DEFINE r == Append(s.reads, e)
               t == [s EXCEPT !.reads = r]
    <2>1. PICK S : s.reads \in Seq(S)
      BY <1>0 DEF Queued
    <2>2. r \in Seq(S \cup {e}) /\ Len(r) = Len(s.reads) + 1 /\ Len(s.reads) \in Nat
          /\ \A k \in 1..Len(s.reads) : r[k] = s.reads[k]
          /\ r[Len(s.reads) + 1] = e
      <3> HIDE DEF e
      <3> QED BY <2>1
    <2>3. t.reads = r /\ t.committed = s.committed
      BY <1>0 DEF IsRaft, RaftFields
    <2>4. Queued(t)
      <3>1. ASSUME NEW k \in 1..Len(r)
            PROVE  "index" \in DOMAIN r[k] /\ r[k].index \in Nat /\ r[k].index <= s.committed
        <4>1. CASE k \in 1..Len(s.reads)
          BY <1>0, <2>2, <4>1 DEF Queued
        <4>2. CASE k = Len(s.reads) + 1
          BY <1>0, <2>2, <4>2
        <4> QED BY <2>2, <3>1, <4>1, <4>2
      <3> HIDE DEF r, t
      <3> QED BY <2>2, <2>3, <3>1 DEF Queued
    <2>5. Leads(a, c, t)
      BY <2>4, SetReadsLeads
    <2> QED BY <2>5 DEF AddRequest
  <1>2. Leads(a, c, BcastHeartbeatWithCtx(b, m.ctx))
    BY <1>1, BcastHeartbeatLeads
  <1>3. Leads(a, c, AnswerReads(s, rs))
    <2>1. \A r \in rs : r.index \in Nat /\ r.index <= s.committed
      BY <1>0
    <2> QED BY <2>1, AnswerReadsLeads
  <1> QED BY <1>2, <1>3 DEF HandleReadIndex

\* Progress::become_probe.
LEMMA PacedProbe ==
    ASSUME NEW x \in Nat, NEW last \in Nat, NEW pr, IsProgress(pr), Paced(x, last, pr)
    PROVE  IsProgress(BecomeProbe(pr)) /\ Paced(x, last, BecomeProbe(pr))
  BY DEF IsProgress, Paced, BecomeProbe, ResetState

\* Progress::maybe_decr_to lowers next_idx.
LEMMA PacedDecrTo ==
    ASSUME NEW x \in Nat, NEW last \in Nat, NEW pr, IsProgress(pr), Paced(x, last, pr),
           NEW i \in Nat, NEW h \in Nat, NEW r \in Nat, ~StaleRejection(pr, i, r)
    PROVE  IsProgress(DecrTo(pr, i, h, r)) /\ Paced(x, last, DecrTo(pr, i, h, r))
  <1>1. IsProgress(DecrTo(pr, i, h, r))
    BY DEF IsProgress, DecrTo, InvalidIndex
  <1>2. CASE r # InvalidIndex
    BY <1>2 DEF IsProgress, Paced, DecrTo
  <1>3. CASE r = InvalidIndex /\ pr.state = "Replicate"
    BY <1>3 DEF IsProgress, Paced, DecrTo
  <1>4. CASE r = InvalidIndex /\ pr.state # "Replicate"
    <2>1. pr.next_idx - 1 = i /\ pr.next_idx \in Nat /\ pr.next_idx > 0
      BY <1>4 DEF StaleRejection, IsProgress
    <2> DEFINE lower == IF i < h + 1 THEN i ELSE h + 1
               d == IF lower < 1 THEN 1 ELSE lower
    <2>2. DecrTo(pr, i, h, r) = [pr EXCEPT !.next_idx = d, !.paused = FALSE]
      BY <1>4 DEF DecrTo
    <2>3. d \in Nat /\ d <= pr.next_idx
      BY <2>1
    <2> HIDE DEF d
    <2> QED BY <1>1, <2>1, <2>2, <2>3 DEF IsProgress, Paced
  <1> QED BY <1>1, <1>2, <1>3, <1>4

\* Raft::handle_append_response, the rejection.
LEMMA HandleAppendRejectLeads ==
    ASSUME NEW a, NEW c, NEW s, Leads(a, c, s), NEW m, m.from \in s.conf.progress,
           MsgOK(s.conf, m), m.type = "MsgAppendResponse"
    PROVE  Leads(a, c, HandleAppendReject(s, m))
  <1> DEFINE j == m.from
             pr == [s.prs[m.from] EXCEPT !.recent_active = TRUE]
             probe == IF m.log_term > 0 THEN FindConflictByTerm(s, m.reject_hint, m.log_term)
                                        ELSE m.reject_hint
             decr == DecrTo(pr, m.index, probe, m.request_snapshot)
             slow == IF decr.state = "Replicate" THEN BecomeProbe(decr) ELSE decr
             t == [s EXCEPT !.prs[m.from] = slow]
  <1>0. IsRaft(s) /\ s.state = "Leader" /\ a[j] \in Nat /\ Len(s.log) \in Nat
    BY LogTypes DEF Leads
  <1>1. IsProgress(pr) /\ Paced(a[j], Len(s.log), pr)
    <2>1. IsProgress(s.prs[j]) /\ Paced(a[j], Len(s.log), s.prs[j])
      BY <1>0 DEF IsRaft, Leads
    <2> QED BY <2>1 DEF IsProgress, Paced
  <1>2. m.index \in Nat /\ m.request_snapshot \in Nat /\ m.reject_hint \in Nat /\ m.log_term \in Int
    BY DEF MsgOK
  <1>3. probe \in Nat
    <2>1. IsRaft(s)
      BY <1>0
    <2>2. m.log_term > 0 => m.log_term \in Nat
      BY <1>2
    <2>3. m.log_term > 0 => FindConflictByTerm(s, m.reject_hint, m.log_term) \in Nat
      BY <1>2, <2>1, <2>2, FindConflictByTermType
    <2> QED BY <1>2, <2>3
  <1> HIDE DEF pr, probe
  <1>4. Leads(a, c, [s EXCEPT !.prs[m.from] = pr])
    BY <1>1, SetProgressLeads
  <1>5. ASSUME ~StaleRejection(pr, m.index, m.request_snapshot) PROVE Leads(a, c, SendAppend(t, m.from))
    <2>1. IsProgress(decr) /\ Paced(a[j], Len(s.log), decr)
      BY <1>0, <1>1, <1>2, <1>3, <1>5, PacedDecrTo
    <2> HIDE DEF decr
    <2>2. IsProgress(slow) /\ Paced(a[j], Len(s.log), slow)
      BY <1>0, <2>1, PacedProbe
    <2> HIDE DEF slow
    <2>3. Leads(a, c, t) /\ t.conf = s.conf
      BY <1>0, <2>2, SetProgressLeads DEF IsRaft, RaftFields
    <2> HIDE DEF t
    <2> QED BY <2>3, MaybeSendAppendLeads DEF SendAppend
  <1> HIDE DEF t, slow, decr
  <1> QED BY <1>4, <1>5, Zenon DEF HandleAppendReject, pr, probe, decr, slow, t

\* An acknowledgement of no more than was acknowledged
LEMMA AcknowledgedPaced ==
    ASSUME NEW x \in Nat, NEW last \in Nat, NEW pr, IsProgress(pr), Paced(x, last, pr), NEW i \in Nat, i <= x
    PROVE  Paced(x, last, Acknowledged(pr, i)) /\ Paced(x, last, MaybeUpdate(pr, i))
  <1> DEFINE p == MaybeUpdate(pr, i)
  <1>1. IsProgress(p) /\ p.state = pr.state /\ Paced(x, last, p)
    BY DEF IsProgress, MaybeUpdate, NeedUpdate, Paced
  <1> HIDE DEF p
  <1>2. Paced(x, last, BecomeReplicate(p)) /\ Paced(x, last, BecomeProbe(p)) /\ Paced(x, last, [p EXCEPT !.ins = FreeTo(@, i)])
    <2>1. Paced(x, last, BecomeReplicate(p))
      BY <1>1 DEF IsProgress, BecomeReplicate, ResetState, Paced
    <2>2. Paced(x, last, BecomeProbe(p))
      BY <1>1, PacedProbe
    <2>3. Paced(x, last, [p EXCEPT !.ins = FreeTo(@, i)])
      BY <1>1 DEF IsProgress, Paced
    <2> QED BY <2>1, <2>2, <2>3
  <1>3. p.state = "Probe" \/ p.state = "Replicate" \/ p.state = "Snapshot"
    BY <1>1 DEF IsProgress
  <1> QED BY <1>1, <1>2, <1>3 DEF Acknowledged, p

\* After an acknowledgement: commit and broadcast, or go on sending.
LEMMA CommitOrResumeLeads ==
    ASSUME NEW a, NEW c, NEW s, Leads(a, c, s), NEW j \in s.conf.progress, NEW old
    PROVE  Leads(a, c, CommitOrResume(s, j, old))
  <1> DEFINE d == MaybeCommit(s)
  <1>1. Leads(a, c, d)
    BY MaybeCommitLeads
  <1> HIDE DEF d
  <1>2. Leads(a, c, BcastAppend(d))
    BY <1>1, BcastMaybeLeads DEF BcastAppend
  <1>3. Leads(a, c, SendAppend(s, j))
    BY MaybeSendAppendLeads DEF SendAppend
  <1> QED BY <1>1, <1>2, <1>3 DEF CommitOrResume, d

\* A message that says nothing about the log.
LEMMA PlainLeads ==
    ASSUME NEW a, NEW c, NEW s, Leads(a, c, s), NEW j, NEW t, t.id = s.id, t.term = s.term
    PROVE  Leads(a, c, Send(s, PlainMsg(t, "MsgTimeoutNow", j))) /\ Leads(a, c, MaybeTimeoutNow(s, j))
  <1> DEFINE m == PlainMsg(t, "MsgTimeoutNow", j)
  <1>0. IsRaft(s) /\ s.term \in Nat
    BY LogTypes DEF Leads
  <1>1. MsgOK(s.conf, m) /\ Ordinary(s, m) /\ Serves(a, s, m)
    BY <1>0 DEF MsgOK, Ordinary, PlainMsg, IsGrant, FromLeader, Serves, VoteRequests, VoteResponses
  <1>2. m = PlainMsg(s, "MsgTimeoutNow", j)
    BY DEF PlainMsg
  <1> HIDE DEF m
  <1>3. Leads(a, c, Send(s, m))
    BY <1>1, SendLeads
  <1> QED BY <1>2, <1>3 DEF MaybeTimeoutNow, m

\* Raft::handle_append_response.
LEMMA HandleAppendResponseLeads ==
    ASSUME NEW a, NEW c, NEW s, Leads(a, c, s), NEW m, MsgOK(s.conf, m), m.type = "MsgAppendResponse",
           m.from \in s.conf.progress /\ ~m.reject => m.index <= a[m.from]
    PROVE  Leads(a, c, HandleAppendResponse(s, m))
  <1> DEFINE j == m.from
             pr == [s.prs[j] EXCEPT !.recent_active = TRUE]
             t == [s EXCEPT !.prs[j] = Acknowledged(pr, m.index)]
             u == CommitOrResume(t, j, IsPaused(pr))
             v == SendAppendAggressively(u, j)
  <1>0. IsRaft(s) /\ s.state = "Leader" /\ Len(s.log) \in Nat /\ DOMAIN s.prs = s.conf.progress
    BY LogTypes DEF Leads, IsRaft
  <1>1. SUFFICES ASSUME j \in s.conf.progress, ~m.reject PROVE Leads(a, c, HandleAppendAccept(s, m))
    BY <1>0, HandleAppendRejectLeads DEF HandleAppendResponse
  <1>2. a[j] \in Nat /\ m.index \in Nat /\ m.index <= a[j]
    BY <1>1 DEF Leads, MsgOK
  <1>3. IsProgress(pr) /\ Paced(a[j], Len(s.log), pr)
    <2>1. IsProgress(s.prs[j]) /\ Paced(a[j], Len(s.log), s.prs[j])
      BY <1>0, <1>1 DEF IsRaft, Leads
    <2> QED BY <2>1 DEF IsProgress, Paced
  <1> HIDE DEF pr
  <1>4. Leads(a, c, t) /\ t.conf = s.conf
    <2>1. IsProgress(Acknowledged(pr, m.index)) /\ Paced(a[j], Len(s.log), Acknowledged(pr, m.index))
      BY <1>0, <1>2, <1>3, AcknowledgedType, AcknowledgedPaced
    <2> QED BY <1>0, <1>1, <2>1, SetProgressLeads DEF IsRaft, RaftFields
  <1> HIDE DEF t
  <1>5. Leads(a, c, u) /\ u.conf = s.conf
    <2>1. IsRaft(t) /\ t.state = "Leader"
      BY <1>4 DEF Leads
    <2>2. Keeps(t, u)
      BY <1>1, <1>4, <2>1, CommitOrResumeKeeps
    <2>3. Leads(a, c, u)
      BY <1>1, <1>4, CommitOrResumeLeads
    <2> QED BY <1>4, <2>2, <2>3 DEF Keeps
  <1> HIDE DEF u
  <1>6. Leads(a, c, v)
    BY <1>1, <1>5, SendAppendAggressivelyLeads
  <1> HIDE DEF v
  <1>7. Leads(a, c, MaybeTimeoutNow(v, j))
    BY <1>6, PlainLeads
  <1> QED BY <1>4, <1>7 DEF HandleAppendAccept, pr, t, u, v

\* Raft::handle_heartbeat_response.
LEMMA HandleHeartbeatResponseLeads ==
    ASSUME NEW a, NEW c, NEW s, Leads(a, c, s), NEW m
    PROVE  Leads(a, c, HandleHeartbeatResponse(s, m))
  <1> DEFINE j == m.from
             pr == FreeFirstIfFull([s.prs[j] EXCEPT !.recent_active = TRUE, !.paused = FALSE])
             woken == [s EXCEPT !.prs[j] = pr]
             sent == IF pr.matched < LastIndex(s) \/ pr.pending_request_snapshot # InvalidIndex
                       THEN SendAppend(woken, j) ELSE woken
  <1>0. IsRaft(s) /\ s.state = "Leader" /\ DOMAIN s.prs = s.conf.progress
    BY DEF Leads, IsRaft
  <1>1. SUFFICES ASSUME j \in s.conf.progress PROVE Leads(a, c, HandleHeartbeatResponse(s, m))
    BY <1>0 DEF HandleHeartbeatResponse
  <1>2. IsProgress(pr) /\ Paced(a[j], Len(s.log), pr)
    <2>1. IsProgress(s.prs[j]) /\ Paced(a[j], Len(s.log), s.prs[j])
      BY <1>0, <1>1 DEF IsRaft, Leads
    <2> QED BY <2>1 DEF IsProgress, Paced, FreeFirstIfFull
  <1> HIDE DEF pr
  <1>3. Leads(a, c, woken) /\ woken.conf = s.conf
    BY <1>0, <1>1, <1>2, SetProgressLeads DEF IsRaft, RaftFields
  <1> HIDE DEF woken
  <1>4. Leads(a, c, sent)
    BY <1>1, <1>3, MaybeSendAppendLeads DEF SendAppend
  <1> HIDE DEF sent
  <1>5. Leads(a, c, AckRead(sent, j, m.ctx))
    BY <1>4, AckReadLeads
  <1>6. HandleHeartbeatResponse(s, m) =
            IF s.config.lease_read \/ m.ctx = None THEN sent ELSE AckRead(sent, j, m.ctx)
    BY <1>0, <1>1 DEF HandleHeartbeatResponse, sent, woken, pr
  <1> QED BY <1>4, <1>5, <1>6

\* Writes to lead_transferee and the clock.
LEMMA SetTransfereeLeads ==
    ASSUME NEW a, NEW c, NEW s, Leads(a, c, s), NEW x, NEW y
    PROVE  /\ Leads(a, c, [s EXCEPT !.lead_transferee = x])
           /\ Leads(a, c, [s EXCEPT !.expired = y, !.lead_transferee = x])
  <1>0. IsRaft(s)
    BY DEF Leads
  <1>1. ASSUME NEW t, \/ t = [s EXCEPT !.lead_transferee = x]
                      \/ t = [s EXCEPT !.expired = y, !.lead_transferee = x]
        PROVE  Leads(a, c, t)
    <2>1. Keeps(s, t)
      <3>1. /\ Keeps(s, [s EXCEPT !.lead_transferee = x])
            /\ Keeps(s, [s EXCEPT !.expired = y, !.lead_transferee = x])
        BY <1>0, SetTransfereeKeeps, Zenon
      <3> QED BY <1>1, <3>1, Zenon
    <2>2. /\ t.committed = s.committed /\ t.prs = s.prs /\ t.reads = s.reads /\ t.msgs = s.msgs
          /\ t.pending_request_snapshot = s.pending_request_snapshot
      BY <1>0, <1>1 DEF IsRaft, RaftFields
    <2>3. \A m \in t.msgs \ s.msgs : Serves(a, t, m)
      BY <2>2
    <2> QED BY <2>1, <2>2, <2>3, LeadsTouch
  <1> QED BY <1>1

\* Raft::handle_transfer_leader.
LEMMA HandleTransferLeaderLeads ==
    ASSUME NEW a, NEW c, NEW s, Leads(a, c, s), NEW m
    PROVE  Leads(a, c, HandleTransferLeader(s, m))
  <1> DEFINE to == m.from
             no == FALSE
             t == [s EXCEPT !.expired = no, !.lead_transferee = to]
             n == PlainMsg(s, "MsgTimeoutNow", to)
  <1>0. IsRaft(s)
    BY DEF Leads
  <1>1. Leads(a, c, t) /\ Leads(a, c, [s EXCEPT !.lead_transferee = None])
    <2> HIDE DEF no
    <2> QED BY SetTransfereeLeads
  <1>2. t.conf = s.conf /\ t.id = s.id /\ t.term = s.term
    BY <1>0 DEF IsRaft, RaftFields
  <1> HIDE DEF t
  <1>3. Leads(a, c, Send(t, n))
    BY <1>1, <1>2, PlainLeads
  <1>4. to \in s.conf.progress => Leads(a, c, SendAppend(t, to))
    BY <1>1, <1>2, MaybeSendAppendLeads DEF SendAppend
  <1> QED BY <1>1, <1>3, <1>4 DEF HandleTransferLeader, t

\* Raft::handle_snapshot_status and handle_unreachable.
LEMMA ReportLeads ==
    ASSUME NEW a, NEW c, NEW s, Leads(a, c, s), NEW j, NEW reject
    PROVE  Leads(a, c, HandleSnapshotStatus(s, j, reject)) /\ Leads(a, c, HandleUnreachable(s, j))
  <1> DEFINE pr == IF reject THEN SnapshotFailure(s.prs[j]) ELSE s.prs[j]
             q == BecomeProbe(pr)
             p == [q EXCEPT !.paused = TRUE, !.pending_request_snapshot = InvalidIndex]
             w == BecomeProbe(s.prs[j])
  <1>0. IsRaft(s) /\ s.state = "Leader" /\ Len(s.log) \in Nat /\ DOMAIN s.prs = s.conf.progress
    BY LogTypes DEF Leads, IsRaft
  <1>1. SUFFICES ASSUME j \in s.conf.progress
                 PROVE  Leads(a, c, [s EXCEPT !.prs[j] = p]) /\ Leads(a, c, [s EXCEPT !.prs[j] = w])
    BY <1>0 DEF HandleSnapshotStatus, HandleUnreachable
  <1>2. IsProgress(s.prs[j]) /\ Paced(a[j], Len(s.log), s.prs[j]) /\ a[j] \in Nat
    BY <1>0, <1>1 DEF IsRaft, Leads
  <1>3. IsProgress(pr) /\ Paced(a[j], Len(s.log), pr)
    BY <1>0, <1>2 DEF IsProgress, Paced, SnapshotFailure
  <1> HIDE DEF pr
  <1>4. /\ IsProgress(q) /\ Paced(a[j], Len(s.log), q)
        /\ IsProgress(w) /\ Paced(a[j], Len(s.log), w)
    BY <1>0, <1>2, <1>3, PacedProbe
  <1> HIDE DEF q, w
  <1>5. IsProgress(p) /\ Paced(a[j], Len(s.log), p)
    BY <1>4 DEF IsProgress, Paced, InvalidIndex
  <1> HIDE DEF p
  <1> QED BY <1>1, <1>4, <1>5, SetProgressLeads

\* MsgCheckQuorum of a leader that hears a quorum
LEMMA HandleCheckQuorumLeads ==
    ASSUME NEW a, NEW c, NEW s, Leads(a, c, s), HasQuorum(s.conf, Active(s))
    PROVE  Leads(a, c, HandleCheckQuorum(s))
  <1> DEFINE prs == [j \in DOMAIN s.prs |-> [s.prs[j] EXCEPT !.recent_active = (j = s.id)]]
             t == [s EXCEPT !.prs = prs]
  <1>0. IsRaft(s) /\ s.state = "Leader" /\ DOMAIN s.prs = s.conf.progress
    BY DEF Leads, IsRaft
  <1>1. HandleCheckQuorum(s) = t
    BY DEF HandleCheckQuorum
  <1>2. Keeps(s, t)
    BY <1>0, <1>1, HandleCheckQuorumKeeps
  <1>3. ASSUME NEW x, NEW last, NEW pr, IsProgress(pr), Paced(x, last, pr), NEW b
        PROVE  Paced(x, last, [pr EXCEPT !.recent_active = b])
    BY <1>3 DEF IsProgress, Paced
  <1>4. ASSUME NEW j \in s.conf.progress PROVE Paced(a[j], Len(s.log), prs[j])
    <2>1. IsProgress(s.prs[j]) /\ Paced(a[j], Len(s.log), s.prs[j])
      BY <1>0, <1>4 DEF IsRaft, Leads
    <2> QED BY <1>0, <1>3, <2>1
  <1> HIDE DEF prs
  <1>5. /\ t.committed = s.committed /\ t.prs = prs /\ t.reads = s.reads /\ t.msgs = s.msgs
        /\ t.pending_request_snapshot = s.pending_request_snapshot
    BY <1>0 DEF IsRaft, RaftFields
  <1> HIDE DEF t
  <1>6. Queued(t) /\ t.pending_request_snapshot = 0
    BY <1>5 DEF Leads, Queued
  <1>7. Leads(a, c, t)
    BY <1>2, <1>4, <1>5, <1>6, LeadsKeeps
  <1> QED BY <1>1, <1>7

\* A leader whose log has grown, or whose storage has gone on
LEMMA LeadsMore ==
    ASSUME NEW a, NEW c, NEW s, NEW t, Leads(a, c, s), IsRaft(t), t.state = "Leader", t.conf = s.conf, t.term = s.term,
           t.committed = s.committed, t.reads = s.reads, t.pending_request_snapshot = s.pending_request_snapshot,
           Trimmed(t), SamePrefix(s.log, t.log, Len(s.log)),
           \A j \in s.conf.progress : Paced(a[j], Len(t.log), t.prs[j]),
           \A m \in t.msgs \ s.msgs : MsgOK(s.conf, m) /\ Serves(a, t, m)
    PROVE  Leads(a, c, t)
  <1>1. IsRaft(s) /\ a \in [s.conf.progress -> Nat] /\ c \in Nat /\ s.committed <= Len(s.log) /\ Queued(s)
    BY DEF Leads
  <1>2. s.committed \in Nat /\ Len(s.log) \in Nat /\ Len(t.log) \in Nat /\ Len(s.log) <= Len(t.log)
    BY <1>1, LogTypes DEF SamePrefix
  <1>3. Quorate(a, s) => Quorate(a, t)
    <2>1. \A k \in 1..Len(s.log) : t.log[k] = s.log[k]
      BY DEF SamePrefix
    <2> QED BY <1>2, <2>1 DEF Quorate
  <1>4. t.committed = c \/ (c <= t.committed /\ Quorate(a, t))
    BY <1>3 DEF Leads
  <1>5. Queued(t) /\ t.pending_request_snapshot = 0
    BY <1>1 DEF Queued, Leads
  <1>6. ASSUME NEW m \in t.msgs PROVE MsgOK(t.conf, m) /\ Serves(a, t, m)
    <2>1. CASE m \in s.msgs
      <3>1. MsgOK(s.conf, m) /\ Serves(a, s, m)
        BY <2>1 DEF Leads
      <3>2. s.committed <= t.committed
        BY <1>2
      <3> QED BY <1>1, <3>1, <3>2, ServesMore
    <2>2. CASE m \notin s.msgs
      BY <2>2
    <2> QED BY <2>1, <2>2
  <1>7. t.committed <= Len(t.log)
    BY <1>1, <1>2
  <1> QED BY <1>1, <1>4, <1>5, <1>6, <1>7 DEF Leads

\* Acknowledgements that arrive later change nothing.
LEMMA LeadsAck ==
    ASSUME NEW a, NEW c, NEW s, Leads(a, c, s), NEW b, b \in [s.conf.progress -> Nat],
           \A j \in s.conf.progress : a[j] <= b[j]
    PROVE  Leads(b, c, s)
  <1>0. IsRaft(s) /\ a \in [s.conf.progress -> Nat] /\ s.committed \in Nat /\ Len(s.log) \in Nat /\ FixedConf(s.conf)
    BY LogTypes DEF Leads, IsRaft
  <1>1. Quorate(a, s) => Quorate(b, s)
    <2> DEFINE A == {v \in s.conf.progress : a[v] >= s.committed}
               B == {v \in s.conf.progress : b[v] >= s.committed}
    <2>1. A \subseteq B
      BY <1>0
    <2>2. MajorityOf(s.conf, A) => MajorityOf(s.conf, B)
      BY <1>0, <2>1, MajorityMore
    <2> QED BY <2>2 DEF Quorate
  <1>2. ASSUME NEW j \in s.conf.progress PROVE Paced(b[j], Len(s.log), s.prs[j])
    <2>1. IsProgress(s.prs[j]) /\ Paced(a[j], Len(s.log), s.prs[j])
      BY <1>0 DEF Leads, IsRaft
    <2> QED BY <1>0, <2>1 DEF Paced, IsProgress
  <1>3. ASSUME NEW m \in s.msgs PROVE MsgOK(s.conf, m) /\ Serves(b, s, m)
    <2>1. MsgOK(s.conf, m) /\ Serves(a, s, m)
      BY DEF Leads
    <2>2. m.type \in FromLeader => a[m.to] \in Nat /\ b[m.to] \in Nat /\ a[m.to] <= b[m.to]
      BY <1>0, <2>1 DEF Serves
    <2>3. CASE m.type = "MsgAppend"
      BY <2>1, <2>2, <2>3 DEF Serves, MsgOK, FromLeader, VoteRequests, VoteResponses
    <2>4. CASE m.type = "MsgHeartbeat"
      BY <2>1, <2>2, <2>4 DEF Serves, MsgOK, FromLeader, VoteRequests, VoteResponses
    <2>5. CASE m.type \notin {"MsgAppend", "MsgHeartbeat"}
      BY <2>1, <2>5 DEF Serves
    <2> QED BY <2>1, <2>3, <2>4, <2>5
  <1> QED BY <1>0, <1>1, <1>2, <1>3 DEF Leads

\* Raft::append_entry
LEMMA AppendEntryLeads ==
    ASSUME NEW a, NEW c, NEW s, Leads(a, c, s), NEW N, NEW L, VotesOK(N, L, s),
           NEW e, e.type = "Normal", e.data \in Value \cup {Empty}
    PROVE  Leads(a, c, AppendEntry(s, e))
  <1> DEFINE x == [term |-> s.term, type |-> e.type, data |-> e.data]
             t == AppendEntry(s, e)
  <1>0. IsRaft(s) /\ s.state = "Leader" /\ Trimmed(s) /\ a \in [s.conf.progress -> Nat]
    BY DEF Leads
  <1>1. IsRaft(t)
    BY <1>0, AppendEntrySteps DEF Steps
  <1>2. /\ t.log = Append(s.log, x) /\ t.prs = s.prs /\ t.state = s.state /\ t.conf = s.conf /\ t.term = s.term
        /\ t.committed = s.committed /\ t.reads = s.reads /\ t.pending_request_snapshot = s.pending_request_snapshot
        /\ t.first = s.first /\ t.snap = s.snap /\ t.applied = s.applied /\ t.msgs = s.msgs
    BY <1>0 DEF AppendEntry, IsRaft, RaftFields
  <1> HIDE DEF x, t
  <1>3. s.log \in Seq(NEntry) /\ t.log \in Seq(NEntry)
    BY <1>0, <1>1 DEF IsRaft
  <1>4. Len(s.log) \in Nat /\ Len(t.log) = Len(s.log) + 1
    BY <1>2, <1>3
  <1>5. SamePrefix(s.log, t.log, Len(s.log))
    BY <1>2, <1>3 DEF SamePrefix
  <1>6. ASSUME NEW j \in s.conf.progress PROVE Paced(a[j], Len(t.log), t.prs[j])
    <2>1. IsProgress(s.prs[j]) /\ Paced(a[j], Len(s.log), s.prs[j])
      BY <1>0 DEF Leads, IsRaft
    <2> QED BY <1>0, <1>2, <1>4, <2>1 DEF Paced, IsProgress
  <1>7. Trimmed(t)
    BY <1>0, <1>2 DEF Trimmed
  <1>8. Leads(a, c, t)
    BY <1>0, <1>1, <1>2, <1>5, <1>6, <1>7, LeadsMore
  <1> QED BY <1>8 DEF t

\* MsgPropose of a leader.
LEMMA HandleProposeLeads ==
    ASSUME NEW a, NEW c, NEW s, Leads(a, c, s), NEW N, NEW L, VotesOK(N, L, s),
           NEW m, MsgOK(s.conf, m), m.type = "MsgPropose"
    PROVE  Leads(a, c, HandlePropose(s, m))
  <1>1. m.entry.type = "Normal" /\ m.entry.data \in Value \cup {Empty}
    BY DEF MsgOK
  <1>2. Leads(a, c, AppendEntry(s, m.entry))
    BY <1>1, AppendEntryLeads
  <1>3. Leads(a, c, BcastAppend(AppendEntry(s, m.entry)))
    BY <1>2, BcastMaybeLeads DEF BcastAppend
  <1> QED BY <1>1, <1>3 DEF HandlePropose

\* Raft::on_persist_entries: what is persisted is acknowledged.
LEMMA OnPersistEntriesLeads ==
    ASSUME NEW a, NEW c, NEW s, Leads(a, c, s), NEW p \in Nat, p >= s.persisted, p <= Len(s.log), p <= a[s.id]
    PROVE  Leads(a, c, OnPersistEntries(s, p))
  <1> DEFINE pr == MaybeUpdate(s.prs[s.id], p)
             q == [s EXCEPT !.persisted = p, !.prs[s.id] = pr]
  <1>0. /\ IsRaft(s) /\ s.state = "Leader" /\ s.id \in s.conf.progress /\ DOMAIN s.prs = s.conf.progress
        /\ a \in [s.conf.progress -> Nat] /\ Trimmed(s)
    BY DEF Leads, IsRaft
  <1>1. IsProgress(s.prs[s.id]) /\ Paced(a[s.id], Len(s.log), s.prs[s.id])
    BY <1>0 DEF Leads, IsRaft
  <1>2. IsProgress(pr) /\ Paced(a[s.id], Len(s.log), pr)
    <2>1. a[s.id] \in Nat /\ Len(s.log) \in Nat
      BY <1>0, LogTypes
    <2> QED BY <1>1, <2>1 DEF MaybeUpdate, NeedUpdate, IsProgress, Paced
  <1> HIDE DEF pr
  <1>3. /\ q.persisted = p /\ q.prs = [s.prs EXCEPT ![s.id] = pr] /\ q.log = s.log /\ q.state = s.state
        /\ q.conf = s.conf /\ q.term = s.term /\ q.committed = s.committed /\ q.reads = s.reads
        /\ q.pending_request_snapshot = s.pending_request_snapshot /\ q.first = s.first /\ q.snap = s.snap
        /\ q.applied = s.applied /\ q.msgs = s.msgs /\ q.id = s.id /\ q.config = s.config /\ q.vote = s.vote
        /\ DOMAIN q = RaftFields
    BY <1>0 DEF IsRaft, RaftFields
  <1> HIDE DEF q
  <1>4. IsRaft(q)
    <2>1. /\ DOMAIN q.prs = s.conf.progress
          /\ \A j \in s.conf.progress : IsProgress(q.prs[j])
      BY <1>0, <1>2, <1>3 DEF IsRaft
    <2>2. s.applied <= p
      BY <1>0, LogTypes
    <2> QED BY <1>0, <1>3, <2>1, <2>2 DEF IsRaft
  <1>5. \A j \in s.conf.progress : Paced(a[j], Len(q.log), q.prs[j])
    BY <1>0, <1>2, <1>3 DEF Leads
  <1>6. SamePrefix(s.log, q.log, Len(s.log)) /\ Trimmed(q)
    BY <1>0, <1>3, LogTypes DEF SamePrefix, Trimmed
  <1>7. Leads(a, c, q)
    BY <1>0, <1>3, <1>4, <1>5, <1>6, LeadsMore
  <1>8. Leads(a, c, MaybeCommit(q))
    BY <1>7, MaybeCommitLeads
  <1>9. Leads(a, c, BcastAppend(MaybeCommit(q)))
    BY <1>8, BcastMaybeLeads DEF BcastAppend
  <1> QED BY <1>7, <1>8, <1>9, Zenon DEF OnPersistEntries, q, pr

\* What a leader tells candidates.
LEMMA VoteLeads ==
    ASSUME NEW a, NEW c, NEW s, Leads(a, c, s), NEW m, m.type \in VoteRequests
    PROVE  Leads(a, c, Send(s, VoteReject(s, m)))
  <1> DEFINE r == VoteReject(s, m)
             t == Send(s, r)
  <1>0. IsRaft(s) /\ s.committed <= Len(s.log)
    BY DEF Leads
  <1>1. Keeps(s, t)
    BY <1>0, VoteRejectOK
  <1>2. /\ t.committed = s.committed /\ t.prs = s.prs /\ t.reads = s.reads /\ t.msgs = s.msgs \cup {r}
        /\ t.pending_request_snapshot = s.pending_request_snapshot /\ t.log = s.log
    BY <1>0 DEF Send, IsRaft, RaftFields
  <1>3. r.type \in VoteResponses /\ r.commit = s.committed /\ r.commit_term = TermAt(s, s.committed)
    BY DEF VoteReject, VoteResponseType, VoteResponses
  <1> HIDE DEF r, t
  <1>4. Informs(t, r)
    BY <1>0, <1>2, <1>3, TermAtType, LogTypes DEF Informs
  <1>5. Serves(a, t, r)
    BY <1>3, <1>4 DEF Serves, FromLeader, VoteRequests, VoteResponses
  <1>6. Leads(a, c, t)
    BY <1>1, <1>2, <1>5, LeadsTouch
  <1> QED BY <1>6 DEF t, r

\* The vote requests of Raft::step, to a leader.
LEMMA HandleVoteRequestLeads ==
    ASSUME NEW a, NEW c, NEW s, Leads(a, c, s), NEW N, NEW L, VotesOK(N, L, s), NEW m, m.type \in VoteRequests,
           MsgOK(s.conf, m), Sane(s.conf, m), m.type = "MsgRequestVote" => m.term = s.term
    PROVE  Leads(a, c, HandleVoteRequest(s, m))
  <1> DEFINE r == VoteGrant(s, m)
             t == HandleVoteRequest(s, m)
  <1>0. IsRaft(s) /\ s.state = "Leader" /\ Trimmed(s)
    BY DEF Leads
  <1>1. CASE ~Grants(s, m)
    <2>1. Leads(a, c, Send(s, VoteReject(s, m)))
      BY VoteLeads
    <2>2. Send(s, VoteReject(s, m)).state = "Leader"
      BY <2>1 DEF Leads
    <2> QED BY <1>1, <2>1, <2>2 DEF HandleVoteRequest, MaybeCommitByVote
  <1>2. CASE Grants(s, m)
    <2>1. IsRaft(t) /\ t.conf = s.conf /\ t.term = s.term /\ \A n \in t.msgs \ s.msgs : MsgOK(s.conf, n)
      <3>1. Steps(N, L, s, t)
        BY <1>0, HandleVoteRequestSteps
      <3>2. t.term = s.term
        BY <1>0, <1>2 DEF HandleVoteRequest, Send, IsRaft, RaftFields
      <3> HIDE DEF t
      <3> QED BY <3>1, <3>2 DEF Steps, NewMsgOK
    <2>2. /\ t.committed = s.committed /\ t.prs = s.prs /\ t.reads = s.reads /\ t.msgs = s.msgs \cup {r}
          /\ t.pending_request_snapshot = s.pending_request_snapshot /\ t.log = s.log /\ t.state = s.state
          /\ t.first = s.first /\ t.snap = s.snap /\ t.applied = s.applied
      BY <1>0, <1>2 DEF HandleVoteRequest, Send, IsRaft, RaftFields
    <2>3. r.type \in VoteResponses /\ r.commit_term = 0
      BY DEF VoteGrant, VoteResponseType, VoteResponses
    <2> HIDE DEF r, t
    <2>4. Serves(a, t, r)
      BY <2>3 DEF Serves, Informs, FromLeader, VoteRequests, VoteResponses
    <2>5. SamePrefix(s.log, t.log, Len(s.log)) /\ Trimmed(t)
      BY <1>0, <2>2, LogTypes DEF SamePrefix, Trimmed
    <2>6. \A j \in s.conf.progress : Paced(a[j], Len(t.log), t.prs[j])
      BY <2>2 DEF Leads
    <2>7. Leads(a, c, t)
      BY <1>0, <2>1, <2>2, <2>4, <2>5, <2>6, LeadsMore
    <2> QED BY <2>7 DEF t
  <1> QED BY <1>1, <1>2

\* What an acknowledgement says was acknowledged.
Acks(a, K, m) == m.type = "MsgAppendResponse" /\ ~m.reject /\ m.from \in K.progress => m.index <= a[m.from]

\* Raft::step of a leader that stays in its term.
LEMMA DispatchLeads ==
    ASSUME NEW a, NEW c, NEW s, Leads(a, c, s), NEW N, NEW L, VotesOK(N, L, s), NEW m, Receivable(N, s, m),
           m.type = "MsgRequestVote" => m.term = s.term, Acks(a, s.conf, m)
    PROVE  Leads(a, c, Dispatch(s, m))
  <1>0. s.state = "Leader" /\ MsgOK(s.conf, m) /\ Sane(s.conf, m)
    BY DEF Leads, Receivable
  <1>1. CASE m.type \in VoteRequests
    BY <1>0, <1>1, HandleVoteRequestLeads DEF Dispatch
  <1>2. CASE m.type \notin VoteRequests
    <2>1. Dispatch(s, m) = StepLeader(s, m)
      BY <1>0, <1>2 DEF Dispatch
    <2>2. CASE m.type = "MsgAppendResponse"
      <3>1. Leads(a, c, HandleAppendResponse(s, m))
        BY <1>0, <2>2, HandleAppendResponseLeads DEF Acks
      <3> QED BY <2>1, <2>2, <3>1 DEF StepLeader
    <2>3. CASE m.type = "MsgHeartbeatResponse"
      BY <2>1, <2>3, HandleHeartbeatResponseLeads DEF StepLeader
    <2>4. CASE m.type = "MsgTransferLeader"
      BY <2>1, <2>4, HandleTransferLeaderLeads DEF StepLeader
    <2>5. CASE m.type = "MsgPropose"
      BY <1>0, <2>1, <2>5, HandleProposeLeads DEF StepLeader
    <2>6. CASE m.type = "MsgReadIndex"
      BY <2>1, <2>6, HandleReadIndexLeads DEF StepLeader
    <2> QED BY <2>1, <2>2, <2>3, <2>4, <2>5, <2>6 DEF StepLeader
  <1> QED BY <1>1, <1>2

\* Raft::step of a message of an older term.
LEMMA StepLowerTermLeads ==
    ASSUME NEW a, NEW c, NEW s, Leads(a, c, s), NEW m
    PROVE  Leads(a, c, StepLowerTerm(s, m))
  <1> DEFINE t == StepLowerTerm(s, m)
             r == AppendResponse(s, m.from, 0)
             v == [VoteReject(s, m) EXCEPT !.commit = 0, !.commit_term = 0]
  <1>0. IsRaft(s)
    BY DEF Leads
  <1>1. Keeps(s, t)
    BY <1>0, StepLowerTermKeeps
  <1>2. /\ t.committed = s.committed /\ t.prs = s.prs /\ t.reads = s.reads
        /\ t.pending_request_snapshot = s.pending_request_snapshot /\ t.log = s.log
        /\ t.msgs = s.msgs \/ t.msgs = s.msgs \cup {r} \/ (t.msgs = s.msgs \cup {v} /\ m.type = "MsgRequestPreVote")
    BY <1>0 DEF StepLowerTerm, Send, IsRaft, RaftFields
  <1>3. Serves(a, t, r)
    BY DEF AppendResponse, Serves, FromLeader, VoteRequests, VoteResponses
  <1>4. m.type = "MsgRequestPreVote" => Serves(a, t, v)
    BY DEF VoteReject, VoteResponseType, Serves, Informs, FromLeader, VoteRequests, VoteResponses
  <1> HIDE DEF t, r, v
  <1>5. \A n \in t.msgs \ s.msgs : Serves(a, t, n)
    BY <1>2, <1>3, <1>4
  <1>6. Leads(a, c, t)
    BY <1>1, <1>2, <1>5, LeadsTouch
  <1> QED BY <1>6 DEF t

\* Raft::become_leader and the broadcast after a won poll.
LEMMA WinElectionLeads ==
    ASSUME NEW a, NEW N, NEW L, NEW s, IsRaft(s), s.state = "Candidate", Backed(N \cup s.msgs, L, s.conf, s.id, s.term),
           Trimmed(s), s.committed <= Len(s.log), s.msgs = {}, a \in [s.conf.progress -> Nat], s.persisted <= a[s.id]
    PROVE  Leads(a, s.committed, WinElection(s))
  <1> DEFINE t == BecomeLeader(s)
             pr(j) == IF j = s.id THEN BecomeReplicate([ResetProgress(LastIndex(s) + 1) EXCEPT !.matched = s.persisted])
                      ELSE ResetProgress(LastIndex(s) + 1)
  <1>0. s.term > 0 /\ s.committed \in Nat /\ s.persisted \in Nat /\ Len(s.log) \in Nat /\ s.log \in Seq(NEntry)
    BY LogTypes DEF IsRaft
  <1>1. IsRaft(t) /\ t.state = "Leader"
    BY BecomeLeaderSteps DEF Steps
  <1>2. /\ t.conf = s.conf /\ t.term = s.term /\ t.first = s.first /\ t.snap = s.snap /\ t.committed = s.committed
        /\ t.applied = s.applied /\ t.msgs = s.msgs /\ t.prs = LeaderProgress(s) /\ t.reads = <<>>
        /\ t.pending_request_snapshot = 0
        /\ \E e \in NEntry : e.term = s.term /\ t.log = Append(s.log, e)
    BY <1>0, BecomeLeaderFields
  <1> HIDE DEF t
  <1>3. Len(t.log) = Len(s.log) + 1
    BY <1>0, <1>2
  <1>4. ASSUME NEW j \in s.conf.progress PROVE Paced(a[j], Len(t.log), t.prs[j])
    <2>1. t.prs[j] = pr(j) /\ a[j] \in Nat
      BY <1>2 DEF LeaderProgress
    <2>2. CASE j = s.id
      <3>1. pr(j).matched = s.persisted /\ pr(j).next_idx = s.persisted + 1 /\ pr(j).pending_snapshot = 0
        BY <2>2 DEF BecomeReplicate, ResetState, ResetProgress, NewProgress
      <3> HIDE DEF pr
      <3> QED BY <1>0, <1>3, <2>1, <2>2, <3>1 DEF Paced
    <2>3. CASE j # s.id
      <3>1. pr(j).matched = 0 /\ pr(j).next_idx = Len(s.log) + 1 /\ pr(j).pending_snapshot = 0
        BY <2>3 DEF ResetProgress, NewProgress, LastIndex
      <3> HIDE DEF pr
      <3> QED BY <1>0, <1>3, <2>1, <3>1 DEF Paced
    <2> QED BY <2>2, <2>3
  <1>5. Queued(t)
    BY <1>2 DEF Queued
  <1>6. Leads(a, s.committed, t)
    BY <1>0, <1>1, <1>2, <1>3, <1>4, <1>5 DEF Leads, Trimmed
  <1>7. Leads(a, s.committed, BcastAppend(t))
    BY <1>6, BcastMaybeLeads DEF BcastAppend
  <1> QED BY <1>7 DEF WinElection, t

-----------------------------------------------------------------------------
(***************************************************************************)
(* What the others acknowledge and commit.                                 *)
(***************************************************************************)
\* The log is compacted no further than it is committed, or a snapshot was restored,
\* and none is asked for.
Tidy(s) == (s.first <= s.committed \/ s.first = s.snap + 1) /\ s.pending_request_snapshot = 0

\* A node that has acknowledged h, when ch is committed: what it has acknowledged in
\* its term it has from the leader of the term, unless it is committed.
Sound(G, ch, h, s) ==
    /\ IsRaft(s) /\ G \in Logs /\ Fits(G, s.term, s.log) /\ (\A T \in Nat : Fits(G, T, G[T]))
    /\ ch \in Seq(NEntry) /\ (\E T \in Nat : Fits(G, T, ch))
    /\ h \in [Nat -> Nat] /\ (\A T \in Nat : T > s.term => h[T] = 0)
    /\ h[s.term] <= Len(s.log) /\ (SamePrefix(s.log, G[s.term], h[s.term]) \/ h[s.term] <= s.committed)
    /\ SamePrefix(s.log, ch, s.committed)
    /\ Tidy(s)

\* The term of the last entry of a log
EndTerm(log) == IF log = <<>> THEN 0 ELSE log[Len(log)].term

\* A vote request that a node with this log may grant
UpToDate(log, r) == r.log_term > EndTerm(log) \/ (r.log_term = EndTerm(log) /\ r.index >= Len(log))

\* The commit information of a vote message is true.
Backs(ch, m) == m.commit_term > 0 => m.commit \in 1..Len(ch) /\ ch[m.commit].term = m.commit_term

\* What a node that has acknowledged h may be told.
Told(G, ch, h, m) ==
    /\ m.type = "MsgAppend" => /\ G[m.term] # <<>> /\ SamePrefix(G[m.term], ch, m.commit)
                               /\ m.log_term = 0 /\ m.index > 0 => m.index <= h[m.term] /\ m.entries = <<>>
    /\ m.type = "MsgHeartbeat" => SamePrefix(G[m.term], ch, m.commit) /\ m.commit <= h[m.term]
    /\ m.type = "MsgSnapshot" =>
          /\ G[m.term] # <<>> /\ SamePrefix(G[m.term], ch, m.snapshot.index)
          /\ m.snapshot.term = IF m.snapshot.index = 0 THEN 0 ELSE G[m.term][m.snapshot.index].term
    /\ m.type = "MsgReadIndexResp" => m.index \in Nat /\ SamePrefix(G[m.term], ch, m.index)
    /\ m.type \in VoteRequests \cup VoteResponses => Backs(ch, m)

\* What a node that does not lead may say when it has acknowledged b.
Replies(N, ch, b, t, m) ==
    /\ m.type # "MsgReadIndexResp"
    /\ m.type = "MsgAppendResponse" /\ ~m.reject => m.index <= b /\ m.from = t.id /\ m.term = t.term
    /\ m.type \in VoteRequests \cup VoteResponses => Backs(ch, m)
    /\ m.type = "MsgRequestVote" => m.index = Len(t.log) /\ m.log_term = EndTerm(t.log)
    /\ IsGrant(m) => \E r \in N : /\ r.type = "MsgRequestVote" /\ r.from = m.to /\ r.term = m.term
                                  /\ UpToDate(t.log, r)

\* The second log has all that the first has of g.
Kept(g, l1, l2) == g # <<>> /\ \A i \in Nat : SamePrefix(l1, g, i) => SamePrefix(l2, g, i)

\* What a step from s to t may do when the node does not lead after it and has then
\* acknowledged b in its term.
Obeys(N, G, ch, h, s, t, b) ==
    /\ IsRaft(t) /\ s.term <= t.term /\ t.id = s.id /\ t.conf = s.conf
    /\ b \in Nat /\ h[t.term] <= b /\ b <= Len(t.log) /\ (SamePrefix(t.log, G[t.term], b) \/ b <= t.committed)
    /\ b > h[t.term] => G[t.term] # <<>>
    /\ s.committed <= t.committed /\ SamePrefix(t.log, ch, t.committed) /\ Tidy(t)
    /\ t.log = s.log \/ Kept(G[t.term], s.log, t.log)
    /\ \/ t.first = s.first /\ t.snap = s.snap /\ (t.applied = s.applied \/ t.applied > s.applied)
       \/ t.first = t.snap + 1
    /\ s.msgs \subseteq t.msgs /\ \A m \in t.msgs \ s.msgs : Replies(N, ch, b, t, m)

\* A step of which it does not matter what is acknowledged
Obey(N, G, ch, h, s, t) == \E b : Obeys(N, G, ch, h, s, t, b)

\* Agreement is transitive.
LEMMA SamePrefixTrans ==
    ASSUME NEW l1, NEW l2, NEW l3, NEW i \in Nat, NEW j \in Nat, NEW k \in Nat, SamePrefix(l1, l2, i), SamePrefix(l2, l3, j),
           k <= i, k <= j, Len(l1) \in Nat, Len(l2) \in Nat, Len(l3) \in Nat
    PROVE  SamePrefix(l1, l3, k)
  BY DEF SamePrefix

\* Agreement is symmetric and holds for less.
LEMMA SamePrefixSym ==
    ASSUME NEW l1, NEW l2, NEW i \in Nat, NEW k \in Nat, SamePrefix(l1, l2, i), k <= i, Len(l1) \in Nat, Len(l2) \in Nat
    PROVE  SamePrefix(l2, l1, k) /\ SamePrefix(l1, l2, k)
  BY DEF SamePrefix

\* Ignoring a message
LEMMA ObeysRefl ==
    ASSUME NEW N, NEW G, NEW ch, NEW h, NEW s, Sound(G, ch, h, s)
    PROVE  Obeys(N, G, ch, h, s, s, h[s.term])
  <1>1. IsRaft(s) /\ s.term \in Nat /\ s.committed \in Nat /\ h[s.term] \in Nat
    BY LogTypes DEF Sound
  <1>2. /\ h[s.term] <= Len(s.log) /\ (SamePrefix(s.log, G[s.term], h[s.term]) \/ h[s.term] <= s.committed)
        /\ SamePrefix(s.log, ch, s.committed) /\ Tidy(s)
    BY DEF Sound
  <1>3. h[s.term] <= h[s.term] /\ ~(h[s.term] > h[s.term]) /\ s.term <= s.term /\ s.committed <= s.committed
    BY <1>1
  <1> QED BY <1>1, <1>2, <1>3 DEF Obeys

\* A step, and then a method that keeps role, term, votes and log and commits what is
\* committed
LEMMA ObeysCommit ==
    ASSUME NEW N, NEW G, NEW ch, NEW h, NEW s, NEW t, NEW u, NEW b, Obeys(N, G, ch, h, s, t, b), s.committed \in Nat,
           Keeps(t, u), SamePrefix(t.log, ch, u.committed), u.pending_request_snapshot = 0,
           \A m \in u.msgs \ t.msgs : Replies(N, ch, b, u, m)
    PROVE  Obeys(N, G, ch, h, s, u, b)
  <1>1. /\ IsRaft(t) /\ IsRaft(u) /\ u.term = t.term /\ u.log = t.log /\ u.first = t.first /\ u.snap = t.snap
        /\ u.applied = t.applied /\ u.id = t.id /\ u.conf = t.conf /\ t.committed <= u.committed /\ t.msgs \subseteq u.msgs
    BY DEF Obeys, Keeps
  <1>2. t.committed \in Nat /\ u.committed \in Nat /\ t.first \in Nat
    BY <1>1, LogTypes
  <1>3. Tidy(u)
    BY <1>1, <1>2 DEF Obeys, Tidy
  <1>4. ASSUME NEW m \in u.msgs \ s.msgs PROVE Replies(N, ch, b, u, m)
    <2>1. CASE m \in t.msgs
      <3>1. Replies(N, ch, b, t, m)
        BY <1>4, <2>1 DEF Obeys
      <3> QED BY <3>1, <1>1 DEF Replies
    <2> QED BY <2>1, <1>4
  <1>5. b \in Nat /\ (SamePrefix(u.log, G[u.term], b) \/ b <= u.committed) /\ s.committed <= u.committed
    BY <1>1, <1>2 DEF Obeys
  <1> QED BY <1>1, <1>3, <1>4, <1>5 DEF Obeys

\* A step, and then a message
LEMMA SendObeys ==
    ASSUME NEW N, NEW G, NEW ch, NEW h, NEW s, NEW t, NEW b, Obeys(N, G, ch, h, s, t, b), s.committed \in Nat,
           NEW m, MsgOK(t.conf, m), Ordinary(t, m), Replies(N, ch, b, t, m)
    PROVE  Obeys(N, G, ch, h, s, Send(t, m), b)
  <1> DEFINE u == Send(t, m)
  <1>1. IsRaft(t) /\ SamePrefix(t.log, ch, t.committed) /\ Tidy(t)
    BY DEF Obeys
  <1>2. Keeps(t, u)
    BY <1>1, SendKeeps
  <1>3. /\ u.committed = t.committed /\ u.pending_request_snapshot = t.pending_request_snapshot
        /\ u.msgs = t.msgs \cup {m} /\ u.log = t.log /\ u.id = t.id /\ u.term = t.term
    BY <1>1 DEF Send, IsRaft, RaftFields
  <1> HIDE DEF u
  <1>4. \A n \in u.msgs \ t.msgs : Replies(N, ch, b, u, n)
    BY <1>3 DEF Replies
  <1>5. Obeys(N, G, ch, h, s, u, b)
    BY <1>1, <1>2, <1>3, <1>4, ObeysCommit DEF Tidy
  <1> QED BY <1>5 DEF u

\* What steps down silently before it obeys
Retires(s, f) ==
    /\ f.log = s.log /\ f.committed = s.committed /\ f.first = s.first /\ f.snap = s.snap /\ f.applied = s.applied
    /\ f.msgs = s.msgs /\ f.id = s.id /\ f.conf = s.conf /\ s.term <= f.term
    /\ f.pending_request_snapshot = s.pending_request_snapshot

\* A node that steps down silently before it obeys
LEMMA RetiresObeys ==
    ASSUME NEW N, NEW G, NEW ch, NEW h, NEW s, NEW f, NEW t, NEW b, Retires(s, f), Obeys(N, G, ch, h, f, t, b),
           s.term \in Nat, f.term \in Nat
    PROVE  Obeys(N, G, ch, h, s, t, b)
  <1>1. t.term \in Nat
    BY LogTypes DEF Obeys
  <1> QED BY <1>1 DEF Obeys, Retires

\* Such a node is as sound as before.
LEMMA RetiresSound ==
    ASSUME NEW G, NEW ch, NEW h, NEW s, NEW f, Sound(G, ch, h, s), Retires(s, f), IsRaft(f)
    PROVE  Sound(G, ch, h, f)
  <1>1. s.term \in Nat /\ f.term \in Nat /\ s.term <= f.term /\ Len(s.log) \in Nat /\ s.log \in Seq(NEntry) /\ IsRaft(s)
    BY LogTypes DEF Sound, Retires, IsRaft
  <1>2. Fits(G, f.term, f.log)
    BY <1>1, FitsLater DEF Sound, Retires
  <1>3. \A T \in Nat : T > f.term => h[T] = 0
    <2>1. \A T \in Nat : T > s.term => h[T] = 0
      BY DEF Sound
    <2> QED BY <1>1, <2>1
  <1>4. h[f.term] <= Len(f.log) /\ (SamePrefix(f.log, G[f.term], h[f.term]) \/ h[f.term] <= f.committed)
    <2>1. CASE f.term = s.term
      BY <2>1 DEF Sound, Retires
    <2>2. CASE f.term > s.term
      <3>1. h[f.term] = 0
        BY <1>1, <2>2 DEF Sound
      <3>2. f.committed \in Nat /\ Len(f.log) \in Nat
        BY LogTypes
      <3> QED BY <3>1, <3>2
    <2> QED BY <1>1, <2>1, <2>2
  <1> QED BY <1>2, <1>3, <1>4 DEF Sound, Retires, Tidy

\* Raft::become_follower is silent.
LEMMA BecomeFollowerRetires ==
    ASSUME NEW s, IsRaft(s), NEW T \in Nat, s.term <= T, NEW x
    PROVE  Retires(s, BecomeFollower(s, T, x)) /\ IsRaft(BecomeFollower(s, T, x))
  BY BecomeFollowerFields DEF Retires

\* A step, and then become_follower
LEMMA ObeysRetire ==
    ASSUME NEW N, NEW G, NEW ch, NEW h, NEW s, NEW t, NEW b, Obeys(N, G, ch, h, s, t, b), NEW x
    PROVE  Obeys(N, G, ch, h, s, BecomeFollower(t, t.term, x), b)
  <1> DEFINE u == BecomeFollower(t, t.term, x)
  <1>1. IsRaft(t) /\ t.term \in Nat
    BY LogTypes DEF Obeys
  <1>2. Retires(t, u) /\ IsRaft(u) /\ u.term = t.term
    BY <1>1, BecomeFollowerRetires, BecomeFollowerFields
  <1> HIDE DEF u
  <1>3. \A m \in u.msgs \ s.msgs : Replies(N, ch, b, u, m)
    BY <1>2 DEF Obeys, Retires, Replies
  <1>4. Obeys(N, G, ch, h, s, u, b)
    BY <1>2, <1>3 DEF Obeys, Retires, Tidy
  <1> QED BY <1>4 DEF u

\* RaftLog::term at the end of the log and at the commit index.
LEMMA SoundTerms ==
    ASSUME NEW G, NEW ch, NEW h, NEW s, Sound(G, ch, h, s)
    PROVE  /\ LastTerm(s) = EndTerm(s.log) /\ s.committed <= Len(s.log) /\ s.committed <= Len(ch)
           /\ TermAt(s, s.committed) > 0 => /\ s.committed \in 1..Len(ch)
                                            /\ ch[s.committed].term = TermAt(s, s.committed)
           /\ \A i \in Nat : i >= s.committed =>
                 /\ i \in 1..Len(s.log) => TermAt(s, i) = s.log[i].term
                 /\ i \notin 1..Len(s.log) => TermAt(s, i) = 0
  <1>0. /\ IsRaft(s) /\ (s.first <= s.committed \/ s.first = s.snap + 1) /\ SamePrefix(s.log, ch, s.committed)
        /\ s.log \in Seq(NEntry)
    BY DEF Sound, Tidy, IsRaft
  <1>1. s.committed <= Len(s.log) /\ s.committed <= Len(ch) /\ Len(s.log) \in Nat /\ s.committed \in Nat
    BY <1>0, LogTypes DEF SamePrefix
  <1>2. \A i \in Nat : i >= s.committed => /\ i \in 1..Len(s.log) => TermAt(s, i) = s.log[i].term
                                           /\ i \notin 1..Len(s.log) => TermAt(s, i) = 0
    BY <1>0, <1>1, TermAtTidy
  <1>3. LastTerm(s) = EndTerm(s.log)
    <2>1. s.log = <<>> <=> Len(s.log) = 0
      BY <1>0
    <2> QED BY <1>1, <1>2, <2>1 DEF LastTerm, EndTerm
  <1>4. TermAt(s, s.committed) > 0 => s.committed \in 1..Len(ch) /\ ch[s.committed].term = TermAt(s, s.committed)
    BY <1>0, <1>1, <1>2 DEF SamePrefix
  <1> QED BY <1>1, <1>2, <1>3, <1>4

\* What a vote request says.
LEMMA VoteRequestReplies ==
    ASSUME NEW N, NEW G, NEW ch, NEW h, NEW s, Sound(G, ch, h, s), NEW b, NEW t, t.log = s.log,
           NEW c, c.log = s.log, c.first = s.first, c.snap = s.snap, c.committed = s.committed,
           NEW type \in VoteRequests, NEW j, NEW x, NEW transfer
    PROVE  Replies(N, ch, b, t, VoteRequest(c, type, j, x, transfer))
  <1> DEFINE m == VoteRequest(c, type, j, x, transfer)
  <1>1. /\ m.type = type /\ m.index = Len(s.log) /\ m.log_term = TermAt(c, Len(s.log))
        /\ m.commit = s.committed /\ m.commit_term = TermAt(c, s.committed)
    BY DEF VoteRequest, LastIndex, LastTerm
  <1>2. \A i : TermAt(c, i) = TermAt(s, i)
    BY DEF TermAt
  <1>3. LastTerm(s) = EndTerm(s.log)
    BY SoundTerms
  <1>4. m.index = Len(t.log) /\ m.log_term = EndTerm(t.log)
    BY <1>1, <1>2, <1>3 DEF LastTerm
  <1>5. m.commit_term > 0 => m.commit \in 1..Len(ch) /\ ch[m.commit].term = m.commit_term
    BY <1>1, <1>2, SoundTerms
  <1> HIDE DEF m
  <1>6. Replies(N, ch, b, t, m)
    BY <1>1, <1>4, <1>5 DEF Replies, Backs, VoteRequests, VoteResponses, IsGrant
  <1> QED BY <1>6 DEF m

\* Raft::campaign.
LEMMA CampaignObeys ==
    ASSUME NEW N, NEW G, NEW ch, NEW h, NEW s, Sound(G, ch, h, s), NEW transfer, s.state # "Leader"
    PROVE  /\ Obeys(N, G, ch, h, s, CampaignElection(s, transfer), h[s.term + 1])
           /\ Obeys(N, G, ch, h, s, CampaignPreElection(s), h[s.term])
  <1>0. /\ IsRaft(s) /\ s.term \in Nat /\ Len(s.log) \in Nat /\ s.committed \in Nat /\ Tidy(s)
        /\ SamePrefix(s.log, ch, s.committed)
        /\ h[s.term] \in Nat /\ h[s.term] <= Len(s.log)
        /\ (SamePrefix(s.log, G[s.term], h[s.term]) \/ h[s.term] <= s.committed)
    BY LogTypes DEF Sound
  <1>1. h[s.term + 1] = 0
    <2>1. \A T \in Nat : T > s.term => h[T] = 0
      BY DEF Sound
    <2> QED BY <2>1, <1>0
  <1>2. ASSUME NEW t, t = CampaignElection(s, transfer) PROVE Obeys(N, G, ch, h, s, t, 0)
    <2>1. IsRaft(t)
      <3> DEFINE L == None
      <3> HIDE DEF L
      <3> QED BY <1>0, <1>2, CampaignElectionSteps DEF Steps
    <2>2. /\ t.id = s.id /\ t.conf = s.conf /\ t.term = s.term + 1
          /\ t.log = s.log /\ t.first = s.first /\ t.snap = s.snap /\ t.committed = s.committed
          /\ t.applied = s.applied /\ t.pending_request_snapshot = 0 /\ s.msgs \subseteq t.msgs
          /\ \A m \in t.msgs \ s.msgs :
                 \E j, c : /\ m = VoteRequest(c, "MsgRequestVote", j, s.term + 1, transfer)
                           /\ c.log = s.log /\ c.first = s.first /\ c.snap = s.snap /\ c.committed = s.committed
      BY <1>0, <1>2, CampaignElectionFields
    <2>3. \A m \in t.msgs \ s.msgs : Replies(N, ch, 0, t, m)
      <3> DEFINE type == "MsgRequestVote"
      <3>1. type \in VoteRequests
        BY DEF VoteRequests
      <3> HIDE DEF type
      <3>2. \A m \in t.msgs \ s.msgs :
                 \E j, c : /\ m = VoteRequest(c, type, j, s.term + 1, transfer)
                           /\ c.log = s.log /\ c.first = s.first /\ c.snap = s.snap /\ c.committed = s.committed
        BY <2>2 DEF type
      <3> QED BY <2>2, <3>1, <3>2, VoteRequestReplies
    <2>4. 0 <= t.committed /\ 0 <= Len(t.log) /\ h[t.term] = 0 /\ s.term <= t.term /\ s.committed <= t.committed
      BY <1>0, <1>1, <2>2
    <2> QED BY <1>0, <2>1, <2>2, <2>3, <2>4 DEF Obeys, Tidy
  <1>3. ASSUME NEW t, t = CampaignPreElection(s) PROVE Obeys(N, G, ch, h, s, t, h[s.term])
    <2>1. IsRaft(t)
      <3> DEFINE L == None
      <3> HIDE DEF L
      <3> QED BY <1>0, <1>3, CampaignPreElectionSteps DEF Steps
    <2>2. /\ t.id = s.id /\ t.conf = s.conf /\ t.term = s.term
          /\ t.log = s.log /\ t.first = s.first /\ t.snap = s.snap /\ t.committed = s.committed
          /\ t.applied = s.applied /\ t.pending_request_snapshot = s.pending_request_snapshot /\ s.msgs \subseteq t.msgs
          /\ \A m \in t.msgs \ s.msgs :
                 \E j, c, x : /\ m = VoteRequest(c, "MsgRequestPreVote", j, s.term + 1, x)
                              /\ c.log = s.log /\ c.first = s.first /\ c.snap = s.snap /\ c.committed = s.committed
      BY <1>0, <1>3, CampaignPreElectionFields
    <2>3. \A m \in t.msgs \ s.msgs : Replies(N, ch, h[s.term], t, m)
      <3> DEFINE type == "MsgRequestPreVote"
      <3>1. type \in VoteRequests
        BY DEF VoteRequests
      <3> HIDE DEF type
      <3>2. \A m \in t.msgs \ s.msgs :
                 \E j, c, x : /\ m = VoteRequest(c, type, j, s.term + 1, x)
                              /\ c.log = s.log /\ c.first = s.first /\ c.snap = s.snap /\ c.committed = s.committed
        BY <2>2 DEF type
      <3> QED BY <2>2, <3>1, <3>2, VoteRequestReplies
    <2>4. h[t.term] <= h[s.term] /\ ~(h[s.term] > h[t.term]) /\ s.term <= t.term /\ s.committed <= t.committed
      BY <1>0, <2>2
    <2> QED BY <1>0, <2>1, <2>2, <2>3, <2>4 DEF Obeys, Tidy
  <1> QED BY <1>1, <1>2, <1>3

\* Raft::hup.
LEMMA HupObeys ==
    ASSUME NEW N, NEW G, NEW ch, NEW h, NEW s, Sound(G, ch, h, s), NEW transfer, s.state # "Leader"
    PROVE  Obey(N, G, ch, h, s, Hup(s, transfer))
  BY CampaignObeys, ObeysRefl, Zenon DEF Hup, Obey

\* A step that may end as leader of those that have acknowledged a
Outcome(N, G, ch, h, a, s, t) ==
    /\ t.state # "Leader" => Obey(N, G, ch, h, s, t)
    /\ t.state = "Leader" => Leads(a, s.committed, t)

\* A candidate that may win with the acknowledgements a
Electable(a, s) ==
    /\ Trimmed(s) /\ s.msgs = {} /\ a \in [s.conf.progress -> Nat] /\ s.persisted <= a[s.id]

\* Raft::poll.
LEMMA PollOutcome ==
    ASSUME NEW N, NEW G, NEW ch, NEW h, NEW s, Sound(G, ch, h, s), NEW L, VotesOK(N, L, s),
           s.state \in {"Candidate", "PreCandidate"}, NEW from, NEW granted, Answers(N, L, s, from, granted),
           NEW a, Electable(a, s)
    PROVE  /\ Outcome(N, G, ch, h, a, s, Poll(s, from, granted))
           /\ Poll(s, from, granted).state # "Leader" => Poll(s, from, granted).log = s.log
  <1> DEFINE p == RecordOwn(s, from, granted)
             result == VoteResult(s.conf, p.votes)
             no == FALSE
             t == Poll(s, from, granted)
  <1>0. IsRaft(s) /\ s.term \in Nat /\ s.committed \in Nat
    BY LogTypes DEF Sound
  <1>1. IsRaft(p) /\ VotesOK(N, L, p) /\ \A f \in RaftFields \ {"votes"} : p[f] = s[f]
    BY <1>0, RecordOwnFields
  <1>2. result \in {"Won", "Lost", "Pending"}
    BY DEF VoteResult
  <1>3. t = CASE result = "Won" /\ s.state = "PreCandidate" -> CampaignElection(p, no)
              [] result = "Won" /\ s.state = "Candidate" -> WinElection(p)
              [] result = "Lost" -> BecomeFollower(p, p.term, None)
              [] result = "Pending" -> p
    BY DEF Poll
  <1> SUFFICES Outcome(N, G, ch, h, a, s, t) /\ (t.state # "Leader" => t.log = s.log)
    OBVIOUS
  <1> HIDE DEF p, t, no
  <1>4. /\ Retires(s, p) /\ p.term = s.term /\ p.state = s.state /\ p.conf = s.conf /\ p.msgs = s.msgs
        /\ p.persisted = s.persisted /\ p.id = s.id /\ p.committed = s.committed /\ p.log = s.log
    BY <1>0, <1>1 DEF Retires, RaftFields
  <1>5. Sound(G, ch, h, p)
    BY <1>1, <1>4, RetiresSound
  <1>6. \A u, b : Obeys(N, G, ch, h, p, u, b) => Obeys(N, G, ch, h, s, u, b)
    BY <1>0, <1>4, RetiresObeys
  <1>7. Obeys(N, G, ch, h, p, p, h[p.term])
    BY <1>5, ObeysRefl
  <1>8. CASE result = "Won" /\ s.state = "PreCandidate"
    <2>1. t = CampaignElection(p, no)
      BY <1>2, <1>3, <1>8
    <2>2. Obeys(N, G, ch, h, p, t, h[p.term + 1])
      BY <1>4, <1>5, <1>8, <2>1, CampaignObeys
    <2>3. t.state # "Leader" /\ t.log = s.log
      BY <1>1, <1>4, <2>1, CampaignElectionFields
    <2> QED BY <1>6, <2>2, <2>3 DEF Outcome, Obey
  <1>9. CASE result = "Won" /\ s.state = "Candidate"
    <2>1. t = WinElection(p)
      BY <1>2, <1>3, <1>9
    <2>2. Backed(N \cup p.msgs, L, p.conf, p.id, p.term)
      BY <1>1, <1>4, <1>9, WonIsBacked
    <2>3. Trimmed(p) /\ p.committed <= Len(p.log)
      BY <1>4, <1>5, SoundTerms DEF Trimmed, Retires, Electable
    <2>4. Leads(a, p.committed, t)
      BY <1>1, <1>4, <1>9, <2>1, <2>2, <2>3, WinElectionLeads DEF Electable
    <2> QED BY <1>4, <2>4 DEF Outcome, Leads
  <1>10. CASE result = "Lost"
    <2>1. t = BecomeFollower(p, p.term, None)
      BY <1>2, <1>3, <1>10
    <2>2. Obeys(N, G, ch, h, p, t, h[p.term])
      BY <1>7, <2>1, ObeysRetire
    <2>3. t.state = "Follower" /\ t.log = s.log
      BY <1>0, <1>1, <1>4, <2>1, BecomeFollowerFields
    <2> QED BY <1>6, <2>2, <2>3 DEF Outcome, Obey
  <1>11. CASE result = "Pending"
    <2>1. t = p
      BY <1>2, <1>3, <1>11
    <2>2. Obeys(N, G, ch, h, s, t, h[p.term])
      BY <1>6, <1>7, <2>1
    <2>3. t.state # "Leader" /\ t.log = s.log
      BY <1>4, <2>1
    <2> QED BY <2>2, <2>3 DEF Outcome, Obey
  <1> QED BY <1>2, <1>8, <1>9, <1>10, <1>11

\* Raft::maybe_commit_by_vote commits what is committed.
LEMMA MaybeCommitByVoteObeys ==
    ASSUME NEW N, NEW G, NEW ch, NEW h, NEW s, Sound(G, ch, h, s), NEW t, NEW b, Obeys(N, G, ch, h, s, t, b),
           t.log = s.log, t.state # "Leader", NEW m, Backs(ch, m)
    PROVE  Obeys(N, G, ch, h, s, MaybeCommitByVote(t, m), b) /\ MaybeCommitByVote(t, m).state # "Leader"
  <1> DEFINE c == LogMaybeCommit(t, m.commit, m.commit_term)
  <1>0. /\ IsRaft(s) /\ s.term \in Nat /\ s.committed \in Nat /\ IsRaft(t) /\ t.term \in Nat /\ s.term <= t.term
        /\ s.log \in Seq(NEntry) /\ ch \in Seq(NEntry) /\ SamePrefix(t.log, ch, t.committed) /\ Tidy(t)
    BY LogTypes DEF Sound, Obeys, IsRaft
  <1>1. SUFFICES ASSUME m.commit_term # 0
                 PROVE  /\ Obeys(N, G, ch, h, s, c, b) /\ c.state # "Leader"
                        /\ Obeys(N, G, ch, h, s, BecomeFollower(c, c.term, None), b)
                        /\ BecomeFollower(c, c.term, None).state # "Leader"
    BY DEF MaybeCommitByVote
  <1>2. Keeps(t, c)
    BY <1>0, <1>1, LogMaybeCommitKeeps
  <1>3. SamePrefix(t.log, ch, c.committed)
    <2>1. CASE m.commit > t.committed /\ MatchTerm(t, m.commit, m.commit_term)
      <3>1. c.committed = m.commit
        BY <1>0, <2>1 DEF LogMaybeCommit, IsRaft, RaftFields
      <3>2. TermAt(t, m.commit) = m.commit_term
        BY <2>1 DEF MatchTerm
      <3>3. m.commit_term > 0 /\ m.commit \in 1..Len(t.log) /\ t.log[m.commit].term = m.commit_term
        <4>1. m.commit \in Nat
          BY <1>0, <1>1, <3>2, TermAtType
        <4>2. t.committed \in Nat /\ Len(t.log) \in Nat /\ (t.first <= t.committed \/ t.first = t.snap + 1)
              /\ t.committed <= Len(t.log)
          BY <1>0, LogTypes DEF Tidy, SamePrefix
        <4>3. /\ m.commit \in 1..Len(t.log) => TermAt(t, m.commit) = t.log[m.commit].term
              /\ m.commit \notin 1..Len(t.log) => TermAt(t, m.commit) = 0
          BY <1>0, <2>1, <4>1, <4>2, TermAtTidy
        <4>4. m.commit \in 1..Len(t.log) /\ t.log[m.commit].term = m.commit_term
          BY <1>1, <3>2, <4>3
        <4>5. t.log[m.commit].term > 0
          BY <1>0, <4>4, EntryType
        <4> QED BY <4>4, <4>5
      <3>4. m.commit \in 1..Len(ch) /\ ch[m.commit].term = m.commit_term
        BY <3>3 DEF Backs
      <3>5. PICK T \in Nat : Fits(G, T, ch)
        BY DEF Sound
      <3>6. Fits(G, s.term, t.log)
        BY DEF Sound
      <3>7. SamePrefix(t.log, ch, m.commit)
        BY <1>0, <3>3, <3>4, <3>5, <3>6, FitsAgree
      <3> QED BY <3>1, <3>7
    <2>2. CASE ~(m.commit > t.committed /\ MatchTerm(t, m.commit, m.commit_term))
      BY <1>0, <2>2 DEF LogMaybeCommit
    <2> QED BY <2>1, <2>2
  <1>4. c.pending_request_snapshot = 0 /\ c.msgs = t.msgs
    BY <1>0 DEF LogMaybeCommit, IsRaft, RaftFields, Tidy
  <1> HIDE DEF c
  <1>5. Obeys(N, G, ch, h, s, c, b)
    BY <1>0, <1>2, <1>3, <1>4, ObeysCommit
  <1>6. IsRaft(c) /\ c.term \in Nat /\ c.state = t.state
    BY <1>2, LogTypes DEF Keeps
  <1>7. BecomeFollower(c, c.term, None).state = "Follower"
    BY <1>6, BecomeFollowerFields
  <1> QED BY <1>5, <1>6, <1>7, ObeysRetire

\* The vote requests of Raft::step: a vote goes to whoever has as good a log.
LEMMA HandleVoteRequestObeys ==
    ASSUME NEW N, NEW G, NEW ch, NEW h, NEW s, Sound(G, ch, h, s), s.state # "Leader", NEW L, VotesOK(N, L, s),
           NEW m, m.type \in VoteRequests, MsgOK(s.conf, m), Sane(s.conf, m), Backs(ch, m),
           m.type = "MsgRequestVote" => m \in N /\ m.term = s.term
    PROVE  Obey(N, G, ch, h, s, HandleVoteRequest(s, m)) /\ HandleVoteRequest(s, m).state # "Leader"
  <1> DEFINE b == h[s.term]
             t == HandleVoteRequest(s, m)
  <1>0. /\ IsRaft(s) /\ s.committed \in Nat /\ s.term \in Nat /\ Len(s.log) \in Nat /\ b \in Nat /\ Tidy(s)
        /\ SamePrefix(s.log, ch, s.committed) /\ b <= Len(s.log)
        /\ (SamePrefix(s.log, G[s.term], b) \/ b <= s.committed)
    BY LogTypes DEF Sound
  <1>1. CASE ~Grants(s, m)
    <2> DEFINE r == VoteReject(s, m)
               u == Send(s, r)
    <2>1. Keeps(s, u)
      BY <1>0, VoteRejectOK
    <2>2. /\ r.type \in VoteResponses /\ r.commit = s.committed /\ r.commit_term = TermAt(s, s.committed)
          /\ r.reject
      BY DEF VoteReject, VoteResponseType, VoteResponses
    <2>3. u.committed = s.committed /\ u.pending_request_snapshot = 0 /\ u.msgs = s.msgs \cup {r}
          /\ u.state = s.state /\ u.log = s.log
      BY <1>0 DEF Send, IsRaft, RaftFields, Tidy
    <2> HIDE DEF r, u
    <2>4. Backs(ch, r)
      BY <2>2, SoundTerms DEF Backs
    <2>5. Replies(N, ch, b, u, r)
      BY <2>2, <2>4 DEF Replies, VoteRequests, VoteResponses, IsGrant
    <2>6. Obeys(N, G, ch, h, s, s, b)
      BY ObeysRefl
    <2>7. Obeys(N, G, ch, h, s, u, b)
      BY <1>0, <2>1, <2>3, <2>5, <2>6, ObeysCommit
    <2>8. Obeys(N, G, ch, h, s, MaybeCommitByVote(u, m), b) /\ MaybeCommitByVote(u, m).state # "Leader"
      BY <2>3, <2>7, MaybeCommitByVoteObeys
    <2> QED BY <1>1, <2>8 DEF HandleVoteRequest, Obey, u, r
  <1>2. CASE Grants(s, m)
    <2> DEFINE g == VoteGrant(s, m)
    <2>1. IsRaft(t)
      BY <1>0, HandleVoteRequestSteps DEF Steps
    <2>2. /\ t.id = s.id /\ t.conf = s.conf /\ t.term = s.term /\ t.state = s.state /\ t.log = s.log
          /\ t.committed = s.committed /\ t.first = s.first /\ t.snap = s.snap /\ t.applied = s.applied
          /\ t.pending_request_snapshot = s.pending_request_snapshot /\ t.msgs = s.msgs \cup {g}
      BY <1>0, <1>2 DEF HandleVoteRequest, Send, IsRaft, RaftFields
    <2>3. /\ g.type \in VoteResponses /\ g.commit_term = 0 /\ g.to = m.from /\ g.term = m.term
          /\ g.type = "MsgRequestVoteResponse" => m.type = "MsgRequestVote"
      BY DEF VoteGrant, VoteResponseType, VoteResponses
    <2> SUFFICES Obey(N, G, ch, h, s, t) /\ t.state # "Leader"
      OBVIOUS
    <2> HIDE DEF g, t
    <2>4. UpToDate(t.log, m)
      <3>1. IsUpToDate(s, m.index, m.log_term)
        BY <1>2 DEF Grants
      <3> QED BY <2>2, <3>1, SoundTerms DEF UpToDate, IsUpToDate, LastIndex
    <2>5. Replies(N, ch, b, t, g)
      BY <2>3, <2>4 DEF Replies, VoteRequests, VoteResponses, IsGrant, Backs
    <2>6. h[t.term] <= b /\ ~(b > h[t.term]) /\ s.term <= t.term /\ s.committed <= t.committed
      BY <1>0, <2>2
    <2>7. Obeys(N, G, ch, h, s, t, b)
      BY <1>0, <2>1, <2>2, <2>5, <2>6 DEF Obeys, Tidy
    <2> QED BY <2>2, <2>7 DEF Obey
  <1> QED BY <1>1, <1>2

\* The vote responses of Raft::step_candidate.
LEMMA HandleVoteResponseOutcome ==
    ASSUME NEW N, NEW G, NEW ch, NEW h, NEW s, Sound(G, ch, h, s), NEW L, VotesOK(N, L, s),
           s.state \in {"Candidate", "PreCandidate"}, NEW a, Electable(a, s),
           NEW m, MsgOK(s.conf, m), m.from \in s.conf.progress, m.to = s.id, Backs(ch, m),
           m.type = "MsgRequestVoteResponse" => m \in N /\ m.term \in {0, s.term}
    PROVE  Outcome(N, G, ch, h, a, s, HandleVoteResponse(s, m))
  <1> DEFINE expected == IF s.state = "PreCandidate" THEN "MsgRequestPreVoteResponse"
                                                     ELSE "MsgRequestVoteResponse"
             granted == ~m.reject
             t == Poll(s, m.from, granted)
  <1>0. IsRaft(s)
    BY DEF Sound
  <1>1. SUFFICES ASSUME m.type = expected PROVE Outcome(N, G, ch, h, a, s, MaybeCommitByVote(t, m))
    <2>1. Outcome(N, G, ch, h, a, s, s)
      BY ObeysRefl DEF Outcome, Obey
    <2> QED BY <2>1 DEF HandleVoteResponse
  <1>2. Answers(N, L, s, m.from, granted)
    <2>1. SUFFICES ASSUME s.state = "Candidate", ~m.reject PROVE Voted(N \cup s.msgs, L, m.from, s.id, s.term)
      BY DEF Answers
    <2>2. m.type = "MsgRequestVoteResponse" /\ m \in N
      BY <1>1, <2>1
    <2>3. m.term = s.term
      BY <2>1, <2>2 DEF MsgOK
    <2> QED BY <2>1, <2>2, <2>3 DEF Voted, IsGrant
  <1> HIDE DEF granted
  <1>3. Outcome(N, G, ch, h, a, s, t) /\ (t.state # "Leader" => t.log = s.log)
    BY <1>2, PollOutcome
  <1> HIDE DEF t
  <1>5. CASE t.state = "Leader"
    BY <1>3, <1>5 DEF MaybeCommitByVote
  <1>6. CASE t.state # "Leader"
    <2>1. PICK b : Obeys(N, G, ch, h, s, t, b)
      BY <1>3, <1>6 DEF Outcome, Obey
    <2>2. t.log = s.log
      BY <1>3, <1>6
    <2>3. Obeys(N, G, ch, h, s, MaybeCommitByVote(t, m), b) /\ MaybeCommitByVote(t, m).state # "Leader"
      BY <1>6, <2>1, <2>2, MaybeCommitByVoteObeys
    <2> QED BY <2>3 DEF Outcome, Obey
  <1> QED BY <1>5, <1>6

\* Acknowledging what is committed.
LEMMA ObeysMore ==
    ASSUME NEW N, NEW G, NEW ch, NEW h, NEW s, NEW t, NEW b, Obeys(N, G, ch, h, s, t, b), t.msgs = s.msgs,
           h[t.term] \in Nat, G[t.term] # <<>>
    PROVE  \E d : Obeys(N, G, ch, h, s, t, d) /\ d >= t.committed
  <1>0. IsRaft(t) /\ b \in Nat /\ t.committed \in Nat /\ Len(t.log) \in Nat /\ t.committed <= Len(t.log) /\ h[t.term] <= b
    BY LogTypes DEF Obeys, SamePrefix
  <1>1. CASE b >= t.committed
    BY <1>1
  <1>2. CASE b < t.committed
    <2>1. t.committed \in Nat /\ h[t.term] <= t.committed /\ t.committed <= Len(t.log) /\ t.committed <= t.committed
      BY <1>0, <1>2
    <2>2. Obeys(N, G, ch, h, s, t, t.committed)
      BY <2>1 DEF Obeys
    <2> QED BY <2>1, <2>2
  <1> QED BY <1>0, <1>1, <1>2

\* The answers to a leader
LEMMA AppendResponseReplies ==
    ASSUME NEW N, NEW G, NEW ch, NEW h, NEW s, NEW t, NEW b, Obeys(N, G, ch, h, s, t, b), s.committed \in Nat,
           NEW to, NEW i \in Nat, NEW k \in Nat
    PROVE  /\ i <= b => Obeys(N, G, ch, h, s, Send(t, AppendResponse(t, to, i)), b)
           /\ Obeys(N, G, ch, h, s, Send(t, AppendReject(t, to, i, k)), b)
  <1> DEFINE m == AppendResponse(t, to, i)
             r == AppendReject(t, to, i, k)
             z == 0
  <1>1. IsRaft(t)
    BY DEF Obeys
  <1>2. MsgOK(t.conf, m) /\ Ordinary(t, m) /\ MsgOK(t.conf, r) /\ Ordinary(t, r)
    <2>1. z \in Nat
      OBVIOUS
    <2> HIDE DEF z
    <2> QED BY <1>1, <2>1, AppendResponseOK
  <1>3. m.type = "MsgAppendResponse" /\ m.index = i /\ m.from = t.id /\ m.term = t.term /\ ~m.reject
    BY DEF AppendResponse
  <1>4. r.type = "MsgAppendResponse" /\ r.reject
    BY DEF AppendReject, AppendResponse
  <1> HIDE DEF m, r
  <1>5. i <= b => Replies(N, ch, b, t, m)
    BY <1>3 DEF Replies, VoteRequests, VoteResponses, IsGrant
  <1>6. Replies(N, ch, b, t, r)
    BY <1>4 DEF Replies, VoteRequests, VoteResponses, IsGrant
  <1>7. Obeys(N, G, ch, h, s, Send(t, r), b)
    BY <1>2, <1>6, SendObeys
  <1>8. i <= b => Obeys(N, G, ch, h, s, Send(t, m), b)
    BY <1>2, <1>5, SendObeys
  <1> QED BY <1>7, <1>8 DEF m, r

\* What a leader's message to a node of its term must be
Heard(G, ch, h, s, m) ==
    /\ Sound(G, ch, h, s) /\ MsgOK(s.conf, m) /\ m.term = s.term /\ Copies(G[m.term], m) /\ Told(G, ch, h, m)

\* RaftLog::maybe_append of a MsgAppend that matches: what is committed stays, and so
\* does what was acknowledged.
LEMMA AppendMatchingObeys ==
    ASSUME NEW N, NEW G, NEW ch, NEW h, NEW s, s.state = "Follower", NEW L, VotesOK(N, L, s), NEW m, Heard(G, ch, h, s, m),
           m.type = "MsgAppend", m.index >= s.committed, MatchTerm(s, m.index, m.log_term)
    PROVE  /\ \E b : Obeys(N, G, ch, h, s, AppendMatching(s, m), b) /\ b >= m.index + Len(m.entries)
           /\ AppendMatching(s, m).term = s.term
  <1> DEFINE t == AppendMatching(s, m)
             conflict == FindConflict(s, m.index, m.entries)
             last == m.index + Len(m.entries)
             g == G[s.term]
             a == h[s.term]
             c == MinOf({m.commit, last})
  <1>0. /\ IsRaft(s) /\ s.committed \in Nat /\ s.term \in Nat /\ Len(s.log) \in Nat /\ s.committed <= Len(s.log)
        /\ SamePrefix(s.log, ch, s.committed) /\ s.log \in Seq(NEntry) /\ ch \in Seq(NEntry) /\ Len(ch) \in Nat
        /\ a \in Nat /\ a <= Len(s.log) /\ (SamePrefix(s.log, g, a) \/ a <= s.committed) /\ Tidy(s)
    <2>1. /\ IsRaft(s) /\ SamePrefix(s.log, ch, s.committed) /\ ch \in Seq(NEntry) /\ h \in [Nat -> Nat]
          /\ a <= Len(s.log) /\ (SamePrefix(s.log, g, a) \/ a <= s.committed) /\ Tidy(s)
      BY DEF Heard, Sound
    <2>2. s.term \in Nat /\ s.log \in Seq(NEntry) /\ s.committed \in Nat /\ Len(s.log) \in Nat
      BY <2>1, LogTypes DEF IsRaft
    <2>3. a \in Nat
      BY <2>1, <2>2
    <2>4. s.committed <= Len(s.log)
      BY <2>1 DEF SamePrefix
    <2> QED BY <2>1, <2>2, <2>3, <2>4
  <1>1. /\ m.index \in Nat /\ m.log_term \in Nat /\ m.commit \in Nat /\ m.entries \in Seq(NEntry) /\ m.term = s.term
        /\ m.entries # <<>> => m.log_term > 0 \/ m.index = 0
    BY DEF Heard, MsgOK
  <1>2. /\ g # <<>> /\ SamePrefix(g, ch, m.commit)
        /\ m.log_term = 0 /\ m.index > 0 => m.index <= a /\ m.entries = <<>>
    BY <1>1 DEF Heard, Told
  <1>3. g \in Seq(NEntry) /\ Len(g) \in Nat /\ last \in Nat /\ Len(m.entries) \in Nat /\ m.index <= last
        /\ (m.entries = <<>> => last = m.index)
    <2>1. g \in Seq(NEntry)
      BY <1>0 DEF Heard, Sound, Logs
    <2> QED BY <1>1, <2>1
  <1>4. \A i \in Nat : i >= s.committed => /\ i \in 1..Len(s.log) => TermAt(s, i) = s.log[i].term
                                           /\ i \notin 1..Len(s.log) => TermAt(s, i) = 0
    BY SoundTerms DEF Heard
  <1>5. Appended(G, s, m, t, conflict, last)
    <2>1. Fitting(G, s, m)
      BY DEF Heard, Sound, Fitting
    <2> QED BY <1>0, <2>1, AppendMatchingLog DEF Heard
  <1>6. Steps(N, L, s, t)
    BY <1>0, AppendMatchingSteps DEF Heard
  <1> SUFFICES (\E b : Obeys(N, G, ch, h, s, t, b) /\ b >= last) /\ t.term = s.term
    OBVIOUS
  <1> HIDE DEF t, conflict, last
  <1>7. /\ IsRaft(t) /\ t.id = s.id /\ t.conf = s.conf /\ t.term = s.term /\ t.first = s.first /\ t.snap = s.snap
        /\ t.applied = s.applied /\ t.pending_request_snapshot = 0 /\ t.msgs = s.msgs
        /\ t.committed = (IF c > s.committed THEN c ELSE s.committed)
    BY <1>0, <1>5, <1>6 DEF Steps, Appended, Tidy
  <1>8. c \in Nat /\ c <= m.commit /\ c <= last
    <2>1. m.commit \in Int /\ last \in Int
      BY <1>1, <1>3
    <2>2. c = IF m.commit <= last THEN m.commit ELSE last
      BY <2>1, MinOfTwo
    <2> QED BY <1>1, <1>3, <2>2
  <1> HIDE DEF c
  <1>9. t.committed \in Nat /\ s.committed <= t.committed /\ Len(t.log) \in Nat
    BY <1>0, <1>7, <1>8, LogTypes
  <1>10. Tidy(t)
    <2>1. s.first \in Nat
      BY <1>0, LogTypes
    <2> QED BY <1>0, <1>7, <1>9, <2>1 DEF Tidy
  <1>11. ASSUME NEW b \in Nat, b >= a, b <= Len(t.log), SamePrefix(t.log, g, b) \/ b <= t.committed,
                SamePrefix(t.log, ch, t.committed), t.log = s.log \/ Kept(g, s.log, t.log)
         PROVE  Obeys(N, G, ch, h, s, t, b)
    BY <1>0, <1>2, <1>7, <1>9, <1>10, <1>11 DEF Obeys
  <1>12. ASSUME conflict = 0 PROVE \E b : Obeys(N, G, ch, h, s, t, b) /\ b >= last
    <2>1. t.log = s.log
      BY <1>5, <1>12 DEF Appended
    <2>2. SamePrefix(s.log, g, last)
      <3>1. CASE m.entries # <<>> \/ m.log_term > 0
        BY <1>1, <1>5, <1>12, <3>1 DEF Appended
      <3>2. CASE m.entries = <<>> /\ m.log_term = 0
        <4>1. TermAt(s, m.index) = 0
          BY <3>2 DEF MatchTerm
        <4>2. m.index = 0
          <5>1. SUFFICES ASSUME m.index > 0 PROVE FALSE
            BY <1>1
          <5>2. m.index \in 1..Len(s.log)
            BY <1>0, <1>1, <1>2, <3>2, <5>1
          <5>3. TermAt(s, m.index) = s.log[m.index].term
            BY <1>1, <1>4, <5>2
          <5>4. s.log[m.index].term > 0
            BY <1>0, <5>2, EntryType
          <5> QED BY <4>1, <5>3, <5>4
        <4>3. last = 0
          BY <1>3, <3>2, <4>2
        <4> QED BY <1>0, <1>3, <4>3 DEF SamePrefix
      <3> QED BY <1>1, <3>1, <3>2
    <2>3. SamePrefix(t.log, ch, t.committed)
      <3>1. SamePrefix(s.log, ch, c)
        BY <1>0, <1>1, <1>2, <1>3, <1>8, <2>2, SamePrefixTrans
      <3> QED BY <1>0, <1>7, <2>1, <3>1
    <2>4. last <= Len(t.log)
      BY <2>1, <2>2 DEF SamePrefix
    <2>5. CASE last >= a
      <3>1. Obeys(N, G, ch, h, s, t, last)
        BY <1>3, <1>11, <2>1, <2>2, <2>3, <2>4, <2>5
      <3> QED BY <1>3, <3>1
    <2>6. CASE last < a
      <3>1. SamePrefix(t.log, g, a) \/ a <= t.committed
        BY <1>0, <1>9, <2>1
      <3>2. a <= Len(t.log) /\ a >= a
        BY <1>0, <2>1
      <3>3. Obeys(N, G, ch, h, s, t, a)
        BY <1>0, <1>11, <2>1, <2>3, <3>1, <3>2
      <3> QED BY <1>0, <1>3, <2>6, <3>3
    <2> QED BY <1>0, <1>3, <2>5, <2>6
  <1>13. ASSUME conflict # 0 PROVE \E b : Obeys(N, G, ch, h, s, t, b) /\ b >= last
    <2>1. /\ conflict \in Nat /\ m.index < conflict /\ conflict <= last /\ SamePrefix(s.log, g, conflict - 1)
          /\ ~MatchTerm(s, conflict, g[conflict].term) /\ Len(t.log) = last /\ SamePrefix(t.log, g, last)
      BY <1>1, <1>5, <1>13 DEF Appended
    <2>2. ASSUME NEW i \in Nat, SamePrefix(s.log, g, i) PROVE i < conflict
      <3>1. SUFFICES ASSUME i >= conflict PROVE FALSE
        BY <2>1
      <3>2. conflict \in 1..Len(s.log) /\ s.log[conflict] = g[conflict]
        BY <1>0, <1>1, <2>1, <2>2, <3>1 DEF SamePrefix
      <3>3. TermAt(s, conflict) = s.log[conflict].term
        BY <1>0, <1>1, <1>4, <2>1, <3>2
      <3> QED BY <2>1, <3>2, <3>3 DEF MatchTerm
    <2>3. Kept(g, s.log, t.log)
      <3>1. ASSUME NEW i \in Nat, SamePrefix(s.log, g, i) PROVE SamePrefix(t.log, g, i)
        <4>1. i < conflict
          BY <2>2, <3>1
        <4>2. i <= last
          BY <1>3, <2>1, <4>1
        <4> QED BY <1>3, <1>9, <2>1, <4>2, SamePrefixSym
      <3> QED BY <1>2, <3>1 DEF Kept
    <2>4. a <= last
      <3>1. CASE a <= s.committed
        BY <1>0, <1>1, <1>3, <2>1, <3>1
      <3>2. CASE SamePrefix(s.log, g, a)
        <4>1. a < conflict
          BY <1>0, <2>2, <3>2
        <4> QED BY <1>0, <1>3, <2>1, <4>1
      <3> QED BY <1>0, <3>1, <3>2
    <2>5. SamePrefix(t.log, ch, t.committed)
      <3>1. SamePrefix(t.log, ch, c)
        BY <1>1, <1>2, <1>3, <1>8, <1>9, <1>0, <2>1, SamePrefixTrans
      <3>2. SamePrefix(t.log, ch, s.committed)
        <4>1. s.committed <= conflict - 1 /\ conflict - 1 \in Nat /\ s.committed <= last
          BY <1>0, <1>1, <1>3, <2>1
        <4>2. SamePrefix(g, s.log, s.committed)
          BY <1>0, <1>3, <2>1, <4>1, SamePrefixSym
        <4>3. SamePrefix(t.log, s.log, s.committed)
          BY <1>0, <1>3, <1>9, <2>1, <4>1, <4>2, SamePrefixTrans
        <4> QED BY <1>0, <1>9, <4>3, SamePrefixTrans
      <3> QED BY <1>7, <3>1, <3>2
    <2>6. Obeys(N, G, ch, h, s, t, last)
      <3>1. last <= Len(t.log) /\ last >= a
        BY <1>0, <1>3, <2>1, <2>4
      <3> QED BY <1>3, <1>11, <2>1, <2>3, <2>5, <3>1
    <2> QED BY <1>3, <2>6
  <1> QED BY <1>7, <1>12, <1>13

\* What Heard says, in parts.
LEMMA HeardParts ==
    ASSUME NEW G, NEW ch, NEW h, NEW s, NEW m, Heard(G, ch, h, s, m)
    PROVE  /\ Sound(G, ch, h, s) /\ IsRaft(s) /\ MsgOK(s.conf, m) /\ m.term = s.term /\ s.term \in Nat
           /\ s.committed \in Nat /\ Len(s.log) \in Nat /\ s.log \in Seq(NEntry) /\ s.committed <= Len(s.log)
           /\ s.pending_request_snapshot = 0 /\ Tidy(s) /\ SamePrefix(s.log, ch, s.committed)
           /\ ch \in Seq(NEntry) /\ Len(ch) \in Nat /\ G[s.term] \in Seq(NEntry) /\ Len(G[s.term]) \in Nat
           /\ h[s.term] \in Nat /\ h[s.term] <= Len(s.log)
           /\ SamePrefix(s.log, G[s.term], h[s.term]) \/ h[s.term] <= s.committed
           /\ Copies(G[s.term], m) /\ Told(G, ch, h, m) /\ Fits(G, s.term, s.log)
           /\ Fitting(G, s, m)
  <1>1. /\ Sound(G, ch, h, s) /\ MsgOK(s.conf, m) /\ m.term = s.term /\ Copies(G[s.term], m) /\ Told(G, ch, h, m)
    BY DEF Heard
  <1>2. /\ IsRaft(s) /\ Tidy(s) /\ SamePrefix(s.log, ch, s.committed) /\ ch \in Seq(NEntry) /\ G \in Logs
        /\ h \in [Nat -> Nat] /\ h[s.term] <= Len(s.log) /\ Fits(G, s.term, s.log)
        /\ SamePrefix(s.log, G[s.term], h[s.term]) \/ h[s.term] <= s.committed
    BY <1>1 DEF Sound
  <1>3. s.term \in Nat /\ s.committed \in Nat /\ Len(s.log) \in Nat /\ s.log \in Seq(NEntry)
    BY <1>2, LogTypes DEF IsRaft
  <1>4. G[s.term] \in Seq(NEntry) /\ h[s.term] \in Nat
    BY <1>2, <1>3 DEF Logs
  <1>5. s.committed <= Len(s.log) /\ s.pending_request_snapshot = 0
    BY <1>2 DEF SamePrefix, Tidy
  <1>6. Fitting(G, s, m)
    BY <1>1 DEF Sound, Fitting
  <1>7. Len(ch) \in Nat /\ Len(G[s.term]) \in Nat
    <2>1. ch \in Seq(NEntry)
      BY <1>2
    <2>2. G[s.term] \in Seq(NEntry)
      BY <1>4
    <2> QED BY <2>1, <2>2
  <1> QED BY <1>1, <1>2, <1>3, <1>4, <1>5, <1>6, <1>7, Zenon

\* RaftLog::commit_to, for what is committed.
LEMMA CommitToObeys ==
    ASSUME NEW N, NEW G, NEW ch, NEW h, NEW s, Sound(G, ch, h, s), NEW i \in Nat,
           i > s.committed => SamePrefix(s.log, ch, i)
    PROVE  /\ Obeys(N, G, ch, h, s, CommitTo(s, i), h[s.term])
           /\ Keeps(s, CommitTo(s, i)) /\ CommitTo(s, i).msgs = s.msgs
           /\ CommitTo(s, i).pending_request_snapshot = s.pending_request_snapshot
           /\ CommitTo(s, i).committed >= i /\ CommitTo(s, i).committed \in Nat
  <1> DEFINE c == CommitTo(s, i)
  <1>1. IsRaft(s) /\ s.committed \in Nat /\ SamePrefix(s.log, ch, s.committed) /\ Tidy(s)
    BY LogTypes DEF Sound
  <1>2. Keeps(s, c)
    BY <1>1, CommitToKeeps
  <1>3. /\ c.msgs = s.msgs /\ c.pending_request_snapshot = s.pending_request_snapshot
        /\ c.committed = IF i > s.committed THEN i ELSE s.committed
    BY <1>1 DEF CommitTo, IsRaft, RaftFields
  <1> HIDE DEF c
  <1>4. SamePrefix(s.log, ch, c.committed)
    BY <1>1, <1>3
  <1>5. Obeys(N, G, ch, h, s, s, h[s.term])
    BY ObeysRefl
  <1>6. c.pending_request_snapshot = 0
    BY <1>1, <1>3 DEF Tidy
  <1>7. Obeys(N, G, ch, h, s, c, h[s.term])
    BY <1>1, <1>2, <1>3, <1>4, <1>5, <1>6, ObeysCommit
  <1>8. c.committed >= i /\ c.committed \in Nat
    BY <1>1, <1>3
  <1> QED BY <1>2, <1>3, <1>7, <1>8 DEF c

\* Raft::handle_append_entries.
LEMMA HandleAppendEntriesObeys ==
    ASSUME NEW N, NEW G, NEW ch, NEW h, NEW s, s.state = "Follower", NEW L, VotesOK(N, L, s), NEW m, Heard(G, ch, h, s, m),
           m.type = "MsgAppend"
    PROVE  Obey(N, G, ch, h, s, HandleAppendEntries(s, m))
  <1>1. /\ IsRaft(s) /\ Sound(G, ch, h, s) /\ s.committed \in Nat /\ Len(s.log) \in Nat /\ s.pending_request_snapshot = 0
        /\ h[s.term] \in Nat /\ m.term = s.term
    BY HeardParts
  <1>2. m.index \in Nat /\ m.log_term \in Nat /\ m.entries \in Seq(NEntry) /\ G[s.term] # <<>>
    BY <1>1 DEF Heard, MsgOK, Told
  <1>3. Obeys(N, G, ch, h, s, s, h[s.term])
    BY <1>1, ObeysRefl
  <1>4. CASE m.index < s.committed
    <2>1. PICK d : Obeys(N, G, ch, h, s, s, d) /\ d >= s.committed
      BY <1>1, <1>2, <1>3, ObeysMore
    <2>2. Obeys(N, G, ch, h, s, Send(s, AppendResponse(s, m.from, s.committed)), d)
      BY <1>1, <2>1, AppendResponseReplies
    <2> QED BY <1>1, <1>4, <2>2 DEF Obey, HandleAppendEntries, InvalidIndex
  <1>5. CASE m.index >= s.committed /\ MatchTerm(s, m.index, m.log_term)
    <2> DEFINE t == AppendMatching(s, m)
               last == m.index + Len(m.entries)
    <2>1. PICK b : Obeys(N, G, ch, h, s, t, b) /\ b >= last
      BY <1>5, AppendMatchingObeys
    <2>2. t.term = s.term /\ last \in Nat
      BY <1>2, <1>5, AppendMatchingObeys
    <2> HIDE DEF t, last
    <2>3. t.id = s.id /\ last <= b
      BY <2>1, <2>2 DEF Obeys
    <2>4. Obeys(N, G, ch, h, s, Send(t, AppendResponse(t, m.from, last)), b)
      BY <1>1, <2>1, <2>2, <2>3, AppendResponseReplies
    <2>5. AppendResponse(t, m.from, last) = AppendResponse(s, m.from, last)
      BY <2>2, <2>3 DEF AppendResponse
    <2>6. HandleAppendEntries(s, m) = Send(t, AppendResponse(s, m.from, last))
      BY <1>1, <1>2, <1>5 DEF HandleAppendEntries, InvalidIndex, t, last
    <2> QED BY <2>4, <2>5, <2>6 DEF Obey
  <1>6. CASE m.index >= s.committed /\ ~MatchTerm(s, m.index, m.log_term)
    <2> DEFINE hint == MinOf({m.index, Len(s.log)})
               k == FindConflictByTerm(s, hint, m.log_term)
    <2>1. hint \in Nat
      <3>1. m.index \in Int /\ Len(s.log) \in Int
        BY <1>1, <1>2
      <3>2. hint = IF m.index <= Len(s.log) THEN m.index ELSE Len(s.log)
        BY <3>1, MinOfTwo
      <3> QED BY <1>1, <1>2, <3>2
    <2> HIDE DEF hint
    <2>2. k \in Nat
      BY <1>1, <1>2, <2>1, FindConflictByTermType
    <2> HIDE DEF k
    <2>3. Obeys(N, G, ch, h, s, Send(s, AppendReject(s, m.from, m.index, k)), h[s.term])
      BY <1>1, <1>2, <1>3, <2>2, AppendResponseReplies
    <2>4. HandleAppendEntries(s, m) = Send(s, AppendReject(s, m.from, m.index, k))
      BY <1>1, <1>2, <1>6 DEF HandleAppendEntries, InvalidIndex, hint, k, LastIndex
    <2> QED BY <2>3, <2>4 DEF Obey
  <1> QED BY <1>1, <1>2, <1>4, <1>5, <1>6

\* Raft::handle_heartbeat commits what the node has acknowledged.
LEMMA HandleHeartbeatObeys ==
    ASSUME NEW N, NEW G, NEW ch, NEW h, NEW s, NEW m, Heard(G, ch, h, s, m), m.type = "MsgHeartbeat"
    PROVE  Obey(N, G, ch, h, s, HandleHeartbeat(s, m))
  <1> DEFINE c == CommitTo(s, m.commit)
             r == [type |-> "MsgHeartbeatResponse", from |-> s.id, to |-> m.from, term |-> s.term, ctx |-> m.ctx]
             g == G[s.term]
             a == h[s.term]
  <1>1. /\ IsRaft(s) /\ Sound(G, ch, h, s) /\ s.committed \in Nat /\ Len(s.log) \in Nat /\ s.pending_request_snapshot = 0
        /\ a \in Nat /\ m.term = s.term /\ Len(g) \in Nat /\ Len(ch) \in Nat
        /\ SamePrefix(s.log, g, a) \/ a <= s.committed
    BY HeardParts
  <1>2. m.commit \in Nat /\ m.commit <= a /\ SamePrefix(g, ch, m.commit)
    BY <1>1 DEF Heard, MsgOK, Told
  <1>3. m.commit > s.committed => SamePrefix(s.log, ch, m.commit)
    <2>1. SUFFICES ASSUME m.commit > s.committed PROVE SamePrefix(s.log, ch, m.commit)
      OBVIOUS
    <2>2. SamePrefix(s.log, g, a)
      BY <1>1, <1>2, <2>1
    <2> QED BY <1>1, <1>2, <2>2, SamePrefixTrans
  <1>4. Obeys(N, G, ch, h, s, c, a) /\ Keeps(s, c) /\ c.pending_request_snapshot = 0
    <2>1. ASSUME NEW i \in Nat, i > s.committed => SamePrefix(s.log, ch, i)
          PROVE  Obeys(N, G, ch, h, s, CommitTo(s, i), h[s.term]) /\ Keeps(s, CommitTo(s, i))
      <3>1. Sound(G, ch, h, s)
        BY <1>1
      <3> HIDE DEF c, r, g, a
      <3> QED BY <2>1, <3>1, CommitToObeys
    <2>2. Obeys(N, G, ch, h, s, c, a) /\ Keeps(s, c)
      BY <1>2, <1>3, <2>1
    <2> QED BY <2>2 DEF Obeys, Tidy
  <1> HIDE DEF c, a
  <1>5. IsRaft(c) /\ c.conf = s.conf
    BY <1>4 DEF Keeps
  <1>6. MsgOK(c.conf, r) /\ Ordinary(c, r)
    BY <1>1, <1>5, LogTypes DEF MsgOK, Ordinary, IsGrant, FromLeader
  <1>7. Replies(N, ch, a, c, r)
    BY DEF Replies, VoteRequests, VoteResponses, IsGrant
  <1> HIDE DEF r
  <1>8. Obeys(N, G, ch, h, s, Send(c, r), a)
    BY <1>1, <1>4, <1>6, <1>7, SendObeys
  <1>9. HandleHeartbeat(s, m) = Send(c, r)
    BY <1>4 DEF HandleHeartbeat, c, r, InvalidIndex
  <1> QED BY <1>8, <1>9 DEF Obey

\* Raft::restore replaces the log by more than was acknowledged.
LEMMA RestoreObeys ==
    ASSUME NEW N, NEW G, NEW ch, NEW h, NEW s, NEW m, Heard(G, ch, h, s, m),
           m.type = "MsgSnapshot", NeedsSnapshot(s, m.snapshot)
    PROVE  /\ Obeys(N, G, ch, h, s, RestoredFrom(s, m.snapshot), m.snapshot.index)
           /\ LastIndex(RestoredFrom(s, m.snapshot)) = m.snapshot.index
  <1> DEFINE snap == m.snapshot
             i == snap.index
             r == RestoredFrom(s, snap)
             g == G[s.term]
             a == h[s.term]
             p == MinOf({s.persisted, s.committed})
  <1>1. /\ IsRaft(s) /\ Sound(G, ch, h, s) /\ s.committed \in Nat /\ Len(s.log) \in Nat /\ s.pending_request_snapshot = 0
        /\ a \in Nat /\ m.term = s.term /\ g \in Seq(NEntry) /\ Len(g) \in Nat /\ ch \in Seq(NEntry) /\ Len(ch) \in Nat
        /\ s.log \in Seq(NEntry) /\ s.term \in Nat
        /\ (SamePrefix(s.log, g, a) \/ a <= s.committed)
    BY HeardParts
  <1>2. i \in Nat /\ snap.conf = s.conf /\ snap.log \in Seq(NEntry) /\ Len(snap.log) = i
    BY DEF Heard, MsgOK
  <1>3. /\ g # <<>> /\ SamePrefix(g, ch, i) /\ SamePrefix(snap.log, g, i)
        /\ snap.term = IF i = 0 THEN 0 ELSE g[i].term
    BY <1>1 DEF Heard, Told, Copies
  <1>4. i >= s.committed /\ TermAt(s, i) # snap.term
    BY <1>1 DEF NeedsSnapshot, MatchTerm, InvalidIndex
  <1> SUFFICES Obeys(N, G, ch, h, s, r, i) /\ LastIndex(r) = i
    OBVIOUS
  <1> HIDE DEF snap
  <1>5. p \in Nat /\ p <= i /\ s.applied <= p
    <2>1. s.persisted \in Int /\ s.committed \in Int
      BY <1>1, LogTypes
    <2>2. p = IF s.persisted <= s.committed THEN s.persisted ELSE s.committed
      BY <2>1, MinOfTwo
    <2> QED BY <1>1, <1>2, <1>4, <2>2, LogTypes
  <1>6. r = [s EXCEPT !.log = snap.log, !.first = i + 1, !.snap = i,
                      !.committed = i, !.persisted = p,
                      !.conf = s.conf, !.pending_request_snapshot = 0]
    BY <1>2 DEF RestoredFrom, InvalidIndex
  <1> HIDE DEF p, r
  <1>7. /\ DOMAIN r = RaftFields /\ r.log = snap.log /\ r.first = i + 1 /\ r.snap = i
        /\ r.committed = i /\ r.persisted = p /\ r.applied = s.applied
        /\ r.pending_request_snapshot = 0
        /\ r.id = s.id /\ r.config = s.config /\ r.conf = s.conf /\ r.term = s.term /\ r.vote = s.vote
        /\ r.state = s.state /\ r.votes = s.votes /\ r.msgs = s.msgs /\ r.prs = s.prs
    BY <1>1, <1>6 DEF IsRaft, RaftFields
  <1> HIDE DEF i
  <1>8. i + 1 \in Nat \ {0} /\ s.applied <= i
    BY <1>1, <1>2, <1>5, LogTypes
  <1>9. IsRaft(r)
    BY <1>1, <1>2, <1>5, <1>7, <1>8 DEF IsRaft
  <1>10. /\ i \in 1..Len(s.log) => TermAt(s, i) = s.log[i].term
         /\ i \notin 1..Len(s.log) => TermAt(s, i) = 0
    BY <1>1, <1>2, <1>4, SoundTerms
  <1>11. ASSUME NEW j \in Nat, SamePrefix(s.log, g, j) PROVE j <= i
    <2>1. SUFFICES ASSUME j > i PROVE FALSE
      BY <1>2
    <2>2. CASE i = 0
      BY <1>3, <1>4, <1>10, <2>2
    <2>3. CASE i > 0
      <3>1. i \in 1..Len(s.log) /\ s.log[i] = g[i]
        BY <1>1, <1>2, <1>11, <2>1, <2>3 DEF SamePrefix
      <3> QED BY <1>3, <1>4, <1>10, <2>3, <3>1
    <2> QED BY <1>2, <2>2, <2>3
  <1>12. a <= i
    BY <1>1, <1>2, <1>4, <1>11
  <1>13. Kept(g, s.log, r.log)
    <2>1. ASSUME NEW j \in Nat, SamePrefix(s.log, g, j) PROVE SamePrefix(r.log, g, j)
      <3>1. j <= i
        BY <1>11, <2>1
      <3> QED BY <1>1, <1>2, <1>3, <1>7, <3>1, SamePrefixSym
    <2> QED BY <1>3, <2>1 DEF Kept
  <1>14. SamePrefix(r.log, ch, i)
    BY <1>1, <1>2, <1>3, <1>7, SamePrefixTrans
  <1>15. Tidy(r)
    BY <1>7 DEF Tidy
  <1>16. Obeys(N, G, ch, h, s, r, i)
    BY <1>1, <1>2, <1>3, <1>4, <1>7, <1>9, <1>12, <1>13, <1>14, <1>15 DEF Obeys
  <1> QED BY <1>2, <1>7, <1>16 DEF LastIndex

\* Raft::handle_snapshot.
LEMMA HandleSnapshotObeys ==
    ASSUME NEW N, NEW G, NEW ch, NEW h, NEW s, NEW m, Heard(G, ch, h, s, m), m.type = "MsgSnapshot"
    PROVE  Obey(N, G, ch, h, s, HandleSnapshot(s, m))
  <1> DEFINE snap == m.snapshot
             i == snap.index
             r == RestoredFrom(s, snap)
             keeps == s.id \in VotersOf(snap.conf) \cup snap.conf.learners /\ i >= s.committed
             f == IF keeps THEN CommitTo(s, i) ELSE s
             g == G[s.term]
             a == h[s.term]
  <1>1. /\ IsRaft(s) /\ Sound(G, ch, h, s) /\ s.committed \in Nat /\ Len(s.log) \in Nat /\ s.pending_request_snapshot = 0
        /\ a \in Nat /\ m.term = s.term /\ g \in Seq(NEntry) /\ Len(g) \in Nat /\ ch \in Seq(NEntry) /\ Len(ch) \in Nat
        /\ s.log \in Seq(NEntry) /\ s.term \in Nat /\ Fitting(G, s, m) /\ SamePrefix(s.log, ch, s.committed)
    BY HeardParts
  <1>2. i \in Nat
    BY DEF Heard, MsgOK
  <1>3. /\ g # <<>> /\ SamePrefix(g, ch, i)
        /\ snap.term = IF i = 0 THEN 0 ELSE g[i].term
    BY <1>1 DEF Heard, Told
  <1>4. CASE NeedsSnapshot(s, snap)
    <2>1. Obeys(N, G, ch, h, s, r, i) /\ LastIndex(r) = i
      BY <1>4, RestoreObeys
    <2> HIDE DEF r, i
    <2>2. Obeys(N, G, ch, h, s, Send(r, AppendResponse(r, m.from, i)), i)
      <3>1. i <= i
        BY <1>2
      <3> QED BY <1>1, <1>2, <2>1, <3>1, AppendResponseReplies
    <2>3. HandleSnapshot(s, m) = Send(r, AppendResponse(r, m.from, i))
      BY <1>4, <2>1 DEF HandleSnapshot, r
    <2> QED BY <2>2, <2>3 DEF Obey
  <1>5. CASE ~NeedsSnapshot(s, snap)
    <2>1. \E b : Obeys(N, G, ch, h, s, f, b) /\ f.msgs = s.msgs /\ f.term = s.term /\ f.committed \in Nat
      <3>1. CASE keeps
        <4>1. TermAt(s, i) = snap.term
          BY <1>5, <3>1 DEF NeedsSnapshot, MatchTerm
        <4>2. SamePrefix(s.log, g, i)
          <5>1. CASE i = 0
            BY <1>1, <5>1 DEF SamePrefix
          <5>2. CASE i > 0
            <6>1. i <= Len(g)
              BY <1>3 DEF SamePrefix
            <6>2. TermAt(s, i) = G[m.term][i].term
              BY <1>1, <1>3, <4>1, <5>2
            <6> QED BY <1>1, <1>2, <5>2, <6>1, <6>2, MatchingPrefix
          <5> QED BY <1>2, <5>1, <5>2
        <4>3. SamePrefix(s.log, ch, i)
          BY <1>1, <1>2, <1>3, <4>2, SamePrefixTrans
        <4>4. ASSUME NEW k \in Nat, SamePrefix(s.log, ch, k)
              PROVE  /\ Obeys(N, G, ch, h, s, CommitTo(s, k), h[s.term]) /\ Keeps(s, CommitTo(s, k))
                     /\ CommitTo(s, k).msgs = s.msgs
          <5> HIDE DEF snap, i, r, keeps, f, g, a
          <5>1. Sound(G, ch, h, s)
            BY <1>1
          <5>2. Obeys(N, G, ch, h, s, CommitTo(s, k), h[s.term]) /\ Keeps(s, CommitTo(s, k))
            BY <4>4, <5>1, CommitToObeys
          <5>3. CommitTo(s, k).msgs = s.msgs
            BY <1>1 DEF CommitTo, IsRaft, RaftFields
          <5> QED BY <5>2, <5>3
        <4>5. f = CommitTo(s, i)
          BY <3>1
        <4>6. Obeys(N, G, ch, h, s, f, h[s.term]) /\ Keeps(s, f) /\ f.msgs = s.msgs
          BY <1>2, <4>3, <4>4, <4>5
        <4> HIDE DEF f
        <4>7. IsRaft(f) /\ f.term = s.term
          BY <4>6 DEF Keeps
        <4> QED BY <4>6, <4>7, LogTypes
      <3>2. CASE ~keeps
        <4>1. f = s
          BY <3>2
        <4> HIDE DEF f
        <4> QED BY <1>1, <4>1, ObeysRefl
      <3> QED BY <3>1, <3>2
    <2> HIDE DEF f
    <2>2. PICK b : Obeys(N, G, ch, h, s, f, b) /\ f.msgs = s.msgs /\ f.term = s.term /\ f.committed \in Nat
      BY <2>1
    <2>3. PICK d : Obeys(N, G, ch, h, s, f, d) /\ d >= f.committed
      BY <1>1, <1>3, <2>2, ObeysMore
    <2>4. Obeys(N, G, ch, h, s, Send(f, AppendResponse(f, m.from, f.committed)), d)
      BY <1>1, <2>2, <2>3, AppendResponseReplies
    <2>5. HandleSnapshot(s, m) = Send(f, AppendResponse(f, m.from, f.committed))
      BY <1>5 DEF HandleSnapshot, f
    <2> QED BY <2>4, <2>5 DEF Obey
  <1> QED BY <1>4, <1>5

\* MsgReadIndexResp of a follower commits only what the leader had committed.
LEMMA HandleReadIndexRespObeys ==
    ASSUME NEW N, NEW G, NEW ch, NEW h, NEW s, NEW m, Heard(G, ch, h, s, m), m.type = "MsgReadIndexResp"
    PROVE  Obey(N, G, ch, h, s, HandleReadIndexResp(s, m))
  <1> DEFINE x == s.read_states \cup {[ctx |-> m.ctx, index |-> m.index]}
             t == [s EXCEPT !.read_states = x]
             u == LogMaybeCommit(t, m.index, m.term)
             g == G[s.term]
  <1>1. /\ IsRaft(s) /\ Sound(G, ch, h, s) /\ s.committed \in Nat /\ Len(s.log) \in Nat /\ s.pending_request_snapshot = 0
        /\ m.term = s.term /\ g \in Seq(NEntry) /\ Len(g) \in Nat /\ ch \in Seq(NEntry) /\ Len(ch) \in Nat
        /\ s.log \in Seq(NEntry) /\ s.term \in Nat /\ SamePrefix(s.log, ch, s.committed) /\ Fits(G, s.term, s.log)
    BY HeardParts
  <1>2. m.index \in Nat /\ SamePrefix(g, ch, m.index) /\ m.term > 0 /\ MsgOK(s.conf, m)
    BY <1>1 DEF Heard, Told, MsgOK
  <1>3. Keeps(s, u)
    BY <1>1, <1>2, HandleReadIndexRespKeeps DEF HandleReadIndexResp
  <1> HIDE DEF x
  <1>4. /\ t.log = s.log /\ t.first = s.first /\ t.snap = s.snap /\ t.committed = s.committed /\ t.msgs = s.msgs
        /\ t.pending_request_snapshot = s.pending_request_snapshot /\ DOMAIN t = RaftFields
    BY <1>1 DEF IsRaft, RaftFields
  <1> HIDE DEF t
  <1>5. TermAt(t, m.index) = TermAt(s, m.index)
    BY <1>4 DEF TermAt
  <1>6. /\ u.msgs = s.msgs /\ u.pending_request_snapshot = s.pending_request_snapshot
        /\ u.committed = IF m.index > s.committed /\ TermAt(s, m.index) = m.term THEN m.index ELSE s.committed
    BY <1>4, <1>5 DEF LogMaybeCommit, MatchTerm, RaftFields
  <1> HIDE DEF u
  <1>7. SamePrefix(s.log, ch, u.committed)
    <2>1. CASE m.index > s.committed /\ TermAt(s, m.index) = m.term
      <3>1. m.index \in 1..Len(s.log) /\ s.log[m.index].term = s.term
        BY <1>1, <1>2, <2>1, TermAtType
      <3>2. SamePrefix(s.log, g, m.index)
        BY <1>1, <3>1 DEF Fits
      <3>3. SamePrefix(s.log, ch, m.index)
        BY <1>1, <1>2, <3>2, SamePrefixTrans
      <3> QED BY <1>6, <2>1, <3>3
    <2> QED BY <1>1, <1>6, <2>1
  <1>8. Obeys(N, G, ch, h, s, s, h[s.term])
    BY <1>1, ObeysRefl
  <1>9. Obeys(N, G, ch, h, s, u, h[s.term])
    BY <1>1, <1>3, <1>6, <1>7, <1>8, ObeysCommit
  <1> QED BY <1>9 DEF Obey, HandleReadIndexResp, u, t, x

\* A method that keeps role, term, votes and log, commits nothing and acknowledges
\* nothing
LEMMA KeepsObeys ==
    ASSUME NEW N, NEW G, NEW ch, NEW h, NEW s, Sound(G, ch, h, s), NEW t, Keeps(s, t), t.committed = s.committed,
           t.pending_request_snapshot = s.pending_request_snapshot,
           \A m \in t.msgs \ s.msgs : Replies(N, ch, h[s.term], t, m)
    PROVE  Obey(N, G, ch, h, s, t)
  <1>1. IsRaft(s) /\ s.committed \in Nat /\ SamePrefix(s.log, ch, s.committed) /\ s.pending_request_snapshot = 0
    BY LogTypes DEF Sound, Tidy
  <1>2. Obeys(N, G, ch, h, s, s, h[s.term])
    BY ObeysRefl
  <1>3. SamePrefix(s.log, ch, t.committed) /\ t.pending_request_snapshot = 0
    BY <1>1
  <1>4. Obeys(N, G, ch, h, s, t, h[s.term])
    BY <1>1, <1>2, <1>3, ObeysCommit
  <1> QED BY <1>4 DEF Obey

\* Proposals, transfers and reads that a follower forwards
LEMMA ForwardObeys ==
    ASSUME NEW N, NEW G, NEW ch, NEW h, NEW s, Sound(G, ch, h, s), NEW m, MsgOK(s.conf, m),
           m.type \in {"MsgTransferLeader", "MsgPropose", "MsgReadIndex"}
    PROVE  Obey(N, G, ch, h, s, Forward(s, m))
  <1> DEFINE x == IF m.from = None THEN s.id ELSE m.from
             y == IF m.type = "MsgTransferLeader" THEN s.term ELSE 0
             r == [m EXCEPT !.to = s.leader_id, !.from = x, !.term = y]
             t == Forward(s, m)
  <1>0. IsRaft(s)
    BY DEF Sound
  <1>1. Keeps(s, t)
    BY <1>0, ForwardKeeps
  <1>2. {"type", "from", "to", "term"} \subseteq DOMAIN m
    BY DEF MsgOK
  <1> HIDE DEF x, y
  <1>3. r.type = m.type
    BY <1>2
  <1>4. t = IF s.leader_id = None THEN s ELSE Send(s, r)
    BY DEF Forward, x, y
  <1> HIDE DEF r, t
  <1>5. /\ t.committed = s.committed /\ t.pending_request_snapshot = s.pending_request_snapshot
        /\ t.msgs \subseteq s.msgs \cup {r}
    BY <1>0, <1>4 DEF Send, IsRaft, RaftFields
  <1>6. Replies(N, ch, h[s.term], t, r)
    BY <1>3 DEF Replies, VoteRequests, VoteResponses, IsGrant
  <1>7. Obey(N, G, ch, h, s, t)
    BY <1>1, <1>5, <1>6, KeepsObeys
  <1> QED BY <1>7 DEF t

\* Raft::step of a message of an older term.
LEMMA StepLowerTermObeys ==
    ASSUME NEW N, NEW G, NEW ch, NEW h, NEW s, Sound(G, ch, h, s), NEW m
    PROVE  Obey(N, G, ch, h, s, StepLowerTerm(s, m))
  <1> DEFINE t == StepLowerTerm(s, m)
             r1 == AppendResponse(s, m.from, 0)
             r2 == [VoteReject(s, m) EXCEPT !.commit = 0, !.commit_term = 0]
  <1>0. IsRaft(s) /\ s.term \in Nat /\ h[s.term] \in Nat
    <2>1. IsRaft(s) /\ h \in [Nat -> Nat]
      BY DEF Sound
    <2> QED BY <2>1, LogTypes
  <1>1. Keeps(s, t)
    BY <1>0, StepLowerTermKeeps
  <1>2. t \in {s, Send(s, r1)} \/ (m.type = "MsgRequestPreVote" /\ t = Send(s, r2))
    BY DEF StepLowerTerm
  <1>3. r1.type = "MsgAppendResponse" /\ r1.index = 0 /\ r1.from = s.id /\ r1.term = s.term /\ ~r1.reject
    BY DEF AppendResponse
  <1>4. m.type = "MsgRequestPreVote" => r2.type = "MsgRequestPreVoteResponse" /\ r2.commit_term = 0
    BY DEF VoteReject, VoteResponseType
  <1> HIDE DEF r1, r2, t
  <1>5. t.id = s.id /\ t.term = s.term
    BY <1>1 DEF Keeps
  <1>6. Replies(N, ch, h[s.term], t, r1)
    BY <1>0, <1>3, <1>5 DEF Replies, VoteRequests, VoteResponses, IsGrant
  <1>7. m.type = "MsgRequestPreVote" => Replies(N, ch, h[s.term], t, r2)
    BY <1>4 DEF Replies, VoteRequests, VoteResponses, IsGrant, Backs
  <1>8. /\ t.committed = s.committed /\ t.pending_request_snapshot = s.pending_request_snapshot
        /\ \A x \in t.msgs \ s.msgs : Replies(N, ch, h[s.term], t, x)
    <2>1. CASE t = s
      BY <2>1
    <2>2. CASE t = Send(s, r1)
      <3>1. /\ t.committed = s.committed /\ t.pending_request_snapshot = s.pending_request_snapshot
            /\ t.msgs = s.msgs \cup {r1}
        BY <1>0, <2>2 DEF Send, IsRaft, RaftFields
      <3> QED BY <1>6, <3>1
    <2>3. CASE m.type = "MsgRequestPreVote" /\ t = Send(s, r2)
      <3>1. /\ t.committed = s.committed /\ t.pending_request_snapshot = s.pending_request_snapshot
            /\ t.msgs = s.msgs \cup {r2}
        BY <1>0, <2>3 DEF Send, IsRaft, RaftFields
      <3> QED BY <1>7, <2>3, <3>1
    <2> QED BY <1>2, <2>1, <2>2, <2>3
  <1>9. Obey(N, G, ch, h, s, t)
    BY <1>1, <1>8, KeepsObeys
  <1> QED BY <1>9 DEF t

\* Whoever hears of the leader of its term follows it, silently.
LEMMA HearLeaderRetires ==
    ASSUME NEW s, IsRaft(s), s.state # "Leader", NEW m, m.term = s.term
    PROVE  Retires(s, HearLeader(s, m)) /\ IsRaft(HearLeader(s, m)) /\ HearLeader(s, m).term = s.term
           /\ HearLeader(s, m).conf = s.conf
  <1>1. s.term \in Nat /\ s.term <= s.term
    BY LogTypes
  <1>2. CASE s.state = "Follower"
    <2> DEFINE x == m.from
               y == FALSE
               t == [s EXCEPT !.expired = y, !.leader_id = x]
    <2> HIDE DEF y
    <2>1. Keeps(s, t)
      BY SetTransfereeKeeps
    <2>2. /\ t.committed = s.committed /\ t.pending_request_snapshot = s.pending_request_snapshot /\ t.msgs = s.msgs
      BY DEF IsRaft, RaftFields
    <2>3. t = HearLeader(s, m)
      BY <1>2 DEF HearLeader, y
    <2> HIDE DEF t
    <2>4. Retires(s, t) /\ IsRaft(t) /\ t.term = s.term /\ t.conf = s.conf
      BY <1>1, <2>1, <2>2 DEF Keeps, Retires
    <2> QED BY <2>3, <2>4
  <1>3. CASE s.state # "Follower"
    <2>1. HearLeader(s, m) = BecomeFollower(s, s.term, m.from)
      BY <1>3 DEF HearLeader
    <2>2. Retires(s, BecomeFollower(s, s.term, m.from)) /\ IsRaft(BecomeFollower(s, s.term, m.from))
      BY <1>1, BecomeFollowerRetires
    <2>3. BecomeFollower(s, s.term, m.from).term = s.term /\ BecomeFollower(s, s.term, m.from).conf = s.conf
      BY <1>1, BecomeFollowerSteps
    <2> QED BY <2>1, <2>2, <2>3
  <1> QED BY <1>2, <1>3

\* The three messages of a leader to a node that does not lead.
LEMMA HeardObeys ==
    ASSUME NEW N, NEW G, NEW ch, NEW h, NEW s, s.state # "Leader", NEW L, VotesOK(N, L, s), NEW m, Heard(G, ch, h, s, m)
    PROVE  LET f == HearLeader(s, m)
           IN  /\ m.type = "MsgAppend" => Obey(N, G, ch, h, s, HandleAppendEntries(f, m))
               /\ m.type = "MsgHeartbeat" => Obey(N, G, ch, h, s, HandleHeartbeat(f, m))
               /\ m.type = "MsgSnapshot" => Obey(N, G, ch, h, s, HandleSnapshot(f, m))
  <1> DEFINE f == HearLeader(s, m)
  <1>1. IsRaft(s) /\ Sound(G, ch, h, s) /\ m.term = s.term /\ s.term \in Nat /\ MsgOK(s.conf, m)
    BY HeardParts
  <1>2. Retires(s, f) /\ IsRaft(f) /\ f.term = s.term /\ f.conf = s.conf
    BY <1>1, HearLeaderRetires
  <1>3. f.state = "Follower" /\ VotesOK(N, L, f)
    BY <1>1, HearLeaderSteps
  <1> HIDE DEF f
  <1>4. Sound(G, ch, h, f)
    BY <1>1, <1>2, RetiresSound
  <1>5. Heard(G, ch, h, f, m)
    BY <1>1, <1>2, <1>4 DEF Heard
  <1>6. ASSUME NEW t, Obey(N, G, ch, h, f, t) PROVE Obey(N, G, ch, h, s, t)
    <2>1. PICK b : Obeys(N, G, ch, h, f, t, b)
      BY <1>6 DEF Obey
    <2>2. Obeys(N, G, ch, h, s, t, b)
      BY <1>1, <1>2, <2>1, RetiresObeys
    <2> QED BY <2>2 DEF Obey
  <1>7. m.type = "MsgAppend" => Obey(N, G, ch, h, s, HandleAppendEntries(f, m))
    BY <1>3, <1>5, <1>6, HandleAppendEntriesObeys
  <1>8. m.type = "MsgHeartbeat" => Obey(N, G, ch, h, s, HandleHeartbeat(f, m))
    BY <1>5, <1>6, HandleHeartbeatObeys
  <1>9. m.type = "MsgSnapshot" => Obey(N, G, ch, h, s, HandleSnapshot(f, m))
    BY <1>5, <1>6, HandleSnapshotObeys
  <1> QED BY <1>7, <1>8, <1>9 DEF f

\* A message that node s may be given, in a state in which ch is committed
Given(N, G, ch, h, s, m) ==
    /\ Sound(G, ch, h, s) /\ Receivable(N, s, m) /\ Copies(G[m.term], m) /\ Told(G, ch, h, m)
    /\ m.type = "MsgRequestVote" => m \in N

\* What Given says of a message of the node's term.
LEMMA GivenHeard ==
    ASSUME NEW N, NEW G, NEW ch, NEW h, NEW s, NEW m, Given(N, G, ch, h, s, m), m.term \in {0, s.term},
           m.type \in FromLeader \cup {"MsgReadIndexResp"}
    PROVE  Heard(G, ch, h, s, m)
  <1>1. MsgOK(s.conf, m)
    BY DEF Given, Receivable
  <1>2. m.term = s.term
    BY <1>1 DEF MsgOK
  <1> QED BY <1>1, <1>2 DEF Given, Heard

\* Raft::step_follower.
LEMMA StepFollowerObeys ==
    ASSUME NEW N, NEW G, NEW ch, NEW h, NEW s, s.state = "Follower", NEW L, VotesOK(N, L, s),
           NEW m, Given(N, G, ch, h, s, m), m.term \in {0, s.term}
    PROVE  Obey(N, G, ch, h, s, StepFollower(s, m))
  <1>1. Sound(G, ch, h, s) /\ MsgOK(s.conf, m)
    BY DEF Given, Receivable
  <1>2. Obey(N, G, ch, h, s, s)
    BY <1>1, ObeysRefl DEF Obey
  <1>3. CASE m.type \in FromLeader
    <2>1. Heard(G, ch, h, s, m)
      BY <1>3, GivenHeard
    <2>2. /\ m.type = "MsgAppend" => Obey(N, G, ch, h, s, HandleAppendEntries(HearLeader(s, m), m))
          /\ m.type = "MsgHeartbeat" => Obey(N, G, ch, h, s, HandleHeartbeat(HearLeader(s, m), m))
          /\ m.type = "MsgSnapshot" => Obey(N, G, ch, h, s, HandleSnapshot(HearLeader(s, m), m))
      BY <2>1, HeardObeys
    <2> QED BY <1>3, <2>2 DEF StepFollower, FromLeader
  <1>4. CASE m.type = "MsgReadIndexResp"
    <2>1. Heard(G, ch, h, s, m)
      BY <1>4, GivenHeard
    <2>2. Obey(N, G, ch, h, s, HandleReadIndexResp(s, m))
      BY <1>4, <2>1, HandleReadIndexRespObeys
    <2> QED BY <1>4, <2>2 DEF StepFollower
  <1>5. CASE m.type \in {"MsgTransferLeader", "MsgPropose", "MsgReadIndex"}
    <2>1. Obey(N, G, ch, h, s, Forward(s, m))
      BY <1>1, <1>5, ForwardObeys
    <2> QED BY <1>5, <2>1 DEF StepFollower
  <1>6. CASE m.type = "MsgTimeoutNow"
    <2> DEFINE x == TRUE
    <2> HIDE DEF x
    <2>1. Obey(N, G, ch, h, s, Hup(s, x))
      BY <1>1, HupObeys
    <2>2. StepFollower(s, m) = IF s.id \in VotersOf(s.conf) THEN Hup(s, x) ELSE s
      BY <1>6 DEF StepFollower, x
    <2> QED BY <1>2, <2>1, <2>2
  <1>7. CASE m.type \notin FromLeader \cup {"MsgReadIndexResp", "MsgTransferLeader", "MsgPropose", "MsgReadIndex", "MsgTimeoutNow"}
    <2>1. StepFollower(s, m) = s
      BY <1>7 DEF StepFollower, FromLeader
    <2> QED BY <1>2, <2>1
  <1> QED BY <1>3, <1>4, <1>5, <1>6, <1>7

\* Raft::step_candidate.
LEMMA StepCandidateOutcome ==
    ASSUME NEW N, NEW G, NEW ch, NEW h, NEW a, NEW s, s.state \in {"Candidate", "PreCandidate"}, Electable(a, s),
           NEW L, VotesOK(N, L, s), NEW m, Given(N, G, ch, h, s, m),
           m.term \in {0, s.term} \/ m.type = "MsgRequestPreVoteResponse"
    PROVE  Outcome(N, G, ch, h, a, s, StepCandidate(s, m))
  <1>1. Sound(G, ch, h, s) /\ MsgOK(s.conf, m) /\ IsRaft(s) /\ Receivable(N, s, m)
    BY DEF Given, Receivable, Sound
  <1>2. Obey(N, G, ch, h, s, s)
    BY <1>1, ObeysRefl DEF Obey
  <1>3. CASE m.type \in FromLeader
    <2>0. m.term \in {0, s.term}
      BY <1>3 DEF FromLeader
    <2>1. Heard(G, ch, h, s, m) /\ m.term = s.term
      BY <1>3, <2>0, GivenHeard DEF Heard
    <2>2. /\ m.type = "MsgAppend" => Obey(N, G, ch, h, s, HandleAppendEntries(HearLeader(s, m), m))
          /\ m.type = "MsgHeartbeat" => Obey(N, G, ch, h, s, HandleHeartbeat(HearLeader(s, m), m))
          /\ m.type = "MsgSnapshot" => Obey(N, G, ch, h, s, HandleSnapshot(HearLeader(s, m), m))
      BY <2>1, HeardObeys
    <2>3. Obey(N, G, ch, h, s, StepCandidate(s, m))
      BY <1>3, <2>2 DEF StepCandidate, FromLeader, VoteResponses
    <2>4. StepCandidate(s, m).state # "Leader"
      <3> DEFINE f == HearLeader(s, m)
      <3>1. f.state = "Follower" /\ VotesOK(N, L, f) /\ IsRaft(f) /\ f.conf = s.conf
        BY <1>1, <2>1, HearLeaderSteps
      <3> HIDE DEF f
      <3>2. m.type = "MsgAppend" => Steps(N, L, f, HandleAppendEntries(f, m))
        BY <1>1, <3>1, HandleAppendEntriesSteps
      <3>3. m.type = "MsgHeartbeat" => Keeps(f, HandleHeartbeat(f, m))
        BY <1>1, <3>1, HandleHeartbeatKeeps
      <3>4. m.type = "MsgSnapshot" => Steps(N, L, f, HandleSnapshot(f, m))
        BY <1>1, <3>1, HandleSnapshotSteps
      <3>5. /\ m.type = "MsgAppend" => HandleAppendEntries(f, m).state # "Leader"
            /\ m.type = "MsgHeartbeat" => HandleHeartbeat(f, m).state # "Leader"
            /\ m.type = "MsgSnapshot" => HandleSnapshot(f, m).state # "Leader"
        BY <3>1, <3>2, <3>3, <3>4 DEF Steps, Keeps
      <3> QED BY <1>3, <3>5 DEF StepCandidate, FromLeader, VoteResponses, f
    <2> QED BY <2>3, <2>4 DEF Outcome
  <1>4. CASE m.type \in VoteResponses
    <2>1. m \in N /\ m.to = s.id /\ m.from \in s.conf.progress
      BY <1>1, <1>4 DEF Receivable, KnowsPeer, Responses
    <2>2. m.type = "MsgRequestVoteResponse" => m \in N /\ m.term \in {0, s.term}
      BY <2>1
    <2>3. Backs(ch, m)
      BY <1>4 DEF Given, Told
    <2>4. Outcome(N, G, ch, h, a, s, HandleVoteResponse(s, m))
      BY <1>1, <2>1, <2>2, <2>3, HandleVoteResponseOutcome
    <2>5. StepCandidate(s, m) = HandleVoteResponse(s, m)
      BY <1>4 DEF StepCandidate, VoteResponses
    <2> QED BY <2>4, <2>5
  <1>5. CASE m.type \notin FromLeader \cup VoteResponses
    <2>1. StepCandidate(s, m) = s
      BY <1>5 DEF StepCandidate, FromLeader
    <2> QED BY <1>2, <2>1 DEF Outcome
  <1> QED BY <1>3, <1>4, <1>5

\* Raft::step after the terms are compared, of a node that does not lead.
LEMMA DispatchOutcome ==
    ASSUME NEW N, NEW G, NEW ch, NEW h, NEW a, NEW s, s.state # "Leader", s.state # "Follower" => Electable(a, s),
           NEW L, VotesOK(N, L, s), NEW m, Given(N, G, ch, h, s, m),
           m.term \in {0, s.term} \/ m.type \in {"MsgRequestPreVote", "MsgRequestPreVoteResponse"}
    PROVE  /\ Outcome(N, G, ch, h, a, s, Dispatch(s, m))
           /\ s.state = "Follower" => Dispatch(s, m).state # "Leader"
  <1>1. Sound(G, ch, h, s) /\ MsgOK(s.conf, m) /\ IsRaft(s) /\ Receivable(N, s, m) /\ Sane(s.conf, m)
    BY DEF Given, Receivable, Sound
  <1>2. s.state \in {"Follower", "Candidate", "PreCandidate"}
    BY <1>1 DEF IsRaft
  <1>3. CASE m.type \in VoteRequests
    <2>1. Backs(ch, m)
      BY <1>3 DEF Given, Told
    <2>2. m.type = "MsgRequestVote" => m \in N /\ m.term = s.term
      BY <1>1 DEF Given, MsgOK
    <2>3. Obey(N, G, ch, h, s, HandleVoteRequest(s, m)) /\ HandleVoteRequest(s, m).state # "Leader"
      BY <1>1, <1>3, <2>1, <2>2, HandleVoteRequestObeys
    <2>4. Dispatch(s, m) = HandleVoteRequest(s, m)
      BY <1>3 DEF Dispatch
    <2> QED BY <2>3, <2>4 DEF Outcome
  <1>4. CASE m.type \notin VoteRequests /\ s.state = "Follower"
    <2>1. Dispatch(s, m) = StepFollower(s, m)
      BY <1>4 DEF Dispatch
    <2>2. CASE m.term \in {0, s.term}
      <3>1. Obey(N, G, ch, h, s, StepFollower(s, m))
        BY <1>4, <2>2, StepFollowerObeys
      <3>2. Steps(N, L, s, StepFollower(s, m))
        BY <1>1, <1>4, <2>2, StepFollowerSteps
      <3>3. StepFollower(s, m).state # "Leader"
        BY <1>4, <3>2 DEF Steps
      <3> QED BY <2>1, <3>1, <3>3 DEF Outcome
    <2>3. CASE m.type = "MsgRequestPreVoteResponse"
      <3>1. StepFollower(s, m) = s
        BY <2>3 DEF StepFollower
      <3>2. Obey(N, G, ch, h, s, s)
        BY <1>1, ObeysRefl DEF Obey
      <3> QED BY <1>4, <2>1, <3>1, <3>2 DEF Outcome
    <2> QED BY <1>4, <2>2, <2>3 DEF VoteRequests
  <1>5. CASE m.type \notin VoteRequests /\ s.state \in {"Candidate", "PreCandidate"}
    <2>1. Dispatch(s, m) = StepCandidate(s, m)
      BY <1>5 DEF Dispatch
    <2>2. m.term \in {0, s.term} \/ m.type = "MsgRequestPreVoteResponse"
      BY <1>5 DEF VoteRequests
    <2>3. Electable(a, s)
      BY <1>5
    <2>4. Outcome(N, G, ch, h, a, s, StepCandidate(s, m))
      BY <1>5, <2>2, <2>3, StepCandidateOutcome
    <2> QED BY <1>5, <2>1, <2>4
  <1> QED BY <1>2, <1>3, <1>4, <1>5

\* A node that may step, in whatever role
Ready(N, L, G, ch, h, a, s) ==
    /\ Sound(G, ch, h, s) /\ VotesOK(N, L, s)
    /\ s.state \notin {"Follower", "Leader"} => Electable(a, s)
    /\ s.state = "Leader" => Leads(a, s.committed, s)

\* Raft::step of a node that stays in its term
LEMMA DispatchReady ==
    ASSUME NEW N, NEW L, NEW G, NEW ch, NEW h, NEW a, NEW s, Ready(N, L, G, ch, h, a, s),
           NEW m, Given(N, G, ch, h, s, m), s.state = "Leader" => Acks(a, s.conf, m),
           m.term \in {0, s.term} \/ m.type \in {"MsgRequestPreVote", "MsgRequestPreVoteResponse"}
    PROVE  Outcome(N, G, ch, h, a, s, Dispatch(s, m))
  <1>1. VotesOK(N, L, s) /\ Receivable(N, s, m) /\ MsgOK(s.conf, m)
    BY DEF Ready, Given, Receivable
  <1>2. CASE s.state # "Leader"
    <2>1. s.state # "Follower" => Electable(a, s)
      BY <1>2 DEF Ready
    <2> QED BY <1>1, <1>2, <2>1, DispatchOutcome
  <1>3. CASE s.state = "Leader"
    <2>1. Leads(a, s.committed, s)
      BY <1>3 DEF Ready
    <2>2. m.type = "MsgRequestVote" => m.term = s.term
      BY <1>1 DEF MsgOK
    <2>3. Leads(a, s.committed, Dispatch(s, m))
      BY <1>1, <1>3, <2>1, <2>2, DispatchLeads
    <2>4. Dispatch(s, m).state = "Leader"
      BY <2>3 DEF Leads
    <2> QED BY <2>3, <2>4 DEF Outcome
  <1> QED BY <1>2, <1>3

\* Ignoring a message, in whatever role
LEMMA IdleOutcome ==
    ASSUME NEW N, NEW L, NEW G, NEW ch, NEW h, NEW a, NEW s, Ready(N, L, G, ch, h, a, s)
    PROVE  Outcome(N, G, ch, h, a, s, s)
  <1>1. Obey(N, G, ch, h, s, s)
    BY ObeysRefl DEF Obey, Ready
  <1> QED BY <1>1 DEF Outcome, Ready

\* A message of a later term makes a follower of every role.
LEMMA DemotedOutcome ==
    ASSUME NEW N, NEW L, NEW G, NEW ch, NEW h, NEW a, NEW s, Ready(N, L, G, ch, h, a, s),
           NEW m, Given(N, G, ch, h, s, m), m.term > s.term, NEW x
    PROVE  Outcome(N, G, ch, h, a, s, Dispatch(BecomeFollower(s, m.term, x), m))
  <1> DEFINE f == BecomeFollower(s, m.term, x)
             t == Dispatch(f, m)
  <1>1. Sound(G, ch, h, s) /\ IsRaft(s) /\ Receivable(N, s, m) /\ MsgOK(s.conf, m)
    BY DEF Ready, Given, Receivable, Sound
  <1>2. m.term \in Nat /\ s.term \in Nat /\ s.term <= m.term
    BY <1>1, LogTypes DEF MsgOK
  <1>3. Retires(s, f) /\ IsRaft(f)
    BY <1>1, <1>2, BecomeFollowerRetires
  <1>4. f.state = "Follower" /\ f.term = m.term /\ f.conf = s.conf /\ f.id = s.id
    BY <1>1, <1>2, BecomeFollowerSteps
  <1> HIDE DEF f
  <1>5. Sound(G, ch, h, f)
    BY <1>1, <1>3, RetiresSound
  <1>6. Given(N, G, ch, h, f, m)
    BY <1>1, <1>4, <1>5 DEF Given, Receivable, KnowsPeer
  <1>7. VotesOK(N, L, f)
    BY <1>4 DEF VotesOK
  <1>8. Outcome(N, G, ch, h, a, f, t) /\ t.state # "Leader"
    BY <1>4, <1>6, <1>7, DispatchOutcome
  <1> HIDE DEF t
  <1>9. PICK b : Obeys(N, G, ch, h, f, t, b)
    BY <1>8 DEF Outcome, Obey
  <1>10. Obeys(N, G, ch, h, s, t, b)
    BY <1>2, <1>3, <1>4, <1>9, RetiresObeys
  <1>11. Outcome(N, G, ch, h, a, s, t)
    BY <1>8, <1>10 DEF Outcome, Obey
  <1> QED BY <1>11 DEF t, f

\* Raft::step: what a node may acknowledge, commit and say in answer to any message,
\* in any role.
LEMMA StepOutcome ==
    ASSUME NEW N, NEW L, NEW G, NEW ch, NEW h, NEW a, NEW s, Ready(N, L, G, ch, h, a, s),
           NEW m, Given(N, G, ch, h, s, m), s.state = "Leader" /\ m.term \in {0, s.term} => Acks(a, s.conf, m)
    PROVE  Outcome(N, G, ch, h, a, s, Step(s, m))
  <1>1. Sound(G, ch, h, s) /\ IsRaft(s) /\ MsgOK(s.conf, m) /\ m.term \in Nat /\ s.term \in Nat
    <2>1. Sound(G, ch, h, s) /\ IsRaft(s) /\ MsgOK(s.conf, m)
      BY DEF Ready, Given, Receivable, Sound
    <2> QED BY <2>1, LogTypes DEF MsgOK
  <1>2. CASE m.term = 0 \/ m.term = s.term
    <2>1. Outcome(N, G, ch, h, a, s, Dispatch(s, m))
      BY <1>2, DispatchReady
    <2> QED BY <1>2, <2>1 DEF Step
  <1>3. CASE m.term # 0 /\ m.term > s.term
    <2>1. Step(s, m) = StepHigherTerm(s, m)
      BY <1>1, <1>3 DEF Step
    <2>2. CASE m.type \in VoteRequests /\ ~m.transfer /\ InLease(s)
      <3>1. StepHigherTerm(s, m) = s
        BY <2>2 DEF StepHigherTerm, VoteRequests
      <3> QED BY <2>1, <3>1, IdleOutcome
    <2>3. CASE ~(m.type \in VoteRequests /\ ~m.transfer /\ InLease(s))
               /\ ((m.type = "MsgRequestPreVote" /\ ~InLease(s)) \/ (m.type = "MsgRequestPreVoteResponse" /\ ~m.reject))
      <3>1. StepHigherTerm(s, m) = Dispatch(s, m)
        BY <2>3 DEF StepHigherTerm, VoteRequests
      <3>2. Acks(a, s.conf, m) /\ m.type \in {"MsgRequestPreVote", "MsgRequestPreVoteResponse"}
        BY <2>3 DEF Acks
      <3>3. Outcome(N, G, ch, h, a, s, Dispatch(s, m))
        BY <3>2, DispatchReady
      <3> QED BY <2>1, <3>1, <3>3
    <2>4. CASE /\ ~(m.type \in VoteRequests /\ ~m.transfer /\ InLease(s))
               /\ ~(m.type = "MsgRequestPreVote" /\ ~InLease(s)) /\ ~(m.type = "MsgRequestPreVoteResponse" /\ ~m.reject)
      <3> DEFINE x == IF m.type \in FromLeader THEN m.from ELSE None
      <3>1. StepHigherTerm(s, m) = Dispatch(BecomeFollower(s, m.term, x), m)
        BY <2>4 DEF StepHigherTerm
      <3> HIDE DEF x
      <3>2. Outcome(N, G, ch, h, a, s, Dispatch(BecomeFollower(s, m.term, x), m))
        BY <1>3, DemotedOutcome
      <3> QED BY <2>1, <3>1, <3>2
    <2> QED BY <2>2, <2>3, <2>4
  <1>4. CASE m.term # 0 /\ m.term < s.term
    <2>1. Step(s, m) = StepLowerTerm(s, m)
      BY <1>1, <1>4 DEF Step
    <2>2. Obey(N, G, ch, h, s, StepLowerTerm(s, m))
      BY <1>1, StepLowerTermObeys
    <2>3. Keeps(s, StepLowerTerm(s, m))
      BY <1>1, StepLowerTermKeeps
    <2>4. StepLowerTerm(s, m).state = s.state
      BY <2>3 DEF Keeps
    <2>5. s.state = "Leader" => Leads(a, s.committed, StepLowerTerm(s, m))
      BY StepLowerTermLeads DEF Ready
    <2> QED BY <2>1, <2>2, <2>4, <2>5 DEF Outcome
  <1> QED BY <1>1, <1>2, <1>3, <1>4

-----------------------------------------------------------------------------
(***************************************************************************)
(* What is committed stays committed.                                      *)
(*                                                                         *)
(* A[v][t] is how much node v has acknowledged to the leader of term t.    *)
(* nd, dk, N and ch stand for node, disk, net and chosen of some state.    *)
(***************************************************************************)

\* What the nodes have acknowledged in term T
Row(A, T) == [v \in DOMAIN A |-> A[v][T]]

\* The leader of term t can never have index i acknowledged by a majority any more.
Blocked(K, nd, A, t, i) == MajorityOf(K, {w \in K.progress : nd[w].term > t /\ A[w][t] < i})

\* Index i of the log of term t's leader is of its term, or not yet there.
Own(G, t, i) == i > Len(G[t]) \/ G[t][i].term = t

\* The log is that of the leader of term t up to i, unless that can never matter.
Holds(K, nd, G, A, log, t, i) == SamePrefix(log, G[t], i) \/ Blocked(K, nd, A, t, i)

\* The same for all of the leader's own entries up to x.
Has(K, nd, G, A, log, t, x) == \A i \in 1..x : Own(G, t, i) => Holds(K, nd, G, A, log, t, i)

\* The leader of term t may commit its entry at i.
ChosenAt(K, G, A, t, i) ==
    /\ i \in 1..Len(G[t]) /\ G[t][i].term = t
    /\ MajorityOf(K, {v \in K.progress : A[v][t] >= i})

\* Terms grow, and so do acknowledgements, but not those in a term that is over.
Passing(K, nd, nd2, A, A2) ==
    /\ A \in [K.progress -> [Nat -> Nat]] /\ A2 \in [K.progress -> [Nat -> Nat]]
    /\ \A w \in K.progress :
          /\ nd[w].term \in Nat /\ nd2[w].term \in Nat /\ nd[w].term <= nd2[w].term
          /\ \A t \in Nat : A[w][t] <= A2[w][t] /\ (nd[w].term > t => A2[w][t] = A[w][t])

\* The logs of all leaders only grow.
More(G, G2) == G \in Logs /\ G2 \in Logs /\ \A x \in Nat : SamePrefix(G[x], G2[x], Len(G[x]))

\* Whatever was acknowledged by a majority cannot be blocked.
LEMMA ChosenNotBlocked ==
    ASSUME NEW K, FixedConf(K), NEW nd, NEW A, A \in [K.progress -> [Nat -> Nat]], NEW t \in Nat, NEW i \in Nat,
           MajorityOf(K, {v \in K.progress : A[v][t] >= i}), Blocked(K, nd, A, t, i)
    PROVE  FALSE
  <1> DEFINE P == K.incoming \cap {v \in K.progress : A[v][t] >= i}
             Q == K.incoming \cap {w \in K.progress : nd[w].term > t /\ A[w][t] < i}
  <1>1. IsFiniteSet(K.incoming)
    <2>1. K.incoming \subseteq Server
      BY DEF FixedConf
    <2> QED BY <2>1, RaftAssumption, FS_Subset
  <1>2. Cardinality(P) >= Majority(Cardinality(K.incoming)) /\ Cardinality(Q) >= Majority(Cardinality(K.incoming))
    BY DEF MajorityOf, Blocked
  <1>3. P \cap Q # {}
    BY <1>1, <1>2, MajoritiesOverlap
  <1>4. PICK v \in K.progress : A[v][t] >= i /\ A[v][t] < i
    BY <1>3
  <1>5. A[v][t] \in Nat
    OBVIOUS
  <1> QED BY <1>4, <1>5

\* What is blocked stays blocked.
LEMMA BlockedMore ==
    ASSUME NEW K, FixedConf(K), NEW nd, NEW nd2, NEW A, NEW A2, Passing(K, nd, nd2, A, A2), NEW t \in Nat, NEW i \in Nat,
           Blocked(K, nd, A, t, i)
    PROVE  Blocked(K, nd2, A2, t, i)
  <1> DEFINE P == {w \in K.progress : nd[w].term > t /\ A[w][t] < i}
             Q == {w \in K.progress : nd2[w].term > t /\ A2[w][t] < i}
  <1>1. P \subseteq Q
    <2>1. SUFFICES ASSUME NEW w \in K.progress, nd[w].term > t, A[w][t] < i PROVE nd2[w].term > t /\ A2[w][t] < i
      OBVIOUS
    <2>2. A2[w][t] = A[w][t] /\ nd[w].term \in Nat /\ nd2[w].term \in Nat /\ nd[w].term <= nd2[w].term
      BY <2>1 DEF Passing
    <2> HIDE DEF P, Q
    <2> QED BY <2>1, <2>2
  <1>2. MajorityOf(K, P)
    BY DEF Blocked
  <1> HIDE DEF P, Q
  <1>3. MajorityOf(K, Q)
    BY <1>1, <1>2, MajorityMore
  <1> QED BY <1>3 DEF Blocked, Q

\* A leader's entry is its own, if it was.
LEMMA OwnLess ==
    ASSUME NEW G, NEW G2, More(G, G2), NEW t \in Nat, NEW i \in Nat, i > 0, Own(G2, t, i)
    PROVE  Own(G, t, i)
  <1>1. G[t] \in Seq(NEntry) /\ G2[t] \in Seq(NEntry) /\ SamePrefix(G[t], G2[t], Len(G[t]))
    BY DEF More, Logs
  <1> QED BY <1>1 DEF Own, SamePrefix

\* What a longer log holds.
LEMMA HoldsLonger ==
    ASSUME NEW K, NEW nd, NEW G, NEW A, NEW l1 \in Seq(NEntry), NEW l2 \in Seq(NEntry), SamePrefix(l1, l2, Len(l1)),
           NEW t, NEW i \in Nat, Holds(K, nd, G, A, l1, t, i)
    PROVE  Holds(K, nd, G, A, l2, t, i)
  <1>1. CASE SamePrefix(l1, G[t], i)
    BY <1>1 DEF SamePrefix, Holds
  <1> QED BY <1>1 DEF Holds

\* What a log holds it holds on.
LEMMA HoldsMore ==
    ASSUME NEW K, FixedConf(K), NEW nd, NEW nd2, NEW A, NEW A2, Passing(K, nd, nd2, A, A2), NEW G, NEW G2, More(G, G2),
           NEW log \in Seq(NEntry), NEW t \in Nat, NEW i \in Nat, Holds(K, nd, G, A, log, t, i)
    PROVE  Holds(K, nd2, G2, A2, log, t, i)
  <1>1. CASE SamePrefix(log, G[t], i)
    <2>1. G[t] \in Seq(NEntry) /\ G2[t] \in Seq(NEntry) /\ SamePrefix(G[t], G2[t], Len(G[t]))
      BY DEF More, Logs
    <2>2. SamePrefix(log, G2[t], i)
      BY <1>1, <2>1 DEF SamePrefix
    <2> QED BY <2>2 DEF Holds
  <1>2. CASE Blocked(K, nd, A, t, i)
    BY <1>2, BlockedMore DEF Holds
  <1> QED BY <1>1, <1>2 DEF Holds

\* The same for a stretch of the log.
LEMMA HasMore ==
    ASSUME NEW K, FixedConf(K), NEW nd, NEW nd2, NEW A, NEW A2, Passing(K, nd, nd2, A, A2), NEW G, NEW G2, More(G, G2),
           NEW log \in Seq(NEntry), NEW t \in Nat, NEW x \in Nat, Has(K, nd, G, A, log, t, x)
    PROVE  Has(K, nd2, G2, A2, log, t, x)
  <1>1. SUFFICES ASSUME NEW i \in 1..x, Own(G2, t, i) PROVE Holds(K, nd2, G2, A2, log, t, i)
    BY DEF Has
  <1>2. i \in Nat /\ i > 0
    OBVIOUS
  <1>3. Own(G, t, i)
    BY <1>1, <1>2, OwnLess
  <1>4. Holds(K, nd, G, A, log, t, i)
    BY <1>3 DEF Has
  <1> QED BY <1>2, <1>4, HoldsMore

\* A longer log has as much.
LEMMA HasLonger ==
    ASSUME NEW K, NEW nd, NEW G, NEW A, NEW l1 \in Seq(NEntry), NEW l2 \in Seq(NEntry), SamePrefix(l1, l2, Len(l1)),
           NEW t, NEW x \in Nat, Has(K, nd, G, A, l1, t, x)
    PROVE  Has(K, nd, G, A, l2, t, x)
  <1>1. SUFFICES ASSUME NEW i \in 1..x, Own(G, t, i) PROVE Holds(K, nd, G, A, l2, t, i)
    BY DEF Has
  <1>2. Holds(K, nd, G, A, l1, t, i) /\ i \in Nat
    BY <1>1 DEF Has
  <1> QED BY <1>2, HoldsLonger

\* What may be committed may be committed later.
LEMMA ChosenAtMore ==
    ASSUME NEW K, FixedConf(K), NEW nd, NEW nd2, NEW A, NEW A2, Passing(K, nd, nd2, A, A2), NEW G, NEW G2, More(G, G2),
           NEW t \in Nat, NEW i \in Nat, ChosenAt(K, G, A, t, i)
    PROVE  ChosenAt(K, G2, A2, t, i)
  <1>1. G[t] \in Seq(NEntry) /\ G2[t] \in Seq(NEntry) /\ SamePrefix(G[t], G2[t], Len(G[t]))
    BY DEF More, Logs
  <1>2. i \in 1..Len(G2[t]) /\ G2[t][i].term = t
    BY <1>1 DEF SamePrefix, ChosenAt
  <1> DEFINE P == {v \in K.progress : A[v][t] >= i}
             Q == {v \in K.progress : A2[v][t] >= i}
  <1>3. P \subseteq Q
    <2>1. SUFFICES ASSUME NEW v \in K.progress, A[v][t] >= i PROVE A2[v][t] >= i
      OBVIOUS
    <2>0. A[v] \in [Nat -> Nat] /\ A2[v] \in [Nat -> Nat]
      BY DEF Passing
    <2>2. A[v][t] \in Nat /\ A2[v][t] \in Nat /\ A[v][t] <= A2[v][t]
      BY <2>0 DEF Passing
    <2> HIDE DEF P, Q
    <2> QED BY <2>1, <2>2
  <1>4. MajorityOf(K, P)
    BY DEF ChosenAt
  <1> HIDE DEF P, Q
  <1>5. MajorityOf(K, Q)
    BY <1>3, <1>4, MajorityMore
  <1> QED BY <1>2, <1>5 DEF ChosenAt, Q

\* Every later leader has what a leader may commit.
LogsSafe(K, nd, G, A) ==
    \A t, t2 \in Nat : t < t2 /\ G[t2] # <<>> =>
        \A i \in Nat \ {0} : Own(G, t, i) => Holds(K, nd, G, A, G[t2], t, i)

\* What is committed is what some leader was allowed to commit.
ChosenSafe(K, ch, G, A) ==
    /\ ch \in Seq(NEntry)
    /\ ch = <<>> \/ \E t \in Nat : ChosenAt(K, G, A, t, Len(ch)) /\ SamePrefix(ch, G[t], Len(ch))

\* What two leaders may commit agrees.
LEMMA ChosenAgree ==
    ASSUME NEW K, FixedConf(K), NEW nd, NEW A, A \in [K.progress -> [Nat -> Nat]], NEW G, G \in Logs, LogsSafe(K, nd, G, A),
           NEW t1 \in Nat, NEW i1 \in Nat, ChosenAt(K, G, A, t1, i1),
           NEW t2 \in Nat, NEW i2 \in Nat, ChosenAt(K, G, A, t2, i2), i1 <= i2
    PROVE  SamePrefix(G[t1], G[t2], i1)
  <1>1. /\ G[t1] \in Seq(NEntry) /\ Len(G[t1]) \in Nat /\ i1 \in 1..Len(G[t1]) /\ G[t1][i1].term = t1
        /\ G[t2] \in Seq(NEntry) /\ Len(G[t2]) \in Nat /\ i2 \in 1..Len(G[t2]) /\ G[t2][i2].term = t2
        /\ Own(G, t1, i1) /\ Own(G, t2, i2) /\ G[t1] # <<>> /\ G[t2] # <<>>
    <2>1. /\ G[t1] \in Seq(NEntry) /\ i1 \in 1..Len(G[t1]) /\ G[t1][i1].term = t1
          /\ G[t2] \in Seq(NEntry) /\ i2 \in 1..Len(G[t2]) /\ G[t2][i2].term = t2
      BY DEF ChosenAt, Logs
    <2> QED BY <2>1 DEF Own
  <1>2. ~Blocked(K, nd, A, t1, i1) /\ ~Blocked(K, nd, A, t2, i2)
    BY ChosenNotBlocked DEF ChosenAt
  <1>3. CASE t1 = t2
    BY <1>1, <1>3 DEF SamePrefix
  <1>4. CASE t1 < t2
    <2>1. Holds(K, nd, G, A, G[t2], t1, i1)
      BY <1>1, <1>4 DEF LogsSafe
    <2> QED BY <1>1, <1>2, <2>1 DEF Holds, SamePrefix
  <1>5. CASE t2 < t1
    <2>1. Holds(K, nd, G, A, G[t1], t2, i2)
      BY <1>1, <1>5 DEF LogsSafe
    <2> QED BY <1>1, <1>2, <2>1 DEF Holds, SamePrefix
  <1> QED BY <1>3, <1>4, <1>5

\* What is committed, the leader of any term has, or could not have committed.
LEMMA CommittedAgrees ==
    ASSUME NEW K, FixedConf(K), NEW nd, NEW A, A \in [K.progress -> [Nat -> Nat]], NEW G, G \in Logs, LogsSafe(K, nd, G, A),
           NEW ch, ChosenSafe(K, ch, G, A), NEW T \in Nat, G[T] # <<>>, NEW i \in 1..Len(ch), Own(G, T, i)
    PROVE  Holds(K, nd, G, A, ch, T, i)
  <1> DEFINE c == Len(ch)
  <1>1. ch \in Seq(NEntry) /\ c \in Nat /\ i \in Nat /\ i <= c /\ i > 0 /\ ch # <<>>
    <2>1. ch \in Seq(NEntry)
      BY DEF ChosenSafe
    <2> QED BY <2>1
  <1>2. PICK t \in Nat : ChosenAt(K, G, A, t, c) /\ SamePrefix(ch, G[t], c)
    BY <1>1 DEF ChosenSafe
  <1> HIDE DEF c
  <1>3. G[t] \in Seq(NEntry) /\ c \in 1..Len(G[t]) /\ G[t][c].term = t /\ G[T] \in Seq(NEntry)
    BY <1>2 DEF ChosenAt, Logs
  <1>4. Own(G, t, c) /\ G[t] # <<>> /\ c \in Nat \ {0} /\ Len(G[t]) \in Nat /\ Len(G[T]) \in Nat
    BY <1>3 DEF Own
  <1>5. ~Blocked(K, nd, A, t, c)
    BY <1>1, <1>2, ChosenNotBlocked DEF ChosenAt
  <1>6. CASE T = t
    BY <1>1, <1>2, <1>6, <1>4 DEF Holds, SamePrefix
  <1>7. CASE t < T
    <2>1. Holds(K, nd, G, A, G[T], t, c)
      BY <1>4, <1>7 DEF LogsSafe
    <2>2. SamePrefix(G[T], G[t], c)
      BY <1>5, <2>1 DEF Holds
    <2>3. SamePrefix(ch, G[T], i)
      BY <1>1, <1>2, <1>4, <2>2 DEF SamePrefix
    <2> QED BY <2>3 DEF Holds
  <1>8. CASE T < t
    <2>1. Holds(K, nd, G, A, G[t], T, i)
      BY <1>1, <1>4, <1>8 DEF LogsSafe
    <2>2. CASE SamePrefix(G[t], G[T], i)
      <3>1. SamePrefix(ch, G[T], i)
        BY <1>1, <1>2, <1>4, <2>2 DEF SamePrefix
      <3> QED BY <3>1 DEF Holds
    <2> QED BY <2>1, <2>2 DEF Holds
  <1> QED BY <1>6, <1>7, <1>8

\* Raft::step grants a vote only to a log that has whatever the voter's has of an
\* earlier leader's entries.
LEMMA VoteHas ==
    ASSUME NEW K, NEW nd, NEW A, NEW G, G \in Logs, \A T \in Nat : Fits(G, T, G[T]), LogsSafe(K, nd, G, A),
           NEW T1, NEW log \in Seq(NEntry), Fits(G, T1, log), NEW T2, NEW clog \in Seq(NEntry), Fits(G, T2, clog),
           NEW r, UpToDate(log, r), r.index = Len(clog), r.log_term = EndTerm(clog),
           NEW t \in Nat, NEW x \in Nat, Has(K, nd, G, A, log, t, x)
    PROVE  Has(K, nd, G, A, clog, t, x)
  <1>1. SUFFICES ASSUME NEW i \in 1..x, Own(G, t, i), SamePrefix(log, G[t], i) PROVE Holds(K, nd, G, A, clog, t, i)
    BY DEF Has, Holds
  <1> DEFINE k == Len(log)
             c == Len(clog)
             g == G[t]
  <1>2. /\ k \in Nat /\ c \in Nat /\ i \in Nat /\ i > 0 /\ i <= k /\ g \in Seq(NEntry) /\ Len(g) \in Nat
        /\ i <= Len(g) /\ g[i].term = t /\ log[i] = g[i] /\ log # <<>>
    <2>1. G[t] \in Seq(NEntry)
      BY DEF Logs
    <2> QED BY <1>1, <2>1 DEF SamePrefix, Own
  <1> HIDE DEF k, c, g
  <1>3. log[k] \in NEntry /\ EndTerm(log) = log[k].term /\ log[k].term \in Nat /\ SamePrefix(log, G[log[k].term], k)
    <2>1. k \in 1..Len(log)
      BY <1>2 DEF k
    <2>2. log[k] \in NEntry /\ SamePrefix(log, G[log[k].term], k)
      BY <2>1 DEF Fits
    <2> QED BY <1>2, <2>2 DEF EndTerm, NEntry, k
  <1> DEFINE y == log[k].term
             h == G[y]
  <1> HIDE DEF y, h
  <1>4. h \in Seq(NEntry) /\ Len(h) \in Nat /\ y \in Nat /\ SamePrefix(log, h, k) /\ Fits(G, y, h)
    <2>1. y \in Nat /\ SamePrefix(log, G[y], k)
      BY <1>3 DEF y
    <2>2. G[y] \in Seq(NEntry)
      BY <2>1 DEF Logs
    <2> QED BY <2>1, <2>2 DEF h
  <1>5. t <= y
    <2>1. i \in 1..Len(h) /\ h[i] = log[i]
      BY <1>2, <1>4 DEF SamePrefix
    <2> QED BY <1>2, <1>4, <2>1 DEF Fits
  <1>6. ASSUME clog # <<>> PROVE /\ clog[c] \in NEntry /\ EndTerm(clog) = clog[c].term /\ clog[c].term \in Nat
                                 /\ SamePrefix(clog, G[clog[c].term], c) /\ c \in Nat /\ c > 0
    <2>1. c \in 1..Len(clog)
      BY <1>2, <1>6 DEF c
    <2>2. clog[c] \in NEntry /\ SamePrefix(clog, G[clog[c].term], c)
      BY <2>1 DEF Fits
    <2> QED BY <1>2, <1>6, <2>1, <2>2 DEF EndTerm, NEntry, c
  <1>7. clog # <<>>
    <2>1. SUFFICES ASSUME clog = <<>> PROVE FALSE
      OBVIOUS
    <2>2. EndTerm(clog) = 0 /\ Len(clog) = 0
      BY <2>1 DEF EndTerm
    <2>3. y > 0 /\ EndTerm(log) = y
      BY <1>3 DEF NEntry, y
    <2> QED BY <1>2, <1>4, <2>2, <2>3 DEF UpToDate, k
  <1> DEFINE z == clog[c].term
             f == G[z]
  <1> HIDE DEF z, f
  <1>8. /\ z \in Nat /\ f \in Seq(NEntry) /\ Len(f) \in Nat /\ SamePrefix(clog, f, c) /\ Len(clog) = c
        /\ EndTerm(clog) = z /\ EndTerm(log) = y /\ r.index = c /\ r.log_term = z /\ clog[c].term = z /\ c > 0
    <2>1. z \in Nat /\ SamePrefix(clog, G[z], c) /\ EndTerm(clog) = z /\ c > 0 /\ EndTerm(log) = y
      BY <1>3, <1>6, <1>7 DEF z, y
    <2>2. G[z] \in Seq(NEntry)
      BY <2>1 DEF Logs
    <2> QED BY <2>1, <2>2 DEF f, c, z
  <1>9. (z = y /\ c >= k) \/ z > y
    BY <1>2, <1>4, <1>8 DEF UpToDate, k
  <1>10. CASE z = y /\ c >= k
    <2>1. f = h
      BY <1>10 DEF f, h
    <2>2. SamePrefix(clog, g, i)
      BY <1>1, <1>2, <1>4, <1>8, <1>10, <2>1 DEF SamePrefix, g
    <2> QED BY <2>2 DEF Holds, g
  <1>11. CASE z > y
    <2>1. f # <<>>
      BY <1>8 DEF SamePrefix
    <2>2. Holds(K, nd, G, A, f, t, i)
      BY <1>1, <1>2, <1>4, <1>5, <1>8, <1>11, <2>1 DEF LogsSafe, f
    <2>3. CASE SamePrefix(f, g, i)
      <3>1. i <= c
        <4>1. SUFFICES ASSUME c < i PROVE FALSE
          BY <1>2
        <4>2. c \in 1..Len(g) /\ g[c] = f[c] /\ f[c] = clog[c]
          BY <1>2, <1>8, <2>3, <4>1 DEF SamePrefix
        <4>3. Fits(G, t, g)
          BY DEF g
        <4>4. g[c].term <= t
          BY <4>2, <4>3 DEF Fits
        <4> QED BY <1>4, <1>5, <1>8, <1>11, <4>2, <4>4
      <3>2. SamePrefix(clog, g, i)
        BY <1>2, <1>8, <2>3, <3>1 DEF SamePrefix
      <3> QED BY <3>2 DEF Holds, g
    <2> QED BY <2>2, <2>3 DEF Holds, g
  <1> QED BY <1>9, <1>10, <1>11

(***************************************************************************)
(* The inductive invariant.                                                *)
(***************************************************************************)

\* What a node that has acknowledged h has on its disk.
AckedOK(G, h, d, T) ==
    /\ h[T] <= Len(d.log) /\ (SamePrefix(d.log, G[T], h[T]) \/ h[T] <= d.commit)
    /\ \A t \in Nat : h[t] > 0 => t <= T /\ G[t] # <<>>

\* What a node takes for committed is committed, and its storage is in order.
StoreOK(ch, s, d) ==
    /\ SamePrefix(s.log, ch, s.committed)
    /\ Trimmed(s) /\ s.pending_request_snapshot = 0
    /\ s.first <= d.commit \/ s.first = s.snap + 1
    /\ d.commit <= s.committed /\ d.commit <= Len(d.log)

\* A leader leads those that have acknowledged A, and has acknowledged what it has
\* persisted.
LeadOK(A, n, s) ==
    s.state = "Leader" => s.log # <<>> /\ Leads(Row(A, s.term), s.committed, s) /\ s.persisted <= A[n][s.term]

\* A candidate asks for votes with the end of its log, and has whatever those that
\* vote for it have acknowledged.
CandOK(K, L, nd, N, G, A, c) ==
    nd[c].state = "Candidate" =>
        /\ \A m \in N : m.type = "MsgRequestVote" /\ m.from = c /\ m.term = nd[c].term
                            => m.index = Len(nd[c].log) /\ m.log_term = EndTerm(nd[c].log)
        /\ \A v \in K.progress, t \in Nat : t < nd[c].term /\ Voted(N, L, v, c, nd[c].term)
                            => Has(K, nd, G, A, nd[c].log, t, A[v][t])

\* What is true of a message, whenever it arrives
MsgSafe(K, nd, ch, G, A, m) ==
    /\ m.type \in FromLeader => m.to \in K.progress
    /\ Told(G, ch, A[m.to], m)
    /\ m.type = "MsgAppendResponse" /\ ~m.reject /\ m.from \in K.progress => m.index <= A[m.from][m.term]
    /\ IsGrant(m) => nd[m.to].term >= m.term

\* What is committed is safe, for the logs G of all leaders there were and what was
\* acknowledged to them.
Safe(K, L, nd, dk, N, ch, G, A) ==
    /\ A \in [K.progress -> [Nat -> Nat]]
    /\ LogsSafe(K, nd, G, A)
    /\ ChosenSafe(K, ch, G, A)
    /\ \A n \in K.progress : /\ AckedOK(G, A[n], dk[n], nd[n].term) /\ StoreOK(ch, nd[n], dk[n]) /\ LeadOK(A, n, nd[n])
                             /\ CandOK(K, L, nd, N, G, A, n)
                             /\ \A t \in Nat : Has(K, nd, G, A, dk[n].log, t, A[n][t])
    /\ \A m \in N : MsgSafe(K, nd, ch, G, A, m)

\* Node n, which is s after what it is told of its disk, goes on to t and to u with
\* its Ready, and has then acknowledged b in its term.
Goes(K, L, G, G2, A, A2, n, s, t, u, b) ==
    /\ Advances(K, L, G, n, s, t, u)
    /\ IF t.state = "Leader" THEN G2 = [G EXCEPT ![t.term] = t.log] ELSE G2 = G
    /\ A2 = [A EXCEPT ![n] = [A[n] EXCEPT ![t.term] = b]]
    /\ b \in Nat /\ A[n][t.term] <= b /\ (b > A[n][t.term] => G2[t.term] # <<>>)
    /\ b <= Len(disk'[n].log) /\ (SamePrefix(disk'[n].log, G2[t.term], b) \/ b <= disk'[n].commit)
    /\ SamePrefix(disk[n].log, disk'[n].log, Len(disk[n].log)) \/ Kept(G[t.term], disk[n].log, disk'[n].log)
    /\ u.committed = t.committed /\ node[n].committed <= t.committed /\ t.committed <= Len(t.log)
    /\ Trimmed(u) /\ u.pending_request_snapshot = 0
    /\ u.first <= disk'[n].commit \/ u.first = u.snap + 1
    /\ disk'[n].commit <= u.committed /\ disk'[n].commit <= Len(disk'[n].log)
    /\ chosen' = IF t.committed > Len(chosen) THEN SubSeq(t.log, 1, t.committed) ELSE chosen
    /\ t.state # "Leader" => /\ SamePrefix(t.log, chosen, t.committed)
                             /\ \A m \in t.msgs : Replies(net, chosen, b, t, m)
    /\ t.state = "Leader" => /\ Leads(Row(A2, t.term), node[n].committed, t)
                             /\ Leads(Row(A2, t.term), u.committed, u) /\ u.persisted <= b

\* Such a step, in a state in which the invariants hold
Going(K, L, G, G2, A, A2, n, s, t, u, b) ==
    /\ Inv(K, L) /\ Inv(K, L)' /\ MatchInv(K, L, G) /\ MatchInv(K, L, G2)'
    /\ Safe(K, L, node, disk, net, chosen, G, A)
    /\ Goes(K, L, G, G2, A, A2, n, s, t, u, b)

\* What a step leaves alone.
LEMMA GoingFrame ==
    ASSUME NEW K, NEW L, NEW G, NEW G2, NEW A, NEW A2, NEW n, NEW s, NEW t, NEW u, NEW b,
           Going(K, L, G, G2, A, A2, n, s, t, u, b)
    PROVE  /\ FixedConf(K) /\ n \in K.progress /\ node'[n] = u /\ net' = net \cup t.msgs /\ s.msgs = {}
           /\ \A k \in K.progress \ {n} : node'[k] = node[k] /\ disk'[k] = disk[k]
           /\ IsRaft(s) /\ s.id = n /\ s.conf = K /\ s.term = node[n].term /\ s.state = node[n].state
           /\ s.log = node[n].log
           /\ IsRaft(t) /\ t.id = n /\ t.conf = K /\ t.term \in Nat /\ t.term >= node[n].term
           /\ u.term = t.term /\ u.state = t.state /\ u.log = t.log
           /\ \A k \in K.progress : IsRaft(node[k]) /\ IsRaft(node'[k])
  <1>1. Advances(K, L, G, n, s, t, u) /\ Inv(K, L) /\ Inv(K, L)'
    BY DEF Going, Goes
  <1>2. FixedConf(K) /\ DOMAIN node = K.progress /\ n \in K.progress
    BY <1>1 DEF Inv, Advances
  <1>3. \A k \in K.progress : NodeInv(K, k) /\ NodeInv(K, k)'
    BY <1>1 DEF Inv
  <1>4. \A k \in K.progress : IsRaft(node[k]) /\ IsRaft(node'[k])
    BY <1>3 DEF NodeInv
  <1>5. /\ IsRaft(s) /\ s.id = n /\ s.conf = K /\ s.msgs = {} /\ s.term = node[n].term /\ s.state = node[n].state
        /\ s.log = node[n].log /\ Steps(net, L, s, t) /\ u.term = t.term /\ u.state = t.state /\ u.log = t.log
        /\ net' = net \cup t.msgs /\ node' = [node EXCEPT ![n] = u]
        /\ \A k \in K.progress \ {n} : disk'[k] = disk[k]
    BY <1>1 DEF Advances
  <1>6. IsRaft(t) /\ t.id = s.id /\ t.conf = s.conf /\ s.term <= t.term
    BY <1>5 DEF Steps
  <1>7. t.term \in Nat /\ s.term \in Nat
    BY <1>5, <1>6 DEF IsRaft
  <1>8. t.term >= node[n].term
    BY <1>5, <1>6, <1>7
  <1>9. node'[n] = u /\ \A k \in K.progress \ {n} : node'[k] = node[k]
    BY <1>2, <1>5
  <1> QED BY <1>2, <1>4, <1>5, <1>6, <1>7, <1>8, <1>9

\* What was acknowledged in other terms and by other nodes stays, and nothing is lost.
LEMMA GoingMore ==
    ASSUME NEW K, NEW L, NEW G, NEW G2, NEW A, NEW A2, NEW n, NEW s, NEW t, NEW u, NEW b,
           Going(K, L, G, G2, A, A2, n, s, t, u, b)
    PROVE  /\ Passing(K, node, node', A, A2) /\ More(G, G2) /\ b \in Nat /\ A2[n][t.term] = b
           /\ \A k \in K.progress, x \in Nat : (k # n \/ x # t.term) => A2[k][x] = A[k][x]
           /\ \A x \in Nat : Fits(G2, x, G2[x])
           /\ \A x \in Nat : x # t.term => G2[x] = G[x]
           /\ t.state = "Leader" => G2[t.term] = t.log /\ SamePrefix(s.log, t.log, Len(s.log))
           /\ t.state # "Leader" => G2 = G
  <1> DEFINE T == t.term
  <1>1. /\ n \in K.progress /\ node'[n] = u /\ T \in Nat /\ T >= node[n].term /\ u.term = T
        /\ \A k \in K.progress \ {n} : node'[k] = node[k]
        /\ \A k \in K.progress : IsRaft(node[k]) /\ IsRaft(node'[k])
    BY GoingFrame
  <1>2. /\ A \in [K.progress -> [Nat -> Nat]] /\ A2 = [A EXCEPT ![n] = [A[n] EXCEPT ![T] = b]] /\ b \in Nat /\ A[n][T] <= b
        /\ IF t.state = "Leader" THEN G2 = [G EXCEPT ![T] = t.log] ELSE G2 = G
    BY DEF Going, Goes, Safe
  <1>3. A2[n][T] = b /\ (\A k \in K.progress, x \in Nat : (k # n \/ x # T) => A2[k][x] = A[k][x])
        /\ A2 \in [K.progress -> [Nat -> Nat]]
    BY <1>1, <1>2
  <1>4. \A k \in K.progress : node[k].term \in Nat /\ node'[k].term \in Nat
    BY <1>1 DEF IsRaft
  <1> HIDE DEF T
  <1>5. ASSUME NEW w \in K.progress
        PROVE  /\ node[w].term \in Nat /\ node'[w].term \in Nat /\ node[w].term <= node'[w].term
               /\ \A x \in Nat : A[w][x] <= A2[w][x] /\ (node[w].term > x => A2[w][x] = A[w][x])
    <2>1. A[w] \in [Nat -> Nat]
      BY <1>2
    <2>2. CASE w = n
      <3>1. ASSUME NEW x \in Nat PROVE A[w][x] <= A2[w][x] /\ (node[w].term > x => A2[w][x] = A[w][x])
        <4>1. CASE x = T
          BY <4>1, <2>2, <1>1, <1>2, <1>3, <1>4
        <4>2. CASE x # T
          BY <4>2, <2>1, <1>3
        <4> QED BY <4>1, <4>2
      <3> QED BY <2>2, <3>1, <1>1, <1>4
    <2>3. CASE w # n
      <3>1. ASSUME NEW x \in Nat PROVE A[w][x] <= A2[w][x] /\ (node[w].term > x => A2[w][x] = A[w][x])
        BY <2>1, <2>3, <1>3
      <3> QED BY <2>3, <3>1, <1>1, <1>4
    <2> QED BY <2>2, <2>3
  <1>6. Passing(K, node, node', A, A2)
    BY <1>2, <1>3, <1>5 DEF Passing
  <1>7. G \in Logs /\ G2 \in Logs /\ \A x \in Nat : Fits(G2, x, G2[x])
    BY DEF Going, MatchInv
  <1>8. CASE t.state = "Leader"
    <2>1. Grows(G, T, G2) /\ G2[T] = t.log /\ SamePrefix(s.log, t.log, Len(s.log))
      <3>1. Inv(K, L)
        BY DEF Going
      <3>3. Inv(K, L)'
        BY DEF Going
      <3>4. MatchInv(K, L, G)
        BY DEF Going
      <3>5. Advances(K, L, G, n, s, t, u)
        BY DEF Going, Goes
      <3>6. G2 = [G EXCEPT ![t.term] = t.log]
        BY <1>2, <1>8 DEF T
      <3>2. Grows(G, t.term, G2) /\ SamePrefix(s.log, t.log, Len(s.log))
        BY <1>8, <3>1, <3>3, <3>4, <3>5, <3>6, LeaderGrows, Zenon
      <3>7. G2[t.term] = t.log
        BY <1>1, <1>7, <3>6 DEF Logs, T
      <3> QED BY <3>2, <3>7 DEF T
    <2>2. ASSUME NEW x \in Nat PROVE SamePrefix(G[x], G2[x], Len(G[x]))
      <3>1. G[x] \in Seq(NEntry)
        BY <1>7 DEF Logs
      <3> QED BY <2>1, <3>1 DEF Grows, SamePrefix
    <2>3. \A x \in Nat : x # T => G2[x] = G[x]
      BY <2>1 DEF Grows
    <2> QED BY <1>2, <1>3, <1>6, <1>7, <1>8, <2>1, <2>2, <2>3 DEF More, T
  <1>9. CASE t.state # "Leader"
    <2>1. G2 = G
      BY <1>2, <1>9
    <2>2. ASSUME NEW x \in Nat PROVE SamePrefix(G[x], G2[x], Len(G[x]))
      <3>1. G[x] \in Seq(NEntry)
        BY <1>7 DEF Logs
      <3> QED BY <2>1, <3>1 DEF SamePrefix
    <2> QED BY <1>2, <1>3, <1>6, <1>7, <1>9, <2>1, <2>2 DEF More, T
  <1> QED BY <1>8, <1>9

\* Only the node that steps votes, in its term.
LEMMA NewVote ==
    ASSUME NEW K, NEW L, NEW G, NEW G2, NEW A, NEW A2, NEW n, NEW s, NEW t, NEW u, NEW b,
           Going(K, L, G, G2, A, A2, n, s, t, u, b),
           NEW v, NEW c, NEW x, Voted(net', L, v, c, x), ~Voted(net, L, v, c, x)
    PROVE  v = n /\ x = t.term /\ c = t.vote
  <1>1. net' = net \cup t.msgs /\ s.msgs = {} /\ t.id = n
    BY GoingFrame
  <1>2. \A m \in t.msgs \ s.msgs : NewMsgOK(s, t, m)
    BY DEF Going, Goes, Advances, Steps
  <1>3. \A m \in t.msgs : NewMsgOK(s, t, m)
    BY <1>1, <1>2
  <1>4. CASE \E m \in net' : IsGrant(m) /\ m.from = v /\ m.to = c /\ m.term = x
    <2>1. PICK m \in net' : IsGrant(m) /\ m.from = v /\ m.to = c /\ m.term = x
      BY <1>4
    <2>2. m \in t.msgs
      BY <1>1, <2>1 DEF Voted
    <2> QED BY <1>1, <1>3, <2>1, <2>2 DEF NewMsgOK
  <1>5. CASE v = c /\ \E m \in net' : m.type = "MsgRequestVote" /\ m.from = v /\ m.term = x
    <2>1. PICK m \in net' : m.type = "MsgRequestVote" /\ m.from = v /\ m.term = x
      BY <1>5
    <2>2. m \in t.msgs
      BY <1>1, <1>5, <2>1 DEF Voted
    <2> QED BY <1>1, <1>3, <1>5, <2>1, <2>2 DEF NewMsgOK
  <1> QED BY <1>4, <1>5 DEF Voted

\* The disk of a node holds a prefix of its log.
LEMMA DiskPrefix ==
    ASSUME NEW K, NEW L, Inv(K, L), NEW G, MatchInv(K, L, G), NEW k \in K.progress
    PROVE  /\ SamePrefix(disk[k].log, node[k].log, Len(disk[k].log)) /\ disk[k].log \in Seq(NEntry)
           /\ node[k].log \in Seq(NEntry) /\ Fits(G, node[k].term, node[k].log)
           /\ Len(disk[k].log) = node[k].persisted /\ node[k].term \in Nat
  <1>1. NodeInv(K, k) /\ LogInv(G, k)
    BY DEF Inv, MatchInv
  <1> QED BY <1>1 DEF NodeInv, LogInv, IsRaft

\* The same after a step.
LEMMA GoingDisk ==
    ASSUME NEW K, NEW L, NEW G, NEW G2, NEW A, NEW A2, NEW n, NEW s, NEW t, NEW u, NEW b,
           Going(K, L, G, G2, A, A2, n, s, t, u, b)
    PROVE  \A k \in K.progress :
              /\ SamePrefix(disk[k].log, node[k].log, Len(disk[k].log)) /\ disk[k].log \in Seq(NEntry)
              /\ node[k].log \in Seq(NEntry) /\ Fits(G, node[k].term, node[k].log) /\ node[k].term \in Nat
              /\ SamePrefix(disk'[k].log, node'[k].log, Len(disk'[k].log)) /\ disk'[k].log \in Seq(NEntry)
              /\ node'[k].log \in Seq(NEntry) /\ Fits(G2, node'[k].term, node'[k].log) /\ node'[k].term \in Nat
  <1>1. SUFFICES ASSUME NEW k \in K.progress
                 PROVE  /\ SamePrefix(disk[k].log, node[k].log, Len(disk[k].log)) /\ disk[k].log \in Seq(NEntry)
                        /\ node[k].log \in Seq(NEntry) /\ Fits(G, node[k].term, node[k].log) /\ node[k].term \in Nat
                        /\ SamePrefix(disk'[k].log, node'[k].log, Len(disk'[k].log)) /\ disk'[k].log \in Seq(NEntry)
                        /\ node'[k].log \in Seq(NEntry) /\ Fits(G2, node'[k].term, node'[k].log) /\ node'[k].term \in Nat
    OBVIOUS
  <1>2. NodeInv(K, k) /\ LogInv(G, k)
    BY DEF Going, Inv, MatchInv
  <1>3. NodeInv(K, k)'
    BY DEF Going, Inv
  <1>4. LogInv(G2, k)'
    BY DEF Going, MatchInv
  <1>5. /\ SamePrefix(disk[k].log, node[k].log, Len(disk[k].log)) /\ disk[k].log \in Seq(NEntry)
        /\ node[k].log \in Seq(NEntry) /\ Fits(G, node[k].term, node[k].log) /\ node[k].term \in Nat
    BY <1>2 DEF NodeInv, LogInv, IsRaft
  <1>6. /\ SamePrefix(disk'[k].log, node'[k].log, Len(disk'[k].log)) /\ disk'[k].log \in Seq(NEntry)
        /\ node'[k].log \in Seq(NEntry) /\ Fits(G2, node'[k].term, node'[k].log) /\ node'[k].term \in Nat
    BY <1>3, <1>4 DEF NodeInv, LogInv, IsRaft
  <1> QED BY <1>5, <1>6

\* Whoever becomes leader has what the majority that elected it has acknowledged, and
\* whatever else was not acknowledged by a majority then never will be.
LEMMA GoingLogs ==
    ASSUME NEW K, NEW L, NEW G, NEW G2, NEW A, NEW A2, NEW n, NEW s, NEW t, NEW u, NEW b,
           Going(K, L, G, G2, A, A2, n, s, t, u, b)
    PROVE  LogsSafe(K, node', G2, A2)
  <1> DEFINE T == t.term
  <1>1. SUFFICES ASSUME NEW x \in Nat, NEW y \in Nat, x < y, G2[y] # <<>>, NEW i \in Nat \ {0}, Own(G2, x, i)
                 PROVE  Holds(K, node', G2, A2, G2[y], x, i)
    BY DEF LogsSafe
  <1>2. /\ Passing(K, node, node', A, A2) /\ More(G, G2) /\ T \in Nat
        /\ \A k \in K.progress, z \in Nat : (k # n \/ z # T) => A2[k][z] = A[k][z]
        /\ \A z \in Nat : z # T => G2[z] = G[z]
        /\ t.state = "Leader" => G2[T] = t.log /\ SamePrefix(s.log, t.log, Len(s.log))
        /\ t.state # "Leader" => G2 = G
    BY GoingMore, GoingFrame
  <1>3. FixedConf(K) /\ i \in Nat /\ i > 0 /\ Own(G, x, i)
    <2>1. i \in Nat /\ i > 0 /\ FixedConf(K)
      BY GoingFrame
    <2> QED BY <1>1, <1>2, <2>1, OwnLess
  <1>4. /\ G[y] \in Seq(NEntry) /\ G2[y] \in Seq(NEntry) /\ SamePrefix(G[y], G2[y], Len(G[y]))
        /\ G2[x] \in Seq(NEntry)
    BY <1>2 DEF More, Logs
  <1>5. ASSUME NEW log \in Seq(NEntry), Holds(K, node, G, A, log, x, i), SamePrefix(log, G2[y], Len(log))
        PROVE  Holds(K, node', G2, A2, G2[y], x, i)
    <2>1. Holds(K, node', G2, A2, log, x, i)
      BY <1>2, <1>3, <1>5, HoldsMore
    <2> QED BY <1>3, <1>4, <1>5, <2>1, HoldsLonger
  <1>6. CASE G[y] # <<>>
    <2>1. Holds(K, node, G, A, G[y], x, i)
      BY <1>1, <1>3, <1>6 DEF Going, Safe, LogsSafe
    <2> QED BY <1>4, <1>5, <2>1
  <1>7. CASE G[y] = <<>>
    <2>1. y = T /\ t.state = "Leader"
      BY <1>1, <1>2, <1>7
    <2>2. /\ n \in K.progress /\ s.log = node[n].log /\ s.term = node[n].term /\ s.state = node[n].state /\ IsRaft(t)
          /\ t.id = n /\ node'[n] = u /\ u.term = T /\ u.state = t.state /\ IsRaft(s)
      BY GoingFrame
    <2>3. s.state \in {"Candidate", "Leader"} /\ t.term = s.term
      BY <2>1 DEF Going, Goes, Advances, Steps
    <2>4. s.state = "Candidate"
      <3>1. SUFFICES ASSUME node[n].state = "Leader" PROVE FALSE
        BY <2>2, <2>3
      <3>2. LogInv(G, n) /\ LeadOK(A, n, node[n])
        BY <2>2 DEF Going, MatchInv, Safe
      <3>3. node[n].log = G[T] /\ node[n].log # <<>>
        BY <2>2, <2>3, <3>1, <3>2 DEF LogInv, LeadOK
      <3> QED BY <1>7, <2>1, <3>3
    <2>5. SamePrefix(node[n].log, G2[y], Len(node[n].log)) /\ node[n].log \in Seq(NEntry)
      <3>1. s.log \in Seq(NEntry)
        BY <2>2 DEF IsRaft
      <3> QED BY <1>2, <2>1, <2>2, <3>1
    <2>6. t.vote = n
      BY <2>1, <2>2 DEF IsRaft
    <2>7. CASE \E v \in K.progress : Voted(net', L, v, n, T) /\ A2[v][x] >= i
      <3>1. PICK v \in K.progress : Voted(net', L, v, n, T) /\ A2[v][x] >= i
        BY <2>7
      <3>2. A2[v][x] = A[v][x] /\ A[v][x] \in Nat
        <4>1. x # T
          BY <1>1, <2>1
        <4>2. A[v] \in [Nat -> Nat]
          BY DEF Going, Safe
        <4> QED BY <1>2, <4>1, <4>2
      <3>3. i \in 1..A[v][x]
        BY <1>3, <3>1, <3>2
      <3>4. Has(K, node, G, A, node[n].log, x, A[v][x])
        <4>1. CASE Voted(net, L, v, n, T)
          <5>1. CandOK(K, L, node, net, G, A, n)
            BY <2>2 DEF Going, Safe
          <5>2. node[n].state = "Candidate" /\ node[n].term = T /\ x < T
            BY <1>1, <2>1, <2>2, <2>3, <2>4
          <5> HIDE DEF T
          <5> QED BY <4>1, <5>1, <5>2 DEF CandOK
        <4>2. CASE ~Voted(net, L, v, n, T)
          <5>1. v = n
            BY <3>1, <4>2, NewVote
          <5>2. Has(K, node, G, A, disk[n].log, x, A[n][x])
            BY <2>2 DEF Going, Safe
          <5>3. SamePrefix(disk[n].log, node[n].log, Len(disk[n].log)) /\ disk[n].log \in Seq(NEntry)
            BY <2>2, GoingDisk
          <5> QED BY <2>5, <3>2, <5>1, <5>2, <5>3, HasLonger
        <4> QED BY <4>1, <4>2
      <3>5. Holds(K, node, G, A, node[n].log, x, i)
        BY <1>3, <3>3, <3>4 DEF Has
      <3> QED BY <1>5, <2>5, <3>5
    <2>8. CASE \A v \in K.progress : Voted(net', L, v, n, T) => ~(A2[v][x] >= i)
      <3> DEFINE P == {v \in K.incoming : Voted(net', L, v, n, T)}
                 Q == {w \in K.progress : node'[w].term > x /\ A2[w][x] < i}
      <3>1. Inv(K, L)'
        BY DEF Going
      <3>2. Cardinality(P) >= Majority(Cardinality(K.incoming))
        <4>1. node'[n].state = "Leader" /\ node'[n].term = T
          BY <2>1, <2>2
        <4>2. Backed(net', L, K, n, node'[n].term)
          BY <3>1, <2>2, <4>1, LeaderBacked
        <4> HIDE DEF T
        <4> QED BY <4>1, <4>2 DEF Backed
      <3>3. VoteInv(K, L)'
        BY <3>1 DEF Inv
      <3>4. K.incoming \subseteq K.progress
        BY <1>3 DEF FixedConf
      <3>5. P \subseteq Q
        <4>1. SUFFICES ASSUME NEW v \in K.progress, Voted(net', L, v, n, T) PROVE node'[v].term > x /\ A2[v][x] < i
          BY <3>4
        <4>2. node'[v].term >= T
          BY <1>2, <2>2, <3>3, <4>1 DEF VoteInv
        <4>3. node'[v].term \in Nat /\ A2[v] \in [Nat -> Nat]
          BY <1>2 DEF Passing
        <4>4. A2[v][x] \in Nat
          BY <4>3
        <4>5. ~(A2[v][x] >= i)
          BY <2>8, <4>1
        <4> DEFINE a == A2[v][x]
                   z == node'[v].term
        <4>6. a \in Nat /\ z \in Nat /\ ~(a >= i) /\ z >= T /\ x < T /\ T \in Nat
          BY <1>1, <1>2, <2>1, <4>2, <4>3, <4>4, <4>5
        <4> HIDE DEF a, z, T
        <4>7. z > x /\ a < i
          BY <1>3, <4>6
        <4> QED BY <4>7 DEF a, z
      <3>6. K.incoming \cap P = P
        OBVIOUS
      <3> HIDE DEF P, Q
      <3>7. MajorityOf(K, P)
        BY <3>2, <3>6 DEF MajorityOf
      <3>8. MajorityOf(K, Q)
        BY <1>3, <3>5, <3>7, MajorityMore
      <3> QED BY <3>8 DEF Holds, Blocked, Q
    <2> QED BY <2>7, <2>8
  <1> QED BY <1>6, <1>7

\* A leader that commits an entry of its term may do so.
LEMMA QuorateChosen ==
    ASSUME NEW K, NEW L, NEW G, NEW G2, NEW A, NEW A2, NEW n, NEW s, NEW t, NEW u, NEW b,
           Going(K, L, G, G2, A, A2, n, s, t, u, b), t.state = "Leader", Quorate(Row(A2, t.term), t)
    PROVE  ChosenAt(K, G2, A2, t.term, t.committed)
  <1> DEFINE T == t.term
             P == {v \in t.conf.progress : Row(A2, T)[v] >= t.committed}
             Q == {v \in K.progress : A2[v][T] >= t.committed}
  <1>1. G2[T] = t.log /\ t.conf = K
    BY GoingMore, GoingFrame
  <1>2. DOMAIN A2 = K.progress
    <2>1. Passing(K, node, node', A, A2)
      BY GoingMore
    <2> QED BY <2>1 DEF Passing
  <1>3. P = Q
    BY <1>1, <1>2 DEF Row
  <1>4. t.committed \in 1..Len(t.log) /\ t.log[t.committed].term = T /\ MajorityOf(K, P)
    BY <1>1 DEF Quorate
  <1> HIDE DEF P
  <1>5. MajorityOf(K, Q)
    BY <1>3, <1>4
  <1> QED BY <1>1, <1>4, <1>5 DEF ChosenAt

\* What is committed is only ever extended, and the node that steps takes nothing
\* else for committed.
LEMMA GoingChosen ==
    ASSUME NEW K, NEW L, NEW G, NEW G2, NEW A, NEW A2, NEW n, NEW s, NEW t, NEW u, NEW b,
           Going(K, L, G, G2, A, A2, n, s, t, u, b)
    PROVE  /\ ChosenSafe(K, chosen', G2, A2) /\ SamePrefix(chosen, chosen', Len(chosen))
           /\ SamePrefix(t.log, chosen', t.committed)
  <1> DEFINE T == t.term
             c == t.committed
             x == Len(chosen)
  <1>1. /\ Passing(K, node, node', A, A2) /\ More(G, G2)
        /\ t.state = "Leader" => G2[T] = t.log /\ SamePrefix(s.log, t.log, Len(s.log))
    BY GoingMore
  <1>2. /\ FixedConf(K) /\ T \in Nat /\ IsRaft(t) /\ n \in K.progress /\ IsRaft(s) /\ s.log = node[n].log
        /\ IsRaft(node[n])
    BY GoingFrame
  <1>3. LogsSafe(K, node', G2, A2)
    BY GoingLogs
  <1>4. /\ chosen \in Seq(NEntry) /\ x \in Nat /\ t.log \in Seq(NEntry) /\ Len(t.log) \in Nat /\ c \in Nat
        /\ c <= Len(t.log) /\ s.log \in Seq(NEntry) /\ Len(s.log) \in Nat /\ node[n].committed \in Nat
    <2>1. chosen \in Seq(NEntry) /\ t.log \in Seq(NEntry) /\ c \in Nat /\ c <= Len(t.log) /\ s.log \in Seq(NEntry)
          /\ node[n].committed \in Nat
      BY <1>2 DEF Going, Goes, Safe, ChosenSafe, IsRaft
    <2> QED BY <2>1
  <1>5. chosen' = IF c > x THEN SubSeq(t.log, 1, c) ELSE chosen
    BY DEF Going, Goes
  <1>6. SamePrefix(node[n].log, chosen, node[n].committed)
    BY <1>2 DEF Going, Safe, StoreOK
  <1>7. \/ SamePrefix(t.log, chosen, c)
        \/ t.state = "Leader" /\ Quorate(Row(A2, T), t)
    <2>1. CASE t.state # "Leader"
      BY <2>1 DEF Going, Goes
    <2>2. CASE t.state = "Leader"
      <3>1. c = node[n].committed \/ Quorate(Row(A2, T), t)
        BY <2>2 DEF Going, Goes, Leads
      <3>2. CASE c = node[n].committed
        <4>1. SamePrefix(s.log, chosen, c) /\ SamePrefix(s.log, t.log, Len(s.log))
          BY <1>1, <1>2, <1>6, <2>2, <3>2
        <4> HIDE DEF c, x
        <4> QED BY <1>4, <4>1 DEF SamePrefix
      <3> QED BY <2>2, <3>1, <3>2
    <2> QED BY <2>1, <2>2
  <1>8. A2 \in [K.progress -> [Nat -> Nat]] /\ G2 \in Logs
    BY <1>1 DEF Passing, More
  <1>9. ChosenSafe(K, chosen, G2, A2)
    <2>1. CASE chosen = <<>>
      BY <1>4, <2>1 DEF ChosenSafe
    <2>2. CASE chosen # <<>>
      <3>1. PICK y \in Nat : ChosenAt(K, G, A, y, x) /\ SamePrefix(chosen, G[y], x)
        BY <2>2 DEF Going, Safe, ChosenSafe
      <3> HIDE DEF x
      <3>2. ChosenAt(K, G2, A2, y, x)
        BY <1>1, <1>2, <1>4, <3>1, ChosenAtMore
      <3>3. G[y] \in Seq(NEntry) /\ G2[y] \in Seq(NEntry) /\ SamePrefix(G[y], G2[y], Len(G[y]))
        BY <1>1 DEF More, Logs
      <3>4. SamePrefix(chosen, G2[y], x)
        BY <1>4, <3>1, <3>3 DEF SamePrefix
      <3> QED BY <1>4, <3>2, <3>4 DEF ChosenSafe, x
    <2> QED BY <2>1, <2>2
  <1>10. CASE SamePrefix(t.log, chosen, c)
    <2>1. c <= x
      BY <1>10 DEF SamePrefix
    <2>2. chosen' = chosen
      BY <1>4, <1>5, <2>1
    <2>3. SamePrefix(chosen, chosen, Len(chosen))
      BY <1>4 DEF SamePrefix
    <2> QED BY <1>9, <1>10, <2>2, <2>3
  <1>11. CASE t.state = "Leader" /\ Quorate(Row(A2, T), t)
    <2>1. ChosenAt(K, G2, A2, T, c) /\ G2[T] = t.log
      BY <1>1, <1>11, QuorateChosen
    <2>2. chosen # <<>> => \E y \in Nat : ChosenAt(K, G2, A2, y, x) /\ SamePrefix(chosen, G2[y], x)
      BY <1>9 DEF ChosenSafe
    <2> HIDE DEF T, c, x
    <2>3. CASE c > x
      <3>1. chosen' = SubSeq(t.log, 1, c)
        BY <1>5, <2>3
      <3>2. chosen' \in Seq(NEntry) /\ Len(chosen') = c /\ \A k \in 1..c : chosen'[k] = t.log[k]
        BY <1>4, <3>1
      <3>3. SamePrefix(t.log, chosen', c) /\ SamePrefix(chosen', t.log, c)
        BY <1>4, <3>2 DEF SamePrefix
      <3>4. ChosenSafe(K, chosen', G2, A2)
        BY <1>2, <2>1, <3>2, <3>3 DEF ChosenSafe
      <3>5. SamePrefix(chosen, chosen', x)
        <4>1. CASE chosen = <<>>
          BY <1>4, <3>2, <4>1 DEF SamePrefix, x
        <4>2. CASE chosen # <<>>
          <5>1. PICK y \in Nat : ChosenAt(K, G2, A2, y, x) /\ SamePrefix(chosen, G2[y], x)
            BY <2>2, <4>2
          <5>4. x <= c
            BY <1>4, <2>3
          <5>5. SamePrefix(G2[y], G2[T], x)
            BY <1>2, <1>3, <1>4, <1>8, <2>1, <5>1, <5>4, ChosenAgree
          <5>2. SamePrefix(G2[y], t.log, x)
            BY <2>1, <5>5
          <5>3. Len(G2[y]) \in Nat
            BY <1>8 DEF Logs
          <5> QED BY <1>4, <2>3, <3>2, <5>1, <5>2, <5>3 DEF SamePrefix, x
        <4> QED BY <4>1, <4>2
      <3> QED BY <3>3, <3>4, <3>5 DEF c, x
    <2>4. CASE ~(c > x)
      <3>1. chosen' = chosen
        BY <1>5, <2>4
      <3>2. SamePrefix(chosen, chosen, x)
        BY <1>4 DEF SamePrefix, x
      <3>3. c \in 1..Len(t.log)
        BY <2>1 DEF ChosenAt
      <3>4. chosen # <<>>
        BY <1>4, <2>4, <3>3 DEF x
      <3>5. PICK y \in Nat : ChosenAt(K, G2, A2, y, x) /\ SamePrefix(chosen, G2[y], x)
        BY <2>2, <3>4
      <3>6. c <= x
        BY <1>4, <2>4
      <3>7. SamePrefix(t.log, G2[y], c)
        BY <1>2, <1>3, <1>4, <1>8, <2>1, <3>5, <3>6, ChosenAgree
      <3>8. Len(G2[y]) \in Nat
        BY <1>8 DEF Logs
      <3>9. SamePrefix(t.log, chosen, c)
        BY <1>4, <3>5, <3>6, <3>7, <3>8 DEF SamePrefix, x
      <3> QED BY <1>9, <3>1, <3>2, <3>9 DEF c, x
    <2> QED BY <2>3, <2>4
  <1> QED BY <1>7, <1>10, <1>11

\* What a node has acknowledged in its term is on its disk.
LEMMA GoingAcked ==
    ASSUME NEW K, NEW L, NEW G, NEW G2, NEW A, NEW A2, NEW n, NEW s, NEW t, NEW u, NEW b,
           Going(K, L, G, G2, A, A2, n, s, t, u, b), NEW k \in K.progress
    PROVE  AckedOK(G2, A2[k], disk'[k], node'[k].term)
  <1> DEFINE T == t.term
  <1>1. /\ Passing(K, node, node', A, A2) /\ More(G, G2) /\ b \in Nat /\ A2[n][T] = b
        /\ \A v \in K.progress, z \in Nat : (v # n \/ z # T) => A2[v][z] = A[v][z]
    BY GoingMore
  <1>2. /\ n \in K.progress /\ T \in Nat /\ node'[n] = u /\ u.term = T /\ node[n].term <= T
        /\ \A v \in K.progress \ {n} : node'[v] = node[v] /\ disk'[v] = disk[v]
    <2>1. T >= node[n].term /\ node[n].term \in Nat /\ T \in Nat
      BY GoingFrame DEF IsRaft
    <2> QED BY <2>1, GoingFrame
  <1>3. AckedOK(G, A[k], disk[k], node[k].term) /\ A[k] \in [Nat -> Nat]
    BY DEF Going, Safe
  <1>4. \A x \in Nat : G[x] # <<>> => G2[x] # <<>>
    <2>1. ASSUME NEW x \in Nat, G[x] # <<>> PROVE G2[x] # <<>>
      <3>1. G[x] \in Seq(NEntry) /\ G2[x] \in Seq(NEntry) /\ SamePrefix(G[x], G2[x], Len(G[x]))
        BY <1>1 DEF More, Logs
      <3> QED BY <2>1, <3>1 DEF SamePrefix
    <2> QED BY <2>1
  <1>5. node[k].term \in Nat
    BY <1>1 DEF Passing
  <1> HIDE DEF T
  <1>6. CASE k = n
    <2>1. b <= Len(disk'[n].log) /\ (SamePrefix(disk'[n].log, G2[T], b) \/ b <= disk'[n].commit)
          /\ A[n][T] <= b /\ (b > A[n][T] => G2[T] # <<>>)
      BY DEF Going, Goes, T
    <2>2. ASSUME NEW x \in Nat, A2[n][x] > 0 PROVE x <= T /\ G2[x] # <<>>
      <3>1. CASE x = T
        <4>1. CASE b > A[n][T]
          BY <1>2, <2>1, <3>1, <4>1
        <4>2. CASE ~(b > A[n][T])
          <5>1. A[n][T] > 0
            <6>1. A[n][T] \in Nat
              BY <1>2, <1>3, <1>6
            <6>2. b \in Nat /\ b > 0
              BY <1>1, <2>2, <3>1
            <6> QED BY <6>1, <6>2, <4>2
          <5>2. G[T] # <<>>
            BY <1>2, <1>3, <1>6, <5>1 DEF AckedOK
          <5> QED BY <1>2, <1>4, <3>1, <5>2
        <4> QED BY <4>1, <4>2
      <3>2. CASE x # T
        <4>1. A[n][x] > 0
          BY <1>1, <1>2, <2>2, <3>2
        <4>2. x <= node[n].term /\ G[x] # <<>>
          BY <1>3, <1>6, <4>1 DEF AckedOK
        <4> QED BY <1>2, <1>4, <1>5, <1>6, <4>2
      <3> QED BY <3>1, <3>2
    <2>3. A2[n][T] <= Len(disk'[n].log) /\ (SamePrefix(disk'[n].log, G2[T], A2[n][T]) \/ A2[n][T] <= disk'[n].commit)
      BY <1>1, <2>1
    <2> QED BY <1>2, <1>6, <2>2, <2>3 DEF AckedOK
  <1>7. CASE k # n
    <2> DEFINE x == node[k].term
    <2>1. node'[k] = node[k] /\ disk'[k] = disk[k] /\ \A z \in Nat : A2[k][z] = A[k][z]
      BY <1>1, <1>2, <1>7
    <2>2. A[k][x] <= Len(disk[k].log) /\ (SamePrefix(disk[k].log, G[x], A[k][x]) \/ A[k][x] <= disk[k].commit)
      BY <1>3 DEF AckedOK
    <2>3. G[x] \in Seq(NEntry) /\ G2[x] \in Seq(NEntry) /\ SamePrefix(G[x], G2[x], Len(G[x])) /\ A[k][x] \in Nat
      BY <1>1, <1>3, <1>5 DEF More, Logs
    <2>4. SamePrefix(disk[k].log, G[x], A[k][x]) => SamePrefix(disk[k].log, G2[x], A[k][x])
      BY <2>3 DEF SamePrefix
    <2>5. \A z \in Nat : A[k][z] > 0 => z <= x /\ G2[z] # <<>>
      BY <1>3, <1>4 DEF AckedOK
    <2>6. A2[k][x] = A[k][x]
      BY <1>5, <2>1
    <2> QED BY <2>1, <2>2, <2>4, <2>5, <2>6 DEF AckedOK
  <1> QED BY <1>6, <1>7

\* What a node has acknowledged in any term stays on its disk for as long as it
\* matters.
LEMMA GoingHas ==
    ASSUME NEW K, NEW L, NEW G, NEW G2, NEW A, NEW A2, NEW n, NEW s, NEW t, NEW u, NEW b,
           Going(K, L, G, G2, A, A2, n, s, t, u, b), NEW k \in K.progress, NEW x \in Nat
    PROVE  Has(K, node', G2, A2, disk'[k].log, x, A2[k][x])
  <1> DEFINE T == t.term
             d == disk[n].log
             e == disk'[n].log
  <1>1. /\ Passing(K, node, node', A, A2) /\ More(G, G2) /\ b \in Nat /\ A2[n][T] = b
        /\ \A v \in K.progress, z \in Nat : (v # n \/ z # T) => A2[v][z] = A[v][z]
    BY GoingMore
  <1>2. /\ FixedConf(K) /\ n \in K.progress /\ T \in Nat /\ node'[n] = u /\ u.term = T /\ u.log = t.log
        /\ \A v \in K.progress \ {n} : node'[v] = node[v] /\ disk'[v] = disk[v]
    BY GoingFrame
  <1>3. Has(K, node, G, A, disk[k].log, x, A[k][x]) /\ A[k] \in [Nat -> Nat]
    BY DEF Going, Safe
  <1>4. disk[k].log \in Seq(NEntry)
    BY GoingDisk
  <1>5. /\ d \in Seq(NEntry) /\ e \in Seq(NEntry) /\ Len(d) \in Nat /\ Len(e) \in Nat
        /\ SamePrefix(e, t.log, Len(e)) /\ t.log \in Seq(NEntry)
    <2>1. d \in Seq(NEntry) /\ e \in Seq(NEntry) /\ SamePrefix(e, node'[n].log, Len(e)) /\ node'[n].log \in Seq(NEntry)
      BY <1>2, GoingDisk
    <2> QED BY <1>2, <2>1
  <1>6. \A z \in Nat : /\ G[z] \in Seq(NEntry) /\ G2[z] \in Seq(NEntry) /\ SamePrefix(G[z], G2[z], Len(G[z]))
                       /\ Len(G[z]) \in Nat /\ Len(G2[z]) \in Nat
    <2>1. \A z \in Nat : G[z] \in Seq(NEntry) /\ G2[z] \in Seq(NEntry) /\ SamePrefix(G[z], G2[z], Len(G[z]))
      BY <1>1 DEF More, Logs
    <2> QED BY <2>1
  <1> HIDE DEF T
  <1>7. CASE k # n
    <2>1. disk'[k] = disk[k] /\ A2[k][x] = A[k][x] /\ A[k][x] \in Nat
      BY <1>1, <1>2, <1>3, <1>7
    <2> DEFINE a == A[k][x]
               g == disk[k].log
    <2>2. Has(K, node, G, A, g, x, a) /\ a \in Nat /\ g \in Seq(NEntry)
      BY <1>3, <1>4, <2>1
    <2> HIDE DEF a, g
    <2>3. Has(K, node', G2, A2, g, x, a)
      BY <1>1, <1>2, <2>2, HasMore
    <2> QED BY <2>1, <2>3 DEF a, g
  <1>8. CASE k = n /\ x > T
    <2>1. AckedOK(G2, A2[n], disk'[n], node'[n].term)
      BY <1>2, GoingAcked
    <2>2. A2[n] \in [Nat -> Nat]
      BY <1>1, <1>2 DEF Passing
    <2>3. ~(x <= T)
      BY <1>2, <1>8
    <2>4. ~(A2[n][x] > 0) /\ A2[n][x] \in Nat
      BY <1>2, <2>1, <2>2, <2>3 DEF AckedOK
    <2>5. A2[n][x] = 0
      BY <2>4
    <2> QED BY <1>8, <2>5 DEF Has
  <1>9. CASE k = n /\ x < T
    <2>1. A2[n][x] = A[n][x] /\ A[n][x] \in Nat
      BY <1>1, <1>2, <1>3, <1>9
    <2>2. SUFFICES ASSUME NEW i \in 1..A[n][x], Own(G2, x, i) PROVE Holds(K, node', G2, A2, e, x, i)
      BY <1>9, <2>1 DEF Has
    <2>3. i \in Nat /\ i > 0 /\ Own(G, x, i)
      <3>1. i \in Nat /\ i > 0
        BY <2>1
      <3> QED BY <1>1, <2>2, <3>1, OwnLess
    <2>4. Holds(K, node, G, A, d, x, i)
      BY <1>3, <1>9, <2>2, <2>3 DEF Has
    <2>5. SamePrefix(d, e, Len(d)) \/ Kept(G[T], d, e)
      BY DEF Going, Goes, T
    <2>6. Holds(K, node, G, A, e, x, i)
      <3> HIDE DEF d, e
      <3>1. CASE SamePrefix(d, e, Len(d))
        BY <1>5, <2>3, <2>4, <3>1, HoldsLonger
      <3>2. CASE Kept(G[T], d, e) /\ SamePrefix(d, G[x], i)
        <4>1. G[T] # <<>> /\ (SamePrefix(d, G[T], i) => SamePrefix(e, G[T], i))
          BY <2>3, <3>2 DEF Kept
        <4>2. Holds(K, node, G, A, G[T], x, i)
          BY <1>2, <1>9, <2>3, <4>1 DEF Going, Safe, LogsSafe
        <4>3. CASE SamePrefix(G[T], G[x], i)
          <5>1. SamePrefix(d, G[T], i)
            BY <1>2, <1>5, <1>6, <2>3, <3>2, <4>3 DEF SamePrefix
          <5>2. SamePrefix(e, G[T], i)
            BY <4>1, <5>1
          <5>3. SamePrefix(e, G[x], i)
            BY <1>2, <1>5, <1>6, <2>3, <4>3, <5>2 DEF SamePrefix
          <5> QED BY <5>3 DEF Holds
        <4> QED BY <4>2, <4>3 DEF Holds
      <3>3. CASE Blocked(K, node, A, x, i)
        BY <3>3 DEF Holds
      <3> QED BY <2>4, <2>5, <3>1, <3>2, <3>3 DEF Holds
    <2> HIDE DEF e
    <2> QED BY <1>1, <1>2, <1>5, <2>3, <2>6, HoldsMore
  <1>10. CASE k = n /\ x = T
    <2>1. SUFFICES ASSUME NEW i \in 1..b, Own(G2, T, i) PROVE Holds(K, node', G2, A2, e, T, i)
      BY <1>1, <1>10 DEF Has
    <2>2. i \in Nat /\ i > 0 /\ i <= b
      BY <1>1
    <2>3. b <= Len(e) /\ (SamePrefix(e, G2[T], b) \/ b <= disk'[n].commit)
      BY DEF Going, Goes, T
    <2>4. CASE SamePrefix(e, G2[T], b)
      <3>1. SamePrefix(e, G2[T], i)
        <4> HIDE DEF e
        <4> QED BY <1>1, <1>2, <1>5, <1>6, <2>2, <2>4 DEF SamePrefix
      <3> QED BY <3>1 DEF Holds
    <2>5. CASE b <= disk'[n].commit
      <3> DEFINE f == disk'[n].commit
                 c == t.committed
      <3>1. f <= c /\ f \in Nat /\ c \in Nat
        <4>1. f <= u.committed /\ u.committed = t.committed
          BY DEF Going, Goes
        <4>2. NodeInv(K, n)'
          BY <1>2 DEF Going, Inv
        <4>3. f \in Nat
          BY <4>2 DEF NodeInv
        <4>4. IsRaft(t)
          BY GoingFrame
        <4> QED BY <4>1, <4>3, <4>4 DEF IsRaft
      <3>2. ChosenSafe(K, chosen', G2, A2) /\ SamePrefix(t.log, chosen', c)
        BY GoingChosen
      <3>3. b <= f
        BY <2>5
      <3> HIDE DEF c, f, e
      <3>4. chosen' \in Seq(NEntry) /\ Len(chosen') \in Nat
        <4>1. chosen' \in Seq(NEntry)
          BY <3>2 DEF ChosenSafe
        <4> QED BY <4>1
      <3>5. i \in 1..Len(chosen') /\ SamePrefix(e, chosen', i)
        BY <1>1, <1>5, <2>2, <2>3, <3>1, <3>2, <3>3, <3>4 DEF SamePrefix
      <3>6. G2[T] # <<>>
        <4>1. AckedOK(G2, A2[n], disk'[n], node'[n].term)
          BY <1>2, GoingAcked
        <4>2. A2[n][T] > 0
          BY <1>1, <2>2
        <4> QED BY <1>2, <4>1, <4>2 DEF AckedOK
      <3>7. Holds(K, node', G2, A2, chosen', T, i)
        <4>1. LogsSafe(K, node', G2, A2)
          BY GoingLogs
        <4>2. A2 \in [K.progress -> [Nat -> Nat]] /\ G2 \in Logs
          BY <1>1 DEF Passing, More
        <4> QED BY <1>2, <2>1, <3>2, <3>5, <3>6, <4>1, <4>2, CommittedAgrees
      <3>8. CASE SamePrefix(chosen', G2[T], i)
        <4>1. SamePrefix(e, G2[T], i)
          BY <1>2, <1>5, <1>6, <2>2, <3>4, <3>5, <3>8 DEF SamePrefix
        <4> QED BY <4>1 DEF Holds
      <3> QED BY <3>7, <3>8 DEF Holds
    <2> QED BY <2>3, <2>4, <2>5
  <1> QED BY <1>2, <1>7, <1>8, <1>9, <1>10

\* What a step sends.
LEMMA GoingSends ==
    ASSUME NEW K, NEW L, NEW G, NEW G2, NEW A, NEW A2, NEW n, NEW s, NEW t, NEW u, NEW b,
           Going(K, L, G, G2, A, A2, n, s, t, u, b), NEW m \in t.msgs
    PROVE  /\ MsgOK(K, m) /\ Sane(K, m)
           /\ m.type \in FromLeader => m.from = n /\ m.term = t.term /\ t.state = "Leader"
           /\ m.type = "MsgRequestVote" => m.from = n /\ m.term = t.term /\ t.term > s.term /\ t.vote = n
           /\ IsGrant(m) => m.from = n /\ m.term = t.term /\ m.to = t.vote
           /\ t.state # "Leader" => Replies(net, chosen, b, t, m)
           /\ t.state = "Leader" => Serves(Row(A2, t.term), t, m)
  <1>1. s.msgs = {} /\ t.id = n /\ s.conf = K
    BY GoingFrame
  <1>2. \A x \in t.msgs \ s.msgs : NewMsgOK(s, t, x)
    BY DEF Going, Goes, Advances, Steps
  <1>3. NewMsgOK(s, t, m)
    BY <1>1, <1>2
  <1>4. t.state # "Leader" => Replies(net, chosen, b, t, m)
    BY DEF Going, Goes
  <1>5. t.state = "Leader" => Serves(Row(A2, t.term), t, m)
    BY DEF Going, Goes, Leads
  <1> QED BY <1>1, <1>3, <1>4, <1>5 DEF NewMsgOK

\* A candidate that a node votes for has whatever the node has acknowledged.
LEMMA GrantHas ==
    ASSUME NEW K, NEW L, NEW G, NEW G2, NEW A, NEW A2, NEW n, NEW s, NEW t, NEW u, NEW b,
           Going(K, L, G, G2, A, A2, n, s, t, u, b), NEW c \in K.progress, c # n, node'[c].state = "Candidate",
           NEW m \in t.msgs, IsGrant(m), m.to = c, m.term = node'[c].term, NEW x \in Nat
    PROVE  Has(K, node', G2, A2, node'[c].log, x, A2[n][x])
  <1>1. /\ node'[c] = node[c] /\ n \in K.progress /\ node'[n] = u /\ u.log = t.log /\ IsRaft(t) /\ t.id = n
    BY GoingFrame
  <1>2. m.from = n /\ m.term = t.term /\ m.to = t.vote /\ (t.state # "Leader" => Replies(net, chosen, b, t, m))
    BY GoingSends
  <1>3. t.state # "Leader"
    BY <1>1, <1>2 DEF IsRaft
  <1>4. PICK r \in net : r.type = "MsgRequestVote" /\ r.from = c /\ r.term = t.term /\ UpToDate(t.log, r)
    BY <1>2, <1>3 DEF Replies
  <1>5. r.index = Len(node[c].log) /\ r.log_term = EndTerm(node[c].log)
    <2>1. CandOK(K, L, node, net, G, A, c)
      BY DEF Going, Safe
    <2>2. node[c].state = "Candidate" /\ node[c].term = r.term
      BY <1>1, <1>2, <1>4
    <2> QED BY <1>4, <2>1, <2>2 DEF CandOK
  <1> DEFINE l == t.log
             k == node[c].log
  <1>6. /\ l \in Seq(NEntry) /\ k \in Seq(NEntry) /\ Fits(G2, node'[n].term, l) /\ Fits(G2, node'[c].term, k)
        /\ SamePrefix(disk'[n].log, l, Len(disk'[n].log)) /\ disk'[n].log \in Seq(NEntry)
    BY <1>1, GoingDisk
  <1>7. Has(K, node', G2, A2, disk'[n].log, x, A2[n][x])
    BY <1>1, GoingHas
  <1>8. A2[n][x] \in Nat
    <2>1. Passing(K, node, node', A, A2)
      BY GoingMore
    <2>2. A2[n] \in [Nat -> Nat]
      BY <1>1, <2>1 DEF Passing
    <2> QED BY <2>2
  <1> DEFINE a == A2[n][x]
  <1>9. Has(K, node', G2, A2, l, x, a) /\ a \in Nat
    BY <1>6, <1>7, <1>8, HasLonger
  <1>10. G2 \in Logs /\ \A z \in Nat : Fits(G2, z, G2[z])
    BY GoingMore DEF More
  <1>11. LogsSafe(K, node', G2, A2)
    BY GoingLogs
  <1>12. UpToDate(l, r) /\ r.index = Len(k) /\ r.log_term = EndTerm(k)
    BY <1>4, <1>5
  <1> HIDE DEF a, l, k
  <1>13. Has(K, node', G2, A2, k, x, a)
    BY <1>6, <1>9, <1>10, <1>11, <1>12, VoteHas
  <1> QED BY <1>1, <1>13 DEF a, k

\* Candidates have what those that vote for them have acknowledged.
LEMMA GoingCand ==
    ASSUME NEW K, NEW L, NEW G, NEW G2, NEW A, NEW A2, NEW n, NEW s, NEW t, NEW u, NEW b,
           Going(K, L, G, G2, A, A2, n, s, t, u, b), NEW c \in K.progress
    PROVE  CandOK(K, L, node', net', G2, A2, c)
  <1> DEFINE T == node'[c].term
  <1>1. SUFFICES ASSUME node'[c].state = "Candidate"
                 PROVE  /\ \A m \in net' : m.type = "MsgRequestVote" /\ m.from = c /\ m.term = T
                                              => m.index = Len(node'[c].log) /\ m.log_term = EndTerm(node'[c].log)
                        /\ \A v \in K.progress, x \in Nat : x < T /\ Voted(net', L, v, c, T)
                                              => Has(K, node', G2, A2, node'[c].log, x, A2[v][x])
    BY DEF CandOK
  <1>2. /\ FixedConf(K) /\ n \in K.progress /\ t.term \in Nat /\ node'[n] = u /\ u.term = t.term /\ u.log = t.log
        /\ u.state = t.state /\ t.term >= node[n].term /\ IsRaft(t) /\ t.id = n /\ s.term = node[n].term
        /\ s.state = node[n].state /\ s.log = node[n].log /\ net' = net \cup t.msgs
        /\ \A v \in K.progress \ {n} : node'[v] = node[v] /\ disk'[v] = disk[v]
    BY GoingFrame
  <1>3. CandOK(K, L, node, net, G, A, c)
    BY DEF Going, Safe
  <1>4. /\ Passing(K, node, node', A, A2) /\ More(G, G2)
        /\ \A v \in K.progress, z \in Nat : (v # n \/ z # t.term) => A2[v][z] = A[v][z]
    BY GoingMore
  <1>5. VoteInv(K, L)
    BY DEF Going, Inv
  <1>6. \A v \in K.progress, z \in Nat : A[v][z] \in Nat /\ A2[v][z] \in Nat /\ node[v].term \in Nat
    <2>1. ASSUME NEW v \in K.progress, NEW z \in Nat PROVE A[v][z] \in Nat /\ A2[v][z] \in Nat /\ node[v].term \in Nat
      <3>1. A[v] \in [Nat -> Nat] /\ A2[v] \in [Nat -> Nat] /\ node[v].term \in Nat
        BY <1>4 DEF Passing
      <3> QED BY <3>1
    <2> QED BY <2>1
  <1>7. ASSUME NEW v \in K.progress, NEW x \in Nat, node'[c].log = node[c].log,
               Has(K, node, G, A, node[c].log, x, A[v][x]), A2[v][x] = A[v][x]
        PROVE  Has(K, node', G2, A2, node'[c].log, x, A2[v][x])
    <2> DEFINE a == A[v][x]
               g == node[c].log
    <2>2. Has(K, node, G, A, g, x, a) /\ a \in Nat /\ g \in Seq(NEntry)
      BY <1>6, <1>7, GoingDisk
    <2> HIDE DEF a, g
    <2>3. Has(K, node', G2, A2, g, x, a)
      BY <1>2, <1>4, <2>2, HasMore
    <2> QED BY <1>7, <2>3 DEF a, g
  <1>8. CASE c # n
    <2>1. node'[c] = node[c] /\ T \in Nat
      BY <1>2, <1>6, <1>8
    <2>2. ASSUME NEW m \in net', m.type = "MsgRequestVote", m.from = c, m.term = T
          PROVE  m.index = Len(node'[c].log) /\ m.log_term = EndTerm(node'[c].log)
      <3>1. m \in net
        BY <1>2, <1>8, <2>2, GoingSends
      <3> QED BY <1>1, <1>3, <2>1, <2>2, <3>1 DEF CandOK
    <2>3. ASSUME NEW v \in K.progress, NEW x \in Nat, x < T, Voted(net', L, v, c, T)
          PROVE  Has(K, node', G2, A2, node'[c].log, x, A2[v][x])
      <3>1. CASE Voted(net, L, v, c, T)
        <4>1. Has(K, node, G, A, node[c].log, x, A[v][x])
          BY <1>1, <1>3, <2>1, <2>3, <3>1 DEF CandOK
        <4>2. A2[v][x] = A[v][x]
          <5>1. SUFFICES ASSUME v = n, x = t.term PROVE FALSE
            BY <1>4
          <5>2. node[n].term >= T
            BY <1>5, <2>1, <3>1, <5>1 DEF VoteInv
          <5> HIDE DEF T
          <5> QED BY <1>2, <1>6, <2>1, <2>3, <5>1, <5>2
        <4> QED BY <1>7, <2>1, <4>1, <4>2
      <3>2. CASE ~Voted(net, L, v, c, T)
        <4>1. v = n /\ T = t.term
          BY <2>3, <3>2, NewVote
        <4>2. PICK m \in t.msgs : IsGrant(m) /\ m.to = c /\ m.term = T
          <5>1. PICK m \in net' : IsGrant(m) /\ m.from = v /\ m.to = c /\ m.term = T
            BY <1>8, <2>3, <3>2, <4>1 DEF Voted
          <5>2. m \in t.msgs
            BY <1>2, <3>2, <5>1 DEF Voted
          <5> QED BY <5>1, <5>2
        <4>3. Has(K, node', G2, A2, node'[c].log, x, A2[n][x])
          BY <1>1, <1>8, <4>2, GrantHas
        <4> QED BY <4>1, <4>3
      <3> QED BY <3>1, <3>2
    <2> QED BY <2>2, <2>3
  <1>9. CASE c = n
    <2>1. T = t.term /\ t.state = "Candidate" /\ T \in Nat /\ T >= node[n].term /\ node'[n].log = t.log
      BY <1>1, <1>2, <1>9
    <2>2. /\ T > node[n].term \/ (node[n].state = "Candidate" /\ T = node[n].term)
          /\ t.log = node[n].log
      <3>1. Moves(G, s, t)
        BY DEF Going, Goes, Advances
      <3>2. t.term > s.term \/ (s.state = "Candidate" /\ t.term = s.term)
        BY <2>1, <3>1 DEF Moves
      <3>3. t.log = s.log
        BY <2>1, <3>1 DEF Moves
      <3> QED BY <1>2, <2>1, <3>2, <3>3
    <2>3. ASSUME T > node[n].term, NEW v \in K.progress, Voted(net, L, v, n, T) PROVE FALSE
      <3>1. ~(node[n].term >= T) /\ node[n].term \in Nat
        BY <1>2, <1>6, <2>1, <2>3
      <3>2. ~Voted(net, L, n, n, T)
        BY <1>2, <1>5, <2>1, <3>1 DEF VoteInv
      <3>3. ASSUME NEW m \in net, IsGrant(m), m.to = n, m.term = T PROVE FALSE
        <4>1. MsgSafe(K, node, chosen, G, A, m)
          BY DEF Going, Safe
        <4>2. node[n].term >= T
          BY <3>3, <4>1 DEF MsgSafe
        <4> QED BY <3>1, <4>2
      <3>4. (\E m \in net : IsGrant(m) /\ m.to = n /\ m.term = T) \/ Voted(net, L, n, n, T)
        BY <2>3 DEF Voted
      <3> QED BY <3>2, <3>3, <3>4
    <2>4. ASSUME NEW m \in net', m.type = "MsgRequestVote", m.from = c, m.term = T
          PROVE  m.index = Len(node'[c].log) /\ m.log_term = EndTerm(node'[c].log)
      <3>1. CASE m \in t.msgs
        <4>1. Replies(net, chosen, b, t, m)
          BY <2>1, <3>1, GoingSends
        <4> QED BY <1>9, <2>1, <2>4, <4>1 DEF Replies
      <3>2. CASE m \in net
        <4>1. Voted(net, L, n, n, T)
          BY <1>9, <2>4, <3>2 DEF Voted
        <4>2. node[n].state = "Candidate" /\ T = node[n].term
          BY <1>2, <2>2, <2>3, <4>1
        <4> QED BY <1>3, <1>9, <2>1, <2>2, <2>4, <3>2, <4>2 DEF CandOK
      <3> QED BY <1>2, <2>4, <3>1, <3>2
    <2>5. ASSUME NEW v \in K.progress, NEW x \in Nat, x < T, Voted(net', L, v, c, T)
          PROVE  Has(K, node', G2, A2, node'[c].log, x, A2[v][x])
      <3>1. CASE Voted(net, L, v, n, T)
        <4>1. node[n].state = "Candidate" /\ T = node[n].term
          BY <2>2, <2>3, <3>1
        <4>2. Has(K, node, G, A, node[n].log, x, A[v][x])
          BY <1>3, <1>9, <2>5, <3>1, <4>1 DEF CandOK
        <4>3. A2[v][x] = A[v][x]
          BY <1>4, <2>1, <2>5
        <4> QED BY <1>7, <1>9, <2>1, <2>2, <4>2, <4>3
      <3>2. CASE ~Voted(net, L, v, n, T)
        <4>1. v = n
          BY <1>9, <2>5, <3>2, NewVote
        <4>2. Has(K, node', G2, A2, disk'[n].log, x, A2[n][x])
          BY <1>2, GoingHas
        <4>3. SamePrefix(disk'[n].log, node'[n].log, Len(disk'[n].log)) /\ disk'[n].log \in Seq(NEntry)
              /\ node'[n].log \in Seq(NEntry)
          BY <1>2, GoingDisk
        <4>4. A2[n][x] \in Nat
          BY <1>2, <1>6
        <4>5. Has(K, node', G2, A2, node'[n].log, x, A2[n][x])
          BY <4>2, <4>3, <4>4, HasLonger
        <4> QED BY <1>9, <4>1, <4>5
      <3> QED BY <3>1, <3>2
    <2> QED BY <2>4, <2>5
  <1> QED BY <1>8, <1>9

\* What was said stays true.
LEMMA ToldMore ==
    ASSUME NEW K, NEW G, NEW G2, More(G, G2), NEW ch \in Seq(NEntry), NEW ch2 \in Seq(NEntry), SamePrefix(ch, ch2, Len(ch)),
           NEW m, MsgOK(K, m), NEW h, NEW h2, Told(G, ch, h, m),
           m.type \in FromLeader => \A x \in Nat : h[x] \in Nat /\ h2[x] \in Nat /\ h[x] <= h2[x]
    PROVE  Told(G2, ch2, h2, m)
  <1> DEFINE g == G[m.term]
             g2 == G2[m.term]
  <1>1. /\ g \in Seq(NEntry) /\ g2 \in Seq(NEntry) /\ SamePrefix(g, g2, Len(g)) /\ m.term \in Nat
        /\ Len(g) \in Nat /\ Len(g2) \in Nat /\ Len(ch) \in Nat /\ Len(ch2) \in Nat
    <2>1. m.term \in Nat
      BY DEF MsgOK
    <2>2. g \in Seq(NEntry) /\ g2 \in Seq(NEntry) /\ SamePrefix(g, g2, Len(g))
      BY <2>1 DEF More, Logs
    <2> QED BY <2>1, <2>2
  <1>2. g # <<>> => g2 # <<>>
    BY <1>1 DEF SamePrefix
  <1>3. ASSUME NEW i \in Nat, SamePrefix(g, ch, i) PROVE SamePrefix(g2, ch2, i)
    <2> HIDE DEF g, g2
    <2>1. i <= Len(g) /\ i <= Len(ch)
      BY <1>3 DEF SamePrefix
    <2>2. SamePrefix(g2, g, i)
      BY <1>1, <2>1, SamePrefixSym
    <2>3. SamePrefix(g2, ch, i)
      BY <1>1, <1>3, <2>2, SamePrefixTrans
    <2> QED BY <1>1, <2>1, <2>3, SamePrefixTrans
  <1>4. ASSUME Backs(ch, m) PROVE Backs(ch2, m)
    BY <1>1, <1>4 DEF SamePrefix, Backs
  <1>5. CASE m.type = "MsgAppend"
    <2>1. m.commit \in Nat /\ m.index \in Nat
      BY <1>5 DEF MsgOK
    <2>2. h[m.term] \in Nat /\ h2[m.term] \in Nat /\ h[m.term] <= h2[m.term]
      BY <1>1, <1>5 DEF FromLeader
    <2>3. g # <<>> /\ SamePrefix(g, ch, m.commit) /\ (m.log_term = 0 /\ m.index > 0 => m.index <= h[m.term] /\ m.entries = <<>>)
      BY <1>5 DEF Told
    <2>4. m.log_term = 0 /\ m.index > 0 => m.index <= h2[m.term] /\ m.entries = <<>>
      BY <2>1, <2>2, <2>3
    <2>5. SamePrefix(g2, ch2, m.commit) /\ g2 # <<>>
      BY <1>2, <1>3, <2>1, <2>3
    <2> QED BY <1>5, <2>4, <2>5 DEF Told, VoteRequests, VoteResponses
  <1>6. CASE m.type = "MsgHeartbeat"
    <2>1. m.commit \in Nat
      BY <1>6 DEF MsgOK
    <2>2. h[m.term] \in Nat /\ h2[m.term] \in Nat /\ h[m.term] <= h2[m.term]
      BY <1>1, <1>6 DEF FromLeader
    <2>3. SamePrefix(g, ch, m.commit) /\ m.commit <= h[m.term]
      BY <1>6 DEF Told
    <2>4. m.commit <= h2[m.term]
      BY <2>1, <2>2, <2>3
    <2>5. SamePrefix(g2, ch2, m.commit)
      BY <1>3, <2>1, <2>3
    <2> QED BY <1>6, <2>4, <2>5 DEF Told, VoteRequests, VoteResponses
  <1>7. CASE m.type = "MsgSnapshot"
    <2>1. m.snapshot.index \in Nat
      BY <1>7 DEF MsgOK
    <2>2. g # <<>> /\ SamePrefix(g, ch, m.snapshot.index)
          /\ m.snapshot.term = IF m.snapshot.index = 0 THEN 0 ELSE g[m.snapshot.index].term
      BY <1>7 DEF Told
    <2>3. SamePrefix(g2, ch2, m.snapshot.index) /\ g2 # <<>>
      BY <1>2, <1>3, <2>1, <2>2
    <2>4. m.snapshot.index # 0 => g2[m.snapshot.index] = g[m.snapshot.index]
      BY <1>1, <2>1, <2>2 DEF SamePrefix
    <2>5. m.snapshot.term = IF m.snapshot.index = 0 THEN 0 ELSE g2[m.snapshot.index].term
      BY <2>2, <2>4
    <2> QED BY <1>7, <2>3, <2>5 DEF Told, VoteRequests, VoteResponses
  <1>8. CASE m.type = "MsgReadIndexResp"
    <2>1. m.index \in Nat /\ SamePrefix(g, ch, m.index)
      BY <1>8 DEF Told
    <2>2. SamePrefix(g2, ch2, m.index)
      BY <1>3, <2>1
    <2> QED BY <1>8, <2>1, <2>2 DEF Told, VoteRequests, VoteResponses
  <1>9. CASE m.type \notin {"MsgAppend", "MsgHeartbeat", "MsgSnapshot", "MsgReadIndexResp"}
    BY <1>4, <1>9 DEF Told
  <1> QED BY <1>5, <1>6, <1>7, <1>8, <1>9

\* What a leader says is true.
LEMMA ServesTold ==
    ASSUME NEW G, NEW ch, NEW A, NEW t, IsRaft(t), DOMAIN A = t.conf.progress, G[t.term] = t.log, t.log # <<>>,
           ch \in Seq(NEntry), t.committed <= Len(t.log), SamePrefix(t.log, ch, t.committed),
           NEW m, MsgOK(t.conf, m), Serves(Row(A, t.term), t, m), m.type \in FromLeader => m.term = t.term
    PROVE  Told(G, ch, A[m.to], m)
  <1> DEFINE g == t.log
             c == t.committed
  <1>1. g \in Seq(NEntry) /\ c \in Nat /\ Len(g) \in Nat /\ Len(ch) \in Nat /\ c <= Len(g) /\ c <= Len(ch)
    BY DEF IsRaft, SamePrefix
  <1>2. ASSUME NEW i \in Nat, i <= c PROVE SamePrefix(g, ch, i)
    BY <1>1, <1>2 DEF SamePrefix
  <1>3. ASSUME m.type \in FromLeader PROVE G[m.term] = g /\ m.to \in DOMAIN A /\ Row(A, t.term)[m.to] = A[m.to][m.term]
    <2>1. m.to \in t.conf.progress /\ m.term = t.term
      BY <1>3 DEF Serves
    <2> QED BY <2>1 DEF Row
  <1>4. CASE m.type = "MsgAppend"
    <2>1. G[m.term] = g /\ Row(A, t.term)[m.to] = A[m.to][m.term] /\ m.commit \in Nat
      BY <1>3, <1>4 DEF FromLeader, MsgOK
    <2>2. m.commit <= c /\ (m.log_term = 0 /\ m.index > 0 => m.index <= A[m.to][m.term] /\ m.entries = <<>>)
      BY <1>4, <2>1 DEF Serves
    <2>3. SamePrefix(g, ch, m.commit)
      BY <1>2, <2>1, <2>2
    <2> QED BY <1>4, <2>1, <2>2, <2>3 DEF Told, VoteRequests, VoteResponses
  <1>5. CASE m.type = "MsgHeartbeat"
    <2>1. G[m.term] = g /\ Row(A, t.term)[m.to] = A[m.to][m.term] /\ m.commit \in Nat
      BY <1>3, <1>5 DEF FromLeader, MsgOK
    <2>2. m.commit <= c /\ m.commit <= A[m.to][m.term]
      BY <1>5, <2>1 DEF Serves
    <2>3. SamePrefix(g, ch, m.commit)
      BY <1>2, <2>1, <2>2
    <2> QED BY <1>5, <2>1, <2>2, <2>3 DEF Told, VoteRequests, VoteResponses
  <1>6. CASE m.type = "MsgSnapshot"
    <2>1. G[m.term] = g /\ m.snapshot.index \in Nat
      BY <1>3, <1>6 DEF FromLeader, MsgOK
    <2>2. /\ m.snapshot.index <= c
          /\ m.snapshot.term = IF m.snapshot.index = 0 THEN 0 ELSE g[m.snapshot.index].term
      BY <1>6 DEF Serves
    <2>3. SamePrefix(g, ch, m.snapshot.index)
      BY <1>2, <2>1, <2>2
    <2> QED BY <1>6, <2>1, <2>2, <2>3 DEF Told, VoteRequests, VoteResponses
  <1>7. CASE m.type = "MsgReadIndexResp"
    <2>1. m.term = t.term /\ m.index \in Nat /\ m.index <= c
      BY <1>7 DEF Serves
    <2>2. SamePrefix(g, ch, m.index)
      BY <1>2, <2>1
    <2> QED BY <1>7, <2>1, <2>2 DEF Told, VoteRequests, VoteResponses
  <1>8. CASE m.type \in VoteRequests \cup VoteResponses
    <2>1. Informs(t, m)
      BY <1>8 DEF Serves
    <2>2. Backs(ch, m)
      BY <1>1, <2>1 DEF Informs, Backs, SamePrefix
    <2> QED BY <1>8, <2>2 DEF Told, VoteRequests, VoteResponses
  <1>9. CASE m.type \notin {"MsgAppend", "MsgHeartbeat", "MsgSnapshot", "MsgReadIndexResp"} \cup VoteRequests \cup VoteResponses
    BY <1>9 DEF Told
  <1> QED BY <1>4, <1>5, <1>6, <1>7, <1>8, <1>9

\* The log of a leader is not empty.
LEMMA GoingLeaderLog ==
    ASSUME NEW K, NEW L, NEW G, NEW G2, NEW A, NEW A2, NEW n, NEW s, NEW t, NEW u, NEW b,
           Going(K, L, G, G2, A, A2, n, s, t, u, b), t.state = "Leader"
    PROVE  t.log # <<>>
  <1>1. IsRaft(s) /\ s.log = node[n].log /\ s.state = node[n].state /\ n \in K.progress
    BY GoingFrame
  <1>2. s.log \in Seq(NEntry)
    BY <1>1 DEF IsRaft
  <1>3. (s.state = "Leader" /\ t.log = s.log) \/ \E e \in NEntry : t.log = Append(s.log, e)
    BY DEF Going, Goes, Advances, Moves
  <1>4. CASE s.state = "Leader" /\ t.log = s.log
    <2>1. LeadOK(A, n, node[n])
      BY <1>1 DEF Going, Safe
    <2> QED BY <1>1, <1>4, <2>1 DEF LeadOK
  <1>5. CASE \E e \in NEntry : t.log = Append(s.log, e)
    <2>1. PICK e \in NEntry : t.log = Append(s.log, e)
      BY <1>5
    <2>2. Len(s.log) \in Nat
      BY <1>2
    <2>3. Len(t.log) = Len(s.log) + 1
      BY <1>2, <2>1
    <2> QED BY <2>2, <2>3
  <1> QED BY <1>3, <1>4, <1>5

\* All messages stay true, and what is sent is true.
LEMMA GoingMsgs ==
    ASSUME NEW K, NEW L, NEW G, NEW G2, NEW A, NEW A2, NEW n, NEW s, NEW t, NEW u, NEW b,
           Going(K, L, G, G2, A, A2, n, s, t, u, b), NEW m \in net'
    PROVE  MsgSafe(K, node', chosen', G2, A2, m)
  <1> DEFINE T == t.term
  <1>1. /\ Passing(K, node, node', A, A2) /\ More(G, G2) /\ b \in Nat /\ A2[n][T] = b
        /\ (t.state = "Leader" => G2[T] = t.log)
    BY GoingMore
  <1>2. /\ FixedConf(K) /\ n \in K.progress /\ T \in Nat /\ node'[n] = u /\ u.term = T /\ IsRaft(t) /\ t.id = n
        /\ t.conf = K /\ net' = net \cup t.msgs
    BY GoingFrame
  <1>3. ChosenSafe(K, chosen', G2, A2) /\ SamePrefix(chosen, chosen', Len(chosen)) /\ SamePrefix(t.log, chosen', t.committed)
    BY GoingChosen
  <1>4. chosen \in Seq(NEntry) /\ chosen' \in Seq(NEntry) /\ Len(chosen) \in Nat /\ Len(chosen') \in Nat
    <2>1. chosen \in Seq(NEntry) /\ chosen' \in Seq(NEntry)
      BY <1>3 DEF Going, Safe, ChosenSafe
    <2> QED BY <2>1
  <1>5. \A v \in K.progress, z \in Nat :
            A[v][z] \in Nat /\ A2[v][z] \in Nat /\ A[v][z] <= A2[v][z] /\ node[v].term \in Nat
            /\ node'[v].term \in Nat /\ node[v].term <= node'[v].term
    <2>1. ASSUME NEW v \in K.progress, NEW z \in Nat
          PROVE  A[v][z] \in Nat /\ A2[v][z] \in Nat /\ A[v][z] <= A2[v][z] /\ node[v].term \in Nat
                 /\ node'[v].term \in Nat /\ node[v].term <= node'[v].term
      <3>1. A[v] \in [Nat -> Nat] /\ A2[v] \in [Nat -> Nat] /\ node[v].term \in Nat /\ A[v][z] <= A2[v][z]
            /\ node'[v].term \in Nat /\ node[v].term <= node'[v].term
        BY <1>1 DEF Passing
      <3> QED BY <3>1
    <2> QED BY <2>1
  <1>6. CASE m \in net
    <2>1. MsgSafe(K, node, chosen, G, A, m) /\ MsgOK(K, m) /\ Sane(K, m)
      BY <1>6 DEF Going, Safe, Inv
    <2>2. m.term \in Nat
      BY <2>1 DEF MsgOK
    <2>3. m.type \in FromLeader => m.to \in K.progress
      BY <2>1 DEF MsgSafe
    <2>4. Told(G2, chosen', A2[m.to], m)
      <3> DEFINE h == A[m.to]
                 h2 == A2[m.to]
      <3>1. m.type \in FromLeader => \A x \in Nat : h[x] \in Nat /\ h2[x] \in Nat /\ h[x] <= h2[x]
        BY <1>5, <2>3
      <3>2. Told(G, chosen, h, m)
        BY <2>1 DEF MsgSafe
      <3> HIDE DEF h, h2
      <3>3. Told(G2, chosen', h2, m)
        BY <1>1, <1>3, <1>4, <2>1, <3>1, <3>2, ToldMore
      <3> QED BY <3>3 DEF h2
    <2>5. ASSUME m.type = "MsgAppendResponse", ~m.reject, m.from \in K.progress PROVE m.index <= A2[m.from][m.term]
      <3>1. m.index \in Nat /\ m.index <= A[m.from][m.term]
        BY <2>1, <2>5 DEF MsgSafe, MsgOK
      <3>2. A[m.from][m.term] \in Nat /\ A2[m.from][m.term] \in Nat /\ A[m.from][m.term] <= A2[m.from][m.term]
        BY <1>5, <2>2, <2>5
      <3> QED BY <3>1, <3>2
    <2>6. ASSUME IsGrant(m) PROVE node'[m.to].term >= m.term
      <3>1. m.to \in K.progress
        BY <2>1, <2>6 DEF Sane, IsGrant
      <3>2. node[m.to].term >= m.term
        BY <2>1, <2>6 DEF MsgSafe
      <3>3. node[m.to].term \in Nat /\ node'[m.to].term \in Nat /\ node[m.to].term <= node'[m.to].term
        BY <1>5, <2>2, <3>1
      <3> QED BY <2>2, <3>2, <3>3
    <2> QED BY <2>3, <2>4, <2>5, <2>6 DEF MsgSafe
  <1>7. CASE m \in t.msgs
    <2>1. /\ MsgOK(K, m) /\ Sane(K, m)
          /\ m.type \in FromLeader => m.from = n /\ m.term = T /\ t.state = "Leader"
          /\ IsGrant(m) => m.from = n /\ m.term = T /\ m.to = t.vote
          /\ t.state # "Leader" => Replies(net, chosen, b, t, m)
          /\ t.state = "Leader" => Serves(Row(A2, T), t, m)
      BY <1>7, GoingSends
    <2>2. CASE t.state = "Leader"
      <3>1. Serves(Row(A2, T), t, m) /\ G2[T] = t.log
        BY <1>1, <2>1, <2>2
      <3>2. DOMAIN A2 = t.conf.progress
        BY <1>1, <1>2 DEF Passing
      <3>3. t.log # <<>>
        BY <2>2, GoingLeaderLog
      <3>4. t.committed <= Len(t.log)
        BY DEF Going, Goes
      <3>5. m.type \in FromLeader => m.term = t.term
        BY <2>1
      <3>6. MsgOK(t.conf, m)
        BY <1>2, <2>1
      <3>7. Told(G2, chosen', A2[m.to], m)
        BY <1>2, <1>3, <1>4, <3>1, <3>2, <3>3, <3>4, <3>5, <3>6, ServesTold
      <3>8. m.type \in FromLeader => m.to \in K.progress
        BY <1>2, <3>1 DEF Serves
      <3>9. ASSUME m.type = "MsgAppendResponse", ~m.reject, m.from \in K.progress PROVE m.index <= A2[m.from][m.term]
        <4>1. m.index = 0 /\ m.term \in Nat
          BY <2>1, <3>1, <3>9 DEF Serves, MsgOK
        <4>2. A2[m.from][m.term] \in Nat
          BY <1>5, <3>9, <4>1
        <4> QED BY <4>1, <4>2
      <3>10. ASSUME IsGrant(m) PROVE node'[m.to].term >= m.term
        <4>1. t.vote = n
          BY <1>2, <2>2 DEF IsRaft
        <4> QED BY <1>2, <2>1, <3>10, <4>1
      <3> QED BY <3>7, <3>8, <3>9, <3>10 DEF MsgSafe
    <2>3. CASE t.state # "Leader"
      <3>1. m.type \notin FromLeader /\ Replies(net, chosen, b, t, m)
        BY <2>1, <2>3
      <3>2. m.type \in VoteRequests \cup VoteResponses => Backs(chosen', m)
        <4>1. m.type \in VoteRequests \cup VoteResponses => Backs(chosen, m)
          BY <3>1 DEF Replies
        <4>2. Backs(chosen, m) => Backs(chosen', m)
          BY <1>3, <1>4 DEF Backs, SamePrefix
        <4> QED BY <4>1, <4>2
      <3>3. Told(G2, chosen', A2[m.to], m)
        BY <3>1, <3>2 DEF Told, FromLeader, Replies
      <3>4. ASSUME m.type = "MsgAppendResponse", ~m.reject, m.from \in K.progress PROVE m.index <= A2[m.from][m.term]
        BY <1>1, <1>2, <3>1, <3>4 DEF Replies
      <3>5. ASSUME IsGrant(m) PROVE node'[m.to].term >= m.term
        <4>1. PICK r \in net : r.type = "MsgRequestVote" /\ r.from = m.to /\ r.term = m.term
          BY <3>1, <3>5 DEF Replies
        <4>2. m.to \in K.progress /\ m.term \in Nat
          BY <2>1, <3>5 DEF Sane, IsGrant, MsgOK
        <4>3. Voted(net, L, m.to, m.to, m.term)
          BY <4>1 DEF Voted
        <4>4. VoteInv(K, L)
          BY DEF Going, Inv
        <4>5. node[m.to].term >= m.term
          BY <4>2, <4>3, <4>4 DEF VoteInv
        <4>6. node[m.to].term \in Nat /\ node'[m.to].term \in Nat /\ node[m.to].term <= node'[m.to].term
          BY <1>5, <4>2
        <4> QED BY <4>2, <4>5, <4>6
      <3> QED BY <3>1, <3>3, <3>4, <3>5 DEF MsgSafe
    <2> QED BY <2>2, <2>3
  <1> QED BY <1>2, <1>6, <1>7

\* What a node takes for committed is committed.
LEMMA GoingStore ==
    ASSUME NEW K, NEW L, NEW G, NEW G2, NEW A, NEW A2, NEW n, NEW s, NEW t, NEW u, NEW b,
           Going(K, L, G, G2, A, A2, n, s, t, u, b), NEW k \in K.progress
    PROVE  StoreOK(chosen', node'[k], disk'[k])
  <1>1. /\ n \in K.progress /\ node'[n] = u /\ u.log = t.log
        /\ \A v \in K.progress \ {n} : node'[v] = node[v] /\ disk'[v] = disk[v]
        /\ IsRaft(node[k])
    BY GoingFrame
  <1>2. ChosenSafe(K, chosen', G2, A2) /\ SamePrefix(chosen, chosen', Len(chosen)) /\ SamePrefix(t.log, chosen', t.committed)
    BY GoingChosen
  <1>3. chosen \in Seq(NEntry) /\ chosen' \in Seq(NEntry) /\ Len(chosen) \in Nat /\ Len(chosen') \in Nat
    <2>1. chosen \in Seq(NEntry) /\ chosen' \in Seq(NEntry)
      BY <1>2 DEF Going, Safe, ChosenSafe
    <2> QED BY <2>1
  <1>4. CASE k = n
    <2>1. /\ u.committed = t.committed
          /\ Trimmed(u) /\ u.pending_request_snapshot = 0
          /\ u.first <= disk'[n].commit \/ u.first = u.snap + 1
          /\ disk'[n].commit <= u.committed /\ disk'[n].commit <= Len(disk'[n].log)
      BY DEF Going, Goes
    <2> QED BY <1>1, <1>2, <1>4, <2>1 DEF StoreOK
  <1>5. CASE k # n
    <2>1. node'[k] = node[k] /\ disk'[k] = disk[k] /\ StoreOK(chosen, node[k], disk[k])
      BY <1>1, <1>5 DEF Going, Safe
    <2> DEFINE l == node[k].log
               c == node[k].committed
    <2>2. SamePrefix(l, chosen, c) /\ c \in Nat /\ l \in Seq(NEntry)
      BY <1>1, <2>1 DEF StoreOK, IsRaft
    <2> HIDE DEF l, c
    <2>3. SamePrefix(l, chosen', c)
      BY <1>2, <1>3, <2>2 DEF SamePrefix
    <2> QED BY <2>1, <2>3 DEF StoreOK, l, c
  <1> QED BY <1>4, <1>5

\* Leaders go on leading.
LEMMA GoingLead ==
    ASSUME NEW K, NEW L, NEW G, NEW G2, NEW A, NEW A2, NEW n, NEW s, NEW t, NEW u, NEW b,
           Going(K, L, G, G2, A, A2, n, s, t, u, b), NEW k \in K.progress
    PROVE  LeadOK(A2, k, node'[k])
  <1>1. /\ n \in K.progress /\ node'[n] = u /\ u.log = t.log /\ u.term = t.term /\ u.state = t.state
        /\ \A v \in K.progress \ {n} : node'[v] = node[v] /\ disk'[v] = disk[v]
        /\ IsRaft(node[k])
    BY GoingFrame
  <1>2. Passing(K, node, node', A, A2) /\ b \in Nat /\ A2[n][t.term] = b
    BY GoingMore
  <1>3. SUFFICES ASSUME node'[k].state = "Leader"
                 PROVE  /\ node'[k].log # <<>> /\ Leads(Row(A2, node'[k].term), node'[k].committed, node'[k])
                        /\ node'[k].persisted <= A2[k][node'[k].term]
    BY DEF LeadOK
  <1>4. CASE k = n
    <2>1. t.state = "Leader"
      BY <1>1, <1>3, <1>4
    <2>2. Leads(Row(A2, t.term), u.committed, u) /\ u.persisted <= b
      BY <2>1 DEF Going, Goes
    <2>3. t.log # <<>>
      BY <2>1, GoingLeaderLog
    <2> QED BY <1>1, <1>2, <1>4, <2>2, <2>3
  <1>5. CASE k # n
    <2> DEFINE x == node[k]
               a == Row(A, x.term)
               a2 == Row(A2, x.term)
    <2>1. node'[k] = x /\ LeadOK(A, k, x)
      BY <1>1, <1>5 DEF Going, Safe
    <2>2. x.log # <<>> /\ Leads(a, x.committed, x) /\ x.persisted <= A[k][x.term]
      BY <1>3, <2>1 DEF LeadOK
    <2>3. x.term \in Nat /\ x.conf = K /\ x.persisted \in Nat
      <3>1. NodeInv(K, k)
        BY DEF Going, Inv
      <3> QED BY <3>1 DEF NodeInv, IsRaft
    <2>4. /\ A \in [K.progress -> [Nat -> Nat]] /\ A2 \in [K.progress -> [Nat -> Nat]]
          /\ \A v \in K.progress : A[v][x.term] <= A2[v][x.term]
      BY <1>2, <2>3 DEF Passing
    <2>5. a2 \in [x.conf.progress -> Nat] /\ \A v \in x.conf.progress : a[v] <= a2[v]
      BY <2>3, <2>4 DEF Row
    <2>6. A[k][x.term] \in Nat /\ A2[k][x.term] \in Nat /\ A[k][x.term] <= A2[k][x.term]
      BY <2>3, <2>4
    <2>7. x.persisted <= A2[k][x.term]
      BY <2>2, <2>3, <2>6
    <2> HIDE DEF a, a2, x
    <2>8. Leads(a2, x.committed, x)
      BY <2>2, <2>5, LeadsAck
    <2> QED BY <2>1, <2>2, <2>7, <2>8 DEF a2
  <1> QED BY <1>4, <1>5

\* A step of one node keeps what is committed safe.
LEMMA GoingSafe ==
    ASSUME NEW K, NEW L, NEW G, NEW G2, NEW A, NEW A2, NEW n, NEW s, NEW t, NEW u, NEW b,
           Going(K, L, G, G2, A, A2, n, s, t, u, b)
    PROVE  Safe(K, L, node', disk', net', chosen', G2, A2)
  <1>1. A2 \in [K.progress -> [Nat -> Nat]]
    BY GoingMore DEF Passing
  <1>2. LogsSafe(K, node', G2, A2)
    BY GoingLogs
  <1>3. ChosenSafe(K, chosen', G2, A2)
    BY GoingChosen
  <1>4. ASSUME NEW k \in K.progress
        PROVE  /\ AckedOK(G2, A2[k], disk'[k], node'[k].term) /\ StoreOK(chosen', node'[k], disk'[k])
               /\ LeadOK(A2, k, node'[k]) /\ CandOK(K, L, node', net', G2, A2, k)
               /\ \A x \in Nat : Has(K, node', G2, A2, disk'[k].log, x, A2[k][x])
    BY GoingAcked, GoingStore, GoingLead, GoingCand, GoingHas
  <1>5. \A m \in net' : MsgSafe(K, node', chosen', G2, A2, m)
    BY GoingMsgs
  <1> QED BY <1>1, <1>2, <1>3, <1>4, <1>5 DEF Safe

-----------------------------------------------------------------------------
(***************************************************************************)
(* Every action is such a step.                                            *)
(***************************************************************************)
\* What is acknowledged to a node, or would be if it won now
AckRow(A, n, s) ==
    IF s.state = "Leader" THEN Row(A, s.term)
    ELSE [v \in DOMAIN A |-> IF v = n THEN s.persisted ELSE A[v][s.term]]

\* What is committed is a log that fits.
LEMMA ChosenFits ==
    ASSUME NEW K, NEW L, NEW G, MatchInv(K, L, G), NEW A, ChosenSafe(K, chosen, G, A)
    PROVE  chosen \in Seq(NEntry) /\ \E T \in Nat : Fits(G, T, chosen)
  <1>1. chosen \in Seq(NEntry)
    BY DEF ChosenSafe
  <1>2. CASE chosen = <<>>
    <2>1. Fits(G, 0, chosen)
      BY <1>2 DEF Fits
    <2> QED BY <1>1, <2>1
  <1>3. CASE chosen # <<>>
    <2>1. PICK t \in Nat : SamePrefix(chosen, G[t], Len(chosen))
      BY <1>3 DEF ChosenSafe
    <2>2. Fits(G, t, G[t]) /\ G[t] \in Seq(NEntry)
      BY DEF MatchInv, Logs
    <2>3. Fits(G, t, chosen)
      BY <1>1, <2>1, <2>2, FitsPrefix
    <2> QED BY <1>1, <2>3
  <1> QED BY <1>2, <1>3

\* Every node is sound.
LEMMA SafeSound ==
    ASSUME NEW K, NEW L, Inv(K, L), NEW G, MatchInv(K, L, G), NEW A, Safe(K, L, node, disk, net, chosen, G, A),
           NEW n \in K.progress
    PROVE  Sound(G, chosen, A[n], node[n])
  <1> DEFINE s == node[n]
             d == disk[n]
             T == s.term
             h == A[n]
             x == h[T]
  <1>1. IsRaft(s)
    BY NodeOK
  <1>2. G \in Logs /\ (\A y \in Nat : Fits(G, y, G[y]))
    BY DEF MatchInv
  <1>3. chosen \in Seq(NEntry) /\ \E y \in Nat : Fits(G, y, chosen)
    <2>1. ChosenSafe(K, chosen, G, A)
      BY DEF Safe
    <2> QED BY <2>1, ChosenFits
  <1>4. /\ SamePrefix(d.log, s.log, Len(d.log)) /\ d.log \in Seq(NEntry) /\ s.log \in Seq(NEntry) /\ Fits(G, T, s.log)
        /\ Len(d.log) = s.persisted /\ T \in Nat
    BY DiskPrefix
  <1>5. A \in [K.progress -> [Nat -> Nat]]
    BY DEF Safe
  <1>6. h \in [Nat -> Nat]
    BY <1>5
  <1>7. x \in Nat
    BY <1>4, <1>6
  <1>8. AckedOK(G, h, d, T) /\ StoreOK(chosen, s, d)
    BY DEF Safe
  <1>9. \A y \in Nat : y > T => h[y] = 0
    <2>1. SUFFICES ASSUME NEW y \in Nat, y > T PROVE h[y] = 0
      OBVIOUS
    <2>2. h[y] > 0 => y <= T
      BY <1>8 DEF AckedOK
    <2>3. h[y] \in Nat
      BY <1>6
    <2> HIDE DEF h, T
    <2> QED BY <2>1, <2>2, <2>3, <1>4
  <1>10. /\ x <= Len(d.log) /\ (SamePrefix(d.log, G[T], x) \/ x <= d.commit)
    BY <1>8 DEF AckedOK
  <1>11. /\ SamePrefix(s.log, chosen, s.committed) /\ Trimmed(s) /\ s.pending_request_snapshot = 0
         /\ d.commit <= s.committed
    BY <1>8 DEF StoreOK
  <1>12. d.commit \in Nat
    <2>1. NodeInv(K, n)
      BY DEF Inv
    <2> QED BY <2>1 DEF NodeInv
  <1>13. Len(d.log) \in Nat /\ Len(s.log) \in Nat /\ Len(d.log) <= Len(s.log) /\ G[T] \in Seq(NEntry) /\ Len(G[T]) \in Nat
    <2>1. G[T] \in Seq(NEntry)
      BY <1>2, <1>4 DEF Logs
    <2> QED BY <1>4, <2>1 DEF SamePrefix
  <1>14. s.committed \in Nat /\ s.applied \in Nat /\ s.applied <= s.committed /\ s.first \in Nat /\ s.snap \in Nat
    BY <1>1, LogTypes
  <1> HIDE DEF s, d, T, h, x
  <1>15. x <= Len(s.log) /\ (SamePrefix(s.log, G[T], x) \/ x <= s.committed)
    BY <1>4, <1>7, <1>10, <1>11, <1>12, <1>13, <1>14 DEF SamePrefix
  <1>16. Tidy(s)
    BY <1>11, <1>14 DEF Tidy, Trimmed
  <1>17. T = s.term /\ x = h[T]
    BY DEF T, x
  <1> HIDE DEF T, x
  <1>18. Sound(G, chosen, h, s)
    BY <1>1, <1>2, <1>3, <1>4, <1>6, <1>9, <1>11, <1>15, <1>16, <1>17 DEF Sound
  <1> QED BY <1>18 DEF h, s

\* Every node is ready to step.
LEMMA SafeReady ==
    ASSUME NEW K, NEW L, Inv(K, L), NEW G, MatchInv(K, L, G), NEW A, Safe(K, L, node, disk, net, chosen, G, A),
           NEW n \in K.progress
    PROVE  Ready(net, L, G, chosen, A[n], AckRow(A, n, node[n]), node[n])
  <1> DEFINE s == node[n]
             a == AckRow(A, n, s)
  <1>1. Sound(G, chosen, A[n], s)
    BY SafeSound
  <1>2. IsRaft(s) /\ s.msgs = {} /\ VotesOK(net, L, s) /\ s.conf = K /\ s.id = n
    BY NodeOK
  <1>3. A \in [K.progress -> [Nat -> Nat]] /\ Trimmed(s) /\ LeadOK(A, n, s)
    BY DEF Safe, StoreOK
  <1>4. Row(A, s.term) \in [K.progress -> Nat]
    <2>1. s.term \in Nat
      BY <1>2, LogTypes
    <2>2. \A v \in K.progress : A[v] \in [Nat -> Nat]
      BY <1>3
    <2>3. \A v \in K.progress : A[v][s.term] \in Nat
      BY <2>1, <2>2
    <2> QED BY <1>3, <2>3 DEF Row
  <1>5. s.persisted \in Nat
    BY <1>2, LogTypes
  <1>6. s.state # "Leader" => a \in [K.progress -> Nat] /\ a[n] = s.persisted
    BY <1>3, <1>4, <1>5 DEF AckRow, Row
  <1>7. s.state \notin {"Follower", "Leader"} => Electable(a, s)
    <2>1. SUFFICES ASSUME s.state \notin {"Follower", "Leader"} PROVE Electable(a, s)
      OBVIOUS
    <2>2. a \in [s.conf.progress -> Nat] /\ a[s.id] = s.persisted
      BY <2>1, <1>2, <1>6
    <2> HIDE DEF a, s
    <2> QED BY <2>2, <1>2, <1>3, <1>5 DEF Electable
  <1>8. s.state = "Leader" => Leads(a, s.committed, s)
    BY <1>3 DEF LeadOK, AckRow
  <1> HIDE DEF a, s
  <1>9. Ready(net, L, G, chosen, A[n], a, s)
    BY <1>1, <1>2, <1>7, <1>8 DEF Ready
  <1> QED BY <1>9 DEF a, s

\* What a Ready leaves, field by field: only what is persisted and applied moves on.
LEMMA DoneFields ==
    ASSUME NEW t, IsRaft(t), NEW u, u = Done(t)
    PROVE  /\ IsRaft(u) /\ u.id = t.id /\ u.conf = t.conf /\ u.term = t.term /\ u.state = t.state /\ u.log = t.log
           /\ u.first = t.first /\ u.snap = t.snap /\ u.committed = t.committed /\ t.applied <= u.applied
           /\ u.pending_request_snapshot = t.pending_request_snapshot /\ u.reads = t.reads /\ u.prs = t.prs
           /\ u.msgs = {} /\ u.persisted = (IF t.state = "Leader" THEN t.persisted ELSE Len(t.log))
           /\ t.state # "Leader" => u.snap <= u.applied
  <1> DEFINE x == IF t.state = "Leader" THEN t ELSE Persisted(t)
             y == Applied(x)
  <1>1. u = [y EXCEPT !.msgs = {}, !.read_states = {}]
    BY DEF Done
  <1>2. IsRaft(Persisted(t))
    BY PersistedRaft
  <1>3. IsRaft(x)
    BY <1>2
  <1>4. DOMAIN t = RaftFields /\ t.applied \in Nat /\ t.snap \in Nat
    BY DEF IsRaft
  <1>5. /\ x.id = t.id /\ x.conf = t.conf /\ x.term = t.term /\ x.state = t.state /\ x.log = t.log
        /\ x.first = t.first /\ x.snap = t.snap /\ x.committed = t.committed /\ t.applied <= x.applied
        /\ x.pending_request_snapshot = t.pending_request_snapshot /\ x.reads = t.reads /\ x.prs = t.prs
        /\ x.persisted = (IF t.state = "Leader" THEN t.persisted ELSE Len(t.log))
        /\ t.state # "Leader" => x.snap <= x.applied
    BY <1>4 DEF Persisted, RaftFields
  <1> HIDE DEF x
  <1>6. /\ DOMAIN x = RaftFields /\ x.applied \in Nat /\ x.committed \in Int /\ x.persisted \in Int
        /\ x.applied <= x.committed /\ x.applied <= x.persisted
    BY <1>3 DEF IsRaft
  <1> DEFINE p == MinOf({x.committed, x.persisted})
  <1>7. p \in Int /\ x.applied <= p
    BY <1>6, MinOfTwo
  <1> HIDE DEF p
  <1>8. y = x \/ y = [x EXCEPT !.applied = p]
    BY DEF Applied, p
  <1> HIDE DEF y
  <1>9. /\ DOMAIN y = RaftFields /\ y.id = x.id /\ y.conf = x.conf /\ y.term = x.term /\ y.state = x.state /\ y.log = x.log
        /\ y.first = x.first /\ y.snap = x.snap /\ y.committed = x.committed
        /\ y.pending_request_snapshot = x.pending_request_snapshot /\ y.reads = x.reads /\ y.prs = x.prs
        /\ y.persisted = x.persisted
    BY <1>6, <1>8 DEF RaftFields
  <1>10. y.applied = x.applied \/ y.applied = p
    BY <1>6, <1>8 DEF RaftFields
  <1>11. /\ u.id = y.id /\ u.conf = y.conf /\ u.term = y.term /\ u.state = y.state /\ u.log = y.log
         /\ u.first = y.first /\ u.snap = y.snap /\ u.committed = y.committed /\ u.applied = y.applied
         /\ u.pending_request_snapshot = y.pending_request_snapshot /\ u.reads = y.reads /\ u.prs = y.prs
         /\ u.persisted = y.persisted /\ u.msgs = {}
    BY <1>1, <1>9 DEF RaftFields
  <1>12. IsRaft(u)
    BY <1>1, <1>3, AppliedRaft DEF y
  <1>13. x.applied <= u.applied /\ u.applied \in Int /\ t.applied <= u.applied
    BY <1>4, <1>5, <1>6, <1>7, <1>10, <1>11
  <1>14. t.state # "Leader" => u.snap <= u.applied
    <2>1. x.snap \in Nat
      BY <1>3 DEF IsRaft
    <2> QED BY <2>1, <1>5, <1>6, <1>9, <1>11, <1>13
  <1> QED BY <1>5, <1>9, <1>11, <1>12, <1>13, <1>14

\* A leader goes on leading when its messages are sent and its entries are applied.
LEMMA LeadsDrained ==
    ASSUME NEW a, NEW c, NEW t, Leads(a, c, t), NEW u, IsRaft(u), u.conf = t.conf, u.term = t.term, u.state = t.state,
           u.log = t.log, u.committed = t.committed, Trimmed(u), u.msgs = {}, u.reads = t.reads, u.prs = t.prs,
           u.pending_request_snapshot = t.pending_request_snapshot
    PROVE  Leads(a, u.committed, u)
  <1>1. u.committed \in Nat
    BY DEF IsRaft
  <1>2. Queued(u)
    BY DEF Queued, Leads
  <1> QED BY <1>1, <1>2 DEF Leads

\* The log is not compacted past what is applied when more is applied.
LEMMA TrimmedMore ==
    ASSUME NEW t, IsRaft(t), Trimmed(t), NEW u, IsRaft(u), u.first = t.first, u.snap = t.snap, t.applied <= u.applied
    PROVE  Trimmed(u)
  <1>1. t.first \in Nat /\ t.snap \in Nat /\ t.applied \in Nat /\ u.applied \in Nat
    BY DEF IsRaft
  <1> QED BY <1>1 DEF Trimmed

\* A leader is the first to lead in its term, or leads already.
LEMMA NewLeader ==
    ASSUME NEW K, NEW L, Inv(K, L), Inv(K, L)', NEW G, MatchInv(K, L, G), NEW A, Safe(K, L, node, disk, net, chosen, G, A),
           NEW n, NEW s, NEW t, NEW u, Advances(K, L, G, n, s, t, u), t.state = "Leader", s.state # "Leader"
    PROVE  t.term = s.term /\ G[t.term] = <<>> /\ \A v \in K.progress : A[v][t.term] = 0
  <1>1. /\ n \in K.progress /\ s.term = node[n].term /\ s.state = node[n].state /\ node' = [node EXCEPT ![n] = u]
        /\ u.term = t.term /\ u.state = t.state /\ net' = net \cup t.msgs /\ DOMAIN node = K.progress
    BY DEF Advances, Inv
  <1>2. s.state = "Candidate" /\ t.term = s.term
    BY DEF Advances, Steps
  <1>3. FixedConf(K) /\ node'[n] = u /\ t.term \in Nat
    <2>1. IsRaft(node[n])
      BY <1>1, NodeOK
    <2> QED BY <2>1, <1>1, <1>2 DEF Inv, IsRaft
  <1>4. G[t.term] = <<>>
    <2>1. SUFFICES ASSUME G[t.term] # <<>> PROVE FALSE
      OBVIOUS
    <2>2. PICK c : Owned(K, L, c, t.term)
      BY <2>1, <1>3 DEF MatchInv
    <2>3. c \in K.progress /\ Backed(net, L, K, c, t.term) /\ (node[c].term = t.term => node[c].state # "Candidate")
      BY <2>2 DEF Owned
    <2>4. Backed(net', L, K, c, t.term)
      <3>1. net \subseteq net'
        BY <1>1
      <3> QED BY <1>3, <2>3, <3>1, BackedMore
    <2>5. c = n
      BY <1>1, <1>3, <2>3, <2>4, LeaderAlone
    <2> QED BY <1>1, <1>2, <2>3, <2>5
  <1>5. ASSUME NEW v \in K.progress PROVE A[v][t.term] = 0
    <2>1. AckedOK(G, A[v], disk[v], node[v].term) /\ A[v] \in [Nat -> Nat]
      BY DEF Safe
    <2>2. A[v][t.term] > 0 => G[t.term] # <<>>
      BY <2>1, <1>3 DEF AckedOK
    <2>3. A[v][t.term] \in Nat
      BY <2>1, <1>3
    <2> QED BY <2>2, <2>3, <1>4
  <1> QED BY <1>2, <1>4, <1>5

\* What ProcessReady does to disk and chosen.
LEMMA ReadyEffects ==
    ASSUME NEW K, NEW L, Inv(K, L), NEW n \in K.progress, NEW t, IsRaft(t), ProcessReady(n, t)
    PROVE  /\ t.state = "Leader" => disk'[n] = disk[n]
           /\ t.state # "Leader" => disk'[n].log = t.log /\ disk'[n].commit = t.committed
           /\ chosen' = IF t.committed > Len(chosen) THEN SubSeq(t.log, 1, t.committed) ELSE chosen
  <1> DEFINE x == IF t.state = "Leader" THEN t ELSE Persisted(t)
             y == Applied(x)
  <1>1. /\ disk' = (IF t.state = "Leader" THEN disk ELSE [disk EXCEPT ![n] = Synced(t)])
        /\ chosen' = (IF y.committed > Len(chosen) THEN SubSeq(y.log, 1, y.committed) ELSE chosen)
    BY DEF ProcessReady, Publish
  <1>2. DOMAIN disk = K.progress
    BY DEF Inv
  <1>3. x.log = t.log /\ x.committed = t.committed /\ DOMAIN x = RaftFields
    BY DEF Persisted, IsRaft, RaftFields
  <1> HIDE DEF x
  <1>4. y.log = x.log /\ y.committed = x.committed
    BY <1>3 DEF Applied, RaftFields
  <1> HIDE DEF y
  <1>5. chosen' = IF t.committed > Len(chosen) THEN SubSeq(t.log, 1, t.committed) ELSE chosen
    BY <1>1, <1>3, <1>4
  <1>6. t.state # "Leader" => disk'[n] = Synced(t)
    BY <1>1, <1>2
  <1>7. t.state # "Leader" => disk'[n].log = t.log /\ disk'[n].commit = t.committed
    BY <1>6 DEF Synced
  <1> QED BY <1>1, <1>5, <1>7

\* A step whose Ready is processed, in a state in which the invariants hold
Steppable(K, L, G, A, n, t) ==
    /\ Inv(K, L) /\ MatchInv(K, L, G) /\ Safe(K, L, node, disk, net, chosen, G, A) /\ n \in K.progress
    /\ Steps(net, L, node[n], t) /\ Moves(G, node[n], t) /\ ProcessReady(n, t)
    /\ Outcome(net, G, chosen, A[n], AckRow(A, n, node[n]), node[n], t)

\* What a node n with the disk d, that has acknowledged h, is before it steps
AtRest(K, G, h, n, s, d) ==
    /\ IsRaft(s) /\ s.id = n /\ s.conf = K /\ s.msgs = {} /\ Trimmed(s) /\ s.pending_request_snapshot = 0
    /\ d.commit \in Nat /\ d.commit <= s.committed /\ d.commit <= Len(d.log)
    /\ s.first <= d.commit \/ s.first = s.snap + 1
    /\ SamePrefix(d.log, s.log, Len(d.log)) /\ d.log \in Seq(NEntry) /\ Len(d.log) = s.persisted
    /\ s.committed \in Nat /\ s.first \in Nat /\ s.snap \in Nat /\ s.log \in Seq(NEntry)
    /\ s.term \in Nat /\ (\A x \in Nat : h[x] \in Nat /\ G[x] \in Seq(NEntry))

\* Every node is.
LEMMA SafeAtRest ==
    ASSUME NEW K, NEW L, Inv(K, L), NEW G, MatchInv(K, L, G), NEW A, Safe(K, L, node, disk, net, chosen, G, A),
           NEW n \in K.progress
    PROVE  AtRest(K, G, A[n], n, node[n], disk[n])
  <1>1. NodeInv(K, n) /\ StoreOK(chosen, node[n], disk[n]) /\ A[n] \in [Nat -> Nat] /\ G \in [Nat -> Seq(NEntry)]
    BY DEF Inv, Safe, MatchInv, Logs
  <1>2. SamePrefix(disk[n].log, node[n].log, Len(disk[n].log))
    BY DiskPrefix
  <1> DEFINE s == node[n]
             d == disk[n]
  <1>3. /\ IsRaft(s) /\ s.id = n /\ s.conf = K /\ s.msgs = {} /\ d.commit \in Nat /\ d.log \in Seq(NEntry)
        /\ Len(d.log) = s.persisted
    BY <1>1 DEF NodeInv
  <1>4. /\ s.committed \in Nat /\ s.first \in Nat /\ s.snap \in Nat /\ s.log \in Seq(NEntry) /\ s.term \in Nat
    BY <1>3 DEF IsRaft
  <1>5. /\ Trimmed(s) /\ s.pending_request_snapshot = 0 /\ d.commit <= s.committed /\ d.commit <= Len(d.log)
        /\ s.first <= d.commit \/ s.first = s.snap + 1
    BY <1>1 DEF StoreOK
  <1>6. \A x \in Nat : A[n][x] \in Nat /\ G[x] \in Seq(NEntry)
    BY <1>1
  <1> QED BY <1>2, <1>3, <1>4, <1>5, <1>6 DEF AtRest

\* A node that does not lead after its step goes on.
LEMMA FollowerGoes ==
    ASSUME NEW K, NEW L, NEW G, NEW A, NEW n, NEW t, Steppable(K, L, G, A, n, t), t.state # "Leader"
    PROVE  \E A2, b : Goes(K, L, G, G, A, A2, n, node[n], t, Done(t), b)
  <1> DEFINE s == node[n]
             u == Done(t)
             d == disk[n]
             T == t.term
             h == A[n]
  <1>0. /\ Inv(K, L) /\ MatchInv(K, L, G) /\ Safe(K, L, node, disk, net, chosen, G, A) /\ n \in K.progress
        /\ Steps(net, L, s, t) /\ Moves(G, s, t) /\ ProcessReady(n, t) /\ Obey(net, G, chosen, h, s, t)
    BY DEF Steppable, Outcome
  <1>1. PICK b : Obeys(net, G, chosen, h, s, t, b)
    BY <1>0 DEF Obey
  <1>2. Advances(K, L, G, n, s, t, u)
    BY <1>0, ReadyAdvances
  <1>3. IsRaft(t)
    BY <1>1 DEF Obeys
  <1>4. /\ IsRaft(u) /\ u.first = t.first /\ u.snap = t.snap /\ u.committed = t.committed /\ t.applied <= u.applied
        /\ u.pending_request_snapshot = t.pending_request_snapshot /\ u.snap <= u.applied
    BY <1>3, DoneFields
  <1>5. /\ disk'[n].log = t.log /\ disk'[n].commit = t.committed
        /\ chosen' = IF t.committed > Len(chosen) THEN SubSeq(t.log, 1, t.committed) ELSE chosen
    BY <1>0, <1>3, ReadyEffects
  <1>6. /\ IsRaft(s) /\ s.msgs = {} /\ Trimmed(s) /\ s.pending_request_snapshot = 0
        /\ d.commit \in Nat /\ d.commit <= s.committed /\ d.commit <= Len(d.log)
        /\ s.first <= d.commit \/ s.first = s.snap + 1
        /\ SamePrefix(d.log, s.log, Len(d.log)) /\ d.log \in Seq(NEntry)
        /\ s.committed \in Nat /\ s.first \in Nat /\ s.snap \in Nat /\ s.log \in Seq(NEntry)
        /\ (\A x \in Nat : h[x] \in Nat /\ G[x] \in Seq(NEntry))
    BY <1>0, SafeAtRest DEF AtRest
  <1>7. /\ b \in Nat /\ h[T] <= b /\ b <= Len(t.log) /\ (SamePrefix(t.log, G[T], b) \/ b <= t.committed)
        /\ b > h[T] => G[T] # <<>>
        /\ s.committed <= t.committed /\ SamePrefix(t.log, chosen, t.committed) /\ Tidy(t)
        /\ t.log = s.log \/ Kept(G[T], s.log, t.log)
        /\ \/ t.first = s.first /\ t.snap = s.snap /\ (t.applied = s.applied \/ t.applied > s.applied)
           \/ t.first = t.snap + 1
        /\ \A m \in t.msgs \ s.msgs : Replies(net, chosen, b, t, m)
    BY <1>1 DEF Obeys
  <1> HIDE DEF s, u, d, h
  <1>8. T \in Nat /\ t.log \in Seq(NEntry) /\ t.committed \in Nat /\ t.first \in Nat /\ t.snap \in Nat /\ t.applied \in Nat
    BY <1>3 DEF IsRaft
  <1>9. t.committed <= Len(t.log)
    BY <1>7 DEF SamePrefix
  <1>10. Trimmed(u)
    <2>1. CASE t.first = s.first /\ t.snap = s.snap /\ (t.applied = s.applied \/ t.applied > s.applied)
      <3>1. s.applied \in Nat /\ s.applied <= t.applied
        BY <2>1, <1>6, <1>8 DEF IsRaft
      <3>2. Trimmed(t)
        BY <2>1, <3>1, <1>3, <1>6, TrimmedMore
      <3> QED BY <3>2, <1>3, <1>4, TrimmedMore
    <2>2. CASE t.first = t.snap + 1
      BY <2>2, <1>4 DEF Trimmed
    <2> QED BY <2>1, <2>2, <1>7
  <1>11. u.first <= t.committed \/ u.first = u.snap + 1
    <2>1. CASE t.first = s.first /\ t.snap = s.snap
      BY <2>1, <1>4, <1>6, <1>7, <1>8
    <2>2. CASE t.first = t.snap + 1
      BY <2>2, <1>4
    <2> QED BY <2>1, <2>2, <1>7
  <1>12. SamePrefix(d.log, t.log, Len(d.log)) \/ Kept(G[T], d.log, t.log)
    <2>1. CASE t.log = s.log
      BY <2>1, <1>6
    <2>2. CASE Kept(G[T], s.log, t.log)
      <3>1. G[T] # <<>> /\ \A i \in Nat : SamePrefix(s.log, G[T], i) => SamePrefix(t.log, G[T], i)
        BY <2>2 DEF Kept
      <3>2. ASSUME NEW i \in Nat, SamePrefix(d.log, G[T], i) PROVE SamePrefix(t.log, G[T], i)
        <4>1. G[T] \in Seq(NEntry)
          BY <1>6, <1>8
        <4>2. Len(d.log) \in Nat /\ Len(s.log) \in Nat /\ Len(G[T]) \in Nat
          BY <1>6, <4>1
        <4>3. SamePrefix(s.log, G[T], i)
          BY <3>2, <4>2, <1>6 DEF SamePrefix
        <4> QED BY <4>3, <3>1
      <3> QED BY <3>1, <3>2 DEF Kept
    <2> QED BY <2>1, <2>2, <1>7
  <1> DEFINE A2 == [A EXCEPT ![n] = [A[n] EXCEPT ![T] = b]]
  <1>13. A2 = [A EXCEPT ![n] = [A[n] EXCEPT ![T] = b]]
    OBVIOUS
  <1> HIDE DEF A2
  <1>14. A[n][T] <= b /\ (b > A[n][T] => G[T] # <<>>) /\ b \in Nat
    BY <1>7 DEF h
  <1>15. b <= Len(disk'[n].log) /\ (SamePrefix(disk'[n].log, G[T], b) \/ b <= disk'[n].commit)
    BY <1>5, <1>7
  <1>16. SamePrefix(disk[n].log, disk'[n].log, Len(disk[n].log)) \/ Kept(G[T], disk[n].log, disk'[n].log)
    BY <1>5, <1>12 DEF d
  <1>17. u.pending_request_snapshot = 0
    BY <1>4, <1>7 DEF Tidy
  <1>18. \A m \in t.msgs : Replies(net, chosen, b, t, m)
    BY <1>6, <1>7
  <1>19. node[n].committed <= t.committed
    BY <1>7 DEF s
  <1>20. u.first <= disk'[n].commit \/ u.first = u.snap + 1
    BY <1>5, <1>11
  <1>21. disk'[n].commit <= u.committed /\ disk'[n].commit <= Len(disk'[n].log)
    BY <1>4, <1>5, <1>8, <1>9
  <1>22. Goes(K, L, G, G, A, A2, n, s, t, u, b)
    BY <1>2, <1>4, <1>5, <1>7, <1>9, <1>10, <1>13, <1>14, <1>15, <1>16, <1>17, <1>18, <1>19, <1>20, <1>21 DEF Goes
  <1> QED BY <1>22 DEF s, u

\* A leader, old or new, goes on.
LEMMA LeaderGoes ==
    ASSUME NEW K, NEW L, NEW G, NEW A, NEW n, NEW t, Steppable(K, L, G, A, n, t), t.state = "Leader"
    PROVE  \E G2, A2, b : Goes(K, L, G, G2, A, A2, n, node[n], t, Done(t), b)
  <1> DEFINE s == node[n]
             u == Done(t)
             d == disk[n]
             T == t.term
             h == A[n]
             b == IF s.state = "Leader" THEN h[T] ELSE s.persisted
             a == AckRow(A, n, s)
             G2 == [G EXCEPT ![T] = t.log]
             A2 == [A EXCEPT ![n] = [A[n] EXCEPT ![T] = b]]
  <1>0. /\ Inv(K, L) /\ MatchInv(K, L, G) /\ Safe(K, L, node, disk, net, chosen, G, A) /\ n \in K.progress
        /\ Steps(net, L, s, t) /\ Moves(G, s, t) /\ ProcessReady(n, t) /\ Leads(a, s.committed, t)
    BY DEF Steppable, Outcome
  <1>1. Inv(K, L)'
    BY <1>0, ProcessReadyInv
  <1>2. Advances(K, L, G, n, s, t, u)
    BY <1>0, ReadyAdvances
  <1>3. IsRaft(t)
    BY <1>0 DEF Steps
  <1>4. /\ IsRaft(u) /\ u.conf = t.conf /\ u.term = t.term /\ u.state = t.state /\ u.log = t.log
        /\ u.first = t.first /\ u.snap = t.snap /\ u.committed = t.committed /\ t.applied <= u.applied
        /\ u.pending_request_snapshot = t.pending_request_snapshot /\ u.reads = t.reads /\ u.prs = t.prs
        /\ u.msgs = {} /\ u.persisted = t.persisted
    BY <1>3, DoneFields
  <1>5. /\ disk'[n] = disk[n]
        /\ chosen' = IF t.committed > Len(chosen) THEN SubSeq(t.log, 1, t.committed) ELSE chosen
    BY <1>0, <1>3, ReadyEffects
  <1>6. /\ IsRaft(s) /\ s.msgs = {} /\ Trimmed(s) /\ s.pending_request_snapshot = 0
        /\ d.commit \in Nat /\ d.commit <= s.committed /\ d.commit <= Len(d.log)
        /\ s.first <= d.commit \/ s.first = s.snap + 1
        /\ SamePrefix(d.log, s.log, Len(d.log)) /\ d.log \in Seq(NEntry) /\ Len(d.log) = s.persisted
        /\ s.committed \in Nat /\ s.first \in Nat /\ s.snap \in Nat /\ s.log \in Seq(NEntry)
        /\ (\A x \in Nat : h[x] \in Nat /\ G[x] \in Seq(NEntry))
    BY <1>0, SafeAtRest DEF AtRest
  <1>7. /\ t.term = s.term /\ t.persisted = s.persisted /\ t.snap = s.snap /\ t.first = s.first
        /\ s.state \in {"Candidate", "Leader"}
    BY <1>0 DEF Steps
  <1>8. /\ t.committed <= Len(t.log) /\ s.committed <= t.committed /\ Trimmed(t) /\ t.pending_request_snapshot = 0
    <2>1. t.committed \in Nat
      BY <1>3 DEF IsRaft
    <2> QED BY <2>1, <1>0 DEF Leads
  <1>9. A \in [K.progress -> [Nat -> Nat]] /\ AckedOK(G, h, d, s.term) /\ LeadOK(A, n, s)
    BY <1>0 DEF Safe
  <1>10. T \in Nat /\ t.log \in Seq(NEntry) /\ s.persisted \in Nat
    BY <1>3, <1>6 DEF IsRaft
  <1>11. s.state # "Leader" => G[T] = <<>> /\ h[T] = 0
    BY <1>0, <1>1, <1>2, NewLeader
  <1>12. h[T] \in Nat /\ b \in Nat /\ h[T] <= b
    BY <1>6, <1>10, <1>11
  <1>13. Len(d.log) \in Nat /\ Len(s.log) \in Nat
    BY <1>6
  <1>14. SamePrefix(s.log, t.log, Len(s.log))
    <2>1. t.log = s.log \/ \E e \in NEntry : t.log = Append(s.log, e)
      BY <1>0 DEF Moves
    <2>2. s.log \in Seq(NEntry)
      BY <1>6
    <2> HIDE DEF s
    <2> QED BY <2>1, <2>2 DEF SamePrefix
  <1>15. t.log # <<>>
    <2>1. CASE s.state = "Leader" /\ t.log = s.log
      BY <2>1, <1>9 DEF LeadOK
    <2>2. CASE \E e \in NEntry : t.log = Append(s.log, e)
      <3>1. PICK e \in NEntry : t.log = Append(s.log, e)
        BY <2>2
      <3>2. Len(t.log) = Len(s.log) + 1
        BY <3>1, <1>6
      <3> QED BY <3>2, <1>13
    <2> QED BY <2>1, <2>2, <1>0 DEF Moves
  <1>16. Row(A2, T) = a
    <2>1. /\ Row(A2, T) = [v \in K.progress |-> IF v = n THEN b ELSE A[v][T]] /\ (b = A[n][T] => Row(A2, T) = Row(A, T))
      <3> DEFINE P == K.progress
      <3>1. A \in [P -> [Nat -> Nat]]
        BY <1>9
      <3>3. n \in P
        BY <1>0
      <3>4. T \in Nat
        BY <1>10
      <3>5. b \in Nat
        BY <1>12
      <3>2. DOMAIN A2 = P /\ A2[n][T] = b /\ \A v \in P : v # n => A2[v] = A[v]
        <4>1. h \in [Nat -> Nat]
          BY <3>1, <3>3
        <4> HIDE DEF P, b, T
        <4> QED BY <4>1, <3>1, <3>3, <3>4
      <3> HIDE DEF A2, b, T, P
      <3>6. Row(A2, T) = [v \in P |-> A2[v][T]] /\ Row(A, T) = [v \in P |-> A[v][T]]
        BY <3>1, <3>2 DEF Row
      <3>7. \A v \in P : A2[v][T] = IF v = n THEN b ELSE A[v][T]
        BY <3>2
      <3>8. Row(A2, T) = [v \in P |-> IF v = n THEN b ELSE A[v][T]]
        BY <3>6, <3>7
      <3>9. b = A[n][T] => Row(A2, T) = Row(A, T)
        BY <3>6, <3>7
      <3> QED BY <3>8, <3>9 DEF P
    <2> QED BY <2>1, <1>7, <1>9 DEF AckRow
  <1>17. G2[T] = t.log
    BY <1>0, <1>10 DEF MatchInv, Logs
  <1>18. b <= Len(d.log) /\ (SamePrefix(d.log, t.log, b) \/ b <= d.commit)
    <2>1. CASE s.state = "Leader"
      <3>1. s.log = G[T]
        BY <2>1, <1>0, <1>7 DEF MatchInv, LogInv
      <3>2. h[T] <= Len(d.log) /\ (SamePrefix(d.log, G[T], h[T]) \/ h[T] <= d.commit)
        BY <1>7, <1>9 DEF AckedOK
      <3>3. b = h[T]
        BY <2>1
      <3>4. Len(t.log) \in Nat
        BY <1>10
      <3> HIDE DEF h, d, s, b
      <3> QED BY <3>1, <3>2, <3>3, <3>4, <1>12, <1>13, <1>14 DEF SamePrefix
    <2>2. CASE s.state # "Leader"
      <3>1. b = Len(d.log)
        BY <2>2, <1>6
      <3>2. Len(t.log) \in Nat
        BY <1>10
      <3> HIDE DEF d, s, b
      <3> QED BY <3>1, <3>2, <1>6, <1>13, <1>14 DEF SamePrefix
    <2> QED BY <2>1, <2>2
  <1>19. u.persisted <= b
    <2>1. CASE s.state = "Leader"
      <3>1. s.persisted <= A[n][s.term]
        BY <2>1, <1>9 DEF LeadOK
      <3> QED BY <2>1, <3>1, <1>4, <1>7
    <2>2. CASE s.state # "Leader"
      BY <2>2, <1>4, <1>7, <1>10
    <2> QED BY <2>1, <2>2
  <1> HIDE DEF u, d, h, b, a
  <1>20. Trimmed(u)
    BY <1>3, <1>4, <1>8, TrimmedMore
  <1>21. Leads(a, u.committed, u)
    BY <1>0, <1>4, <1>20, LeadsDrained
  <1>22. A[n][T] <= b /\ (b > A[n][T] => G2[T] # <<>>) /\ b \in Nat
    BY <1>12, <1>15, <1>17 DEF h
  <1>23. b <= Len(disk'[n].log) /\ (SamePrefix(disk'[n].log, G2[T], b) \/ b <= disk'[n].commit)
    BY <1>5, <1>17, <1>18 DEF d
  <1>24. SamePrefix(disk[n].log, disk'[n].log, Len(disk[n].log))
    BY <1>5, <1>6, <1>13 DEF SamePrefix, d
  <1>25. u.first <= disk'[n].commit \/ u.first = u.snap + 1
    BY <1>4, <1>5, <1>6, <1>7 DEF d
  <1>26. disk'[n].commit <= u.committed /\ disk'[n].commit <= Len(disk'[n].log)
    <2>1. t.committed \in Nat
      BY <1>3 DEF IsRaft
    <2> QED BY <2>1, <1>4, <1>5, <1>6, <1>8 DEF d
  <1>27. Leads(Row(A2, T), node[n].committed, t) /\ Leads(Row(A2, T), u.committed, u)
    BY <1>0, <1>16, <1>21
  <1>28. G2 = [G EXCEPT ![T] = t.log] /\ A2 = [A EXCEPT ![n] = [A[n] EXCEPT ![T] = b]]
    OBVIOUS
  <1>29. node[n].committed <= t.committed /\ t.committed <= Len(t.log) /\ u.committed = t.committed
         /\ u.pending_request_snapshot = 0
    BY <1>4, <1>8
  <1> HIDE DEF G2, A2
  <1>30. Goes(K, L, G, G2, A, A2, n, s, t, u, b)
    BY <1>2, <1>5, <1>19, <1>20, <1>22, <1>23, <1>24, <1>25, <1>26, <1>27, <1>28, <1>29 DEF Goes
  <1> QED BY <1>30 DEF u

\* What is committed is only ever extended, by what the one node that steps takes for
\* committed.
ChosenStep(K) ==
    /\ SamePrefix(chosen, chosen', Len(chosen))
    /\ \E n \in K.progress : /\ chosen' \in {chosen, SubSeq(node'[n].log, 1, node'[n].committed)}
                              /\ \A k \in K.progress \ {n} : node'[k] = node[k]

\* The invariants hold in the next state, for some logs and acknowledgements.
SafeNext(K, L) ==
    /\ Inv(K, L)' /\ ChosenStep(K)
    /\ \E G2, A2 : MatchInv(K, L, G2)' /\ Safe(K, L, node', disk', net', chosen', G2, A2)

\* A step keeps the invariants.
LEMMA GoesSafe ==
    ASSUME NEW K, NEW L, Inv(K, L), Inv(K, L)', NEW G, MatchInv(K, L, G), NEW A, Safe(K, L, node, disk, net, chosen, G, A),
           NEW G2, NEW A2, NEW n, NEW s, NEW t, NEW u, NEW b, Goes(K, L, G, G2, A, A2, n, s, t, u, b)
    PROVE  SafeNext(K, L)
  <1>1. Advances(K, L, G, n, s, t, u) /\ (IF t.state = "Leader" THEN G2 = [G EXCEPT ![t.term] = t.log] ELSE G2 = G)
    BY DEF Goes
  <1>2. MatchInv(K, L, G2)'
    BY <1>1, NodeStepMatch
  <1>3. Going(K, L, G, G2, A, A2, n, s, t, u, b)
    BY <1>2 DEF Going
  <1>4. Safe(K, L, node', disk', net', chosen', G2, A2)
    BY <1>3, GoingSafe
  <1>5. ChosenStep(K)
    <2>1. SamePrefix(chosen, chosen', Len(chosen))
      BY <1>3, GoingChosen
    <2>2. n \in K.progress /\ node'[n] = u /\ u.log = t.log /\ \A k \in K.progress \ {n} : node'[k] = node[k]
      BY <1>3, GoingFrame
    <2>3. u.committed = t.committed /\ chosen' \in {chosen, SubSeq(t.log, 1, t.committed)}
      BY DEF Goes
    <2> QED BY <2>1, <2>2, <2>3 DEF ChosenStep
  <1> QED BY <1>2, <1>4, <1>5 DEF SafeNext

\* A step whose Ready is processed keeps the invariants.
LEMMA SteppableSafe ==
    ASSUME NEW K, NEW L, NEW G, NEW A, NEW n, NEW t, Steppable(K, L, G, A, n, t)
    PROVE  SafeNext(K, L)
  <1>1. /\ Inv(K, L) /\ MatchInv(K, L, G) /\ Safe(K, L, node, disk, net, chosen, G, A) /\ n \in K.progress
        /\ Steps(net, L, node[n], t) /\ ProcessReady(n, t)
    BY DEF Steppable
  <1>2. Inv(K, L)'
    BY <1>1, ProcessReadyInv
  <1>3. CASE t.state = "Leader"
    BY <1>1, <1>2, <1>3, LeaderGoes, GoesSafe
  <1>4. CASE t.state # "Leader"
    BY <1>1, <1>2, <1>4, FollowerGoes, GoesSafe
  <1> QED BY <1>3, <1>4

-----------------------------------------------------------------------------
\* The invariants of elections, of logs and of what is committed
Secure(K, L, G, A) == Inv(K, L) /\ MatchInv(K, L, G) /\ Safe(K, L, node, disk, net, chosen, G, A)

\* A node that may step
LEMMA SecureNode ==
    ASSUME NEW K, NEW L, NEW G, NEW A, Secure(K, L, G, A), NEW n \in K.progress
    PROVE  /\ IsRaft(node[n]) /\ node[n].id = n /\ node[n].conf = K /\ node[n].msgs = {} /\ VotesOK(net, L, node[n])
           /\ Sound(G, chosen, A[n], node[n])
           /\ Ready(net, L, G, chosen, A[n], AckRow(A, n, node[n]), node[n])
           /\ AtRest(K, G, A[n], n, node[n], disk[n])
           /\ node[n].state = "Leader" => Leads(AckRow(A, n, node[n]), node[n].committed, node[n])
  <1>1. Inv(K, L) /\ MatchInv(K, L, G) /\ Safe(K, L, node, disk, net, chosen, G, A)
    BY DEF Secure
  <1>2. Ready(net, L, G, chosen, A[n], AckRow(A, n, node[n]), node[n])
    BY <1>1, SafeReady
  <1>3. AtRest(K, G, A[n], n, node[n], disk[n])
    BY <1>1, SafeAtRest
  <1>4. IsRaft(node[n]) /\ node[n].id = n /\ node[n].conf = K /\ node[n].msgs = {} /\ VotesOK(net, L, node[n])
    BY <1>1, NodeOK
  <1> QED BY <1>2, <1>3, <1>4 DEF Ready

\* A method that stays in its term, or an election, and its Ready
LEMMA OutcomeSafe ==
    ASSUME NEW K, NEW L, NEW G, NEW A, Secure(K, L, G, A), NEW n \in K.progress,
           NEW t, Steps(net, L, node[n], t), Moves(G, node[n], t), ProcessReady(n, t),
           Outcome(net, G, chosen, A[n], AckRow(A, n, node[n]), node[n], t)
    PROVE  SafeNext(K, L)
  <1>1. Steppable(K, L, G, A, n, t)
    BY DEF Steppable, Secure
  <1> QED BY <1>1, SteppableSafe

\* A method that keeps role, term, votes and log, and its Ready
LEMMA KeepsSafe ==
    ASSUME NEW K, NEW L, NEW G, NEW A, Secure(K, L, G, A), NEW n \in K.progress,
           NEW t, Keeps(node[n], t), ProcessReady(n, t),
           Outcome(net, G, chosen, A[n], AckRow(A, n, node[n]), node[n], t)
    PROVE  SafeNext(K, L)
  <1>1. Steps(net, L, node[n], t) /\ Moves(G, node[n], t)
    BY SecureNode, KeepsSteps, KeepsMoves
  <1> QED BY <1>1, OutcomeSafe

\* RawNode::step of any message the node may be given.
LEMMA StepSafe ==
    ASSUME NEW K, NEW L, NEW G, NEW A, Secure(K, L, G, A), NEW n \in K.progress, NEW m,
           Receivable(net, node[n], m), Copies(G[m.term], m), Told(G, chosen, A[n], m),
           m.type = "MsgRequestVote" => m \in net,
           node[n].state = "Leader" /\ m.term \in {0, node[n].term} => Acks(Row(A, node[n].term), K, m),
           ProcessReady(n, Step(node[n], m))
    PROVE  SafeNext(K, L)
  <1> DEFINE t == Step(node[n], m)
             s == node[n]
             a == AckRow(A, n, s)
             h == A[n]
  <1>1. /\ IsRaft(s) /\ VotesOK(net, L, s) /\ Receivable(net, s, m) /\ s.conf = K /\ Sound(G, chosen, h, s)
        /\ Ready(net, L, G, chosen, h, a, s)
    BY SecureNode
  <1>2. Fitting(G, s, m)
    BY DEF Secure, Fitting, MatchInv, LogInv
  <1>3. Given(net, G, chosen, h, s, m)
    BY <1>1 DEF Given
  <1>4. s.state = "Leader" /\ m.term \in {0, s.term} => Acks(a, s.conf, m)
    BY <1>1 DEF AckRow
  <1>5. Steps(net, L, s, t) /\ Moves(G, s, t) /\ Outcome(net, G, chosen, h, a, s, t)
    <2> HIDE DEF s, a, h
    <2>1. t = Step(s, m)
      BY DEF s
    <2> HIDE DEF t
    <2>2. Steps(net, L, s, t) /\ Moves(G, s, t)
      BY <2>1, <1>1, <1>2, StepSteps, StepMoves
    <2>3. Outcome(net, G, chosen, h, a, s, t)
      BY <2>1, <1>1, <1>3, <1>4, StepOutcome
    <2> QED BY <2>2, <2>3
  <1> HIDE DEF t
  <1>6. ProcessReady(n, t)
    BY DEF t
  <1> QED BY <1>5, <1>6, OutcomeSafe

\* RawNode::propose and transfer_leader.
LEMMA CallSafe ==
    ASSUME NEW K, NEW L, NEW G, NEW A, Secure(K, L, G, A), NEW n \in K.progress,
           (\E v \in Value : Propose(n, v)) \/ (\E to : TransferLeader(n, to))
    PROVE  SafeNext(K, L)
  <1>1. CASE \E v \in Value : Propose(n, v)
    <2>1. PICK v \in Value : Propose(n, v)
      BY <1>1
    <2> DEFINE m == [type |-> "MsgPropose", from |-> n, to |-> n, term |-> 0, entry |-> NormalEntry(v)]
    <2>2. ProcessReady(n, Step(node[n], m))
      BY <2>1 DEF Propose, ProposeEntry
    <2>3. Receivable(net, node[n], m) /\ Copies(G[m.term], m)
      BY DEF Receivable, MsgOK, Sane, KnowsPeer, Responses, VoteResponses, FromLeader, NormalEntry, Copies
    <2>4. /\ Told(G, chosen, A[n], m) /\ Acks(Row(A, node[n].term), K, m) /\ m.type # "MsgRequestVote"
      BY DEF Told, Acks, VoteRequests, VoteResponses
    <2> HIDE DEF m
    <2> QED BY <2>2, <2>3, <2>4, StepSafe
  <1>2. CASE \E to : TransferLeader(n, to)
    <2>1. PICK to : TransferLeader(n, to)
      BY <1>2
    <2> DEFINE m == [type |-> "MsgTransferLeader", from |-> to, to |-> n, term |-> 0]
    <2>2. ProcessReady(n, Step(node[n], m))
      BY <2>1 DEF TransferLeader
    <2>3. Receivable(net, node[n], m) /\ Copies(G[m.term], m)
      BY DEF Receivable, MsgOK, Sane, KnowsPeer, Responses, VoteResponses, FromLeader, Copies
    <2>4. /\ Told(G, chosen, A[n], m) /\ Acks(Row(A, node[n].term), K, m) /\ m.type # "MsgRequestVote"
      BY DEF Told, Acks, VoteRequests, VoteResponses
    <2> HIDE DEF m
    <2> QED BY <2>2, <2>3, <2>4, StepSafe
  <1> QED BY <1>1, <1>2

\* Nobody is elected in term 0.
LEMMA NoTermZero ==
    ASSUME NEW K, NEW L, Inv(K, L), NEW c
    PROVE  ~Backed(net, L, K, c, 0)
  <1>1. \A m \in net : (m.type = "MsgRequestVote" => m.term > 0) /\ (IsGrant(m) => m.term > 0)
    BY DEF Inv, MsgOK, IsGrant
  <1>2. \A v : ~Voted(net, L, v, c, 0)
    BY <1>1 DEF Voted
  <1>3. {v \in K.incoming : Voted(net, L, v, c, 0)} = {}
    BY <1>2
  <1>4. Cardinality({}) = 0
    BY FS_EmptySet
  <1>5. IsFiniteSet(K.incoming)
    BY RaftAssumption, FS_Subset DEF Inv, FixedConf
  <1>6. Cardinality(K.incoming) \in Nat
    BY <1>5, FS_CardinalityType
  <1>7. Majority(Cardinality(K.incoming)) > 0 /\ Majority(Cardinality(K.incoming)) \in Nat
    BY <1>6 DEF Majority
  <1> QED BY <1>3, <1>4, <1>7 DEF Backed

\* A message that arrives.
LEMMA ReceiveSafe ==
    ASSUME NEW K, NEW L, NEW G, NEW A, Secure(K, L, G, A), NEW types, Receive(types)
    PROVE  SafeNext(K, L)
  <1>1. PICK m \in net : m.to \in Nodes /\ KnowsPeer(node[m.to], m) /\ ProcessReady(m.to, Step(node[m.to], m))
    BY DEF Receive
  <1> DEFINE n == m.to
             s == node[n]
  <1>2. n \in K.progress
    BY <1>1 DEF Nodes, Inv, Secure
  <1>3. s.id = n /\ s.conf = K /\ IsRaft(s)
    BY <1>2, SecureNode
  <1>4. Receivable(net, s, m) /\ Copies(G[m.term], m) /\ MsgOK(K, m)
    BY <1>1, <1>2, <1>3 DEF Receivable, Inv, MatchInv, Secure
  <1>5. /\ MsgSafe(K, node, chosen, G, A, m) /\ A \in [K.progress -> [Nat -> Nat]]
        /\ \A k \in K.progress : AckedOK(G, A[k], disk[k], node[k].term)
    BY DEF Safe, Secure
  <1>6. Told(G, chosen, A[n], m)
    BY <1>5 DEF MsgSafe
  <1>7. ASSUME s.state = "Leader", m.term \in {0, s.term} PROVE Acks(Row(A, s.term), K, m)
    <2> SUFFICES ASSUME m.type = "MsgAppendResponse", ~m.reject, m.from \in K.progress
                 PROVE  m.index <= Row(A, s.term)[m.from]
      BY DEF Acks
    <2>1. m.index <= A[m.from][m.term]
      BY <1>5 DEF MsgSafe
    <2>2. DOMAIN A = K.progress /\ Row(A, s.term)[m.from] = A[m.from][s.term]
      BY <1>5 DEF Row
    <2>3. CASE m.term = s.term
      BY <2>1, <2>2, <2>3
    <2>4. CASE m.term = 0
      <3>1. A[m.from][0] = 0
        <4>1. A[m.from] \in [Nat -> Nat]
          BY <1>5
        <4>2. A[m.from][0] > 0 => G[0] # <<>>
          BY <1>5 DEF AckedOK
        <4>3. G[0] = <<>>
          <5>1. G[0] # <<>> => \E c : Owned(K, L, c, 0)
            BY DEF MatchInv, Secure
          <5>2. \A c : ~Owned(K, L, c, 0)
            BY NoTermZero DEF Owned, Secure
          <5> QED BY <5>1, <5>2
        <4>4. A[m.from][0] \in Nat
          BY <4>1
        <4> QED BY <4>2, <4>3, <4>4
      <3>2. m.index \in Nat /\ A[m.from][s.term] \in Nat
        <4>1. A[m.from] \in [Nat -> Nat] /\ s.term \in Nat
          BY <1>3, <1>5 DEF IsRaft
        <4> QED BY <4>1, <1>4 DEF MsgOK
      <3> QED BY <2>1, <2>2, <2>4, <3>1, <3>2
    <2> QED BY <2>3, <2>4, <1>7
  <1> QED BY <1>1, <1>2, <1>4, <1>6, <1>7, StepSafe

\* Raft::hup does not make a leader.
LEMMA HupNoLeader ==
    ASSUME NEW s, IsRaft(s), s.state # "Leader", NEW transfer
    PROVE  Hup(s, transfer).state # "Leader"
  <1> DEFINE r == CampaignElection(s, transfer)
             q == CampaignPreElection(s)
  <1>1. r = CampaignElection(s, transfer) /\ q = CampaignPreElection(s)
    OBVIOUS
  <1>2. Hup(s, transfer) \in {s, q, r}
    BY DEF Hup
  <1> HIDE DEF r, q
  <1>3. r.state = "Candidate"
    BY <1>1, CampaignElectionFields
  <1>4. q.state = "PreCandidate"
    BY <1>1, CampaignPreElectionFields
  <1> QED BY <1>2, <1>3, <1>4

\* Raft::tick_election and RawNode::campaign.
LEMMA CampaignSafe ==
    ASSUME NEW K, NEW L, NEW G, NEW A, Secure(K, L, G, A), NEW n \in K.progress, ElectionTimeout(n) \/ Campaign(n)
    PROVE  SafeNext(K, L)
  <1> DEFINE no == FALSE
             s == node[n]
             e == [s EXCEPT !.expired = no]
             a == AckRow(A, n, s)
             h == A[n]
  <1>1. (ProcessReady(n, Hup(e, no)) /\ s.state # "Leader") \/ ProcessReady(n, Hup(s, no))
    BY DEF ElectionTimeout, Campaign
  <1> HIDE DEF no
  <1>2. IsRaft(s) /\ VotesOK(net, L, s) /\ Sound(G, chosen, h, s) /\ Ready(net, L, G, chosen, h, a, s)
    BY SecureNode
  <1>3. Keeps(s, e) /\ e.msgs = s.msgs
    <2> HIDE DEF s
    <2> QED BY <1>2, SetExpiredKeeps DEF IsRaft, RaftFields
  <1>4. CASE ProcessReady(n, Hup(s, no))
    <2> DEFINE t == Hup(s, no)
    <2>1. Steps(net, L, s, t) /\ Moves(G, s, t)
      BY <1>2, HupSteps, HupMoves
    <2>2. CASE s.state = "Leader"
      <3>1. t = s
        BY <2>2 DEF Hup
      <3>2. Outcome(net, G, chosen, h, a, s, s)
        BY <1>2, IdleOutcome
      <3>3. Outcome(net, G, chosen, h, a, s, t)
        BY <3>1, <3>2
      <3> HIDE DEF t
      <3> QED BY <1>4, <2>1, <3>3, OutcomeSafe DEF t
    <2>3. CASE s.state # "Leader"
      <3>1. Obey(net, G, chosen, h, s, t) /\ t.state # "Leader"
        <4> HIDE DEF s, h
        <4> QED BY <2>3, <1>2, HupObeys, HupNoLeader
      <3>2. Outcome(net, G, chosen, h, a, s, t)
        BY <3>1 DEF Outcome
      <3> QED BY <1>4, <2>1, <3>2, OutcomeSafe
    <2> QED BY <2>2, <2>3
  <1>5. CASE ProcessReady(n, Hup(e, no)) /\ s.state # "Leader"
    <2> DEFINE t == Hup(e, no)
    <2>0. /\ e.id = s.id /\ e.config = s.config /\ e.conf = s.conf /\ e.term = s.term /\ e.vote = s.vote
          /\ e.state = s.state /\ e.msgs = s.msgs /\ e.persisted = s.persisted /\ e.snap = s.snap /\ e.log = s.log
          /\ e.first = s.first /\ e.applied = s.applied /\ e.committed = s.committed
          /\ e.pending_request_snapshot = s.pending_request_snapshot /\ s.term \in Nat
      <3> HIDE DEF s
      <3> QED BY <1>2 DEF IsRaft, RaftFields
    <2> HIDE DEF e
    <2>1. IsRaft(e) /\ VotesOK(net, L, e)
      BY <1>2, <1>3, KeepsSteps DEF Keeps, Steps
    <2>2. Steps(net, L, e, t) /\ Moves(G, e, t)
      BY <2>1, HupSteps, HupMoves
    <2> HIDE DEF s, h
    <2>3. Retires(s, e)
      BY <2>0 DEF Retires
    <2>4. Sound(G, chosen, h, e)
      BY <2>1, <2>3, <1>2, RetiresSound
    <2>5. Obey(net, G, chosen, h, e, t) /\ t.state # "Leader"
      BY <2>0, <2>1, <2>4, <1>5, HupObeys, HupNoLeader
    <2> HIDE DEF t
    <2>6. PICK b : Obeys(net, G, chosen, h, e, t, b)
      BY <2>5 DEF Obey
    <2>7. Obeys(net, G, chosen, h, s, t, b)
      BY <2>0, <2>3, <2>6, RetiresObeys
    <2>8. Outcome(net, G, chosen, h, a, s, t)
      BY <2>5, <2>7 DEF Outcome, Obey
    <2>9. Steps(net, L, s, t) /\ Moves(G, s, t)
      BY <2>0, <2>2 DEF Steps, NewMsgOK, Moves
    <2> QED BY <1>5, <2>8, <2>9, OutcomeSafe DEF s, t, h
  <1> QED BY <1>1, <1>4, <1>5

\* A leader that goes on leading, and its Ready
LEMMA LeadsSafe ==
    ASSUME NEW K, NEW L, NEW G, NEW A, Secure(K, L, G, A), NEW n \in K.progress,
           NEW t, Keeps(node[n], t), ProcessReady(n, t), Leads(AckRow(A, n, node[n]), node[n].committed, t)
    PROVE  SafeNext(K, L)
  <1>1. t.state = "Leader"
    BY DEF Leads
  <1>2. Outcome(net, G, chosen, A[n], AckRow(A, n, node[n]), node[n], t)
    BY <1>1 DEF Outcome
  <1> QED BY <1>2, KeepsSafe

\* The lease, heartbeats and reports of the application.
LEMMA QuietSafe ==
    ASSUME NEW K, NEW L, NEW G, NEW A, Secure(K, L, G, A), NEW n \in K.progress,
           \/ LeaseExpires(n)
           \/ Beat(n)
           \/ \E j : ReportUnreachable(n, j)
           \/ \E j, failed : ReportSnapshot(n, j, failed)
    PROVE  SafeNext(K, L)
  <1> DEFINE s == node[n]
             a == AckRow(A, n, s)
             h == A[n]
  <1>0. IsRaft(s) /\ Sound(G, chosen, h, s) /\ (s.state = "Leader" => Leads(a, s.committed, s))
    BY SecureNode
  <1>1. CASE LeaseExpires(n)
    <2> DEFINE yes == TRUE
               t == [s EXCEPT !.expired = yes]
    <2>1. ProcessReady(n, t) /\ s.state # "Leader"
      BY <1>1 DEF LeaseExpires
    <2> HIDE DEF yes
    <2>2. Keeps(s, t)
      BY <1>0, SetExpiredKeeps
    <2>3. /\ t.state = s.state /\ t.committed = s.committed /\ t.msgs = s.msgs
          /\ t.pending_request_snapshot = s.pending_request_snapshot
      <3> HIDE DEF s
      <3> QED BY <1>0 DEF IsRaft, RaftFields
    <2> HIDE DEF t, s, h
    <2>4. Obey(net, G, chosen, h, s, t)
      BY <1>0, <2>2, <2>3, KeepsObeys
    <2>5. Outcome(net, G, chosen, h, a, s, t)
      BY <2>1, <2>3, <2>4 DEF Outcome
    <2> QED BY <2>1, <2>2, <2>5, KeepsSafe DEF s, h
  <1>2. CASE Beat(n)
    <2> DEFINE t == BcastHeartbeat(s)
    <2>1. ProcessReady(n, t) /\ s.state = "Leader"
      BY <1>2 DEF Beat
    <2>2. Keeps(s, t) /\ Leads(a, s.committed, t)
      BY <1>0, <2>1, BcastHeartbeatKeeps, BcastHeartbeatLeads DEF BcastHeartbeat
    <2> HIDE DEF t
    <2> QED BY <2>1, <2>2, LeadsSafe
  <1>3. CASE \E j : ReportUnreachable(n, j)
    <2>0. PICK j : ReportUnreachable(n, j)
      BY <1>3
    <2> DEFINE t == HandleUnreachable(s, j)
    <2>1. ProcessReady(n, t) /\ s.state = "Leader"
      BY <2>0 DEF ReportUnreachable
    <2>2. Keeps(s, t) /\ Leads(a, s.committed, t)
      BY <1>0, <2>1, HandleUnreachableKeeps, ReportLeads
    <2> HIDE DEF t
    <2> QED BY <2>1, <2>2, LeadsSafe
  <1>4. CASE \E j, failed : ReportSnapshot(n, j, failed)
    <2>0. PICK j, failed : ReportSnapshot(n, j, failed)
      BY <1>4
    <2> DEFINE t == HandleSnapshotStatus(s, j, failed)
    <2>1. ProcessReady(n, t) /\ s.state = "Leader"
      BY <2>0 DEF ReportSnapshot
    <2>2. Keeps(s, t) /\ Leads(a, s.committed, t)
      BY <1>0, <2>1, HandleSnapshotStatusKeeps, ReportLeads
    <2> HIDE DEF t
    <2> QED BY <2>1, <2>2, LeadsSafe
  <1> QED BY <1>1, <1>2, <1>3, <1>4

\* Raft::tick_heartbeat's election timeout: who does not hear a quorum steps down.
LEMMA LeaderTimeoutSafe ==
    ASSUME NEW K, NEW L, NEW G, NEW A, Secure(K, L, G, A), NEW n \in K.progress, LeaderTimeout(n)
    PROVE  SafeNext(K, L)
  <1> DEFINE s == node[n]
             a == AckRow(A, n, s)
             h == A[n]
             q == IF s.config.check_quorum THEN HandleCheckQuorum(s) ELSE s
             t == [q EXCEPT !.lead_transferee = None]
  <1>0. s.state = "Leader" /\ ProcessReady(n, t)
    BY DEF LeaderTimeout
  <1>1. /\ IsRaft(s) /\ VotesOK(net, L, s) /\ s.msgs = {} /\ Sound(G, chosen, h, s) /\ Leads(a, s.committed, s)
        /\ s.committed \in Nat
    BY <1>0, SecureNode DEF AtRest
  <1>2. t = TimedOut(s)
    BY DEF TimedOut
  <1>3. Steps(net, L, s, t) /\ Moves(G, s, t)
    <2> HIDE DEF t, s
    <2> QED BY <1>0, <1>1, <1>2, TimedOutMoves
  <1> HIDE DEF s, h, a
  <1>4. Outcome(net, G, chosen, h, a, s, t)
    <2>1. CASE q = BecomeFollower(s, s.term, None)
      <3>1. Obeys(net, G, chosen, h, s, s, h[s.term])
        BY <1>1, ObeysRefl
      <3> DEFINE b == h[s.term]
      <3> HIDE DEF b
      <3>2. Obeys(net, G, chosen, h, s, BecomeFollower(s, s.term, None), b)
        BY <3>1, ObeysRetire DEF b
      <3>3. Obeys(net, G, chosen, h, s, q, b)
        BY <2>1, <3>2
      <3>4. q.state = "Follower"
        <4>1. BecomeFollower(s, s.term, None).state = "Follower"
          BY <1>1 DEF BecomeFollower, Reset, IsRaft, RaftFields
        <4> QED BY <2>1, <4>1
      <3> HIDE DEF q
      <3>5. IsRaft(q) /\ SamePrefix(q.log, chosen, q.committed) /\ q.pending_request_snapshot = 0
        BY <3>3 DEF Obeys, Tidy
      <3>6. Keeps(q, t)
        BY <3>5, SetTransfereeKeeps
      <3>7. t.committed = q.committed /\ t.pending_request_snapshot = 0 /\ t.msgs = q.msgs /\ t.state = "Follower"
        BY <3>4, <3>5 DEF IsRaft, RaftFields
      <3> HIDE DEF t
      <3>8. Obeys(net, G, chosen, h, s, t, b)
        BY <1>1, <3>3, <3>5, <3>6, <3>7, ObeysCommit
      <3> QED BY <3>7, <3>8 DEF Outcome, Obey
    <2>2. CASE q # BecomeFollower(s, s.term, None)
      <3>1. Leads(a, s.committed, q)
        <4>1. HasQuorum(s.conf, Active(s)) \/ q = s
          BY <2>2 DEF HandleCheckQuorum
        <4>2. HasQuorum(s.conf, Active(s)) => Leads(a, s.committed, HandleCheckQuorum(s))
          BY <1>1, HandleCheckQuorumLeads
        <4> QED BY <4>1, <4>2, <1>1
      <3> HIDE DEF q
      <3>2. Leads(a, s.committed, t)
        BY <3>1, SetTransfereeLeads
      <3>3. t.state = "Leader"
        BY <3>2 DEF Leads
      <3> QED BY <3>2, <3>3 DEF Outcome
    <2> QED BY <2>1, <2>2
  <1> HIDE DEF t
  <1> QED BY <1>0, <1>3, <1>4, OutcomeSafe DEF s, h, a

\* Applying committed entries.
LEMMA ApplySafe ==
    ASSUME NEW K, NEW L, NEW G, NEW A, Secure(K, L, G, A), NEW n \in K.progress, Apply(n)
    PROVE  SafeNext(K, L)
  <1> DEFINE s == node[n]
             a == AckRow(A, n, s)
             h == A[n]
  <1>1. PICK t : ProcessReady(n, t) /\ Steps(net, L, s, t) /\ Moves(G, s, t) /\ Applies(s, t)
    BY ApplyReady DEF Secure
  <1>2. /\ IsRaft(s) /\ Sound(G, chosen, h, s) /\ (s.state = "Leader" => Leads(a, s.committed, s)) /\ Trimmed(s)
    BY SecureNode DEF AtRest
  <1> HIDE DEF s, h, a
  <1>3. IsRaft(t) /\ s.applied \in Nat /\ t.applied \in Nat /\ t.applied > s.applied
    BY <1>1, <1>2 DEF Applies, IsRaft
  <1>4. /\ t.id = s.id /\ t.conf = s.conf /\ t.term = s.term /\ t.state = s.state /\ t.msgs = s.msgs
        /\ t.log = s.log /\ t.first = s.first /\ t.snap = s.snap /\ t.committed = s.committed /\ t.persisted = s.persisted
        /\ t.prs = s.prs /\ t.reads = s.reads /\ t.pending_request_snapshot = s.pending_request_snapshot
    BY <1>1 DEF Applies
  <1>5. CASE s.state = "Leader"
    <2>1. Leads(a, s.committed, s)
      BY <1>2, <1>5
    <2>2. Trimmed(t)
      BY <1>2, <1>3, <1>4, TrimmedMore
    <2>3. \A j \in s.conf.progress : Paced(a[j], Len(t.log), t.prs[j])
      BY <2>1, <1>4 DEF Leads
    <2>4. SamePrefix(s.log, t.log, Len(s.log))
      <3>1. Len(s.log) \in Nat
        BY <1>2, LogTypes
      <3> QED BY <3>1, <1>4 DEF SamePrefix
    <2>5. Leads(a, s.committed, t)
      BY <1>3, <1>4, <1>5, <2>1, <2>2, <2>3, <2>4, LeadsMore
    <2>6. Outcome(net, G, chosen, h, a, s, t)
      BY <2>5, <1>4, <1>5 DEF Outcome
    <2> QED BY <1>1, <2>6, OutcomeSafe DEF s, h, a
  <1>6. CASE s.state # "Leader"
    <2>1. Obeys(net, G, chosen, h, s, s, h[s.term])
      BY <1>2, ObeysRefl
    <2>2. Obeys(net, G, chosen, h, s, t, h[s.term])
      BY <2>1, <1>3, <1>4 DEF Obeys, Tidy
    <2>3. Outcome(net, G, chosen, h, a, s, t)
      BY <2>2, <1>4, <1>6 DEF Outcome, Obey
    <2> QED BY <1>1, <2>3, OutcomeSafe DEF s, h, a
  <1> QED BY <1>5, <1>6

\* A call that commits nothing and that nothing is persisted for.
LEMMA DrainedSafe ==
    ASSUME NEW K, NEW L, NEW G, NEW A, Secure(K, L, G, A), Inv(K, L)', NEW n \in K.progress,
           NEW t, Keeps(node[n], t), t.committed = node[n].committed,
           NEW u, u.term = t.term, u.state = t.state, u.log = t.log, u.committed = t.committed, u.persisted = t.persisted,
           Trimmed(u), u.pending_request_snapshot = 0, u.first <= disk[n].commit \/ u.first = u.snap + 1,
           net' = net \cup t.msgs, node' = [node EXCEPT ![n] = u], disk' = disk, chosen' = chosen,
           t.state # "Leader" => \A m \in t.msgs : Replies(net, chosen, A[n][t.term], t, m),
           t.state = "Leader" => /\ Leads(Row(A, t.term), node[n].committed, t)
                                 /\ Leads(Row(A, t.term), u.committed, u)
    PROVE  SafeNext(K, L)
  <1> DEFINE s == node[n]
             T == t.term
             b == A[n][T]
             d == disk[n]
  <1>0. Inv(K, L) /\ MatchInv(K, L, G) /\ Safe(K, L, node, disk, net, chosen, G, A)
    BY DEF Secure
  <1>1. /\ IsRaft(s) /\ s.id = n /\ s.conf = K /\ s.msgs = {} /\ VotesOK(net, L, s) /\ AtRest(K, G, A[n], n, s, d)
    BY SecureNode
  <1>2. /\ T = s.term /\ t.state = s.state /\ t.log = s.log /\ t.persisted = s.persisted /\ IsRaft(t)
    BY DEF Keeps
  <1>3. /\ d.commit \in Nat /\ d.commit <= s.committed /\ d.commit <= Len(d.log)
        /\ SamePrefix(d.log, s.log, Len(d.log)) /\ d.log \in Seq(NEntry) /\ Len(d.log) = s.persisted
        /\ s.committed \in Nat /\ s.log \in Seq(NEntry) /\ T \in Nat
        /\ \A x \in Nat : A[n][x] \in Nat /\ G[x] \in Seq(NEntry)
    BY <1>1, <1>2 DEF AtRest
  <1>4. Steps(net, L, s, t) /\ Moves(G, s, t)
    <2> HIDE DEF s
    <2> QED BY <1>1, KeepsSteps, KeepsMoves DEF s
  <1>5. SamePrefix(disk'[n].log, u.log, u.persisted)
    BY <1>2, <1>3
  <1>6. Advances(K, L, G, n, s, t, u)
    BY <1>1, <1>4, <1>5 DEF Advances
  <1>7. /\ A \in [K.progress -> [Nat -> Nat]] /\ AckedOK(G, A[n], d, s.term) /\ StoreOK(chosen, s, d) /\ LeadOK(A, n, s)
        /\ chosen \in Seq(NEntry)
    BY <1>0 DEF Safe, ChosenSafe
  <1>8. IF t.state = "Leader" THEN G = [G EXCEPT ![T] = t.log] ELSE G = G
    <2>1. G \in [Nat -> Seq(NEntry)] /\ (t.state = "Leader" => t.log = G[T])
      BY <1>0, <1>2 DEF MatchInv, LogInv, Logs
    <2> HIDE DEF T
    <2> QED BY <2>1
  <1>9. A = [A EXCEPT ![n] = [A[n] EXCEPT ![T] = b]]
    <2>1. A[n] = [A[n] EXCEPT ![T] = b]
      <3>1. A[n] \in [Nat -> Nat]
        BY <1>7
      <3> QED BY <3>1
    <2> HIDE DEF b, T
    <2> QED BY <2>1, <1>7
  <1>10. b \in Nat /\ A[n][T] <= b /\ ~(b > A[n][T])
    BY <1>3
  <1>11. b <= Len(d.log) /\ (SamePrefix(d.log, G[T], b) \/ b <= d.commit)
    BY <1>2, <1>7 DEF AckedOK
  <1>12. SamePrefix(d.log, d.log, Len(d.log))
    BY <1>3 DEF SamePrefix
  <1>13. SamePrefix(s.log, chosen, s.committed) /\ s.committed <= Len(s.log) /\ s.committed <= Len(chosen) /\ Len(chosen) \in Nat
    BY <1>7 DEF StoreOK, SamePrefix
  <1>14. /\ node[n].committed <= t.committed /\ t.committed <= Len(t.log) /\ SamePrefix(t.log, chosen, t.committed)
         /\ chosen' = IF t.committed > Len(chosen) THEN SubSeq(t.log, 1, t.committed) ELSE chosen
    BY <1>2, <1>3, <1>13
  <1>15. t.state = "Leader" => u.persisted <= b
    BY <1>2, <1>7 DEF LeadOK
  <1>16. /\ b <= Len(disk'[n].log) /\ (SamePrefix(disk'[n].log, G[T], b) \/ b <= disk'[n].commit)
         /\ SamePrefix(disk[n].log, disk'[n].log, Len(disk[n].log))
         /\ u.first <= disk'[n].commit \/ u.first = u.snap + 1
         /\ disk'[n].commit <= u.committed /\ disk'[n].commit <= Len(disk'[n].log)
    BY <1>3, <1>11, <1>12
  <1> HIDE DEF s, d
  <1>17. t.state # "Leader" => \A m \in t.msgs : Replies(net, chosen, b, t, m)
    OBVIOUS
  <1> HIDE DEF b
  <1>18. Goes(K, L, G, G, A, A, n, s, t, u, b)
    BY <1>6, <1>8, <1>9, <1>10, <1>14, <1>15, <1>16, <1>17 DEF Goes
  <1> QED BY <1>0, <1>18, GoesSafe

\* MemStorage::compact.
LEMMA CompactSafe ==
    ASSUME NEW K, NEW L, NEW G, NEW A, Secure(K, L, G, A), NEW n \in K.progress, NEW i, Compact(n, i)
    PROVE  SafeNext(K, L)
  <1> DEFINE s == node[n]
             d == disk[n]
             u == [s EXCEPT !.first = i]
  <1>1. /\ IsRaft(s) /\ s.msgs = {} /\ AtRest(K, G, A[n], n, s, d)
        /\ (s.state = "Leader" => Leads(AckRow(A, n, s), s.committed, s))
    BY SecureNode
  <1>2. /\ node' = [node EXCEPT ![n] = u] /\ net' = net \cup s.msgs /\ disk' = disk /\ chosen' = chosen
        /\ i \in (s.first + 1)..MinOf({s.applied, d.commit})
    BY <1>1 DEF Compact
  <1>3. Inv(K, L)'
    BY CompactInv DEF Secure
  <1> HIDE DEF s, d
  <1>4. d.commit \in Nat /\ s.applied \in Nat /\ s.first \in Nat /\ Trimmed(s) /\ s.pending_request_snapshot = 0
    BY <1>1 DEF AtRest, IsRaft
  <1>5. i \in Nat \ {0} /\ i <= s.applied /\ i <= d.commit
    <2>1. MinOf({s.applied, d.commit}) = IF s.applied <= d.commit THEN s.applied ELSE d.commit
      BY <1>4, MinOfTwo
    <2> QED BY <2>1, <1>2, <1>4
  <1>6. /\ u.id = s.id /\ u.conf = s.conf /\ u.term = s.term /\ u.state = s.state /\ u.msgs = s.msgs
        /\ u.log = s.log /\ u.first = i /\ u.snap = s.snap /\ u.committed = s.committed /\ u.persisted = s.persisted
        /\ u.prs = s.prs /\ u.reads = s.reads /\ u.pending_request_snapshot = s.pending_request_snapshot
        /\ u.applied = s.applied
    BY <1>1 DEF IsRaft, RaftFields
  <1>7. IsRaft(u)
    BY <1>1, <1>5 DEF IsRaft, RaftFields
  <1> HIDE DEF u
  <1>8. Trimmed(u)
    BY <1>4, <1>5, <1>6 DEF Trimmed
  <1>9. Keeps(s, s)
    BY <1>1, KeepsRefl
  <1>10. s.state = "Leader" => Leads(Row(A, s.term), s.committed, s) /\ Leads(Row(A, s.term), u.committed, u)
    <2> HAVE s.state = "Leader"
    <2> DEFINE a == Row(A, s.term)
    <2>1. Leads(a, s.committed, s)
      BY <1>1 DEF AckRow
    <2> HIDE DEF a
    <2>2. \A j \in s.conf.progress : Paced(a[j], Len(u.log), u.prs[j])
      BY <2>1, <1>6 DEF Leads
    <2>3. SamePrefix(s.log, u.log, Len(s.log))
      <3>1. Len(s.log) \in Nat
        BY <1>1, LogTypes
      <3> QED BY <3>1, <1>6 DEF SamePrefix
    <2>4. Leads(a, s.committed, u)
      BY <2>1, <2>2, <2>3, <1>6, <1>7, <1>8, LeadsMore
    <2> QED BY <2>1, <2>4, <1>6 DEF a
  <1>11. \A m \in s.msgs : Replies(net, chosen, A[n][s.term], s, m)
    BY <1>1
  <1>12. u.first <= d.commit
    BY <1>5, <1>6
  <1> QED BY <1>2, <1>3, <1>4, <1>6, <1>8, <1>9, <1>10, <1>11, <1>12, DrainedSafe DEF s, d

\* A read moves nothing.
LEMMA ReadIndexFields ==
    ASSUME NEW s, IsRaft(s), NEW m, MsgOK(s.conf, m), m.type = "MsgReadIndex", m.term = 0, NEW t, t = Step(s, m)
    PROVE  /\ t.committed = s.committed /\ t.first = s.first /\ t.snap = s.snap /\ t.applied = s.applied
           /\ t.pending_request_snapshot = s.pending_request_snapshot
           /\ s.state # "Leader" => \A k \in t.msgs \ s.msgs : k.type = "MsgReadIndex"
           /\ s.state = "Leader" => t = HandleReadIndex(s, m)
  <1>3. s.state \in {"Follower", "PreCandidate", "Candidate", "Leader"}
    BY DEF IsRaft
  <1>4. StepLeader(s, m) = HandleReadIndex(s, m) /\ StepFollower(s, m) = Forward(s, m) /\ StepCandidate(s, m) = s
    BY DEF StepLeader, StepFollower, StepCandidate, VoteResponses
  <1>5. Step(s, m) = Dispatch(s, m) /\ m.type \notin VoteRequests
    BY DEF Step, VoteRequests
  <1>6. CASE s.state = "Leader"
    <2>1. t = HandleReadIndex(s, m)
      BY <1>4, <1>5, <1>6 DEF Dispatch
    <2> QED BY <2>1, <1>6 DEF HandleReadIndex, AnswerReads, AddRequest, BcastHeartbeatWithCtx, IsRaft, RaftFields
  <1>7. CASE s.state = "Follower"
    <2>1. t = Forward(s, m)
      BY <1>4, <1>5, <1>7 DEF Dispatch
    <2>2. PICK k : t = s \/ (t = Send(s, k) /\ k.type = "MsgReadIndex")
      <3>1. "type" \in DOMAIN m
        BY DEF MsgOK
      <3> DEFINE k == [m EXCEPT !.to = s.leader_id,
                                !.from = IF @ = None THEN s.id ELSE @,
                                !.term = IF m.type = "MsgTransferLeader" THEN s.term ELSE 0]
      <3>2. k.type = "MsgReadIndex"
        BY <3>1
      <3>3. t = s \/ t = Send(s, k)
        BY <2>1 DEF Forward
      <3> HIDE DEF k
      <3> QED BY <3>2, <3>3
    <2> QED BY <2>2, <1>7 DEF Send, IsRaft, RaftFields
  <1>8. CASE s.state \in {"Candidate", "PreCandidate"}
    <2>1. t = s
      BY <1>4, <1>5, <1>8 DEF Dispatch
    <2> QED BY <2>1, <1>8
  <1> QED BY <1>3, <1>6, <1>7, <1>8

\* RawNode::read_index.
LEMMA ReadIndexSafe ==
    ASSUME NEW K, NEW L, NEW G, NEW A, Secure(K, L, G, A), NEW n \in K.progress, ReadIndex(n)
    PROVE  SafeNext(K, L)
  <1> DEFINE c == Len(reads.asked) + 1
             m == [type |-> "MsgReadIndex", from |-> None, to |-> n, term |-> 0, ctx |-> c]
             s == node[n]
             d == disk[n]
             t == Step(s, m)
             u == [t EXCEPT !.msgs = {}, !.read_states = {}]
  <1>1. net' = net \cup t.msgs /\ node' = [node EXCEPT ![n] = u] /\ disk' = disk /\ chosen' = chosen
    BY DEF ReadIndex
  <1> HIDE DEF c
  <1>2. MsgOK(K, m) /\ m.type = "MsgReadIndex" /\ m.term = 0
    BY DEF MsgOK, FromLeader
  <1> HIDE DEF m
  <1>3. /\ IsRaft(s) /\ s.conf = K /\ s.msgs = {} /\ AtRest(K, G, A[n], n, s, d)
        /\ (s.state = "Leader" => Leads(AckRow(A, n, s), s.committed, s))
    BY SecureNode
  <1>4. Inv(K, L)'
    BY ReadIndexInv DEF Secure
  <1> HIDE DEF s, d
  <1>5. Keeps(s, t)
    BY <1>2, <1>3, ReadIndexKeeps
  <1>6. /\ t.committed = s.committed /\ t.first = s.first /\ t.snap = s.snap /\ t.applied = s.applied
        /\ t.pending_request_snapshot = s.pending_request_snapshot
        /\ s.state # "Leader" => \A k \in t.msgs \ s.msgs : k.type = "MsgReadIndex"
        /\ s.state = "Leader" => t = HandleReadIndex(s, m)
    BY <1>2, <1>3, ReadIndexFields
  <1> HIDE DEF t
  <1>7. IsRaft(t) /\ t.conf = s.conf /\ t.state = s.state /\ t.term = s.term
    BY <1>5 DEF Keeps
  <1>8. /\ u.conf = t.conf /\ u.term = t.term /\ u.state = t.state /\ u.msgs = {}
        /\ u.log = t.log /\ u.first = t.first /\ u.snap = t.snap /\ u.committed = t.committed /\ u.persisted = t.persisted
        /\ u.prs = t.prs /\ u.reads = t.reads /\ u.pending_request_snapshot = t.pending_request_snapshot
        /\ u.applied = t.applied
    BY <1>7 DEF IsRaft, RaftFields
  <1>9. IsRaft(u)
    BY <1>7, DrainedRaft
  <1> HIDE DEF u
  <1>10. Trimmed(s) /\ s.pending_request_snapshot = 0 /\ (s.first <= d.commit \/ s.first = s.snap + 1)
    BY <1>3 DEF AtRest
  <1>11. Trimmed(u) /\ u.pending_request_snapshot = 0 /\ (u.first <= d.commit \/ u.first = u.snap + 1)
    BY <1>6, <1>8, <1>10 DEF Trimmed
  <1>12. t.state = "Leader" => Leads(Row(A, t.term), s.committed, t) /\ Leads(Row(A, t.term), u.committed, u)
    <2> HAVE t.state = "Leader"
    <2> DEFINE a == Row(A, t.term)
    <2>1. Leads(a, s.committed, s)
      BY <1>3, <1>7 DEF AckRow
    <2> HIDE DEF a
    <2>2. Leads(a, s.committed, t)
      BY <2>1, <1>6, <1>7, HandleReadIndexLeads
    <2>3. Leads(a, u.committed, u)
      BY <2>2, <1>8, <1>9, <1>11, LeadsDrained
    <2> QED BY <2>2, <2>3 DEF a
  <1>13. t.state # "Leader" => \A k \in t.msgs : Replies(net, chosen, A[n][t.term], t, k)
    BY <1>3, <1>6, <1>7 DEF Replies, VoteRequests, VoteResponses, IsGrant
  <1> QED BY <1>1, <1>4, <1>5, <1>6, <1>8, <1>11, <1>12, <1>13, DrainedSafe DEF s, d

\* RawNode::on_persist_ready of a leader.
LEMMA PersistSafe ==
    ASSUME NEW K, NEW L, NEW G, NEW A, Secure(K, L, G, A), NEW n \in K.progress, Persist(n)
    PROVE  SafeNext(K, L)
  <1> DEFINE s == node[n]
             d == disk[n]
             h == A[n]
  <1>0. Inv(K, L) /\ MatchInv(K, L, G) /\ Safe(K, L, node, disk, net, chosen, G, A)
    BY DEF Secure
  <1>1. PICK p, c, q, t : Flushes(K, n, p, c, q, t)
    BY <1>0, PersistFlushes
  <1> DEFINE T == t.term
             u == Done(t)
             a == Row(A, T)
             A2 == [A EXCEPT ![n] = [A[n] EXCEPT ![T] = p]]
             b == Row(A2, T)
  <1>2. Advances(K, L, G, n, q, t, u)
    BY <1>0, <1>1, FlushAdvances
  <1>3. Inv(K, L)'
    BY <1>0, PersistInv
  <1>4. /\ s.state = "Leader" /\ p \in s.persisted..Len(s.log)
        /\ c \in Nat /\ d.commit <= c /\ c <= p /\ c <= s.committed
        /\ q.term = s.term /\ q.state = s.state /\ q.persisted = p /\ q.log = s.log /\ q.first = s.first
        /\ q.committed = s.committed /\ q.snap = s.snap
        /\ Keeps(q, t) /\ (t = s \/ t = OnPersistEntries(s, p))
        /\ chosen' = IF t.committed > Len(chosen) THEN SubSeq(t.log, 1, t.committed) ELSE chosen
        /\ disk'[n].log = SubSeq(t.log, 1, p) /\ disk'[n].commit = c
    BY <1>1 DEF Flushes
  <1>5. /\ IsRaft(s) /\ s.id = n /\ s.conf = K /\ AtRest(K, G, h, n, s, d) /\ Leads(AckRow(A, n, s), s.committed, s)
    BY <1>4, SecureNode
  <1>6. /\ A \in [K.progress -> [Nat -> Nat]] /\ AckedOK(G, h, d, s.term) /\ LeadOK(A, n, s)
        /\ G \in [Nat -> Seq(NEntry)] /\ s.log = G[s.term]
    BY <1>0, <1>4 DEF Safe, MatchInv, LogInv, Logs
  <1> HIDE DEF s, d, h
  <1>7. /\ d.commit \in Nat /\ SamePrefix(d.log, s.log, Len(d.log)) /\ d.log \in Seq(NEntry) /\ Len(d.log) = s.persisted
        /\ s.committed \in Nat /\ s.first \in Nat /\ s.snap \in Nat /\ s.log \in Seq(NEntry) /\ s.term \in Nat
        /\ (\A x \in Nat : h[x] \in Nat) /\ (s.first <= d.commit \/ s.first = s.snap + 1)
    BY <1>5 DEF AtRest
  <1>8. /\ IsRaft(t) /\ T = s.term /\ t.state = "Leader" /\ t.log = s.log /\ t.persisted = p
        /\ t.first = s.first /\ t.snap = s.snap
    BY <1>4 DEF Keeps
  <1>9. /\ IsRaft(u) /\ u.conf = t.conf /\ u.term = t.term /\ u.state = t.state /\ u.log = t.log
        /\ u.first = t.first /\ u.snap = t.snap /\ u.committed = t.committed /\ t.applied <= u.applied
        /\ u.pending_request_snapshot = t.pending_request_snapshot /\ u.reads = t.reads /\ u.prs = t.prs
        /\ u.msgs = {} /\ u.persisted = t.persisted
    BY <1>8, DoneFields
  <1>10. Len(s.log) \in Nat /\ p \in Nat /\ p <= Len(s.log) /\ s.persisted <= p /\ s.persisted \in Nat
    BY <1>4, <1>5, LogTypes
  <1>11. h[T] \in Nat /\ h[T] <= p
    <2>1. h[T] <= s.persisted
      BY <1>6, <1>7, <1>8 DEF AckedOK
    <2>2. h[T] \in Nat
      BY <1>7, <1>8
    <2> QED BY <2>1, <2>2, <1>10
  <1>12. /\ DOMAIN A2 = K.progress /\ A2[n][T] = p /\ \A v \in K.progress : v # n => A2[v] = A[v]
    <2>1. A[n] \in [Nat -> Nat] /\ T \in Nat
      BY <1>6, <1>7, <1>8
    <2> HIDE DEF T
    <2> QED BY <2>1, <1>6
  <1>13. A2 = [A EXCEPT ![n] = [A[n] EXCEPT ![T] = p]]
    OBVIOUS
  <1> HIDE DEF A2, u
  <1>14. /\ b \in [K.progress -> Nat] /\ b[n] = p /\ \A j \in K.progress : a[j] <= b[j]
    <2>1. /\ b = [v \in K.progress |-> A2[v][T]] /\ a = [v \in K.progress |-> A[v][T]]
      BY <1>6, <1>12 DEF Row
    <2>2. T \in Nat
      BY <1>7, <1>8
    <2>3. \A v \in K.progress : A[v][T] \in Nat
      <3> TAKE v \in K.progress
      <3>1. A[v] \in [Nat -> Nat]
        BY <1>6
      <3> QED BY <3>1, <2>2
    <2>4. \A v \in K.progress : A2[v][T] = (IF v = n THEN p ELSE A[v][T])
      BY <1>12
    <2>5. A[n][T] <= p
      BY <1>11 DEF h
    <2> HIDE DEF a, b, T
    <2> QED BY <2>1, <2>3, <2>4, <2>5, <1>10
  <1>15. Leads(a, s.committed, s)
    BY <1>4, <1>5, <1>8 DEF AckRow
  <1> HIDE DEF a, b
  <1>16. Leads(b, s.committed, s)
    BY <1>5, <1>14, <1>15, LeadsAck
  <1>17. Leads(b, s.committed, t)
    <2>1. p <= b[s.id]
      BY <1>5, <1>10, <1>14
    <2>2. Leads(b, s.committed, OnPersistEntries(s, p))
      BY <2>1, <1>10, <1>16, OnPersistEntriesLeads
    <2> QED BY <2>2, <1>4, <1>16
  <1>18. /\ t.committed <= Len(t.log) /\ s.committed <= t.committed /\ Trimmed(t) /\ t.pending_request_snapshot = 0
         /\ t.committed \in Nat
    <2>1. t.committed \in Nat
      BY <1>8 DEF IsRaft
    <2> QED BY <2>1, <1>7, <1>17 DEF Leads
  <1>19. Trimmed(u)
    BY <1>8, <1>9, <1>18, TrimmedMore
  <1>20. Leads(b, u.committed, u)
    BY <1>9, <1>17, <1>19, LeadsDrained
  <1>21. IF t.state = "Leader" THEN G = [G EXCEPT ![T] = t.log] ELSE G = G
    <2> HIDE DEF T
    <2> QED BY <1>6, <1>8
  <1>22. G[T] # <<>> /\ G[T] = t.log
    BY <1>4, <1>6, <1>8 DEF LeadOK
  <1>23. /\ Len(disk'[n].log) = p /\ SamePrefix(disk'[n].log, t.log, p) /\ disk'[n].log \in Seq(NEntry)
    <2>1. t.log \in Seq(NEntry) /\ Len(t.log) = Len(s.log)
      BY <1>7, <1>8
    <2> QED BY <2>1, <1>4, <1>10 DEF SamePrefix
  <1>24. SamePrefix(d.log, disk'[n].log, Len(d.log))
    <2>1. Len(disk'[n].log) \in Nat /\ Len(d.log) \in Nat
      BY <1>7, <1>23
    <2> DEFINE dl == disk'[n].log
    <2> HIDE DEF dl
    <2>2. Len(dl) = p /\ SamePrefix(dl, s.log, p)
      BY <1>8, <1>23 DEF dl
    <2>3. SamePrefix(d.log, dl, Len(d.log))
      BY <2>2, <1>7, <1>10 DEF SamePrefix
    <2> QED BY <2>3 DEF dl
  <1>25. u.first <= disk'[n].commit \/ u.first = u.snap + 1
    BY <1>4, <1>7, <1>8, <1>9
  <1>26. disk'[n].commit <= u.committed /\ disk'[n].commit <= Len(disk'[n].log)
    BY <1>4, <1>7, <1>9, <1>18, <1>23
  <1>27. p \in Nat /\ A[n][T] <= p /\ (p > A[n][T] => G[T] # <<>>)
    BY <1>10, <1>11, <1>22 DEF h
  <1>28. node[n].committed <= t.committed /\ SamePrefix(disk[n].log, disk'[n].log, Len(disk[n].log))
    BY <1>18, <1>24 DEF s, d
  <1>29. Leads(Row(A2, t.term), node[n].committed, t) /\ Leads(Row(A2, t.term), u.committed, u) /\ u.persisted <= p
    BY <1>8, <1>9, <1>10, <1>17, <1>20 DEF b, s
  <1>30. Goes(K, L, G, G, A, A2, n, q, t, u, p)
    BY <1>2, <1>4, <1>8, <1>9, <1>13, <1>18, <1>19, <1>21, <1>22, <1>23, <1>25, <1>26, <1>27, <1>28, <1>29, <1>10 DEF Goes, u
  <1> QED BY <1>0, <1>3, <1>30, GoesSafe

\* A step may leave what is committed alone.
LEMMA NothingChosen ==
    ASSUME NEW K, NEW L, NEW G, NEW A, Safe(K, L, node, disk, net, chosen, G, A), chosen' = chosen,
           NEW n \in K.progress, \A k \in K.progress \ {n} : node'[k] = node[k]
    PROVE  ChosenStep(K)
  <1>1. chosen \in Seq(NEntry)
    BY DEF Safe, ChosenSafe
  <1>2. SamePrefix(chosen, chosen, Len(chosen))
    BY <1>1 DEF SamePrefix
  <1> QED BY <1>2 DEF ChosenStep

\* A crash and a restart: nothing that was acknowledged or committed is lost.
LEMMA RestartSafe ==
    ASSUME NEW K, NEW L, NEW G, NEW A, Secure(K, L, G, A), NEW n \in K.progress, Restart(n)
    PROVE  SafeNext(K, L)
  <1> DEFINE s == node[n]
             d == disk[n]
             u == node'[n]
             a == MinOf({s.applied, d.commit})
  <1>0. /\ Inv(K, L) /\ MatchInv(K, L, G) /\ Safe(K, L, node, disk, net, chosen, G, A)
        /\ FixedConf(K) /\ DOMAIN node = K.progress
    BY DEF Secure, Inv
  <1>1. Inv(K, L)'
    BY <1>0, RestartInv
  <1>2. MatchInv(K, L, G)'
    BY <1>0, <1>1, RestartMatch
  <1>3. /\ disk' = disk /\ net' = net /\ chosen' = chosen /\ \A k \in K.progress \ {n} : node'[k] = node[k]
    BY <1>0 DEF Restart
  <1>4. /\ a \in Nat /\ a <= s.applied /\ a <= d.commit
        /\ u.term = d.term /\ u.state = "Follower" /\ u.log = d.log /\ u.committed = d.commit /\ u.snap = s.snap
        /\ u.first = s.first /\ u.applied = a /\ u.pending_request_snapshot = 0
    BY <1>0, RestartedRaft, ZenonT(40) DEF Fresh
  <1>5. /\ IsRaft(s) /\ AtRest(K, G, A[n], n, s, d)
    BY SecureNode
  <1>6. d.term = s.term /\ s.snap <= d.commit /\ s.term \in Nat
    BY <1>0, <1>5 DEF Inv, NodeInv, IsRaft
  <1>7. /\ d.commit \in Nat /\ d.commit <= s.committed /\ d.commit <= Len(d.log) /\ d.log \in Seq(NEntry)
        /\ s.first <= d.commit \/ s.first = s.snap + 1
        /\ SamePrefix(d.log, s.log, Len(d.log)) /\ Trimmed(s) /\ s.committed \in Nat /\ s.log \in Seq(NEntry)
        /\ s.first \in Nat /\ s.snap \in Nat
    BY <1>5 DEF AtRest
  <1>8. /\ A \in [K.progress -> [Nat -> Nat]] /\ LogsSafe(K, node, G, A) /\ ChosenSafe(K, chosen, G, A)
        /\ \A k \in K.progress : /\ AckedOK(G, A[k], disk[k], node[k].term) /\ StoreOK(chosen, node[k], disk[k])
                                 /\ LeadOK(A, k, node[k]) /\ CandOK(K, L, node, net, G, A, k)
                                 /\ \A t \in Nat : Has(K, node, G, A, disk[k].log, t, A[k][t])
        /\ \A m \in net : MsgSafe(K, node, chosen, G, A, m)
    BY <1>0 DEF Safe
  <1>9. \A k \in K.progress : node'[k].term = node[k].term /\ node[k].term \in Nat
    <2> TAKE k \in K.progress
    <2>1. node[k].term \in Nat
      BY <1>0 DEF Inv, NodeInv, IsRaft
    <2> QED BY <2>1, <1>3, <1>4, <1>6
  <1>10. Passing(K, node, node', A, A)
    <2>1. \A w \in K.progress, t \in Nat : A[w][t] \in Nat
      <3> TAKE w \in K.progress, t \in Nat
      <3>1. A[w] \in [Nat -> Nat]
        BY <1>8
      <3> QED BY <3>1
    <2> QED BY <2>1, <1>8, <1>9 DEF Passing
  <1>11. More(G, G) /\ G \in Logs /\ \A x \in Nat : G[x] \in Seq(NEntry)
    <2>1. G \in Logs /\ \A x \in Nat : G[x] \in Seq(NEntry)
      BY <1>0 DEF MatchInv, Logs
    <2>2. \A x \in Nat : SamePrefix(G[x], G[x], Len(G[x]))
      BY <2>1 DEF SamePrefix
    <2> QED BY <2>1, <2>2 DEF More
  <1>12. LogsSafe(K, node', G, A)
    <2> SUFFICES ASSUME NEW t \in Nat, NEW t2 \in Nat, t < t2, G[t2] # <<>>, NEW i \in Nat \ {0}, Own(G, t, i)
                 PROVE  Holds(K, node', G, A, G[t2], t, i)
      BY DEF LogsSafe
    <2>1. Holds(K, node, G, A, G[t2], t, i)
      BY <1>8 DEF LogsSafe
    <2>2. G[t2] \in Seq(NEntry)
      BY <1>11
    <2> QED BY <2>1, <2>2, <1>0, <1>10, <1>11, HoldsMore
  <1>13. ASSUME NEW k \in K.progress
         PROVE  /\ AckedOK(G, A[k], disk'[k], node'[k].term) /\ StoreOK(chosen', node'[k], disk'[k])
                /\ LeadOK(A, k, node'[k]) /\ CandOK(K, L, node', net', G, A, k)
                /\ \A t \in Nat : Has(K, node', G, A, disk'[k].log, t, A[k][t])
    <2>1. AckedOK(G, A[k], disk'[k], node'[k].term)
      BY <1>3, <1>8, <1>9
    <2>2. StoreOK(chosen', node'[k], disk'[k])
      <3>1. CASE k # n
        BY <3>1, <1>3, <1>8
      <3>2. CASE k = n
        <4>1. SamePrefix(s.log, chosen, s.committed) /\ chosen \in Seq(NEntry)
          BY <1>8 DEF StoreOK, ChosenSafe
        <4> HIDE DEF s, d, u, a
        <4>2. SamePrefix(d.log, chosen, d.commit)
          <5>1. Len(d.log) \in Nat /\ Len(s.log) \in Nat /\ Len(chosen) \in Nat
            BY <4>1, <1>7
          <5>2. d.commit \in Nat /\ s.committed \in Nat /\ d.commit <= s.committed /\ d.commit <= Len(d.log)
            BY <1>7
          <5>3. SamePrefix(d.log, s.log, Len(d.log))
            BY <1>7
          <5>4. SamePrefix(s.log, chosen, s.committed)
            BY <4>1
          <5> QED BY <5>1, <5>2, <5>3, <5>4, SMTT(30) DEF SamePrefix
        <4>3. Trimmed(u)
          <5>1. s.applied \in Nat
            BY <1>5 DEF IsRaft
          <5>2. s.snap <= a /\ (s.first <= a \/ s.first = s.snap + 1)
            <6>1. a = IF s.applied <= d.commit THEN s.applied ELSE d.commit
              BY <5>1, <1>7, MinOfTwo DEF a
            <6> QED BY <6>1, <1>6, <1>7 DEF Trimmed
          <5> QED BY <5>2, <1>4 DEF Trimmed
        <4>4. StoreOK(chosen, u, d)
          BY <4>2, <4>3, <1>4, <1>7 DEF StoreOK
        <4> QED BY <4>4, <3>2, <1>3 DEF u, d
      <3> QED BY <3>1, <3>2
    <2>3. LeadOK(A, k, node'[k])
      BY <1>3, <1>4, <1>8 DEF LeadOK
    <2>4. CandOK(K, L, node', net', G, A, k)
      <3> SUFFICES ASSUME node'[k].state = "Candidate" PROVE CandOK(K, L, node', net', G, A, k)
        BY DEF CandOK
      <3>1. k # n /\ node'[k] = node[k]
        BY <1>3, <1>4
      <3>2. CandOK(K, L, node, net, G, A, k)
        BY <1>8
      <3>3. node[k].log \in Seq(NEntry)
        BY <1>0 DEF Inv, NodeInv, IsRaft
      <3>4. ASSUME NEW v \in K.progress, NEW t \in Nat, t < node[k].term, Voted(net, L, v, k, node[k].term)
            PROVE  Has(K, node', G, A, node[k].log, t, A[v][t])
        <4>1. Has(K, node, G, A, node[k].log, t, A[v][t])
          BY <3>1, <3>2, <3>4 DEF CandOK
        <4>2. A[v][t] \in Nat
          <5>1. A[v] \in [Nat -> Nat]
            BY <1>8
          <5> QED BY <5>1
        <4> DEFINE x == A[v][t]
        <4> HIDE DEF x
        <4>3. x \in Nat /\ Has(K, node, G, A, node[k].log, t, x)
          BY <4>1, <4>2 DEF x
        <4>4. Has(K, node', G, A, node[k].log, t, x)
          BY <4>3, <3>3, <1>0, <1>10, <1>11, HasMore
        <4> QED BY <4>4 DEF x
      <3> QED BY <3>1, <3>2, <3>4, <1>3 DEF CandOK
    <2>5. ASSUME NEW t \in Nat PROVE Has(K, node', G, A, disk'[k].log, t, A[k][t])
      <3> DEFINE x == A[k][t]
      <3>1. x \in Nat
        <4>1. A[k] \in [Nat -> Nat]
          BY <1>8
        <4> QED BY <4>1
      <3>2. Has(K, node, G, A, disk[k].log, t, x) /\ disk[k].log \in Seq(NEntry)
        BY <1>0, <1>8 DEF Inv, NodeInv
      <3> HIDE DEF x
      <3>3. Has(K, node', G, A, disk[k].log, t, x)
        BY <3>1, <3>2, <1>0, <1>10, <1>11, HasMore
      <3> QED BY <3>3, <1>3 DEF x
    <2> QED BY <2>1, <2>2, <2>3, <2>4, <2>5
  <1>14. ASSUME NEW m \in net' PROVE MsgSafe(K, node', chosen', G, A, m)
    <2>1. MsgSafe(K, node, chosen, G, A, m) /\ (IsGrant(m) => m.to \in K.progress)
      BY <1>0, <1>3, <1>8, <1>14 DEF Inv, Sane, IsGrant
    <2> QED BY <2>1, <1>3, <1>9 DEF MsgSafe
  <1>15. Safe(K, L, node', disk', net', chosen', G, A)
    BY <1>3, <1>8, <1>12, <1>13, <1>14 DEF Safe
  <1>16. ChosenStep(K)
    BY <1>0, <1>3, NothingChosen
  <1> QED BY <1>1, <1>2, <1>15, <1>16 DEF SafeNext

\* Nobody may ask for a snapshot any more.
Unasked == budget \in [Event -> Nat] /\ budget["Request"] = 0

\* And nobody ever will.
LEMMA NextUnasked == ASSUME Unasked, [Next]_vars PROVE Unasked'
  <1>1. UNCHANGED budget \/ \E e \in Event : Spend(e)
    BY DEF Next, vars, Event, ElectionTimeout, Campaign, LeaseExpires, LeaderTimeout, Beat, Propose, ProposeConfChange,
           TransferLeader, ReadIndex, ReportUnreachable, ReportSnapshot, RequestSnapshotFor, Persist, Apply, Compact,
           Restart, ReceiveVoteRequest, ReceiveVoteResponse, ReceiveAppend, ReceiveAppendResponse, ReceiveHeartbeat,
           ReceiveHeartbeatResponse, ReceiveSnapshot, ReceiveTimeoutNow, ReceiveForwarded, ReceiveReadIndexResp, Receive
  <1>2. CASE UNCHANGED budget
    BY <1>2 DEF Unasked
  <1>3. ASSUME NEW e \in Event, Spend(e) PROVE Unasked'
    <2>1. budget[e] \in Nat /\ budget[e] > 0 /\ budget' = [budget EXCEPT ![e] = budget[e] - 1]
      BY <1>3 DEF Unasked, Spend
    <2>2. e # "Request"
      BY <2>1 DEF Unasked
    <2>3. "Request" \in Event
      BY DEF Event
    <2> QED BY <2>1, <2>2, <2>3 DEF Unasked
  <1> QED BY <1>1, <1>2, <1>3

\* Every action keeps what is committed safe.
LEMMA NextSafe ==
    ASSUME NEW K, NEW L, NEW G, NEW A, Secure(K, L, G, A), Unasked, [Next]_vars
    PROVE  SafeNext(K, L)
  <1>0. Nodes = K.progress
    BY DEF Nodes, Inv, Secure
  <1>1. CASE UNCHANGED vars
    <2>1. Inv(K, L) /\ MatchInv(K, L, G) /\ Safe(K, L, node, disk, net, chosen, G, A)
      BY DEF Secure
    <2>2. Inv(K, L)'
      BY <2>1, NextInv
    <2>3. MatchInv(K, L, G)'
      BY <2>1, <1>1 DEF vars, MatchInv, LogInv, Owned
    <2>4. Safe(K, L, node', disk', net', chosen', G, A)
      BY <2>1, <1>1 DEF vars
    <2>5. \E n \in K.progress : TRUE
      <3>1. K.incoming # {} /\ K.incoming \subseteq K.progress
        BY <2>1, FS_EmptySet DEF Inv, FixedConf
      <3> QED BY <3>1
    <2>6. chosen' = chosen /\ node' = node
      BY <1>1 DEF vars
    <2>7. ChosenStep(K)
      BY <2>1, <2>5, <2>6, NothingChosen
    <2> QED BY <2>2, <2>3, <2>4, <2>7 DEF SafeNext
  <1>2. ASSUME NEW n \in K.progress, ProposeConfChange(n) PROVE FALSE
    <2>1. limits.changes = {}
      BY DEF Inv, Secure
    <2>2. Changes(n) = {}
      BY <2>1 DEF Changes
    <2> QED BY <1>2, <2>2 DEF ProposeConfChange
  <1>3. ASSUME NEW n \in K.progress, RequestSnapshotFor(n) PROVE FALSE
    BY <1>3 DEF RequestSnapshotFor, Spend, Unasked
  <1>4. CASE \E types : Receive(types)
    BY <1>4, ReceiveSafe
  <1>5. CASE Next
    <2>1. CASE \E n \in Nodes :
        \/ ElectionTimeout(n)
        \/ Campaign(n)
        \/ LeaseExpires(n)
        \/ LeaderTimeout(n)
        \/ Beat(n)
        \/ \E v \in Value : Propose(n, v)
        \/ ProposeConfChange(n)
        \/ \E to \in Nodes : TransferLeader(n, to)
        \/ ReadIndex(n)
        \/ \E j \in Nodes : ReportUnreachable(n, j)
        \/ \E j \in Nodes, failed \in BOOLEAN : ReportSnapshot(n, j, failed)
        \/ RequestSnapshotFor(n)
        \/ Persist(n)
        \/ Apply(n)
        \/ \E i \in 1..limits.log : Compact(n, i)
        \/ Restart(n)
      <3>1. PICK n \in K.progress :
        \/ ElectionTimeout(n) \/ Campaign(n)
        \/ \/ LeaseExpires(n)
           \/ Beat(n)
           \/ \E j : ReportUnreachable(n, j)
           \/ \E j, failed : ReportSnapshot(n, j, failed)
        \/ LeaderTimeout(n)
        \/ (\E v \in Value : Propose(n, v)) \/ (\E to : TransferLeader(n, to))
        \/ ProposeConfChange(n) \/ RequestSnapshotFor(n)
        \/ ReadIndex(n)
        \/ Persist(n)
        \/ Apply(n)
        \/ \E i : Compact(n, i)
        \/ Restart(n)
        BY <2>1, <1>0
      <3>2. CASE ElectionTimeout(n) \/ Campaign(n)
        BY <3>2, CampaignSafe
      <3>3. CASE \/ LeaseExpires(n)
                 \/ Beat(n)
                 \/ \E j : ReportUnreachable(n, j)
                 \/ \E j, failed : ReportSnapshot(n, j, failed)
        BY <3>3, QuietSafe
      <3>4. CASE LeaderTimeout(n)
        BY <3>4, LeaderTimeoutSafe
      <3>5. CASE (\E v \in Value : Propose(n, v)) \/ (\E to : TransferLeader(n, to))
        BY <3>5, CallSafe
      <3>6. CASE ProposeConfChange(n) \/ RequestSnapshotFor(n)
        BY <3>6, <1>2, <1>3
      <3>7. CASE ReadIndex(n)
        BY <3>7, ReadIndexSafe
      <3>8. CASE Persist(n)
        BY <3>8, PersistSafe
      <3>9. CASE Apply(n)
        BY <3>9, ApplySafe
      <3>10. CASE \E i : Compact(n, i)
        BY <3>10, CompactSafe
      <3>11. CASE Restart(n)
        BY <3>11, RestartSafe
      <3> QED BY <3>1, <3>2, <3>3, <3>4, <3>5, <3>6, <3>7, <3>8, <3>9, <3>10, <3>11
    <2> QED BY <1>4, <1>5, <2>1
            DEF Next, ReceiveVoteRequest, ReceiveVoteResponse, ReceiveAppend, ReceiveAppendResponse, ReceiveHeartbeat,
                ReceiveHeartbeatResponse, ReceiveSnapshot, ReceiveTimeoutNow, ReceiveForwarded, ReceiveReadIndexResp
  <1> QED BY <1>1, <1>5

-----------------------------------------------------------------------------
\* What is acknowledged when a group begins: the first leader's entry, if there is one.
BeginAcks(K, L) == [v \in K.progress |-> [x \in Nat |-> IF L # None /\ x = 1 THEN 1 ELSE 0]]

\* All voters are a majority.
LEMMA AllMajority ==
    ASSUME NEW K, FixedConf(K), NEW S, K.incoming \subseteq S
    PROVE  MajorityOf(K, S)
  <1>1. K.incoming \cap S = K.incoming
    OBVIOUS
  <1>2. IsFiniteSet(K.incoming) /\ Cardinality(K.incoming) >= 2
    BY RaftAssumption, FS_Subset DEF FixedConf
  <1>3. Cardinality(K.incoming) \in Nat
    BY <1>2, FS_CardinalityType
  <1>4. Cardinality(K.incoming) >= Majority(Cardinality(K.incoming))
    <2> DEFINE c == Cardinality(K.incoming)
    <2> HIDE DEF c
    <2>1. c \in Nat /\ c >= 2
      BY <1>2, <1>3 DEF c
    <2>2. c >= (c \div 2) + 1
      BY <2>1
    <2> QED BY <2>2 DEF Majority, c
  <1> QED BY <1>1, <1>4 DEF MajorityOf

\* The leader of a group that begins settled leads those that have its first entry.
LEMMA BeginLeads ==
    ASSUME NEW K, NEW L, Begins(K, L), L # None
    PROVE  Leads(Row(BeginAcks(K, L), 1), 1, node[L])
  <1> DEFINE s == node[L]
             a == Row(BeginAcks(K, L), 1)
  <1>1. L \in K.progress /\ Begun(K, L, L, BeginDisk(L), BeginStore(L))
    BY DEF Begins
  <1>2. a = [v \in K.progress |-> 1]
    BY DEF Row, BeginAcks
  <1>3. /\ BeginDisk(L).commit = 1 /\ Len(BeginDisk(L).log) = 1 /\ BeginStore(L).snap = 0 /\ BeginStore(L).applied = 1
        /\ BeginStore(L).first = 1
    BY DEF BeginDisk, BeginStore, SettledDisk, FreshStore
  <1>4. /\ IsRaft(s) /\ s.conf = K /\ s.msgs = {} /\ Len(s.log) = 1 /\ s.committed = 1 /\ s.snap = 0 /\ s.applied = 1
        /\ s.first = 1 /\ s.pending_request_snapshot = 0 /\ s.reads = <<>> /\ s.state = "Leader"
        /\ \A j \in K.progress : s.prs[j].matched = 1 /\ s.prs[j].next_idx = 2 /\ s.prs[j].pending_snapshot = 0
    BY <1>1, <1>3 DEF Begun
  <1> HIDE DEF a, s
  <1>5. a \in [s.conf.progress -> Nat] /\ \A j \in s.conf.progress : a[j] = 1
    BY <1>2, <1>4
  <1>6. Trimmed(s)
    BY <1>4 DEF Trimmed
  <1>7. \A j \in s.conf.progress : Paced(a[j], Len(s.log), s.prs[j])
    BY <1>4, <1>5 DEF Paced
  <1>8. Queued(s)
    <2>1. <<>> \in Seq({}) /\ Len(<<>>) = 0
      OBVIOUS
    <2>2. s.reads \in Seq({}) /\ 1..Len(s.reads) = {}
      BY <2>1, <1>4
    <2> QED BY <2>2 DEF Queued
  <1>9. Leads(a, 1, s)
    BY <1>4, <1>5, <1>6, <1>7, <1>8 DEF Leads
  <1> QED BY <1>9 DEF a, s

\* The group begins with what is committed safe.
LEMMA BeginsSafe ==
    ASSUME NEW K, NEW L, Begins(K, L)
    PROVE  Safe(K, L, node, disk, net, chosen, BeginLogs(L), BeginAcks(K, L))
  <1> DEFINE G == BeginLogs(L)
             A == BeginAcks(K, L)
             one == SettledDisk(L).log
             d == BeginDisk(L)
  <1>1. /\ FixedConf(K) /\ L \in K.progress \cup {None} /\ net = {} /\ chosen = d.log
        /\ K.incoming \subseteq K.progress
    BY DEF Begins, FixedConf
  <1>2. \A n \in K.progress : Begun(K, L, n, BeginDisk(L), BeginStore(L)) /\ n # None
    BY RaftAssumption DEF Begins, FixedConf
  <1>3. A \in [K.progress -> [Nat -> Nat]] /\ \A v \in K.progress, x \in Nat : A[v][x] = (IF L # None /\ x = 1 THEN 1 ELSE 0)
    BY DEF BeginAcks
  <1>4. \A x \in Nat : G[x] = (IF L # None /\ x = 1 THEN one ELSE <<>>)
    BY DEF BeginLogs
  <1>5. one \in Seq(NEntry) /\ Len(one) = 1 /\ one[1].term = 1 /\ one # <<>> /\ SamePrefix(one, one, 1)
    <2>1. one = <<[term |-> 1, type |-> "Normal", data |-> Empty]>>
      BY DEF SettledDisk
    <2>2. [term |-> 1, type |-> "Normal", data |-> Empty] \in NEntry
      BY DEF NEntry
    <2>3. one \in Seq(NEntry) /\ Len(one) = 1 /\ one[1].term = 1
      BY <2>1, <2>2
    <2>4. one # <<>>
      BY <2>1
    <2>5. SamePrefix(one, one, 1)
      BY <2>3 DEF SamePrefix
    <2> QED BY <2>3, <2>4, <2>5
  <1>6. \A n \in K.progress : node[n].term = d.term /\ node[n].log = d.log /\ disk[n] = d
    BY <1>2 DEF Begun
  <1>7. L = None => d.log = <<>> /\ d.term = 0 /\ d.commit = 0
    BY DEF BeginDisk, FreshDisk
  <1>8. L # None => d.log = one /\ d.term = 1 /\ d.commit = 1
    BY DEF BeginDisk, SettledDisk
  <1>9. \A n \in K.progress : node[n].state \in {"Leader", "Follower"} /\ (node[n].state = "Leader" => n = L /\ L # None)
    BY <1>2 DEF Begun
  <1>10. \A n \in K.progress :
            /\ node[n].committed = d.commit /\ node[n].snap = 0 /\ node[n].applied = (IF L = None THEN 0 ELSE 1)
            /\ node[n].first = 1 /\ node[n].pending_request_snapshot = 0 /\ node[n].persisted = Len(d.log)
    BY <1>2 DEF Begun, BeginStore, FreshStore
  <1> HIDE DEF G, A, one, d
  <1>11. LogsSafe(K, node, G, A)
    <2> SUFFICES ASSUME NEW t \in Nat, NEW t2 \in Nat, t < t2, G[t2] # <<>>, NEW i \in Nat \ {0}, Own(G, t, i)
                 PROVE  Holds(K, node, G, A, G[t2], t, i)
      BY DEF LogsSafe
    <2>1. L # None /\ t2 = 1 /\ t = 0
      BY <1>4
    <2>0. \A w \in K.progress : node[w].term = 1 /\ A[w][0] = 0
      BY <2>1, <1>3, <1>6, <1>8
    <2>9. i \in Nat /\ i > 0
      OBVIOUS
    <2>2. K.incoming \subseteq {w \in K.progress : node[w].term > t /\ A[w][t] < i}
      BY <2>1, <2>0, <2>9, <1>1
    <2>3. Blocked(K, node, A, t, i)
      BY <2>2, <1>1, AllMajority DEF Blocked
    <2> QED BY <2>3 DEF Holds
  <1>12. ChosenSafe(K, chosen, G, A)
    <2>1. CASE L = None
      <3>1. chosen = <<>>
        BY <2>1, <1>1, <1>7
      <3>2. <<>> \in Seq(NEntry) /\ Len(<<>>) = 0
        OBVIOUS
      <3> QED BY <3>1, <3>2 DEF ChosenSafe
    <2>2. CASE L # None
      <3>1. K.incoming \subseteq {v \in K.progress : A[v][1] >= 1}
        BY <2>2, <1>1, <1>3
      <3>2. MajorityOf(K, {v \in K.progress : A[v][1] >= 1})
        BY <3>1, <1>1, AllMajority
      <3>3. G[1] = one /\ chosen = one /\ 1 \in 1..Len(one)
        BY <2>2, <1>1, <1>4, <1>5, <1>8
      <3>4. ChosenAt(K, G, A, 1, 1)
        BY <3>2, <3>3, <1>5 DEF ChosenAt
      <3> QED BY <3>3, <3>4, <1>5 DEF ChosenSafe
    <2> QED BY <2>1, <2>2
  <1>13. ASSUME NEW n \in K.progress
         PROVE  /\ AckedOK(G, A[n], disk[n], node[n].term) /\ StoreOK(chosen, node[n], disk[n]) /\ LeadOK(A, n, node[n])
                /\ CandOK(K, L, node, net, G, A, n)
                /\ \A t \in Nat : Has(K, node, G, A, disk[n].log, t, A[n][t])
    <2>0. SamePrefix(<<>>, <<>>, 0) /\ Len(<<>>) = 0
      BY DEF SamePrefix
    <2>1. AckedOK(G, A[n], disk[n], node[n].term)
      <3>1. CASE L = None
        BY <3>1, <2>0, <1>3, <1>4, <1>6, <1>7 DEF AckedOK
      <3>2. CASE L # None
        <4>1. \A t \in Nat : A[n][t] > 0 => t <= 1 /\ G[t] # <<>>
          BY <3>2, <1>3, <1>4, <1>5
        <4>2. A[n][1] = 1 /\ G[1] = one
          BY <3>2, <1>3, <1>4
        <4> QED BY <3>2, <4>1, <4>2, <1>5, <1>6, <1>8 DEF AckedOK
      <3> QED BY <3>1, <3>2
    <2>2. StoreOK(chosen, node[n], disk[n])
      <3>1. CASE L = None
        BY <3>1, <2>0, <1>1, <1>6, <1>7, <1>10 DEF StoreOK, Trimmed
      <3>2. CASE L # None
        BY <3>2, <1>1, <1>5, <1>6, <1>8, <1>10 DEF StoreOK, Trimmed
      <3> QED BY <3>1, <3>2
    <2>3. LeadOK(A, n, node[n])
      <3> SUFFICES ASSUME node[n].state = "Leader"
                   PROVE  node[n].log # <<>> /\ Leads(Row(A, node[n].term), node[n].committed, node[n])
                          /\ node[n].persisted <= A[n][node[n].term]
        BY DEF LeadOK
      <3>1. n = L /\ L # None
        BY <1>9
      <3>2. node[n].term = 1 /\ node[n].committed = 1 /\ node[n].log = one /\ node[n].persisted = 1
        BY <3>1, <1>5, <1>6, <1>8, <1>10
      <3>3. Leads(Row(A, 1), 1, node[n])
        BY <3>1, BeginLeads DEF A
      <3> QED BY <3>1, <3>2, <3>3, <1>3, <1>5
    <2>4. CandOK(K, L, node, net, G, A, n)
      BY <1>9 DEF CandOK
    <2>5. ASSUME NEW t \in Nat PROVE Has(K, node, G, A, disk[n].log, t, A[n][t])
      <3>1. CASE L # None /\ t = 1
        <4>1. A[n][t] = 1 /\ G[t] = one /\ disk[n].log = one
          BY <3>1, <1>3, <1>4, <1>6, <1>8
        <4>2. ASSUME NEW i \in 1..A[n][t] PROVE Holds(K, node, G, A, disk[n].log, t, i)
          <5>1. i = 1
            BY <4>1
          <5> QED BY <4>1, <5>1, <1>5 DEF Holds
        <4> QED BY <4>2 DEF Has
      <3>2. CASE ~(L # None /\ t = 1)
        <4>1. A[n][t] = 0
          BY <3>2, <1>3
        <4> QED BY <4>1 DEF Has
      <3> QED BY <3>1, <3>2
    <2> QED BY <2>1, <2>2, <2>3, <2>4, <2>5
  <1>14. Safe(K, L, node, disk, net, chosen, G, A)
    BY <1>1, <1>3, <1>11, <1>12, <1>13 DEF Safe
  <1> QED BY <1>14 DEF G, A

-----------------------------------------------------------------------------
\* No application asks for a snapshot (RawNode::request_snapshot).
Unrequested == \A sc \in Scenarios : sc.budget["Request"] = 0

\* What holds of a group whose members never change and never ask for snapshots
SafetyInv == Unasked /\ \E K, L, G, A : Secure(K, L, G, A)

\* It holds at the beginning,
LEMMA InitSafety == ASSUME Unchanging, Unrequested, Init PROVE SafetyInv
  <1>1. PICK K, L : Begins(K, L)
    BY InitBegins
  <1>2. Secure(K, L, BeginLogs(L), BeginAcks(K, L))
    BY <1>1, BeginsInv, BeginsMatch, BeginsSafe DEF Secure
  <1>3. Unasked
    <2>1. PICK sc \in Scenarios : budget = sc.budget
      BY <1>1 DEF Begins
    <2>2. sc.budget \in [Event -> Nat]
      BY RaftAssumption DEF ScenarioType
    <2> QED BY <2>1, <2>2 DEF Unasked, Unrequested
  <1> QED BY <1>2, <1>3 DEF SafetyInv

\* and every step keeps it.
LEMMA NextSafety == ASSUME SafetyInv, [Next]_vars PROVE SafetyInv'
  <1>1. PICK K, L, G, A : Secure(K, L, G, A)
    BY DEF SafetyInv
  <1>2. Unasked /\ Unasked'
    BY NextUnasked DEF SafetyInv
  <1>3. SafeNext(K, L)
    BY <1>1, <1>2, NextSafe
  <1>4. \E G2, A2 : Secure(K, L, G2, A2)'
    BY <1>3 DEF SafeNext, Secure
  <1> QED BY <1>2, <1>4 DEF SafetyInv

\* It holds in every state.
LEMMA SpecSafety == ASSUME Unchanging, Unrequested PROVE Spec => []SafetyInv
  <1>1. Init => SafetyInv
    BY InitSafety
  <1>2. SafetyInv /\ [Next]_vars => SafetyInv'
    BY NextSafety
  <1> QED BY <1>1, <1>2, PTL DEF Spec

\* What was chosen is the log of one leader, which a majority has acknowledged.
LEMMA ChosenBy ==
    ASSUME NEW K, NEW L, NEW G, NEW A, Secure(K, L, G, A), chosen # <<>>
    PROVE  \E t \in Nat : /\ SamePrefix(chosen, G[t], Len(chosen)) /\ chosen[Len(chosen)].term = t /\ Own(G, t, Len(chosen))
                          /\ MajorityOf(K, {v \in K.progress : A[v][t] >= Len(chosen)})
                          /\ ~Blocked(K, node, A, t, Len(chosen))
  <1>1. /\ FixedConf(K) /\ A \in [K.progress -> [Nat -> Nat]] /\ ChosenSafe(K, chosen, G, A)
    BY DEF Secure, Inv, Safe
  <1>2. chosen \in Seq(NEntry)
    BY <1>1 DEF ChosenSafe
  <1>3. Len(chosen) \in Nat
    BY <1>2
  <1>4. PICK t \in Nat : ChosenAt(K, G, A, t, Len(chosen)) /\ SamePrefix(chosen, G[t], Len(chosen))
    BY <1>1 DEF ChosenSafe
  <1>5. /\ Len(chosen) \in 1..Len(G[t]) /\ G[t][Len(chosen)].term = t
        /\ MajorityOf(K, {v \in K.progress : A[v][t] >= Len(chosen)})
    BY <1>4 DEF ChosenAt
  <1>6. Len(chosen) \in 1..Len(chosen)
    BY <1>3, <1>5
  <1>7. chosen[Len(chosen)] = G[t][Len(chosen)]
    BY <1>4, <1>6 DEF SamePrefix
  <1>8. ~Blocked(K, node, A, t, Len(chosen))
    BY <1>1, <1>3, <1>5, ChosenNotBlocked
  <1> QED BY <1>4, <1>5, <1>7, <1>8 DEF Own

\* Nodes agree on what is committed.
LEMMA SafetyStateMachine == ASSUME SafetyInv PROVE StateMachineSafety
  <1>1. PICK K, L, G, A : Secure(K, L, G, A)
    BY DEF SafetyInv
  <1>2. Nodes = K.progress /\ \A n \in K.progress : StoreOK(chosen, node[n], disk[n])
    BY <1>1 DEF Secure, Inv, Safe, Nodes
  <1> QED BY <1>2 DEF StateMachineSafety, StoreOK

\* Leaders have what was committed.
LEMMA SafetyLeaders == ASSUME SafetyInv PROVE LeaderCompleteness
  <1>1. PICK K, L, G, A : Secure(K, L, G, A)
    BY DEF SafetyInv
  <1>2. /\ Nodes = K.progress /\ G \in Logs /\ LogsSafe(K, node, G, A) /\ ChosenSafe(K, chosen, G, A)
        /\ \A n \in K.progress : IsRaft(node[n]) /\ LeadOK(A, n, node[n]) /\ LogInv(G, n)
    BY <1>1 DEF Secure, Inv, Safe, MatchInv, Nodes, NodeInv
  <1>3. SUFFICES ASSUME NEW n \in K.progress, node[n].state = "Leader",
                        chosen # <<>> => node[n].term >= chosen[Len(chosen)].term
                 PROVE  SamePrefix(node[n].log, chosen, Len(chosen))
    BY <1>2 DEF LeaderCompleteness
  <1>4. /\ node[n].log \in Seq(NEntry) /\ node[n].term \in Nat /\ node[n].log = G[node[n].term] /\ node[n].log # <<>>
        /\ chosen \in Seq(NEntry)
    BY <1>2, <1>3 DEF IsRaft, LeadOK, LogInv, ChosenSafe
  <1>5. Len(node[n].log) \in Nat /\ Len(chosen) \in Nat
    BY <1>4
  <1>6. CASE chosen = <<>>
    BY <1>4, <1>5, <1>6 DEF SamePrefix
  <1>7. CASE chosen # <<>>
    <2> DEFINE c == Len(chosen)
               T == node[n].term
    <2>1. PICK t \in Nat : /\ SamePrefix(chosen, G[t], c) /\ chosen[c].term = t /\ Own(G, t, c) /\ ~Blocked(K, node, A, t, c)
      BY <1>1, <1>7, ChosenBy
    <2>2. c \in Nat \ {0} /\ T \in Nat /\ T >= t
      BY <1>3, <1>4, <1>5, <1>7, <2>1
    <2>3. G[t] \in Seq(NEntry)
      BY <1>2 DEF Logs
    <2>4. Len(G[t]) \in Nat /\ Len(G[T]) \in Nat
      BY <2>3, <1>4, <1>5
    <2> HIDE DEF c, T
    <2>5. SamePrefix(G[T], G[t], c)
      <3>1. CASE T = t
        <4>1. c <= Len(G[t])
          BY <2>1 DEF SamePrefix
        <4> QED BY <3>1, <4>1 DEF SamePrefix
      <3>2. CASE T # t
        <4>1. t < T /\ G[T] # <<>>
          BY <3>2, <2>2, <1>4 DEF T
        <4>2. Holds(K, node, G, A, G[T], t, c)
          BY <4>1, <2>1, <2>2, <1>2 DEF LogsSafe
        <4> QED BY <4>2, <2>1 DEF Holds
      <3> QED BY <3>1, <3>2
    <2>6. SamePrefix(G[t], chosen, c)
      BY <2>1, <2>2, <2>4, <1>5, SamePrefixSym
    <2>7. SamePrefix(G[T], chosen, c)
      BY <2>5, <2>6, <2>2, <2>4, <1>5, SamePrefixTrans
    <2> QED BY <2>7, <1>4 DEF T, c
  <1> QED BY <1>6, <1>7

\* A set that holds a majority is a quorum.
LEMMA MajorityIsQuorum ==
    ASSUME NEW K, FixedConf(K), NEW S, MajorityOf(K, S)
    PROVE  HasQuorum(K, S)
  <1> DEFINE votes == [v \in S |-> TRUE]
  <1>1. K.outgoing = {}
    BY DEF FixedConf
  <1>2. Answered(K.incoming, votes, TRUE) = K.incoming \cap S
    BY DEF Answered
  <1>3. MajorityVote(K.incoming, votes) = "Won" /\ MajorityVote(K.outgoing, votes) = "Won"
    BY <1>1, <1>2 DEF MajorityVote, MajorityOf
  <1> QED BY <1>3 DEF HasQuorum, VoteResult

\* More is still a majority.
LEMMA MajorityGrows ==
    ASSUME NEW K, FixedConf(K), NEW S, MajorityOf(K, S), NEW T, S \subseteq T
    PROVE  MajorityOf(K, T)
  <1>1. IsFiniteSet(K.incoming)
    BY RaftAssumption, FS_Subset DEF FixedConf
  <1>2. IsFiniteSet(K.incoming \cap T) /\ K.incoming \cap S \subseteq K.incoming \cap T
    BY <1>1, FS_Subset
  <1>3. /\ Cardinality(K.incoming \cap S) <= Cardinality(K.incoming \cap T) /\ Cardinality(K.incoming \cap S) \in Nat
        /\ Cardinality(K.incoming \cap T) \in Nat /\ Cardinality(K.incoming) \in Nat
    BY <1>1, <1>2, FS_Subset, FS_CardinalityType
  <1>4. Majority(Cardinality(K.incoming)) \in Nat
    BY <1>3, MajorityIsMoreThanHalf
  <1> QED BY <1>3, <1>4 DEF MajorityOf

\* A majority of disks has what was committed.
LEMMA SafetyDurable == ASSUME SafetyInv PROVE CommittedIsDurable
  <1>1. PICK K, L, G, A : Secure(K, L, G, A)
    BY DEF SafetyInv
  <1>2. /\ Nodes = K.progress /\ FixedConf(K) /\ G \in Logs /\ ChosenSafe(K, chosen, G, A)
        /\ A \in [K.progress -> [Nat -> Nat]] /\ K.incoming \subseteq K.progress
    BY <1>1 DEF Secure, Inv, Safe, MatchInv, Nodes, FixedConf
  <1>3. \A n \in K.progress : node[n].conf = K /\ disk[n].log \in Seq(NEntry)
                              /\ \A t \in Nat : Has(K, node, G, A, disk[n].log, t, A[n][t])
    BY <1>1 DEF Secure, Inv, NodeInv, Safe
  <1> DEFINE S == {j \in Nodes : SamePrefix(disk[j].log, chosen, Len(chosen))}
             c == Len(chosen)
  <1>4. chosen \in Seq(NEntry)
    BY <1>2 DEF ChosenSafe
  <1>5. Len(chosen) \in Nat /\ \A n \in K.progress : Len(disk[n].log) \in Nat
    BY <1>3, <1>4
  <1>6. MajorityOf(K, S)
    <2>1. CASE chosen = <<>>
      <3>1. K.incoming \subseteq S
        BY <2>1, <1>2, <1>5 DEF SamePrefix
      <3> QED BY <3>1, <1>2, AllMajority
    <2>2. CASE chosen # <<>>
      <3>1. PICK t \in Nat : /\ SamePrefix(chosen, G[t], c) /\ Own(G, t, c) /\ ~Blocked(K, node, A, t, c)
                             /\ MajorityOf(K, {v \in K.progress : A[v][t] >= c})
        <4>1. \E t \in Nat : /\ SamePrefix(chosen, G[t], Len(chosen)) /\ chosen[Len(chosen)].term = t /\ Own(G, t, Len(chosen))
                              /\ MajorityOf(K, {v \in K.progress : A[v][t] >= Len(chosen)})
                              /\ ~Blocked(K, node, A, t, Len(chosen))
          BY <2>2, <1>1, ChosenBy
        <4> QED BY <4>1
      <3>2. G[t] \in Seq(NEntry)
        BY <1>2 DEF Logs
      <3>3. Len(G[t]) \in Nat /\ c \in Nat \ {0}
        BY <3>2, <2>2, <1>4, <1>5
      <3>4. SamePrefix(G[t], chosen, c)
        BY <3>1, <3>3, <1>5, SamePrefixSym
      <3>5. ASSUME NEW v \in K.progress, A[v][t] >= c PROVE SamePrefix(disk[v].log, chosen, c)
        <4>0. A[v] \in [Nat -> Nat]
          BY <1>2
        <4>9. A[v][t] \in Nat
          BY <4>0
        <4>1. A[v][t] \in Nat /\ c \in 1..A[v][t]
          BY <4>9, <3>3, <3>5
        <4>2. Holds(K, node, G, A, disk[v].log, t, c)
          BY <4>1, <3>1, <1>3 DEF Has
        <4>3. SamePrefix(disk[v].log, G[t], c)
          BY <4>2, <3>1 DEF Holds
        <4> HIDE DEF c
        <4>4. Len(chosen) \in Nat /\ Len(disk[v].log) \in Nat
          BY <1>5
        <4> QED BY <4>3, <4>4, <3>3, <3>4, SamePrefixTrans
      <3>6. {v \in K.progress : A[v][t] >= c} \subseteq S
        BY <3>5, <1>2
      <3> QED BY <3>1, <3>6, <1>2, MajorityGrows
    <2> QED BY <2>1, <2>2
  <1>7. HasQuorum(K, S)
    BY <1>2, <1>6, MajorityIsQuorum
  <1> QED BY <1>2, <1>3, <1>7 DEF CommittedIsDurable

\* Heartbeats commit what was acknowledged.
LEMMA SafetyHeartbeats == ASSUME SafetyInv PROVE NoFatalHeartbeat
  <1>1. PICK K, L, G, A : Secure(K, L, G, A)
    BY DEF SafetyInv
  <1>2. SUFFICES ASSUME NEW m \in net, m.type = "MsgHeartbeat", m.to \in Nodes, m.term >= node[m.to].term
                 PROVE  m.commit <= Len(node[m.to].log)
    BY DEF NoFatalHeartbeat, LastIndex
  <1> DEFINE n == m.to
             h == A[n]
  <1>3. n \in K.progress
    BY <1>1, <1>2 DEF Secure, Inv, Nodes
  <1>4. /\ NodeInv(K, n) /\ MsgOK(K, m) /\ LogInv(G, n) /\ A \in [K.progress -> [Nat -> Nat]]
        /\ AckedOK(G, h, disk[n], node[n].term) /\ Told(G, chosen, h, m)
    BY <1>1, <1>3 DEF Secure, Inv, MatchInv, Safe, MsgSafe
  <1>5. /\ h \in [Nat -> Nat] /\ m.term \in Nat /\ m.commit \in Nat /\ m.commit <= h[m.term]
        /\ node[n].term \in Nat /\ node[n].log \in Seq(NEntry) /\ disk[n].log \in Seq(NEntry)
    BY <1>2, <1>3, <1>4 DEF MsgOK, Told, NodeInv, IsRaft
  <1> HIDE DEF h
  <1>6. /\ Len(node[n].log) \in Nat /\ Len(disk[n].log) \in Nat /\ h[m.term] \in Nat /\ h[node[n].term] \in Nat
    <2>1. node[n].log \in Seq(NEntry) /\ disk[n].log \in Seq(NEntry)
      BY <1>5
    <2>2. Len(node[n].log) \in Nat /\ Len(disk[n].log) \in Nat
      BY <2>1
    <2> QED BY <2>2, <1>5
  <1>7. Len(disk[n].log) <= Len(node[n].log)
    BY <1>4, <1>6 DEF LogInv, SamePrefix, NodeInv
  <1>8. /\ h[node[n].term] <= Len(disk[n].log) /\ (h[m.term] > 0 => m.term <= node[n].term)
    BY <1>4, <1>5 DEF AckedOK
  <1> DEFINE T == node[n].term
             x == m.term
             d == Len(disk[n].log)
             l == Len(node[n].log)
  <1>9. x \in Nat /\ T \in Nat /\ x >= T
    BY <1>2, <1>5
  <1>10. /\ m.commit \in Nat /\ h[x] \in Nat /\ d \in Nat /\ l \in Nat /\ m.commit <= h[x] /\ d <= l
         /\ h[T] <= d /\ (h[x] > 0 => x <= T)
    BY <1>5, <1>6, <1>7, <1>8
  <1> HIDE DEF T, x, d, l
  <1>11. m.commit <= l
    <2>1. CASE x = T
      BY <2>1, <1>10, <1>6 DEF T
    <2>2. CASE x # T
      <3>1. h[x] = 0
        BY <2>2, <1>9, <1>10
      <3> QED BY <3>1, <1>10
    <2> QED BY <2>1, <2>2
  <1> QED BY <1>11 DEF l

-----------------------------------------------------------------------------
\* A group begins with nothing committed, or with the first entry of its leader,
\* which all nodes know,
LEMMA InitImplements == ASSUME Unchanging, Init PROVE C!Init
  <1>1. PICK K, L : Begins(K, L)
    BY InitBegins
  <1> DEFINE hs == BeginDisk(L)
             e == [term |-> 1, type |-> "Normal", data |-> Empty]
             known == [n \in Server |-> IF n \in Nodes THEN SubSeq(node[n].log, 1, node[n].committed) ELSE <<>>]
  <1>2. chosen = hs.log /\ Nodes = K.progress /\ \A n \in Nodes : node[n].log = hs.log /\ node[n].committed = hs.commit
    BY <1>1 DEF Begins, Begun, Nodes
  <1>3. e \in Entry
    BY DEF Entry
  <1>4. hs.log \in Seq(Entry) /\ hs.commit \in 0..Len(hs.log)
    <2>1. CASE L = None
      BY <2>1 DEF BeginDisk, FreshDisk
    <2>2. CASE L # None
      <3>1. hs.log = <<e>> /\ hs.commit = 1
        BY <2>2 DEF BeginDisk, SettledDisk
      <3> HIDE DEF e, hs
      <3> QED BY <1>3, <3>1
    <2> QED BY <2>1, <2>2
  <1> HIDE DEF hs, e
  <1>5. SubSeq(chosen, 1, 0) = <<>> /\ 0 \in 0..Len(chosen)
    BY <1>2, <1>4
  <1>6. known \in [Server -> {SubSeq(chosen, 1, k) : k \in 0..Len(chosen)}]
    <2>1. ASSUME NEW n \in Server PROVE known[n] \in {SubSeq(chosen, 1, k) : k \in 0..Len(chosen)}
      BY <1>2, <1>4, <1>5
    <2> QED BY <2>1
  <1>7. chosen \in Seq(Entry)
    BY <1>2, <1>4
  <1> QED BY <1>6, <1>7 DEF C!Init

\* Sequences that agree up to n have the same first n elements.
LEMMA SamePrefixCut ==
    ASSUME NEW S, NEW l1 \in Seq(S), NEW l2 \in Seq(S), NEW n \in Nat, SamePrefix(l1, l2, n)
    PROVE  SubSeq(l1, 1, n) = SubSeq(l2, 1, n)
  <1>1. n <= Len(l1) /\ n <= Len(l2) /\ \A k \in 1..n : l1[k] = l2[k]
    BY DEF SamePrefix
  <1> QED BY <1>1

\* and every step extends it or leaves it alone.
LEMMA NextImplements == ASSUME SafetyInv, [Next]_vars PROVE C!Next
  <1>1. PICK K, L, G, A : Secure(K, L, G, A)
    BY DEF SafetyInv
  <1>2. SafeNext(K, L)
    BY <1>1, NextSafe DEF SafetyInv
  <1>3. /\ DOMAIN node = K.progress /\ DOMAIN node' = K.progress /\ K.progress \subseteq Server /\ chosen \in Seq(NEntry)
    <2>1. Inv(K, L) /\ Inv(K, L)' /\ ChosenSafe(K, chosen, G, A)
      BY <1>1, <1>2 DEF Secure, SafeNext, Safe
    <2> QED BY <2>1 DEF Inv, FixedConf, ChosenSafe
  <1>4. PICK n \in K.progress : /\ chosen' \in {chosen, SubSeq(node'[n].log, 1, node'[n].committed)}
                                /\ \A k \in K.progress \ {n} : node'[k] = node[k]
    BY <1>2 DEF SafeNext, ChosenStep
  <1> DEFINE l == node'[n].log
             c == node'[n].committed
             known == [k \in Server |-> IF k \in Nodes THEN SubSeq(node[k].log, 1, node[k].committed) ELSE <<>>]
  <1>5. l \in Seq(NEntry) /\ c \in Nat /\ SamePrefix(l, chosen', c) /\ chosen' \in Seq(NEntry)
    <2>1. PICK G2, A2 : Safe(K, L, node', disk', net', chosen', G2, A2)
      BY <1>2 DEF SafeNext
    <2>2. StoreOK(chosen', node'[n], disk'[n]) /\ ChosenSafe(K, chosen', G2, A2)
      BY <2>1 DEF Safe
    <2>3. IsRaft(node'[n])
      BY <1>2 DEF SafeNext, Inv, NodeInv
    <2> QED BY <2>2, <2>3 DEF StoreOK, ChosenSafe, IsRaft
  <1>6. known' = [known EXCEPT ![n] = SubSeq(l, 1, c)]
    BY <1>3, <1>4 DEF Nodes
  <1>7. CASE chosen' = chosen
    <2>1. SubSeq(l, 1, c) = SubSeq(chosen, 1, c)
      BY <1>5, <1>7, SamePrefixCut
    <2>2. c <= Len(chosen)
      BY <1>5, <1>7 DEF SamePrefix
    <2>3. Len(chosen) \in Nat
      BY <1>3
    <2>4. c \in 0..Len(chosen)
      BY <1>5, <2>2, <2>3
    <2>5. C!Know(n)
      BY <1>6, <1>7, <2>1, <2>4 DEF C!Know
    <2> QED BY <2>5, <1>3, <1>4 DEF C!Next
  <1>8. CASE chosen' = SubSeq(l, 1, c)
    <2>1. SamePrefix(chosen, chosen', Len(chosen)) /\ Len(chosen) \in Nat
      BY <1>2, <1>3 DEF SafeNext, ChosenStep
    <2>2. SubSeq(chosen, 1, Len(chosen)) = SubSeq(chosen', 1, Len(chosen))
      BY <2>1, <1>3, <1>5, SamePrefixCut
    <2>3. C!IsPrefix(chosen, chosen')
      BY <2>1, <2>2 DEF C!IsPrefix, SamePrefix
    <2>4. chosen' \in Seq(Entry)
      <3>1. NEntry \subseteq Entry
        BY DEF Entry, NEntry
      <3> QED BY <3>1, <1>5
    <2>5. C!Commit(n)
      BY <1>6, <1>8, <2>3, <2>4 DEF C!Commit
    <2> QED BY <2>5, <1>3, <1>4 DEF C!Next
  <1> QED BY <1>4, <1>7, <1>8

-----------------------------------------------------------------------------
\* Nodes agree on what they take for committed, for a group of any size of at least two
\* voters and any learners, any logs, terms and scenarios without configuration changes
\* and without RawNode::request_snapshot, over messages that are lost, duplicated and
\* reordered, and crashes and restarts between any two steps.
THEOREM RaftStateMachineSafety == ASSUME Unchanging, Unrequested PROVE Spec => []StateMachineSafety
  <1>1. SafetyInv => StateMachineSafety
    BY SafetyStateMachine
  <1> QED BY <1>1, SpecSafety, PTL

\* Whoever leads has everything that was committed in its term or before: what the test
\* is_up_to_date of a vote and the rule that a leader commits only entries of its own
\* term (RaftLog::maybe_commit) are for.
THEOREM RaftLeaderCompleteness == ASSUME Unchanging, Unrequested PROVE Spec => []LeaderCompleteness
  <1>1. SafetyInv => LeaderCompleteness
    BY SafetyLeaders
  <1> QED BY <1>1, SpecSafety, PTL

\* What was committed is on the disks of a majority of the voters at any time, although
\* leaders send their entries before they have persisted them, followers are told what
\* is committed before they have it, and nodes come back with what was on disk.
THEOREM RaftCommittedIsDurable == ASSUME Unchanging, Unrequested PROVE Spec => []CommittedIsDurable
  <1>1. SafetyInv => CommittedIsDurable
    BY SafetyDurable
  <1> QED BY <1>1, SpecSafety, PTL

\* A heartbeat commits no more than its receiver has in its log, whenever it arrives: the
\* panic of RaftLog::commit_to is not reached.
THEOREM RaftNoFatalHeartbeat == ASSUME Unchanging, Unrequested PROVE Spec => []NoFatalHeartbeat
  <1>1. SafetyInv => NoFatalHeartbeat
    BY SafetyHeartbeats
  <1> QED BY <1>1, SpecSafety, PTL

\* A group implements a single growing sequence of committed entries, of which every
\* node knows a prefix (CommittedLog).
THEOREM RaftImplementsCommittedLog == ASSUME Unchanging, Unrequested PROVE Spec => CommittedLogSpec
  <1>1. Init => C!Init
    BY InitImplements
  <1>2. SafetyInv /\ [Next]_vars => [C!Next]_(C!vars)
    BY NextImplements
  <1> QED BY <1>1, <1>2, SpecSafety, PTL DEF Spec, CommittedLogSpec, C!Spec
=============================================================================
