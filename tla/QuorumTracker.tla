---------------------------- MODULE QuorumTracker ----------------------------
(***************************************************************************)
(* A node asking the quorum arithmetic for decisions while answers come    *)
(* in.  To a leader, the acknowledged index of a voter grows               *)
(* (Progress::maybe_update) and its commit group is assigned               *)
(* (Raft::assign_commit_groups); to a candidate, votes are recorded        *)
(* (ProgressTracker::record_vote).  The configuration is fixed but         *)
(* arbitrary, joint ones included.                                         *)
(***************************************************************************)
EXTENDS QuorumRules, Members

CONSTANTS
    MaxAcked,       \* bound on acknowledged indexes
    Groups          \* commit group ids, 0 for none

ASSUME AckedAssumption == MaxAcked \in 0..IndexMax

VARIABLES state, conf, acked, group, votes

trackerVars == <<state, conf, acked, group, votes>>

Confs == {c \in [incoming : SUBSET Node, outgoing : SUBSET Node] : c.incoming # {}}

TrackerInit ==
    /\ state \in {"Leader", "Candidate"}
    /\ conf \in Confs
    /\ acked = [n \in Node |-> 0]
    /\ group = [n \in Node |-> 0]
    /\ votes = <<>>

\* An acknowledgement: Progress::maybe_update moves matched forward only.
Ack(n) ==
    /\ state = "Leader"
    /\ \E i \in (acked[n] + 1)..MaxAcked : acked' = [acked EXCEPT ![n] = i]
    /\ UNCHANGED <<state, conf, group, votes>>

\* One pair of the loop of Raft::assign_commit_groups.
AssignGroup(n) ==
    /\ state = "Leader"
    /\ \E g \in Groups \ {0} : group' = [group EXCEPT ![n] = g]
    /\ UNCHANGED <<state, conf, acked, votes>>

\* Any node may answer, and answer again: learners and removed nodes too.
Vote(n, b) ==
    /\ state = "Candidate"
    /\ votes' = RecordVote(votes, n, b)
    /\ UNCHANGED <<state, conf, acked, group>>

TrackerNext ==
    \E n \in Node :
        \/ Ack(n)
        \/ AssignGroup(n)
        \/ \E b \in BOOLEAN : Vote(n, b)

TrackerSpec == TrackerInit /\ [][TrackerNext]_trackerVars

-----------------------------------------------------------------------------
(***************************************************************************)
(* Reference definitions: what the arithmetic is meant to compute, without *)
(* sorting and counting.                                                   *)
(***************************************************************************)
Halves == {V \in {conf.incoming, conf.outgoing} : V # {}}

\* Q holds more than half of V.
IsMajority(Q, V) == Q \subseteq V /\ 2 * Cardinality(Q) > Cardinality(V)

\* A majority of every half has acknowledged i.
Replicated(i) == \A V \in Halves : IsMajority({n \in V : acked[n] >= i}, V)

\* The nodes of V that acknowledged i belong to two commit groups.
InTwoGroups(V, i) ==
    \E m, n \in V : /\ acked[m] >= i /\ acked[n] >= i
                    /\ group[m] # 0 /\ group[n] # 0 /\ group[m] # group[n]

\* What group commit asks of index i in V: two groups have it; if there are
\* no two groups in V, a quorum is enough when everyone is in the one group,
\* and everyone must have it otherwise.
GroupReplicated(V, i) ==
    /\ IsMajority({n \in V : acked[n] >= i}, V)
    /\ IF InTwoGroups(V, 0) THEN InTwoGroups(V, i)
       ELSE \/ \A n \in V : group[n] # 0
            \/ \A n \in V : acked[n] >= i

Largest(P(_)) == CHOOSE i \in 0..MaxAcked : P(i) /\ \A j \in (i + 1)..MaxAcked : ~P(j)

-----------------------------------------------------------------------------
\* maximal_committed_index is the largest index that a majority of each half
\* of the configuration has acknowledged.
CommitsLargestReplicated ==
    CommittedIndex(conf, FALSE, acked, group) = Largest(Replicated)

\* With group commit it is the largest index that is also in two groups, in each
\* half and in both, whatever order the voters' HashSet is iterated in.
GroupCommitIsExact ==
    /\ \A V \in Halves : \A o \in DescendingOrders(V, acked) :
          MajorityCommittedIn(V, TRUE, acked, group, o) = Largest(LAMBDA i : GroupReplicated(V, i))
    /\ CommittedIndex(conf, TRUE, acked, group)
          = MinOf({Largest(LAMBDA i : GroupReplicated(V, i)) : V \in Halves})

\* A result is announced exactly when the missing votes cannot change it:
\* Won (Lost) when every (no) way to complete the votes has a quorum of yes.
VoteResultIsFinal ==
    LET missing == Node \ DOMAIN votes
        yes(S) == Answered(Node, votes, TRUE) \cup S
        wins(S) == \A V \in Halves : IsMajority(yes(S) \cap V, V)
    IN  /\ VoteResult(conf, votes) = "Won" <=> \A S \in SUBSET missing : wins(S)
        /\ VoteResult(conf, votes) = "Lost" <=> \A S \in SUBSET missing : ~wins(S)

\* Whatever else arrives, duplicates and contradictions included, an election
\* that is decided stays decided.
DecisionsStand ==
    [][VoteResult(conf, votes) # "Pending" => VoteResult(conf, votes') = VoteResult(conf, votes)]_trackerVars

\* Two sets of nodes that each decide by quorum share a node, in a joint
\* configuration too.  This is what elections and commits rest on.
QuorumsIntersect ==
    \A S, T \in SUBSET Node : HasQuorum(conf, S) /\ HasQuorum(conf, T) => S \cap T # {}
=============================================================================
