---------------------------- MODULE QuorumRules ----------------------------
(***************************************************************************)
(* The quorum arithmetic of raft-rs: crate::quorum::{majority, joint} and  *)
(* the parts of tracker.rs that are defined by it.                         *)
(*                                                                         *)
(* A configuration is a pair of voter sets [incoming, outgoing]; outgoing  *)
(* is empty outside a joint configuration.  Acknowledged indexes and       *)
(* commit groups are functions from voters to numbers (group 0 is "no      *)
(* group").  Votes are a function whose domain is the set of nodes that    *)
(* answered.  The flag committed_index returns besides the index says      *)
(* whether groups decided it and only feeds a consistency report; it is    *)
(* left out.                                                               *)
(***************************************************************************)
EXTENDS Integers, FiniteSets

CONSTANT IndexMax     \* stands for u64::MAX: above every log index

ASSUME IndexMaxAssumption == IndexMax \in Nat \ {0}

-----------------------------------------------------------------------------
\* util::majority
Majority(n) == n \div 2 + 1

MinOf(S) == CHOOSE x \in S : \A y \in S : x <= y

(***************************************************************************)
(* MajorityConfig::committed_index.  The voters live in a HashSet, so the  *)
(* order in which equal indexes end up after the sort is arbitrary: every  *)
(* descending order is possible.                                           *)
(***************************************************************************)
DescendingOrders(V, acked) ==
    {o \in [1..Cardinality(V) -> V] :
        /\ \A i, j \in 1..Cardinality(V) : o[i] = o[j] => i = j
        /\ \A i, j \in 1..Cardinality(V) : i < j => acked[o[i]] >= acked[o[j]]}

\* Half of the voters is enough.
MutQuorumIndex(V, acked, o) == acked[o[(Cardinality(V) + 1) \div 2]]

\* The largest index a majority has acknowledged, read off an order.
QuorumIndex(V, acked, o) == acked[o[Majority(Cardinality(V))]]

\* The group the loop compares the others with: that of the quorum index, or
\* the first one it meets if the quorum index has none.
CheckedGroup(V, group, o) ==
    LET q == o[Majority(Cardinality(V))]
        grouped == {i \in 1..Cardinality(V) : group[o[i]] # 0}
    IN  IF group[q] # 0 \/ grouped = {} THEN group[q] ELSE group[o[MinOf(grouped)]]

\* Stops at the first voter of another group without looking at the quorum.
MutGroupCommitted(V, acked, group, o) ==
    LET n == Cardinality(V)
        others == {i \in 1..n : group[o[i]] \notin {0, CheckedGroup(V, group, o)}}
    IN  IF others # {} THEN acked[o[MinOf(others)]]
        ELSE QuorumIndex(V, acked, o)

GroupCommitted(V, acked, group, o) ==
    LET n == Cardinality(V)
        others == {i \in 1..n : group[o[i]] \notin {0, CheckedGroup(V, group, o)}}
    IN  IF others # {}
          THEN MinOf({acked[o[MinOf(others)]], QuorumIndex(V, acked, o)})
        ELSE IF \A i \in 1..n : group[o[i]] # 0
          THEN QuorumIndex(V, acked, o)
        ELSE acked[o[n]]

MajorityCommittedIn(V, useGroups, acked, group, o) ==
    IF useGroups THEN GroupCommitted(V, acked, group, o) ELSE QuorumIndex(V, acked, o)

MajorityCommitted(V, useGroups, acked, group) ==
    IF V = {}
      THEN IndexMax
      ELSE MajorityCommittedIn(V, useGroups, acked, group,
                               CHOOSE o \in DescendingOrders(V, acked) : TRUE)

\* joint::Configuration::committed_index, ProgressTracker::maximal_committed_index
CommittedIndex(conf, useGroups, acked, group) ==
    MinOf({MajorityCommitted(conf.incoming, useGroups, acked, group),
           MajorityCommitted(conf.outgoing, useGroups, acked, group)})

(***************************************************************************)
(* MajorityConfig::vote_result and joint::Configuration::vote_result.      *)
(***************************************************************************)
Answered(V, votes, b) == {v \in V \cap DOMAIN votes : votes[v] = b}

\* A missing vote is counted as a rejection.
MutMajorityVote(V, votes) ==
    LET q == Majority(Cardinality(V))
    IN  IF V = {} \/ Cardinality(Answered(V, votes, TRUE)) >= q THEN "Won"
        ELSE IF Cardinality(DOMAIN votes \cap V) >= q THEN "Lost" ELSE "Pending"

MajorityVote(V, votes) ==
    LET yes == Cardinality(Answered(V, votes, TRUE))
        missing == Cardinality(V \ DOMAIN votes)
        q == Majority(Cardinality(V))
    IN  IF V = {} \/ yes >= q THEN "Won"
        ELSE IF yes + missing >= q THEN "Pending"
        ELSE "Lost"

VoteResult(conf, votes) ==
    LET i == MajorityVote(conf.incoming, votes)
        o == MajorityVote(conf.outgoing, votes)
    IN  IF i = "Won" /\ o = "Won" THEN "Won"
        ELSE IF i = "Lost" \/ o = "Lost" THEN "Lost"
        ELSE "Pending"

\* ProgressTracker::record_vote keeps the first answer of a node.
MutRecordVote(votes, v, b) ==
    [x \in DOMAIN votes \cup {v} |-> IF x = v THEN b ELSE votes[x]]

RecordVote(votes, v, b) ==
    [x \in DOMAIN votes \cup {v} |-> IF x \in DOMAIN votes THEN votes[x] ELSE b]

\* ProgressTracker::has_quorum
HasQuorum(conf, S) == VoteResult(conf, [v \in S |-> TRUE]) = "Won"

VotersOf(conf) == conf.incoming \cup conf.outgoing

\* joint::Configuration::is_singleton
IsSingleton(conf) == conf.outgoing = {} /\ Cardinality(conf.incoming) = 1
=============================================================================
