------------------------------- MODULE MCRaft -------------------------------
EXTENDS Raft, TLC

\* Nodes are interchangeable.
ServerSymmetry == Permutations(Server)

-----------------------------------------------------------------------------
(***************************************************************************)
(* Scenarios.  What is not mentioned does not happen.                      *)
(***************************************************************************)
Never == [e \in Event |-> 0]

PlainConfig ==
    [pre_vote |-> FALSE, check_quorum |-> FALSE, lease_read |-> FALSE, skip_bcast_commit |-> FALSE,
     priority |-> 0, max_msg |-> 1]

Plain ==
    [voters |-> 3, learners |-> 0, settled |-> FALSE, favoured |-> FALSE, lazy |-> FALSE,
     config |-> PlainConfig, term |-> 1, log |-> 1, changes |-> {}, budget |-> Never]

\* Three elections
Elections == [Plain EXCEPT !.term = 3, !.log = 2, !.budget = [Never EXCEPT !["Timeout"] = 3]]

\* Elections with a crash, or with two and one entry
Crash ==
    [Plain EXCEPT !.term = 2, !.log = 2, !.config.max_msg = 2,
                  !.budget = [Never EXCEPT !["Timeout"] = 2, !["Restart"] = 1]]

Crashes == [Crash EXCEPT !.log = 1, !.budget["Restart"] = 2]

\* A learner, which may be told to campaign
Learner ==
    [Plain EXCEPT !.voters = 2, !.learners = 1,
                  !.budget = [Never EXCEPT !["Campaign"] = 1, !["Beat"] = 2, !["Unreachable"] = 1]]

\* A heartbeat and a report of a lost connection between appends
Resumed ==
    [Plain EXCEPT !.voters = 2, !.settled = TRUE, !.log = 3,
                  !.budget = [Never EXCEPT !["Propose"] = 2, !["Beat"] = 1, !["Unreachable"] = 1]]

\* More entries than the window holds
Window == [Resumed EXCEPT !.log = 4, !.budget = [Never EXCEPT !["Propose"] = 3]]

\* The leader compacts what a learner has not got, with one entry or two.
Catchup ==
    [Plain EXCEPT !.voters = 1, !.learners = 1, !.settled = TRUE, !.log = 2,
                  !.budget = [Never EXCEPT !["Propose"] = 1, !["Compact"] = 1, !["Unreachable"] = 1,
                                           !["Report"] = 1, !["Beat"] = 1]]

LongCatchup ==
    [Catchup EXCEPT !.log = 3, !.budget = [Never EXCEPT !["Propose"] = 2, !["Compact"] = 1]]

\* A learner asks for a snapshot.
Requested ==
    [Catchup EXCEPT !.budget = [Never EXCEPT !["Propose"] = 1, !["Request"] = 1, !["Report"] = 1, !["Beat"] = 1]]

\* A learner asks for a snapshot while an earlier one is under way.
RequestedTwice == [LongCatchup EXCEPT !.budget["Request"] = 1]

\* Pre-votes and leases
PreVotes ==
    [Plain EXCEPT !.voters = 2, !.term = 3, !.log = 2,
                  !.config = [PlainConfig EXCEPT !.pre_vote = TRUE, !.check_quorum = TRUE, !.max_msg = 2],
                  !.budget = [Never EXCEPT !["Timeout"] = 3, !["Lease"] = 1]]

\* A leadership transfer, with a proposal and an election timeout of the leader,
\* or with a lease that expires
Transfers ==
    [PreVotes EXCEPT !.config.pre_vote = FALSE, !.term = 2,
                     !.budget = [Never EXCEPT !["Timeout"] = 2, !["Transfer"] = 1, !["Propose"] = 1,
                                              !["Quorum"] = 1]]

LeaseTransfers ==
    [Transfers EXCEPT !.budget = [Never EXCEPT !["Timeout"] = 2, !["Transfer"] = 1, !["Quorum"] = 1,
                                               !["Lease"] = 1]]

\* One of the nodes is favoured, and another one wants to succeed it.
Favoured ==
    [Plain EXCEPT !.settled = TRUE, !.favoured = TRUE, !.term = 3, !.log = 2,
                  !.budget = [Never EXCEPT !["Timeout"] = 2]]

\* A read at a leader that is deposed, and two at leaders that have just been
\* elected
DeposedReads ==
    [Plain EXCEPT !.settled = TRUE, !.term = 2, !.log = 2,
                  !.budget = [Never EXCEPT !["Timeout"] = 1, !["Read"] = 1]]

EarlyReads ==
    [Plain EXCEPT !.voters = 2, !.term = 2, !.log = 2,
                  !.budget = [Never EXCEPT !["Timeout"] = 2, !["Read"] = 2]]

\* A second read at the leader that is deposed
ReadTwice == [DeposedReads EXCEPT !.budget["Read"] = 2]

\* Two configuration changes across a change of leader, for a third node that
\* does not run
Members ==
    [Plain EXCEPT !.voters = 2, !.settled = TRUE, !.lazy = TRUE, !.term = 2, !.log = 4,
                  !.config.max_msg = 2, !.changes = {"add", "enlist", "promote", "remove"},
                  !.budget = [Never EXCEPT !["Timeout"] = 1, !["Change"] = 2]]

\* Voter and learner change places, the leader being the one that is demoted.
Swap == [Members EXCEPT !.voters = 1, !.learners = 1, !.changes = {"swap", "leave"}]

\* A learner is removed and comes back.
Removal ==
    [Swap EXCEPT !.changes = {"remove", "enlist"}, !.log = 3, !.budget = [Never EXCEPT !["Change"] = 2]]

ElectionScenarios == {Elections, Crash, Crashes, Learner, Transfers, LeaseTransfers, Members, Swap, Removal}
ReplicationScenarios ==
    {Resumed, Window, Catchup, LongCatchup, Requested, PreVotes, Favoured, DeposedReads, EarlyReads}
RequestScenarios == {RequestedTwice}
ReadScenarios == {ReadTwice}

-----------------------------------------------------------------------------
(***************************************************************************)
(* Two states are the same state to the model checker if they differ only  *)
(* in messages that no step will ever react to again.  The terms of nodes  *)
(* only grow (where a candidate needs the vote of another node), so these  *)
(* are the messages of terms their receiver has left, except for those     *)
(* that Raft::step answers all the same; the votes a node is no longer, or *)
(* not again, waiting for; and the answers to a leader that has stepped    *)
(* down.  Likewise for the commit index on disk when no node will restart  *)
(* or compact its log.  The properties read no such message either: a      *)
(* leader of a term has sent an append to every other node, and that to    *)
(* the next leader of the same term, if there were one, would not have     *)
(* been dropped.                                                           *)
(***************************************************************************)
AnsweredLate(m) ==
    \/ /\ node[m.to].config.check_quorum \/ node[m.to].config.pre_vote
       /\ m.type \in {"MsgHeartbeat", "MsgAppend"}
    \/ m.type = "MsgRequestPreVote"

\* What TermsNeedPreVotes counts, long after it has been handled.
Remembered(m) == m.type = "MsgRequestPreVoteResponse" /\ ~m.reject

Awaited(m) ==
    LET s == node[m.to]
    IN  CASE m.type = "MsgRequestVoteResponse" -> s.state = "Candidate" /\ m.from \notin DOMAIN s.votes
          [] m.type \in {"MsgAppendResponse", "MsgHeartbeatResponse"} -> s.state \in {"Candidate", "Leader"}
          [] OTHER -> TRUE

Live(m) ==
    \/ m.term = 0
    \/ m.term > node[m.to].term
    \/ m.term = node[m.to].term /\ Awaited(m)
    \/ m.term < node[m.to].term /\ (AnsweredLate(m) \/ Remembered(m))

Durable ==
    IF budget["Restart"] + budget["Compact"] > 0 THEN disk
    ELSE [n \in Nodes |-> [disk[n] EXCEPT !.commit = 0]]

LiveView == <<node, Durable, {m \in net : m.to \in Nodes /\ Live(m)}, chosen, reads, limits, budget>>
=============================================================================
