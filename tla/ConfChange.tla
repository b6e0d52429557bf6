----------------------------- MODULE ConfChange -----------------------------
(***************************************************************************)
(* What confchange::Changer (raft-rs/src/confchange/changer.rs) makes of a *)
(* configuration, as operators on trackers, and which of its methods a     *)
(* ConfChangeV2 asks for (raft-rs/proto/src/confchange.rs).  Changer.tla   *)
(* runs the methods step by step, RaftNode.tla applies committed changes   *)
(* with them.                                                              *)
(*                                                                         *)
(* A tracker is a record of the fields of tracker::Configuration and the   *)
(* set of nodes that have a Progress.  A change is a record [type, id], a  *)
(* ConfChangeV2 a record [transition, changes].                            *)
(***************************************************************************)
EXTENDS QuorumRules, Sequences

\* ConfChangeType
ChangeTypes == {"AddNode", "AddLearnerNode", "RemoveNode"}

EmptyTracker ==
    [incoming |-> {}, outgoing |-> {}, learners |-> {}, learners_next |-> {},
     auto_leave |-> FALSE, progress |-> {}]

\* confchange::joint
Joint(t) == t.outgoing # {}

\* changer.rs, check_invariants
CheckInvariants(t) ==
    /\ VotersOf(t) \subseteq t.progress
    /\ t.learners \subseteq t.progress /\ t.learners \cap VotersOf(t) = {}
    /\ t.learners_next \subseteq t.progress /\ t.learners_next \subseteq t.outgoing
    /\ ~Joint(t) => t.learners_next = {} /\ ~t.auto_leave

\* A voter that is added again stays staged as a learner.
MutMakeVoter(t, id) ==
    IF id \notin t.progress
      THEN [t EXCEPT !.incoming = @ \cup {id}, !.progress = @ \cup {id}]
      ELSE [t EXCEPT !.incoming = @ \cup {id}, !.learners = @ \ {id}]

MakeVoter(t, id) ==
    IF id \notin t.progress
      THEN [t EXCEPT !.incoming = @ \cup {id}, !.progress = @ \cup {id}]
      ELSE [t EXCEPT !.incoming = @ \cup {id},
                     !.learners = @ \ {id}, !.learners_next = @ \ {id}]

\* A voter of the outgoing half becomes a learner when the joint configuration
\* is left.
MakeLearner(t, id) ==
    IF id \notin t.progress
      THEN [t EXCEPT !.learners = @ \cup {id}, !.progress = @ \cup {id}]
    ELSE IF id \in t.learners
      THEN t
    ELSE IF id \in t.outgoing
      THEN [t EXCEPT !.incoming = @ \ {id}, !.learners_next = @ \cup {id}]
      ELSE [t EXCEPT !.incoming = @ \ {id}, !.learners_next = @ \ {id}, !.learners = @ \cup {id}]

\* Changer::remove.  The progress of a removed node is kept as long as it votes
\* in the outgoing half.
RemoveMember(t, id) ==
    IF id \notin t.progress
      THEN t
      ELSE [t EXCEPT !.incoming = @ \ {id}, !.learners = @ \ {id}, !.learners_next = @ \ {id},
                     !.progress = IF id \in t.outgoing THEN @ ELSE @ \ {id}]

\* One iteration of the loop of Changer::apply
ApplySingle(t, type, id) ==
    CASE type = "AddNode" -> MakeVoter(t, id)
      [] type = "AddLearnerNode" -> MakeLearner(t, id)
      [] type = "RemoveNode" -> RemoveMember(t, id)

\* One voter more or less is allowed for each half of a change.
MutAcceptSimple(t, w) ==
    /\ w.incoming # {}
    /\ Cardinality((w.incoming \ t.incoming)) <= 1 /\ Cardinality(t.incoming \ w.incoming) <= 1
    /\ CheckInvariants(w)

\* The conditions under which Changer::simple returns what it has made of t.
AcceptSimple(t, w) ==
    /\ w.incoming # {}
    /\ Cardinality((w.incoming \ t.incoming) \cup (t.incoming \ w.incoming)) <= 1
    /\ CheckInvariants(w)

\* What enter_joint starts from
JointCopy(t) == [t EXCEPT !.outgoing = t.incoming]

\* The end of enter_joint: auto_leave is set last.
AcceptJoint(w) == w.incoming # {} /\ CheckInvariants(w)

\* Staged learners are forgotten.
MutLeft(t) ==
    LET learners == t.learners
    IN  [t EXCEPT !.learners = learners, !.learners_next = {}, !.outgoing = {},
                  !.auto_leave = FALSE,
                  !.progress = @ \ {n \in t.outgoing : n \notin t.incoming \cup learners}]

\* What leave_joint makes of a joint configuration
Left(t) ==
    LET learners == t.learners \cup t.learners_next
    IN  [t EXCEPT !.learners = learners, !.learners_next = {}, !.outgoing = {},
                  !.auto_leave = FALSE,
                  !.progress = @ \ {n \in t.outgoing : n \notin t.incoming \cup learners}]

-----------------------------------------------------------------------------
(***************************************************************************)
(* Whole calls.  The result is the set of trackers a call may leave: empty *)
(* if it is refused.                                                       *)
(***************************************************************************)

\* Changer::apply on a list
ApplyAll(t, ccs) ==
    LET applied[k \in 0..Len(ccs)] ==
            IF k = 0 THEN t ELSE ApplySingle(applied[k - 1], ccs[k].type, ccs[k].id)
    IN  applied[Len(ccs)]

\* Changer::simple and ProgressTracker::apply_conf
SimpleChange(t, ccs) ==
    {w \in {ApplyAll(t, ccs)} : ~Joint(t) /\ CheckInvariants(t) /\ AcceptSimple(t, w)}

\* Changer::enter_joint and apply_conf
EnterJointChange(t, auto, ccs) ==
    {w \in {[ApplyAll(JointCopy(t), ccs) EXCEPT !.auto_leave = auto]} :
        ~Joint(t) /\ CheckInvariants(t) /\ t.incoming # {} /\ AcceptJoint(w)}

\* Changer::leave_joint and apply_conf
LeaveJointChange(t) ==
    {w \in {Left(t)} : Joint(t) /\ CheckInvariants(t) /\ CheckInvariants(w)}

\* ConfChangeV2::leave_joint, enter_joint
LeavesJoint(cc) == cc.transition = "Auto" /\ cc.changes = <<>>
EntersJoint(cc) == cc.transition # "Auto" \/ Len(cc.changes) > 1

\* The choice of Raft::apply_conf_change.  Only an explicit transition has to
\* be left explicitly.
ChangedBy(t, cc) ==
    IF LeavesJoint(cc) THEN LeaveJointChange(t)
    ELSE IF EntersJoint(cc) THEN EnterJointChange(t, cc.transition # "Explicit", cc.changes)
    ELSE SimpleChange(t, cc.changes)
=============================================================================
