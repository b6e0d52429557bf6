------------------------------- MODULE Changer -------------------------------
(***************************************************************************)
(* confchange::Changer (raft-rs/src/confchange/changer.rs): configuration  *)
(* changes of a ProgressTracker, simple ones and joint consensus.          *)
(*                                                                         *)
(* A tracker is a record of the configuration (tracker::Configuration) and *)
(* the set of nodes it has a Progress for.  A Changer works on a copy of   *)
(* the configuration and on an IncrChangeMap, whose contains() is what the *)
(* set of nodes with a Progress will be once ProgressTracker::apply_conf   *)
(* has replayed its list.  So the copy is a tracker as well (work), and    *)
(* the real one is replaced at the end of a call that succeeds.            *)
(*                                                                         *)
(* The list of changes of a call may be any list.  It is made up as the    *)
(* loop of Changer::apply runs: one element per step, and after any of     *)
(* them the call may have come to its end.  Elements with node_id 0, which *)
(* the loop skips, are left out.                                           *)
(***************************************************************************)
EXTENDS ConfChange, Members

VARIABLES
    tracker,    \* the tracker of the group
    op,         \* the call in progress: "none", "simple" or "enter_joint"
    auto_leave, \* argument of enter_joint
    work,       \* what the call has made of its copy; the tracker if idle
    asked       \* history: the role each node was last asked to have

vars == <<tracker, op, auto_leave, work, asked>>

Trackers ==
    [incoming : SUBSET Node, outgoing : SUBSET Node, learners : SUBSET Node,
     learners_next : SUBSET Node, auto_leave : BOOLEAN, progress : SUBSET Node]

-----------------------------------------------------------------------------
\* The role a node has, or will have once a joint configuration is left
Target(t) ==
    [n \in Node |-> IF n \in t.incoming THEN "voter"
                    ELSE IF n \in t.learners \cup t.learners_next THEN "learner"
                    ELSE "none"]

RoleOf(type) ==
    CASE type = "AddNode" -> "voter" [] type = "AddLearnerNode" -> "learner" [] type = "RemoveNode" -> "none"

\* ProgressTracker::new
Init ==
    /\ tracker = EmptyTracker
    /\ op = "none"
    /\ auto_leave = FALSE
    /\ work = tracker
    /\ asked = Target(tracker)

\* Changer::simple is called; a joint configuration refuses it.
BeginSimple ==
    /\ op = "none" /\ ~Joint(tracker) /\ CheckInvariants(tracker)
    /\ op' = "simple"
    /\ UNCHANGED <<tracker, auto_leave, work, asked>>

\* Changer::enter_joint is called; a joint or an empty configuration refuses it.
BeginJoint(auto) ==
    /\ op = "none" /\ ~Joint(tracker) /\ CheckInvariants(tracker)
    /\ tracker.incoming # {}
    /\ op' = "enter_joint"
    /\ auto_leave' = auto
    /\ work' = JointCopy(tracker)
    /\ UNCHANGED <<tracker, asked>>

\* The loop of Changer::apply handles a change.
Apply(type, id) ==
    /\ op # "none"
    /\ work' = ApplySingle(work, type, id)
    /\ asked' = [asked EXCEPT ![id] = RoleOf(type)]
    /\ UNCHANGED <<tracker, op, auto_leave>>

\* The call is over and the tracker is t.
Return(t) ==
    /\ tracker' = t
    /\ work' = t
    /\ op' = "none"
    /\ auto_leave' = FALSE

\* The call succeeds and apply_conf installs its result.
FinishSimple ==
    /\ op = "simple" /\ AcceptSimple(tracker, work)
    /\ Return(work)
    /\ UNCHANGED asked

FinishJoint ==
    /\ op = "enter_joint"
    /\ LET w == [work EXCEPT !.auto_leave = auto_leave] IN AcceptJoint(w) /\ Return(w)
    /\ UNCHANGED asked

\* The call returns an error and the tracker stays as it was.
Refuse ==
    /\ \/ op = "simple" /\ ~AcceptSimple(tracker, work)
       \/ op = "enter_joint" /\ ~AcceptJoint([work EXCEPT !.auto_leave = auto_leave])
    /\ Return(tracker)
    /\ asked' = Target(tracker)

\* Changer::leave_joint and apply_conf
LeaveJoint ==
    /\ op = "none" /\ Joint(tracker) /\ CheckInvariants(tracker)
    /\ CheckInvariants(Left(tracker))
    /\ Return(Left(tracker))
    /\ UNCHANGED asked

Next ==
    \/ BeginSimple
    \/ \E auto \in BOOLEAN : BeginJoint(auto)
    \/ \E type \in ChangeTypes, id \in Node : Apply(type, id)
    \/ FinishSimple
    \/ FinishJoint
    \/ Refuse
    \/ LeaveJoint

Spec == Init /\ [][Next]_vars

-----------------------------------------------------------------------------
\* Every variable has a value of its type.
TypeOK ==
    /\ tracker \in Trackers /\ work \in Trackers
    /\ op \in {"none", "simple", "enter_joint"}
    /\ auto_leave \in BOOLEAN
    /\ asked \in [Node -> {"voter", "learner", "none"}]

\* Nobody has two roles: a learner is no voter of either half, a staged learner
\* is a voter of the outgoing half and, what check_invariants does not ask, not
\* of the incoming one.  Exactly the members have a progress: none is missing
\* and none is left behind after remove or leave_joint.
WellFormed(t) ==
    /\ t.learners \cap VotersOf(t) = {}
    /\ t.learners_next \subseteq t.outgoing \ t.incoming
    /\ t.progress = VotersOf(t) \cup t.learners
    /\ ~Joint(t) => ~t.auto_leave

\* After any sequence of calls with any lists of changes, and at every point of
\* a call, the configuration is well formed: check_invariants, at both ends of
\* every call, never finds anything.
AlwaysWellFormed == WellFormed(tracker) /\ WellFormed(work)

\* The last change asked for a node decides its role, also through a joint
\* configuration that stages demoted voters (make_learner, leave_joint).
LastRequestWins == Target(work) = asked

\* Quorums of successive configurations share a node, so a leader elected by one
\* learns what another has committed: the reason for the limit of one voter in
\* simple, and for the two halves of enter_joint.
QuorumsOverlap ==
    [][tracker' # tracker /\ tracker.incoming # {} =>
         \A S, T \in SUBSET Node :
            HasQuorum(tracker, S) /\ HasQuorum(tracker', T) => S \cap T # {}]_vars
==============================================================================
