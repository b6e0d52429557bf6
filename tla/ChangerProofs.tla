---------------------------- MODULE ChangerProofs ----------------------------
(***************************************************************************)
(* Configuration changes are safe for every finite set of nodes, any       *)
(* sequence of calls and lists of changes of any length: configurations    *)
(* stay well formed, the last request for a node decides its role, and     *)
(* quorums of successive configurations overlap.                           *)
(***************************************************************************)
EXTENDS Changer, QuorumRulesProofs

\* What holds between the tracker and the copy a call is working on.
Phase ==
    /\ op = "none" => work = tracker
    /\ op # "none" => tracker.outgoing = {} /\ ~work.auto_leave
    /\ op = "simple" => work.outgoing = {}
    /\ op = "enter_joint" => work.outgoing = tracker.incoming /\ tracker.incoming # {}
    /\ Joint(tracker) => tracker.incoming # {}

\* The inductive invariant.
IInv == TypeOK /\ AlwaysWellFormed /\ LastRequestWins /\ Phase

-----------------------------------------------------------------------------
\* make_voter keeps a configuration well formed and gives the node its role.
LEMMA MakeVoterKeeps ==
    ASSUME NEW t \in Trackers, WellFormed(t), NEW id \in Node
    PROVE  LET r == MakeVoter(t, id)
           IN  /\ r \in Trackers /\ WellFormed(r)
               /\ r.outgoing = t.outgoing /\ r.auto_leave = t.auto_leave
               /\ Target(r) = [Target(t) EXCEPT ![id] = "voter"]
  <1> DEFINE r == MakeVoter(t, id)
  <1>1. /\ r \in Trackers
        /\ r.incoming = t.incoming \cup {id}
        /\ r.outgoing = t.outgoing
        /\ r.auto_leave = t.auto_leave
        /\ r.progress = t.progress \cup {id}
    BY DEF MakeVoter, Trackers
  <1>2. r.learners = t.learners \ {id} /\ r.learners_next = t.learners_next \ {id}
    BY DEF MakeVoter, Trackers, WellFormed, VotersOf
  <1> HIDE DEF r
  <1>3. WellFormed(r)
    BY <1>1, <1>2 DEF WellFormed, VotersOf, Joint
  <1>4. Target(r) = [Target(t) EXCEPT ![id] = "voter"]
    BY <1>1, <1>2 DEF Target
  <1> QED BY <1>1, <1>3, <1>4 DEF r

\* So does make_learner, which stages a voter of the outgoing half.
LEMMA MakeLearnerKeeps ==
    ASSUME NEW t \in Trackers, WellFormed(t), NEW id \in Node
    PROVE  LET r == MakeLearner(t, id)
           IN  /\ r \in Trackers /\ WellFormed(r)
               /\ r.outgoing = t.outgoing /\ r.auto_leave = t.auto_leave
               /\ Target(r) = [Target(t) EXCEPT ![id] = "learner"]
  <1> DEFINE r == MakeLearner(t, id)
  <1>1. /\ r \in Trackers
        /\ r.outgoing = t.outgoing
        /\ r.auto_leave = t.auto_leave
        /\ r.progress = t.progress \cup {id}
    BY DEF MakeLearner, Trackers, WellFormed, VotersOf
  <1>2. r.incoming = t.incoming \ {id}
    BY DEF MakeLearner, Trackers, WellFormed, VotersOf
  <1>3. CASE id \in t.outgoing
    <2>1. r.learners = t.learners /\ r.learners_next = t.learners_next \cup {id}
      BY <1>3 DEF MakeLearner, Trackers, WellFormed, VotersOf
    <2> HIDE DEF r
    <2>2. WellFormed(r)
      BY <1>1, <1>2, <1>3, <2>1 DEF WellFormed, VotersOf, Joint
    <2>3. Target(r) = [Target(t) EXCEPT ![id] = "learner"]
      BY <1>1, <1>2, <2>1 DEF Target
    <2> QED BY <1>1, <2>2, <2>3 DEF r
  <1>4. CASE id \notin t.outgoing
    <2>1. r.learners = t.learners \cup {id} /\ r.learners_next = t.learners_next
      BY <1>4 DEF MakeLearner, Trackers, WellFormed, VotersOf
    <2> HIDE DEF r
    <2>2. WellFormed(r)
      BY <1>1, <1>2, <1>4, <2>1 DEF WellFormed, VotersOf, Joint
    <2>3. Target(r) = [Target(t) EXCEPT ![id] = "learner"]
      BY <1>1, <1>2, <2>1 DEF Target
    <2> QED BY <1>1, <2>2, <2>3 DEF r
  <1> QED BY <1>3, <1>4

\* So does remove, which keeps the progress of a voter of the outgoing half.
LEMMA RemoveKeeps ==
    ASSUME NEW t \in Trackers, WellFormed(t), NEW id \in Node
    PROVE  LET r == RemoveMember(t, id)
           IN  /\ r \in Trackers /\ WellFormed(r)
               /\ r.outgoing = t.outgoing /\ r.auto_leave = t.auto_leave
               /\ Target(r) = [Target(t) EXCEPT ![id] = "none"]
  <1> DEFINE r == RemoveMember(t, id)
  <1>1. r \in Trackers /\ r.outgoing = t.outgoing /\ r.auto_leave = t.auto_leave
    BY DEF RemoveMember, Trackers
  <1>2. /\ r.incoming = t.incoming \ {id}
        /\ r.learners = t.learners \ {id}
        /\ r.learners_next = t.learners_next \ {id}
    BY DEF RemoveMember, Trackers, WellFormed, VotersOf
  <1>3. r.progress = IF id \in t.outgoing THEN t.progress ELSE t.progress \ {id}
    BY DEF RemoveMember, Trackers, WellFormed, VotersOf
  <1> HIDE DEF r
  <1>4. WellFormed(r)
    BY <1>1, <1>2, <1>3 DEF WellFormed, VotersOf, Joint
  <1>5. Target(r) = [Target(t) EXCEPT ![id] = "none"]
    BY <1>1, <1>2 DEF Target
  <1> QED BY <1>1, <1>4, <1>5 DEF r

\* An iteration of the loop of Changer::apply.
LEMMA ApplySingleKeeps ==
    ASSUME NEW t \in Trackers, WellFormed(t), NEW id \in Node, NEW type \in ChangeTypes
    PROVE  LET r == ApplySingle(t, type, id)
           IN  /\ r \in Trackers /\ WellFormed(r)
               /\ r.outgoing = t.outgoing /\ r.auto_leave = t.auto_leave
               /\ Target(r) = [Target(t) EXCEPT ![id] = RoleOf(type)]
               /\ RoleOf(type) \in {"voter", "learner", "none"}
  <1>1. CASE type = "AddNode"
    BY <1>1, MakeVoterKeeps DEF ApplySingle, RoleOf
  <1>2. CASE type = "AddLearnerNode"
    BY <1>2, MakeLearnerKeeps DEF ApplySingle, RoleOf
  <1>3. CASE type = "RemoveNode"
    BY <1>3, RemoveKeeps DEF ApplySingle, RoleOf
  <1> QED BY <1>1, <1>2, <1>3 DEF ChangeTypes

\* leave_joint keeps a configuration well formed and every node's role.
LEMMA LeftKeeps ==
    ASSUME NEW t \in Trackers, WellFormed(t)
    PROVE  /\ Left(t) \in Trackers /\ WellFormed(Left(t))
           /\ Left(t).outgoing = {} /\ Left(t).incoming = t.incoming
           /\ Target(Left(t)) = Target(t)
  <1> DEFINE r == Left(t)
  <1>1. /\ r \in Trackers
        /\ r.incoming = t.incoming /\ r.outgoing = {} /\ r.auto_leave = FALSE
        /\ r.learners = t.learners \cup t.learners_next /\ r.learners_next = {}
        /\ r.progress = t.progress \ {n \in t.outgoing : n \notin t.incoming \cup (t.learners \cup t.learners_next)}
    BY DEF Left, Trackers
  <1> HIDE DEF r
  <1>2. WellFormed(r)
    BY <1>1 DEF WellFormed, VotersOf, Joint
  <1>3. Target(r) = Target(t)
    BY <1>1 DEF Target
  <1> QED BY <1>1, <1>2, <1>3 DEF r

\* enter_joint starts from a well formed copy in which roles are unchanged.
LEMMA JointCopyKeeps ==
    ASSUME NEW t \in Trackers, WellFormed(t), t.outgoing = {}
    PROVE  /\ JointCopy(t) \in Trackers /\ WellFormed(JointCopy(t))
           /\ JointCopy(t).outgoing = t.incoming /\ ~JointCopy(t).auto_leave
           /\ Target(JointCopy(t)) = Target(t)
  <1> DEFINE r == JointCopy(t)
  <1>1. /\ r \in Trackers
        /\ r.incoming = t.incoming /\ r.outgoing = t.incoming
        /\ r.learners = t.learners /\ r.learners_next = t.learners_next
        /\ r.auto_leave = t.auto_leave /\ r.progress = t.progress
    BY DEF JointCopy, Trackers
  <1> HIDE DEF r
  <1>2. WellFormed(r) /\ ~r.auto_leave
    BY <1>1 DEF WellFormed, VotersOf, Joint
  <1>3. Target(r) = Target(t)
    BY <1>1 DEF Target
  <1> QED BY <1>1, <1>2, <1>3 DEF r

\* Its last assignment.
LEMMA AutoLeaveKeeps ==
    ASSUME NEW t \in Trackers, WellFormed(t), t.outgoing # {}, NEW auto \in BOOLEAN
    PROVE  LET r == [t EXCEPT !.auto_leave = auto]
           IN  /\ r \in Trackers /\ WellFormed(r) /\ Target(r) = Target(t)
               /\ r.incoming = t.incoming /\ r.outgoing = t.outgoing
  <1> DEFINE r == [t EXCEPT !.auto_leave = auto]
  <1>1. /\ r \in Trackers
        /\ r.incoming = t.incoming /\ r.outgoing = t.outgoing
        /\ r.learners = t.learners /\ r.learners_next = t.learners_next
        /\ r.progress = t.progress
    BY DEF Trackers
  <1> HIDE DEF r
  <1>2. WellFormed(r)
    BY <1>1 DEF WellFormed, VotersOf, Joint
  <1>3. Target(r) = Target(t)
    BY <1>1 DEF Target
  <1> QED BY <1>1, <1>2, <1>3 DEF r

-----------------------------------------------------------------------------
\* An empty tracker satisfies the invariant.
LEMMA InitInv == Init => IInv
  <1> SUFFICES ASSUME Init PROVE IInv
    OBVIOUS
  <1>1. tracker \in Trackers /\ work = tracker
    BY DEF Init, EmptyTracker, Trackers
  <1>2. WellFormed(tracker) /\ tracker.outgoing = {}
    BY DEF Init, EmptyTracker, WellFormed, VotersOf, Joint
  <1>3. Target(tracker) \in [Node -> {"voter", "learner", "none"}]
    BY DEF Target
  <1> QED BY <1>1, <1>2, <1>3 DEF Init, IInv, TypeOK, AlwaysWellFormed, LastRequestWins, Phase, Joint

\* The end of a call: the invariant holds of the tracker it installs.
LEMMA ReturnInv ==
    ASSUME NEW t \in Trackers, WellFormed(t), Joint(t) => t.incoming # {},
           Return(t), asked' = Target(t)
    PROVE  IInv'
  <1>1. Target(t) \in [Node -> {"voter", "learner", "none"}]
    BY DEF Target
  <1>2. TypeOK'
    BY <1>1 DEF TypeOK, Return
  <1>3. AlwaysWellFormed'
    BY DEF AlwaysWellFormed, Return, WellFormed, VotersOf, Joint
  <1>4. LastRequestWins'
    BY DEF LastRequestWins, Return, Target
  <1>5. Phase'
    BY DEF Phase, Return, Joint
  <1> QED BY <1>2, <1>3, <1>4, <1>5 DEF IInv

\* Every step of a call preserves the invariant.
LEMMA NextInv == IInv /\ [Next]_vars => IInv'
  <1> SUFFICES ASSUME IInv, [Next]_vars PROVE IInv'
    OBVIOUS
  <1> USE DEF IInv
  <1>1. /\ tracker \in Trackers /\ work \in Trackers
        /\ WellFormed(tracker) /\ WellFormed(work)
        /\ Target(work) = asked
    BY DEF TypeOK, AlwaysWellFormed, LastRequestWins
  <1>2. CASE BeginSimple
    <2>1. TypeOK' /\ LastRequestWins'
      BY <1>2 DEF BeginSimple, TypeOK, LastRequestWins, Target
    <2>2. AlwaysWellFormed'
      BY <1>2 DEF BeginSimple, AlwaysWellFormed, WellFormed, VotersOf, Joint
    <2>3. Phase'
      BY <1>1, <1>2 DEF BeginSimple, Phase, Joint, WellFormed
    <2> QED BY <2>1, <2>2, <2>3
  <1>3. ASSUME NEW auto \in BOOLEAN, BeginJoint(auto) PROVE IInv'
    <2>1. /\ JointCopy(tracker) \in Trackers /\ WellFormed(JointCopy(tracker))
          /\ JointCopy(tracker).outgoing = tracker.incoming /\ ~JointCopy(tracker).auto_leave
          /\ Target(JointCopy(tracker)) = Target(tracker)
      BY <1>1, <1>3, JointCopyKeeps DEF BeginJoint, Joint
    <2>2. TypeOK'
      BY <2>1, <1>3 DEF BeginJoint, TypeOK
    <2>3. AlwaysWellFormed'
      <3>1. WellFormed(tracker)'
        BY <1>1, <1>3 DEF BeginJoint, WellFormed, VotersOf, Joint
      <3>2. WellFormed(work)'
        BY <2>1, <1>3 DEF BeginJoint, WellFormed, VotersOf, Joint
      <3> QED BY <3>1, <3>2 DEF AlwaysWellFormed
    <2>4. LastRequestWins'
      <3>1. Target(work') = Target(work)
        BY <2>1, <1>3 DEF BeginJoint, Phase
      <3> QED BY <3>1, <1>1, <1>3 DEF BeginJoint, LastRequestWins, Target
    <2>5. Phase'
      BY <2>1, <1>3 DEF BeginJoint, Phase, Joint
    <2> QED BY <2>2, <2>3, <2>4, <2>5
  <1>4. ASSUME NEW type \in ChangeTypes, NEW id \in Node, Apply(type, id) PROVE IInv'
    <2> DEFINE r == ApplySingle(work, type, id)
    <2>1. /\ r \in Trackers /\ WellFormed(r)
          /\ r.outgoing = work.outgoing /\ r.auto_leave = work.auto_leave
          /\ Target(r) = [Target(work) EXCEPT ![id] = RoleOf(type)]
          /\ RoleOf(type) \in {"voter", "learner", "none"}
      BY <1>1, ApplySingleKeeps
    <2>2. work' = r /\ asked' = [asked EXCEPT ![id] = RoleOf(type)]
          /\ UNCHANGED <<tracker, op, auto_leave>> /\ op # "none"
      BY <1>4 DEF Apply
    <2> HIDE DEF r
    <2>3. TypeOK'
      BY <2>1, <2>2 DEF TypeOK
    <2>4. AlwaysWellFormed'
      <3>1. WellFormed(tracker)'
        BY <1>1, <2>2 DEF WellFormed, VotersOf, Joint
      <3>2. WellFormed(work)'
        BY <2>1, <2>2 DEF WellFormed, VotersOf, Joint
      <3> QED BY <3>1, <3>2 DEF AlwaysWellFormed
    <2>5. LastRequestWins'
      BY <1>1, <2>1, <2>2 DEF LastRequestWins, Target
    <2>6. Phase'
      BY <2>1, <2>2 DEF Phase, Joint
    <2> QED BY <2>3, <2>4, <2>5, <2>6
  <1>5. CASE FinishSimple
    <2>1. Return(work) /\ asked' = Target(work) /\ ~Joint(work)
      BY <1>1, <1>5 DEF FinishSimple, Phase, Joint
    <2> QED BY <1>1, <2>1, ReturnInv
  <1>6. CASE FinishJoint
    <2> DEFINE w == [work EXCEPT !.auto_leave = auto_leave]
    <2>1. w \in Trackers /\ WellFormed(w) /\ Target(w) = Target(work)
      BY <1>1, <1>6, AutoLeaveKeeps DEF FinishJoint, Phase, TypeOK
    <2>2. Return(w) /\ w.incoming # {} /\ asked' = Target(w)
      BY <1>1, <1>6, <2>1 DEF FinishJoint, AcceptJoint
    <2> HIDE DEF w
    <2> QED BY <2>1, <2>2, ReturnInv
  <1>7. CASE Refuse
    BY <1>1, <1>7, ReturnInv DEF Refuse, Phase
  <1>8. CASE LeaveJoint
    <2>1. /\ Left(tracker) \in Trackers /\ WellFormed(Left(tracker))
          /\ ~Joint(Left(tracker)) /\ Target(Left(tracker)) = Target(tracker)
      BY <1>1, LeftKeeps DEF Joint
    <2>2. Return(Left(tracker)) /\ asked' = Target(Left(tracker))
      BY <1>1, <1>8, <2>1 DEF LeaveJoint, Phase
    <2> QED BY <2>1, <2>2, ReturnInv
  <1>9. CASE UNCHANGED vars
    BY <1>9 DEF vars, TypeOK, AlwaysWellFormed, WellFormed, VotersOf, Joint, LastRequestWins, Target, Phase
  <1> QED BY <1>2, <1>3, <1>4, <1>5, <1>6, <1>7, <1>8, <1>9 DEF Next

\* No sequence of calls and changes leads to a configuration, in the tracker or
\* in the middle of a call, that check_invariants would have to refuse.
THEOREM ChangesKeepWellFormed == Spec => []AlwaysWellFormed
  <1>1. IInv => AlwaysWellFormed
    BY DEF IInv
  <1> QED BY <1>1, InitInv, NextInv, PTL DEF Spec

\* The last change asked for a node decides its role, through enter_joint and
\* leave_joint too.
THEOREM RequestsAreHonoured == Spec => []LastRequestWins
  <1>1. IInv => LastRequestWins
    BY DEF IInv
  <1> QED BY <1>1, InitInv, NextInv, PTL DEF Spec

-----------------------------------------------------------------------------
\* Where a step that replaces the tracker leads to: its incoming half is that of
\* the old configuration up to one voter, or the old incoming half still votes.
LEMMA StepKeepsVoters ==
    ASSUME IInv, [Next]_vars, tracker.incoming # {}
    PROVE  /\ tracker'.incoming # {}
           /\ \/ Cardinality((tracker'.incoming \ tracker.incoming)
                               \cup (tracker.incoming \ tracker'.incoming)) <= 1
              \/ tracker'.outgoing = tracker.incoming
  <1> USE DEF IInv
  <1>1. CASE tracker'.incoming = tracker.incoming
    <2>1. (tracker'.incoming \ tracker.incoming) \cup (tracker.incoming \ tracker'.incoming) = {}
      BY <1>1
    <2>2. Cardinality({}) <= 1
      BY FS_EmptySet
    <2> QED BY <1>1, <2>1, <2>2
  <1>2. CASE UNCHANGED tracker
    BY <1>1, <1>2
  <1>3. CASE FinishSimple
    BY <1>3 DEF FinishSimple, AcceptSimple, Return
  <1>4. CASE FinishJoint
    <2> DEFINE w == [work EXCEPT !.auto_leave = auto_leave]
    <2>1. w.outgoing = work.outgoing
      BY DEF TypeOK, Trackers
    <2>2. tracker' = w /\ w.incoming # {} /\ op = "enter_joint"
      BY <1>4 DEF FinishJoint, AcceptJoint, Return
    <2> HIDE DEF w
    <2> QED BY <2>1, <2>2 DEF Phase
  <1>5. CASE LeaveJoint
    <2>1. Left(tracker).incoming = tracker.incoming
      BY LeftKeeps DEF TypeOK, AlwaysWellFormed
    <2> QED BY <1>1, <1>5, <2>1 DEF LeaveJoint, Return
  <1>6. CASE Refuse
    BY <1>2, <1>6 DEF Refuse, Return
  <1> QED BY <1>2, <1>3, <1>4, <1>5, <1>6 DEF Next, BeginSimple, BeginJoint, Apply, vars

\* A quorum of a configuration and one of its successor share a node, for every
\* simple change, when a joint configuration is entered and when it is left.
THEOREM SuccessiveQuorumsOverlap == Spec => QuorumsOverlap
  <1>1. ASSUME IInv, IInv', [Next]_vars, tracker.incoming # {},
               NEW S \in SUBSET Node, NEW T \in SUBSET Node,
               HasQuorum(tracker, S), HasQuorum(tracker', T)
        PROVE  S \cap T # {}
    <2> DEFINE V == tracker.incoming
               W == tracker'.incoming
    <2>1. IsFiniteSet(V) /\ IsFiniteSet(W)
      BY <1>1, NodeAssumption, FS_Subset DEF IInv, TypeOK, Trackers
    <2>2. W # {} /\ (\/ Cardinality((W \ V) \cup (V \ W)) <= 1
                    \/ tracker'.outgoing = V)
      BY <1>1, StepKeepsVoters
    <2>3. Cardinality(V \cap S) >= Majority(Cardinality(V))
      BY <1>1, QuorumHoldsMajority
    <2>4. CASE Cardinality((W \ V) \cup (V \ W)) <= 1
      <3>1. Cardinality(W \cap T) >= Majority(Cardinality(W))
        BY <1>1, <2>2, QuorumHoldsMajority
      <3> HIDE DEF V, W
      <3>2. (V \cap S) \cap (W \cap T) # {}
        BY <2>1, <2>3, <2>4, <3>1, NeighboursOverlap
      <3> QED BY <3>2
    <2>5. CASE tracker'.outgoing = V
      <3>1. Cardinality(V \cap T) >= Majority(Cardinality(V))
        BY <1>1, <2>5, QuorumHoldsMajority
      <3> HIDE DEF V, W
      <3>2. (V \cap S) \cap (V \cap T) # {}
        BY <2>1, <2>3, <3>1, MajoritiesOverlap
      <3> QED BY <3>2
    <2> QED BY <2>2, <2>4, <2>5
  <1>2. IInv /\ IInv' /\ [Next]_vars =>
          [tracker' # tracker /\ tracker.incoming # {} =>
             \A S, T \in SUBSET Node :
                HasQuorum(tracker, S) /\ HasQuorum(tracker', T) => S \cap T # {}]_vars
    BY <1>1
  <1> QED BY <1>2, InitInv, NextInv, PTL DEF Spec, QuorumsOverlap
==============================================================================
