--------------------------- MODULE NodeTaskProofs ---------------------------
(***************************************************************************)
(* Proofs about NodeTask, for any number of clients and ticks.  Fairness   *)
(* plays no part in them.                                                  *)
(***************************************************************************)
EXTENDS NodeTask, TLAPS

Input == Client \cup (0..MaxTicks)
ReadyType == [out : SUBSET Input, given : BOOLEAN]
TaskPcs == {"top", "accept", "select", "dead", "stopped"}
TaskType == [pc : TaskPcs, wait_advance : BOOLEAN, first : BOOLEAN, ready : ReadyType]
RaftType == [voter : BOOLEAN, leader : BOOLEAN, out : SUBSET Input, changed : BOOLEAN, records : Nat]
Pcs == {"idle", "sendProposal", "sendAndForget", "awaitResult", "sendMessage", "awaitConfState",
        "awaitStatus", "awaitStop", "returned"}
Results == {"none", "Ok", "Dropped", "NotIsVoter", "NoLeader", "Stopped"}
Proposals == [from : Client, wait : BOOLEAN]

\* The types of everything that an action reads.
Types ==
    /\ task \in TaskType
    /\ raft \in RaftType
    /\ call \in [Client -> [pc : Pcs, result : Results]]
    /\ prop_c \in Seq(Proposals) /\ recv_c \in Seq(Client)
    /\ conf_c \in Seq(Client) /\ status_c \in Seq(Client) /\ stop_c \in Seq(Client)
    /\ conf_state_c \in Seq({"ConfState"})
    /\ ready_c \in Seq(ReadyType) /\ advance_c \in Seq({"advance"})
    /\ done \in {<<>>, <<"done">>}
    /\ app \in ReadyType
    /\ ticks \in 0..MaxTicks
    /\ Len(prop_c) <= 1 /\ Len(recv_c) <= 1

LEMMA TypesImplyTypeOK == Types => TypeOK
<1> SUFFICES ASSUME Types PROVE TypeOK
  OBVIOUS
<1>1. Len(done) <= 1
  <2>1. Len(<<>>) <= 1 /\ Len(<<"done">>) <= 1
    OBVIOUS
  <2> QED
    BY <2>1 DEF Types
<1>2. \A c \in Client : call[c].pc \in Pcs
  BY DEF Types
<1>3. task \in TaskType /\ raft \in RaftType /\ Len(prop_c) <= 1 /\ Len(recv_c) <= 1
  BY DEF Types
<1> QED
  BY <1>1, <1>2, <1>3 DEF TypeOK, TaskType, TaskPcs, ReadyType, RaftType, Pcs, Input

LEMMA InitTypes == Init => Types
BY NodeTaskAssumption
   DEF Init, Types, TaskType, TaskPcs, ReadyType, RaftType, Pcs, Results, Input, NoReady

\* A step of the RawNode keeps its type and adds its input at most.
LEMMA StepsType ==
    ASSUME NEW r \in RaftType, NEW x \in Input, NEW s \in Steps(r, x)
    PROVE  s \in RaftType /\ s.out \subseteq r.out \cup {x}
<1>1. s.out \in SUBSET Input /\ s.out \subseteq r.out \cup {x}
  BY DEF Steps, RaftType
<1>2. s.changed \in BOOLEAN /\ s.leader \in BOOLEAN /\ s.voter \in BOOLEAN /\ s.records \in Nat
  BY DEF Steps, RaftType
<1> QED
  BY <1>1, <1>2 DEF Steps, RaftType

LEMMA BeginType ==
    ASSUME Types, NEW c \in Client, NEW pc \in Pcs, Begin(c, pc)
    PROVE  call' \in [Client -> [pc : Pcs, result : Results]]
BY DEF Begin, Types

LEMMA ReturnType ==
    ASSUME Types, NEW c \in Client, NEW result \in Results
    PROVE  Return(c, result) \in [Client -> [pc : Pcs, result : Results]]
BY DEF Return, Types, Pcs

\* The calls of clients.
LEMMA CallTypes ==
    ASSUME Types, NEW c \in Client,
           \/ CallPropose(c) \/ CallProposeConf(c) \/ CallStep(c)
           \/ CallConf(c) \/ CallStatus(c) \/ CallStop(c) \/ Resume(c)
    PROVE  Types'
<1>1. CASE CallPropose(c) \/ CallProposeConf(c) \/ CallStep(c)
  BY <1>1 DEF Types, CallPropose, CallProposeConf, CallStep, Begin, chans, Pcs
<1>2. CASE CallConf(c)
  <2>1. call' \in [Client -> [pc : Pcs, result : Results]]
    BY <1>2, BeginType DEF CallConf, Pcs
  <2>2. conf_c' \in Seq(Client) /\ done' \in {<<>>, <<"done">>}
    <3>1. conf_c \in Seq(Client) /\ Append(conf_c, c) \in Seq(Client) /\ done \in {<<>>, <<"done">>}
      BY DEF Types
    <3>2. conf_c' \in {conf_c, Append(conf_c, c)} /\ done' \in {<<>>, done}
      BY <1>2, Zenon DEF CallConf
    <3> QED
      BY <3>1, <3>2
  <2> QED
    BY <1>2, <2>1, <2>2 DEF Types, CallConf
<1>3. CASE CallStatus(c)
  <2>1. call' \in [Client -> [pc : Pcs, result : Results]]
    BY <1>3, BeginType DEF CallStatus, Pcs
  <2>2. status_c' \in Seq(Client) /\ done' \in {<<>>, <<"done">>}
    <3>1. status_c \in Seq(Client) /\ Append(status_c, c) \in Seq(Client) /\ done \in {<<>>, <<"done">>}
      BY DEF Types
    <3>2. status_c' \in {status_c, Append(status_c, c)} /\ done' \in {<<>>, done}
      BY <1>3, Zenon DEF CallStatus
    <3> QED
      BY <3>1, <3>2
  <2> QED
    BY <1>3, <2>1, <2>2 DEF Types, CallStatus
<1>4. CASE CallStop(c)
  <2>1. call' \in [Client -> [pc : Pcs, result : Results]]
    BY <1>4, BeginType DEF CallStop, Pcs
  <2>2. stop_c' \in Seq(Client)
    BY <1>4 DEF CallStop, Types
  <2> QED
    BY <1>4, <2>1, <2>2 DEF Types, CallStop
<1>5. CASE SendProposal(c)
  <2>1. call' \in [Client -> [pc : Pcs, result : Results]]
    <3>1. Return(c, "Ok") \in [Client -> [pc : Pcs, result : Results]]
      BY ReturnType DEF Results
    <3>2. [call EXCEPT ![c].pc = "awaitResult"] \in [Client -> [pc : Pcs, result : Results]]
      BY DEF Types, Pcs
    <3> QED
      BY <1>5, <3>1, <3>2 DEF SendProposal
  <2>2. prop_c' \in Seq(Proposals) /\ Len(prop_c') <= 1
    <3>1. PICK b \in BOOLEAN : prop_c' = Append(prop_c, [from |-> c, wait |-> b])
      BY <1>5 DEF SendProposal
    <3>2. [from |-> c, wait |-> b] \in Proposals
      BY DEF Proposals
    <3> QED
      BY <1>5, <3>1, <3>2 DEF Types, SendProposal, Room
  <2> QED
    BY <1>5, <2>1, <2>2 DEF Types, SendProposal
<1>6. CASE SendMessage(c)
  <2>1. call' \in [Client -> [pc : Pcs, result : Results]]
    BY <1>6, ReturnType DEF SendMessage, Results
  <2> QED
    BY <1>6, <2>1 DEF Types, SendMessage, Room
<1>7. CASE ReceiveConfState(c)
  <2>1. call' \in [Client -> [pc : Pcs, result : Results]]
    BY <1>7, ReturnType DEF ReceiveConfState, Results
  <2> QED
    BY <1>7, <2>1 DEF Types, ReceiveConfState
<1>8. CASE TakeDone(c)
  <2>1. call' \in [Client -> [pc : Pcs, result : Results]]
    BY <1>8, ReturnType DEF TakeDone, Results
  <2> QED
    BY <1>8, <2>1 DEF Types, TakeDone
<1> QED
  BY <1>1, <1>2, <1>3, <1>4, <1>5, <1>6, <1>7, <1>8 DEF Resume

\* The task.
LEMMA RunTypes ==
    ASSUME Types, Run
    PROVE  Types'
<1>1. CASE RunTop
  <2>1. ReadyNew(raft) \in ReadyType
    BY DEF ReadyNew, ReadyType, Types, RaftType
  <2>2. task' \in TaskType /\ ready_c' \in Seq(ReadyType)
    <3>1. [task EXCEPT !.pc = "accept", !.ready = ReadyNew(raft)] \in TaskType
      BY <2>1 DEF Types, TaskType, TaskPcs
    <3>2. [task EXCEPT !.pc = "select", !.first = FALSE] \in TaskType
      BY DEF Types, TaskType, TaskPcs
    <3>3. ready_c \in Seq(ReadyType) /\ Append(ready_c, ReadyNew(raft)) \in Seq(ReadyType)
      BY <2>1 DEF Types
    <3> QED
      BY <1>1, <3>1, <3>2, <3>3 DEF RunTop
  <2> QED
    BY <1>1, <2>2 DEF RunTop, Types
<1>2. CASE RunAccept
  BY <1>2 DEF RunAccept, AcceptReady, Types, TaskType, TaskPcs, RaftType, chans
<1>3. CASE RunConf
  <2>1. task' \in TaskType
    BY <1>3 DEF RunConf, GoesTo, Types, TaskType, TaskPcs
  <2>2. raft' \in RaftType
    <3>1. raft \in RaftType /\ Head(conf_c) \in Input
      <4>1. conf_c # <<>>
        BY <1>3, Zenon DEF RunConf
      <4> QED
        BY <4>1 DEF Types, Input
    <3>2. ASSUME NEW v \in BOOLEAN, NEW r \in Steps(raft, Head(conf_c))
          PROVE  [r EXCEPT !.voter = v, !.leader = raft.leader] \in RaftType
      <4>1. r \in RaftType /\ raft.leader \in BOOLEAN
        <5>1. r \in RaftType
          BY <3>1, StepsType
        <5> QED
          BY <3>1, <5>1 DEF RaftType
      <4> QED
        BY <4>1 DEF RaftType
    <3> QED
      BY <1>3, <3>1, <3>2, Zenon DEF RunConf
  <2>3. conf_c' \in Seq(Client)
    <3>1. conf_c # <<>> /\ conf_c' = Tail(conf_c)
      BY <1>3, Zenon DEF RunConf
    <3> QED
      BY <3>1 DEF Types
  <2>4. conf_state_c' \in Seq({"ConfState"})
    <3>1. conf_state_c' \in {conf_state_c, Append(conf_state_c, "ConfState")}
      BY <1>3, Zenon DEF RunConf
    <3>2. conf_state_c \in Seq({"ConfState"}) /\ Append(conf_state_c, "ConfState") \in Seq({"ConfState"})
      BY DEF Types
    <3> QED
      BY <3>1, <3>2
  <2> QED
    BY <1>3, <2>1, <2>2, <2>3, <2>4 DEF RunConf, Types
<1>4. CASE RunProposal
  <2> DEFINE pm == Head(prop_c)
  <2>1. pm \in Proposals /\ prop_c' \in Seq(Proposals) /\ Len(prop_c') <= 1
    BY <1>4 DEF RunProposal, Types
  <2>2. pm.from \in Client /\ pm.from \in Input
    BY <2>1 DEF Proposals, Input
  <2>3. ASSUME NEW result \in Results
        PROVE  Notified(pm, result) \in [Client -> [pc : Pcs, result : Results]]
    BY <2>2, ReturnType DEF Notified, Types
  <2>4. PICK a \in Answers(pm) : call' = a[1] /\ raft' = a[2]
    BY <1>4 DEF RunProposal
  <2>5. a[1] \in [Client -> [pc : Pcs, result : Results]] /\ a[2] \in RaftType
    <3>1. raft \in RaftType
      BY DEF Types
    <3> QED
      BY <2>2, <2>3, <2>4, <3>1, StepsType DEF Answers, Results
  <2>6. task' \in TaskType
    BY <1>4 DEF RunProposal, GoesTo, Types, TaskType, TaskPcs
  <2> QED
    BY <1>4, <2>1, <2>4, <2>5, <2>6 DEF RunProposal, Types
<1>5. CASE RunMessage
  <2>1. Head(recv_c) \in Input /\ recv_c' \in Seq(Client) /\ Len(recv_c') <= 1
    BY <1>5 DEF RunMessage, Types, Input
  <2>2. raft' \in RaftType
    BY <1>5, <2>1, StepsType DEF RunMessage, Types
  <2>3. task' \in TaskType
    BY <1>5 DEF RunMessage, GoesTo, Types, TaskType, TaskPcs
  <2> QED
    BY <1>5, <2>1, <2>2, <2>3 DEF RunMessage, Types
<1>6. CASE RunAdvance
  <2>1. task' \in TaskType
    BY <1>6 DEF RunAdvance, Types, TaskType, TaskPcs
  <2> QED
    BY <1>6, <2>1 DEF RunAdvance, Types
<1>7. CASE RunStatus
  <2>1. Head(status_c) \in Client /\ status_c' \in Seq(Client)
    BY <1>7 DEF RunStatus, Types
  <2>2. call' \in [Client -> [pc : Pcs, result : Results]]
    BY <1>7, <2>1, ReturnType DEF RunStatus, Results
  <2>3. task' \in TaskType
    BY <1>7 DEF RunStatus, GoesTo, Types, TaskType, TaskPcs
  <2> QED
    BY <1>7, <2>1, <2>2, <2>3 DEF RunStatus, Types
<1>8. CASE RunStop
  <2>1. task' \in TaskType
    BY <1>8 DEF RunStop, GoesTo, Types, TaskType, TaskPcs
  <2> QED
    BY <1>8, <2>1 DEF RunStop, Types
<1> QED
  BY <1>1, <1>2, <1>3, <1>4, <1>5, <1>6, <1>7, <1>8 DEF Run

LEMMA NextTypes == Types /\ [Next]_vars => Types'
<1> SUFFICES ASSUME Types, [Next]_vars PROVE Types'
  OBVIOUS
<1>1. CASE Tick
  <2>1. ticks \in Input /\ ticks' \in 0..MaxTicks
    BY <1>1, NodeTaskAssumption DEF Tick, Types, Input
  <2>2. raft' \in RaftType
    BY <1>1, <2>1, StepsType DEF Tick, Types
  <2> QED
    BY <1>1, <2>1, <2>2 DEF Tick, Types, chans
<1>2. CASE TakeReady
  BY <1>2 DEF TakeReady, Types
<1>3. CASE Advance
  <2>1. app' \in ReadyType
    BY <1>3 DEF Advance, NoReady, ReadyType
  <2>2. advance_c' \in Seq({"advance"}) /\ done' \in {<<>>, <<"done">>}
    <3>1. advance_c \in Seq({"advance"}) /\ Append(advance_c, "advance") \in Seq({"advance"}) /\ done \in {<<>>, <<"done">>}
      BY DEF Types
    <3>2. advance_c' \in {advance_c, Append(advance_c, "advance")} /\ done' \in {<<>>, done}
      BY <1>3, Zenon DEF Advance
    <3> QED
      BY <3>1, <3>2
  <2> QED
    BY <1>3, <2>1, <2>2 DEF Advance, Types
<1>4. CASE UNCHANGED vars
  BY <1>4 DEF vars, chans, Types
<1> QED
  BY <1>1, <1>2, <1>3, <1>4, CallTypes, RunTypes DEF Next

-----------------------------------------------------------------------------
\* What the task's own steps have added to the RawNode is in the Ready that it is
\* about to accept.
IInv ==
    /\ Types
    /\ task.pc = "accept" => raft.out \cap Client \subseteq task.ready.out
    /\ lost \cap Client = {}

LEMMA InitIInv == Init => IInv
<1> SUFFICES ASSUME Init PROVE IInv
  OBVIOUS
<1>1. task.pc = "top" /\ lost = {}
  BY DEF Init
<1> QED
  BY <1>1, InitTypes DEF IInv

\* Actions that touch nothing of what the task is about to accept.
LEMMA OthersKeepIInv ==
    ASSUME IInv, Types', UNCHANGED <<task, raft, lost>>
    PROVE  IInv'
BY DEF IInv

LEMMA NextIInv == IInv /\ [Next]_vars => IInv'
<1> SUFFICES ASSUME IInv, [Next]_vars PROVE IInv'
  OBVIOUS
<1>1. Types /\ Types'
  BY NextTypes DEF IInv
<1>2. CASE RunTop
  <2>1. CASE task' = [task EXCEPT !.pc = "accept", !.ready = ReadyNew(raft)]
    <3>1. task'.ready.out = raft.out
      BY <1>1, <2>1 DEF Types, TaskType, ReadyNew
    <3> QED
      BY <1>1, <1>2, <3>1 DEF IInv, RunTop
  <2>2. CASE task' = [task EXCEPT !.pc = "select", !.first = FALSE]
    <3>1. task'.pc = "select"
      BY <1>1, <2>2 DEF Types, TaskType
    <3> QED
      BY <1>1, <1>2, <3>1 DEF IInv, RunTop
  <2> QED
    BY <1>2, <2>1, <2>2 DEF RunTop
<1>3. CASE RunAccept
  <2>1. task'.pc = "select"
    BY <1>1, <1>3 DEF Types, TaskType, RunAccept
  <2>2. lost' \cap Client = {}
    BY <1>3 DEF IInv, RunAccept
  <2> QED
    BY <1>1, <2>1, <2>2 DEF IInv
<1>4. CASE RunConf \/ RunProposal \/ RunMessage \/ RunAdvance \/ RunStatus \/ RunStop
  <2>1. task'.pc # "accept" /\ lost' = lost
    BY <1>1, <1>4 DEF Types, TaskType, RunConf, RunProposal, RunMessage, RunAdvance, RunStatus, RunStop, GoesTo
  <2> QED
    BY <1>1, <2>1 DEF IInv
<1>5. CASE Tick
  <2>1. ticks \in Input /\ ticks \notin Client
    <3>1. ticks \in 0..MaxTicks /\ ticks \in Nat
      BY <1>1, NodeTaskAssumption DEF Types
    <3> QED
      BY <3>1, NodeTaskAssumption DEF Input
  <2>2. raft'.out \subseteq raft.out \cup {ticks}
    BY <1>1, <1>5, <2>1, StepsType DEF Tick, Types
  <2> QED
    BY <1>1, <1>5, <2>1, <2>2 DEF IInv, Tick
<1>6. CASE TakeReady \/ Advance
  BY <1>1, <1>6, OthersKeepIInv DEF TakeReady, Advance
<1>7. ASSUME NEW c \in Client,
             \/ CallPropose(c) \/ CallProposeConf(c) \/ CallStep(c)
             \/ CallConf(c) \/ CallStatus(c) \/ CallStop(c) \/ Resume(c)
      PROVE  IInv'
  <2>1. UNCHANGED <<task, raft, lost>>
    BY <1>7 DEF CallPropose, CallProposeConf, CallStep, CallConf, CallStatus, CallStop, Resume,
                SendProposal, SendMessage, ReceiveConfState, TakeDone
  <2> QED
    BY <1>1, <2>1, OthersKeepIInv
<1>8. CASE UNCHANGED vars
  BY <1>1, <1>8, OthersKeepIInv DEF vars
<1> QED
  BY <1>2, <1>3, <1>4, <1>5, <1>6, <1>7, <1>8 DEF Next, Run

-----------------------------------------------------------------------------
\* The channels and the loop of InnerNode::run keep to their types.
THEOREM TypeCorrectness == Spec => []TypeOK
BY InitTypes, NextTypes, TypesImplyTypeOK, PTL DEF Spec

\* accept_ready after ready_without_accept throws nothing away that came through
\* the task.
THEOREM NothingOfTheTaskIsLost == Spec => []OnlyTicksAreLost
<1>1. IInv => OnlyTicksAreLost
  BY DEF IInv, OnlyTicksAreLost
<1> QED
  BY InitIInv, NextIInv, <1>1, PTL DEF Spec
=============================================================================
