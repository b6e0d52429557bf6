------------------------------ MODULE NodeTask ------------------------------
(***************************************************************************)
(* node::InnerNode (raft-rs/src/node.rs): a task that owns the loop around *)
(* a RawNode, and the handles through which clients and the application    *)
(* talk to it over channels (async_ch.rs).                                 *)
(*                                                                         *)
(* A channel is a sequence.  prop_c, recv_c and done hold one element,     *)
(* the others are unbounded.  (tick_c has a receiver and no sender: a tick *)
(* goes past the task, to the RawNode behind its lock.)                    *)
(*                                                                         *)
(* Of the RawNode, raft keeps what the loop looks at: whether the node is  *)
(* a voter and knows a leader, what it wants to hand out (out: messages    *)
(* and read states, each named after what caused it), whether its soft or  *)
(* hard state or log has changed, and the number of ReadyRecords.          *)
(*                                                                         *)
(* Every client makes one call.                                            *)
(***************************************************************************)
EXTENDS Integers, Sequences, FiniteSets

CONSTANTS
    Client,
    MaxTicks        \* bound on ticks

ASSUME NodeTaskAssumption == MaxTicks \in Nat /\ Client \cap Nat = {}

VARIABLES
    task,           \* pc of InnerNode::run and its locals
    raft,           \* the RawNode
    call,           \* where the call of every client has got to
    prop_c, recv_c, conf_c, conf_state_c, status_c, ready_c, advance_c, stop_c, done,
    app,            \* the Ready the application works on, or NoReady
    ticks,          \* the ticks so far
    lost            \* history: what was thrown away and never handed out

chans == <<prop_c, recv_c, conf_c, conf_state_c, status_c, ready_c, advance_c, stop_c, done>>
vars == <<task, raft, call, chans, app, ticks, lost>>

NoReady == [out |-> {}, given |-> FALSE]

\* Channel::new(1)
Room(c) == Len(c) < 1

-----------------------------------------------------------------------------
(***************************************************************************)
(* The RawNode.                                                            *)
(***************************************************************************)

\* RawNode::has_ready
HasReady(r) == r.out # {} \/ r.changed

\* Messages are handed out by leaders only.
MutReadyNew(r) == [out |-> IF r.leader THEN r.out ELSE {}, given |-> TRUE]

\* RawNode::ready_without_accept and Ready::new
ReadyNew(r) == [out |-> r.out, given |-> TRUE]

\* RawNode::accept_ready: messages and read states are cleared, whatever they
\* are by now.
AcceptReady(r) == [r EXCEPT !.out = {}]

\* Raft::step or tick for input x: it may produce something, change the state,
\* and gain or lose a leader.
Steps(r, x) ==
    [voter : {r.voter}, leader : BOOLEAN, out : {r.out, r.out \cup {x}},
     changed : {r.changed, TRUE}, records : {r.records}]

\* RawNode::advance begins with commit_ready, which unwraps the last of the
\* ReadyRecords; RawNode::ready makes them, ready_without_accept does not.
CanAdvance(r) == r.records > 0

-----------------------------------------------------------------------------
(***************************************************************************)
(* Node: the calls.                                                        *)
(***************************************************************************)
Begin(c, pc) == call[c].pc = "idle" /\ call' = [call EXCEPT ![c].pc = pc]
Return(c, result) == [call EXCEPT ![c] = [pc |-> "returned", result |-> result]]

\* step_wait (propose), step_wait_option with wait = FALSE
\* (propose_conf_change), and a message for recv_c (campaign, step,
\* read_index, transfer_leader_ship, report_unreachable, report_snapshot)
CallPropose(c) == Begin(c, "sendProposal") /\ UNCHANGED <<task, raft, chans, app, ticks, lost>>
CallProposeConf(c) == Begin(c, "sendAndForget") /\ UNCHANGED <<task, raft, chans, app, ticks, lost>>
CallStep(c) == Begin(c, "sendMessage") /\ UNCHANGED <<task, raft, chans, app, ticks, lost>>

SendProposal(c) ==
    /\ Room(prop_c)
    /\ \/ /\ call[c].pc = "sendProposal"
          /\ prop_c' = Append(prop_c, [from |-> c, wait |-> TRUE])
          /\ call' = [call EXCEPT ![c].pc = "awaitResult"]
       \/ /\ call[c].pc = "sendAndForget"
          /\ prop_c' = Append(prop_c, [from |-> c, wait |-> FALSE])
          /\ call' = Return(c, "Ok")
    /\ UNCHANGED <<task, raft, recv_c, conf_c, conf_state_c, status_c, ready_c, advance_c, stop_c, done,
                   app, ticks, lost>>

SendMessage(c) ==
    /\ call[c].pc = "sendMessage" /\ Room(recv_c)
    /\ recv_c' = Append(recv_c, c)
    /\ call' = Return(c, "Ok")
    /\ UNCHANGED <<task, raft, prop_c, conf_c, conf_state_c, status_c, ready_c, advance_c, stop_c, done,
                   app, ticks, lost>>

\* apply_conf_change, status and stop: an unbounded channel takes the request
\* at once, unless select! prefers a done that is there, too.
CallConf(c) ==
    /\ Begin(c, "awaitConfState")
    /\ \/ conf_c' = Append(conf_c, c) /\ done' = done
       \/ done # <<>> /\ done' = <<>> /\ conf_c' = conf_c
    /\ UNCHANGED <<task, raft, prop_c, recv_c, conf_state_c, status_c, ready_c, advance_c, stop_c, app, ticks, lost>>

CallStatus(c) ==
    /\ Begin(c, "awaitStatus")
    /\ \/ status_c' = Append(status_c, c) /\ done' = done
       \/ done # <<>> /\ done' = <<>> /\ status_c' = status_c
    /\ UNCHANGED <<task, raft, prop_c, recv_c, conf_c, conf_state_c, ready_c, advance_c, stop_c, app, ticks, lost>>

CallStop(c) ==
    /\ Begin(c, "awaitStop")
    /\ stop_c' = Append(stop_c, c)
    /\ UNCHANGED <<task, raft, prop_c, recv_c, conf_c, conf_state_c, status_c, ready_c, advance_c, done,
                   app, ticks, lost>>

\* The answers
ReceiveConfState(c) ==
    /\ call[c].pc = "awaitConfState" /\ conf_state_c # <<>>
    /\ conf_state_c' = Tail(conf_state_c)
    /\ call' = Return(c, "Ok")
    /\ UNCHANGED <<task, raft, prop_c, recv_c, conf_c, status_c, ready_c, advance_c, stop_c, done, app, ticks, lost>>

\* Whoever waits for done as an alternative takes it; there is only one.
TakeDone(c) ==
    /\ done # <<>>
    /\ call[c].pc \in {"sendProposal", "sendAndForget", "awaitResult", "sendMessage", "awaitConfState", "awaitStop"}
    /\ done' = <<>>
    /\ call' = Return(c, "Stopped")
    /\ UNCHANGED <<task, raft, prop_c, recv_c, conf_c, conf_state_c, status_c, ready_c, advance_c, stop_c,
                   app, ticks, lost>>

\* Node::tick takes the lock itself.  A task that panicked has poisoned it.
Tick ==
    /\ ticks < MaxTicks /\ task.pc # "dead"
    /\ ticks' = ticks + 1
    /\ raft' \in Steps(raft, ticks)
    /\ UNCHANGED <<task, call, chans, app, lost>>

-----------------------------------------------------------------------------
(***************************************************************************)
(* The application.                                                        *)
(***************************************************************************)
TakeReady ==
    /\ ~app.given /\ ready_c # <<>>
    /\ app' = Head(ready_c) /\ ready_c' = Tail(ready_c)
    /\ UNCHANGED <<task, raft, call, prop_c, recv_c, conf_c, conf_state_c, status_c, advance_c, stop_c, done,
                   ticks, lost>>

\* Node::advance
Advance ==
    /\ app.given
    /\ app' = NoReady
    /\ \/ advance_c' = Append(advance_c, "advance") /\ done' = done
       \/ done # <<>> /\ done' = <<>> /\ advance_c' = advance_c
    /\ UNCHANGED <<task, raft, call, prop_c, recv_c, conf_c, conf_state_c, status_c, ready_c, stop_c, ticks, lost>>

-----------------------------------------------------------------------------
(***************************************************************************)
(* InnerNode::run.                                                         *)
(***************************************************************************)
GoesTo(pc) == task' = [task EXCEPT !.pc = pc]

\* The top of the loop: hand out a Ready, unless one is out already or this is
\* the first time.
RunTop ==
    /\ task.pc = "top"
    /\ IF ~task.wait_advance /\ HasReady(raft) /\ ~task.first
         THEN /\ ready_c' = Append(ready_c, ReadyNew(raft))
              /\ task' = [task EXCEPT !.pc = "accept", !.ready = ReadyNew(raft)]
         ELSE /\ task' = [task EXCEPT !.pc = "select", !.first = FALSE]
              /\ UNCHANGED ready_c
    /\ UNCHANGED <<raft, call, prop_c, recv_c, conf_c, conf_state_c, status_c, advance_c, stop_c, done,
                   app, ticks, lost>>

\* The lock was released in between.
RunAccept ==
    /\ task.pc = "accept"
    /\ raft' = AcceptReady(raft)
    /\ lost' = lost \cup (raft.out \ task.ready.out)
    /\ task' = [task EXCEPT !.pc = "select", !.wait_advance = TRUE]
    /\ UNCHANGED <<call, chans, app, ticks>>

\* The arms of select!.  apply_conf_change at a leader sends appends and answers
\* reads.  It is unwrapped: a change that Changer refuses ends the task.
RunConf ==
    /\ task.pc = "select" /\ conf_c # <<>>
    /\ conf_c' = Tail(conf_c)
    /\ \/ /\ \E v \in BOOLEAN, r \in Steps(raft, Head(conf_c)) :
                raft' = [r EXCEPT !.voter = v, !.leader = raft.leader]
          /\ conf_state_c' = Append(conf_state_c, "ConfState")
          /\ GoesTo("top")
       \/ GoesTo("dead") /\ UNCHANGED <<raft, conf_state_c>>
    /\ UNCHANGED <<call, prop_c, recv_c, status_c, ready_c, advance_c, stop_c, done, app, ticks, lost>>

\* notify and notify_and_close: nobody may be waiting any more.
Notified(pm, result) ==
    IF pm.wait /\ call[pm.from].pc = "awaitResult" THEN Return(pm.from, result) ELSE call

\* Only proposals that reach the Raft are answered.
MutAnswers(pm) ==
    IF ~raft.voter \/ ~raft.leader THEN {<<call, raft>>}
    ELSE {<<Notified(pm, r), s>> : r \in {"Ok", "Dropped"}, s \in Steps(raft, pm.from)}

Answers(pm) ==
    IF ~raft.voter THEN {<<Notified(pm, "NotIsVoter"), raft>>}
    ELSE IF ~raft.leader THEN {<<Notified(pm, "NoLeader"), raft>>}
    ELSE {<<Notified(pm, r), s>> : r \in {"Ok", "Dropped"}, s \in Steps(raft, pm.from)}

RunProposal ==
    /\ task.pc = "select" /\ prop_c # <<>>
    /\ prop_c' = Tail(prop_c)
    /\ \E a \in Answers(Head(prop_c)) : call' = a[1] /\ raft' = a[2]
    /\ GoesTo("top")
    /\ UNCHANGED <<recv_c, conf_c, conf_state_c, status_c, ready_c, advance_c, stop_c, done, app, ticks, lost>>

\* A response from a node without progress is filtered out.
RunMessage ==
    /\ task.pc = "select" /\ recv_c # <<>>
    /\ recv_c' = Tail(recv_c)
    /\ raft' \in Steps(raft, Head(recv_c)) \cup {raft}
    /\ GoesTo("top")
    /\ UNCHANGED <<call, prop_c, conf_c, conf_state_c, status_c, ready_c, advance_c, stop_c, done, app, ticks, lost>>

RunAdvance ==
    /\ task.pc = "select" /\ advance_c # <<>>
    /\ advance_c' = Tail(advance_c)
    /\ task' = IF CanAdvance(raft) THEN [task EXCEPT !.pc = "top", !.wait_advance = FALSE]
               ELSE [task EXCEPT !.pc = "dead"]
    /\ UNCHANGED <<raft, call, prop_c, recv_c, conf_c, conf_state_c, status_c, ready_c, stop_c, done, app, ticks, lost>>

RunStatus ==
    /\ task.pc = "select" /\ status_c # <<>>
    /\ status_c' = Tail(status_c)
    /\ call' = Return(Head(status_c), "Ok")
    /\ GoesTo("top")
    /\ UNCHANGED <<raft, prop_c, recv_c, conf_c, conf_state_c, ready_c, advance_c, stop_c, done, app, ticks, lost>>

\* One done is sent, for whoever takes it first.  The other clones of the
\* sender keep the channel open.
RunStop ==
    /\ task.pc = "select" /\ stop_c # <<>>
    /\ stop_c' = Tail(stop_c)
    /\ done' = <<"done">>
    /\ GoesTo("stopped")
    /\ UNCHANGED <<raft, call, prop_c, recv_c, conf_c, conf_state_c, status_c, ready_c, advance_c, app, ticks, lost>>

-----------------------------------------------------------------------------
Init ==
    /\ task = [pc |-> "top", wait_advance |-> FALSE, first |-> TRUE, ready |-> NoReady]
    /\ \E v \in BOOLEAN :
          raft = [voter |-> v, leader |-> FALSE, out |-> {}, changed |-> FALSE, records |-> 0]
    /\ call = [c \in Client |-> [pc |-> "idle", result |-> "none"]]
    /\ prop_c = <<>> /\ recv_c = <<>> /\ conf_c = <<>> /\ conf_state_c = <<>> /\ status_c = <<>>
    /\ ready_c = <<>> /\ advance_c = <<>> /\ stop_c = <<>> /\ done = <<>>
    /\ app = NoReady
    /\ ticks = 0
    /\ lost = {}

Run ==
    \/ RunTop
    \/ RunAccept
    \/ RunConf
    \/ RunProposal
    \/ RunMessage
    \/ RunAdvance
    \/ RunStatus
    \/ RunStop

\* A call that has begun goes on.
Resume(c) ==
    \/ SendProposal(c)
    \/ SendMessage(c)
    \/ ReceiveConfState(c)
    \/ TakeDone(c)

Next ==
    \/ Run
    \/ \E c \in Client :
        \/ CallPropose(c)
        \/ CallProposeConf(c)
        \/ CallStep(c)
        \/ CallConf(c)
        \/ CallStatus(c)
        \/ CallStop(c)
        \/ Resume(c)
    \/ Tick
    \/ TakeReady
    \/ Advance

\* The runtime polls every task that can go on.  Nobody has to call anything.
Fairness == WF_vars(Run) /\ \A c \in Client : WF_vars(Resume(c))

Spec == Init /\ [][Next]_vars /\ Fairness

-----------------------------------------------------------------------------
Pending(c) == call[c].pc \notin {"idle", "returned"}
Over == task.pc \in {"dead", "stopped"}

\* Every variable has its type, and bounded channels keep to their bounds.
TypeOK ==
    /\ task \in [pc : {"top", "accept", "select", "dead", "stopped"}, wait_advance : BOOLEAN, first : BOOLEAN,
                 ready : [out : SUBSET (Client \cup (0..MaxTicks)), given : BOOLEAN]]
    /\ raft \in [voter : BOOLEAN, leader : BOOLEAN, out : SUBSET (Client \cup (0..MaxTicks)),
                 changed : BOOLEAN, records : Nat]
    /\ \A c \in Client : call[c].pc \in
          {"idle", "sendProposal", "sendAndForget", "awaitResult", "sendMessage", "awaitConfState",
           "awaitStatus", "awaitStop", "returned"}
    /\ Len(prop_c) <= 1 /\ Len(recv_c) <= 1 /\ Len(done) <= 1

\* What comes through the task is not lost between taking a Ready and
\* accepting it, although accept_ready clears whatever is there: the task is
\* the only one to step the RawNode then, but for Node::tick.
OnlyTicksAreLost == lost \cap Client = {}

\* Handing out a Ready never makes the task and its clients wait for each
\* other: while the task lives, whatever is called returns (step_wait_option,
\* apply_conf_change, status).
CallsReturn == \A c \in Client : Pending(c) ~> (~Pending(c) \/ Over)

\* Node::advance "prepares the node to return the next available Ready": once it
\* was called, the loop comes to hand one out again, unless it is stopped.
AdvancePreparesNext == advance_c # <<>> ~> (~task.wait_advance \/ task.pc = "stopped")
=============================================================================
