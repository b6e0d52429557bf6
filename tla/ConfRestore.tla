----------------------------- MODULE ConfRestore -----------------------------
(***************************************************************************)
(* confchange::restore (raft-rs/src/confchange/restore.rs): rebuilding a   *)
(* tracker from the ConfState that to_conf_state made of it, as a node     *)
(* does when it starts or receives a snapshot.                             *)
(*                                                                         *)
(* A ConfState lists sets in the order of their hashes, so the lists are   *)
(* taken in any order.  A result is the set of trackers a call returns:    *)
(* empty if it is refused.                                                 *)
(***************************************************************************)
EXTENDS Changer, SequencesExt

\* The elements of S in the given order of all nodes.
InOrder(S, order) == SelectSeq(order, LAMBDA n : n \in S)

\* A list of changes of one type.
ChangesOf(type, ids) == [i \in DOMAIN ids |-> [type |-> type, id |-> ids[i]]]

\* One call of Changer::simple per change, as long as none is refused.
SimpleOne(ts, cc) == UNION {SimpleChange(t, <<cc>>) : t \in ts}

\* to_conf_change_single: the lists that build the outgoing half, and from it
\* the configuration.
OutgoingChanges(cs, o1) == ChangesOf("AddNode", InOrder(cs.outgoing, o1))

\* Outgoing voters are not removed first.
MutIncomingChanges(cs, o1, o2) ==
    ChangesOf("AddNode", InOrder(cs.incoming, o2))
    \o ChangesOf("AddLearnerNode", InOrder(cs.learners, o2))
    \o ChangesOf("AddLearnerNode", InOrder(cs.learners_next, o2))

IncomingChanges(cs, o1, o2) ==
    ChangesOf("RemoveNode", InOrder(cs.outgoing, o1))
    \o ChangesOf("AddNode", InOrder(cs.incoming, o2))
    \o ChangesOf("AddLearnerNode", InOrder(cs.learners, o2))
    \o ChangesOf("AddLearnerNode", InOrder(cs.learners_next, o2))

Restore(cs, o1, o2) ==
    IF ~Joint(cs)
      THEN FoldLeft(SimpleOne, {EmptyTracker}, IncomingChanges(cs, o1, o2))
      ELSE UNION {EnterJointChange(t, cs.auto_leave, IncomingChanges(cs, o1, o2)) :
                    t \in FoldLeft(SimpleOne, {EmptyTracker}, OutgoingChanges(cs, o1))}

\* The orders of all nodes.
Orders == SetToSeqs(Node)

\* Restoring the ConfState of a configuration that calls have led to gives that
\* configuration, whatever the order of its lists, staged learners and
\* auto_leave included; Raft::new and Raft::restore are fatal otherwise.
RestoreInverts ==
    [][tracker' # tracker => \A o1, o2 \in Orders : Restore(tracker', o1, o2) = {tracker'}]_vars
==============================================================================
