------------------------------ MODULE Members ------------------------------
(***************************************************************************)
(* The nodes that a group is made of: what Changer makes configurations of *)
(* and QuorumTracker counts.                                               *)
(***************************************************************************)
EXTENDS FiniteSets

CONSTANT Node       \* the nodes that may be members

ASSUME NodeAssumption == IsFiniteSet(Node)
=============================================================================
