----------------------------- MODULE MCLogStore -----------------------------
(* The log of one node against three leaders.                              *)
EXTENDS LogStore
=============================================================================
