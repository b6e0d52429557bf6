----------------------------- MODULE MCNodeTask -----------------------------
(* A node task and the calls of two clients.                               *)
EXTENDS NodeTask
=============================================================================
