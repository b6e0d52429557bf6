----------------------------- MODULE MCPeerLink -----------------------------
(* A leader and a learner, a queue of one message, and two URLs of which   *)
(* one works.                                                              *)
EXTENDS PeerLink
=============================================================================
