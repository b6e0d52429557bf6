----------------------------- MODULE MCTracker -----------------------------
(***************************************************************************)
(* Four interchangeable nodes: enough for a joint configuration in which   *)
(* nodes are kept, promoted, demoted and removed at the same time.         *)
(*                                                                         *)
(* First a group changes its configuration, by any number of calls with    *)
(* lists of any length.  At any time between two calls, one of its nodes   *)
(* becomes a leader or a candidate and counts what it is told in the       *)
(* configuration it has come to.  Learners are not counted, so it begins   *)
(* from configurations without any; the nodes that are no voters answer    *)
(* all the same.                                                           *)
(***************************************************************************)
EXTENDS ConfRestore, QuorumTracker

NodeSymmetry == Permutations(Node)

MCInit ==
    /\ Init
    /\ state = "Follower"
    /\ conf = [incoming |-> Node, outgoing |-> {}]
    /\ acked = [n \in Node |-> 0]
    /\ group = [n \in Node |-> 0]
    /\ votes = <<>>

ChangeConf ==
    /\ state = "Follower"
    /\ Next
    /\ UNCHANGED trackerVars

BecomeCounting ==
    /\ state = "Follower" /\ op = "none"
    /\ tracker.incoming # {} /\ tracker.learners \cup tracker.learners_next = {} /\ ~tracker.auto_leave
    /\ state' \in {"Leader", "Candidate"}
    /\ conf' = [incoming |-> tracker.incoming, outgoing |-> tracker.outgoing]
    /\ UNCHANGED <<vars, acked, group, votes>>

Count ==
    /\ TrackerNext
    /\ UNCHANGED vars

MCNext == ChangeConf \/ BecomeCounting \/ Count

MCSpec == MCInit /\ [][MCNext]_<<vars, trackerVars>>
=============================================================================
