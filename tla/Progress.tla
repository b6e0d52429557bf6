------------------------------ MODULE Progress ------------------------------
(***************************************************************************)
(* tracker::Progress: what a leader knows about the log of one follower    *)
(* and how it may send to it (raft-rs/src/tracker/progress.rs).            *)
(*                                                                         *)
(* A progress is a record; every method of the struct is an operator that  *)
(* returns the updated record.  ins is the window of in-flight indexes     *)
(* that Inflights.tla shows the ring buffer to implement.  committed_index *)
(* and commit_group_id are left out: the first is only reported, the       *)
(* second is QuorumRules'.                                                 *)
(***************************************************************************)
EXTENDS Integers, Sequences

CONSTANT MaxInflight      \* Config::max_inflight_msgs

ASSUME MaxInflightAssumption == MaxInflight \in Nat \ {0}

\* INVALID_INDEX: no snapshot is requested.
InvalidIndex == 0

-----------------------------------------------------------------------------
\* Progress::new
NewProgress(next_idx) ==
    [matched |-> 0, next_idx |-> next_idx, state |-> "Probe", paused |-> FALSE,
     pending_snapshot |-> 0, pending_request_snapshot |-> InvalidIndex,
     recent_active |-> FALSE, ins |-> <<>>]

\* Progress::reset: what is left is what a new progress has.
ResetProgress(next_idx) == NewProgress(next_idx)

\* Progress::reset_state
ResetState(pr, st) ==
    [pr EXCEPT !.paused = FALSE, !.pending_snapshot = 0, !.state = st, !.ins = <<>>]

\* Progress::become_probe: after a snapshot, probe from its end.
BecomeProbe(pr) ==
    LET fromSnapshot == pr.state = "Snapshot" /\ pr.pending_snapshot > pr.matched
    IN  [ResetState(pr, "Probe") EXCEPT
            !.next_idx = (IF fromSnapshot THEN pr.pending_snapshot ELSE pr.matched) + 1]

\* Progress::become_replicate
BecomeReplicate(pr) == [ResetState(pr, "Replicate") EXCEPT !.next_idx = pr.matched + 1]

\* Progress::become_snapshot
BecomeSnapshot(pr, index) == [ResetState(pr, "Snapshot") EXCEPT !.pending_snapshot = index]

\* Progress::snapshot_failure
SnapshotFailure(pr) == [pr EXCEPT !.pending_snapshot = 0]

\* Progress::is_snapshot_caught_up
IsSnapshotCaughtUp(pr) == pr.state = "Snapshot" /\ pr.matched >= pr.pending_snapshot

\* Progress::is_paused
IsPaused(pr) ==
    CASE pr.state = "Probe" -> pr.paused
      [] pr.state = "Replicate" -> Len(pr.ins) >= MaxInflight
      [] pr.state = "Snapshot" -> TRUE

\* Progress::maybe_update; the acknowledgement is new if matched < n.
NeedUpdate(pr, n) == pr.matched < n

MaybeUpdate(pr, n) ==
    [pr EXCEPT
        !.matched = IF NeedUpdate(pr, n) THEN n ELSE @,
        !.paused = IF NeedUpdate(pr, n) THEN FALSE ELSE @,
        !.next_idx = IF @ < n + 1 THEN n + 1 ELSE @]

\* The early returns of Progress::maybe_decr_to: the rejection of an append
\* at `rejected` was overtaken by a later answer.
StaleRejection(pr, rejected, request_snapshot) ==
    IF pr.state = "Replicate"
      THEN \/ rejected < pr.matched
           \/ rejected = pr.matched /\ request_snapshot = InvalidIndex
      ELSE /\ pr.next_idx = 0 \/ pr.next_idx - 1 # rejected
           /\ request_snapshot = InvalidIndex

\* The rest of Progress::maybe_decr_to.
DecrTo(pr, rejected, match_hint, request_snapshot) ==
    LET lower == IF rejected < match_hint + 1 THEN rejected ELSE match_hint + 1
    IN  IF pr.state = "Replicate"
          THEN IF request_snapshot = InvalidIndex
                 THEN [pr EXCEPT !.next_idx = pr.matched + 1]
                 ELSE [pr EXCEPT !.pending_request_snapshot = request_snapshot]
        ELSE IF request_snapshot = InvalidIndex
          THEN [pr EXCEPT !.next_idx = IF lower < 1 THEN 1 ELSE lower, !.paused = FALSE]
        ELSE [pr EXCEPT
                 !.pending_request_snapshot = IF @ = InvalidIndex THEN request_snapshot ELSE @,
                 !.paused = FALSE]

\* Progress::update_state: entries up to `last` were sent.  Optimistic while
\* replicating, one message at a time while probing.  (It panics in state
\* Snapshot, which is_paused keeps away from it.)
UpdateState(pr, last) ==
    IF pr.state = "Replicate"
      THEN [pr EXCEPT !.next_idx = last + 1, !.ins = Append(@, last)]
      ELSE [pr EXCEPT !.paused = TRUE]

\* The message that is acknowledged stays in flight.
MutFreeTo(ins, to) ==
    LET n == CHOOSE k \in 0..Len(ins) :
                /\ \A i \in 1..k : ins[i] < to
                /\ k < Len(ins) => to <= ins[k + 1]
    IN  SubSeq(ins, n + 1, Len(ins))

\* Inflights::free_to on the window.
FreeTo(ins, to) ==
    LET n == CHOOSE k \in 0..Len(ins) :
                /\ \A i \in 1..k : ins[i] <= to
                /\ k < Len(ins) => to < ins[k + 1]
    IN  SubSeq(ins, n + 1, Len(ins))

\* Inflights::free_first_one on a full window, as
\* Raft::handle_heartbeat_response does it to let a stalled follower move on.
FreeFirstIfFull(pr) ==
    IF pr.state = "Replicate" /\ Len(pr.ins) >= MaxInflight
      THEN [pr EXCEPT !.ins = Tail(@)]
      ELSE pr

=============================================================================
