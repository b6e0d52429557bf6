----------------------------- MODULE DurableLog -----------------------------
(***************************************************************************)
(* What RawNode and the log under it promise to the state machine of one   *)
(* node: it is given the chosen entries, each of them once and in order,   *)
(* directly or as part of a snapshot.  After a crash it goes on from       *)
(* something it was given before.                                          *)
(***************************************************************************)
EXTENDS Integers, Sequences

VARIABLES
    chosen,     \* the entries the group has committed
    given       \* what the state machine was given

vars == <<chosen, given>>

Prefix(s, k) == SubSeq(s, 1, k)

Init == given = <<>>

Choose ==
    /\ Len(chosen') > Len(chosen) /\ Prefix(chosen', Len(chosen)) = chosen
    /\ UNCHANGED given

Give ==
    /\ \E k \in (Len(given) + 1)..Len(chosen) : given' = Prefix(chosen, k)
    /\ UNCHANGED chosen

Crash ==
    /\ \E k \in 0..Len(given) : given' = Prefix(given, k)
    /\ UNCHANGED chosen

Next == Choose \/ Give \/ Crash

Spec == Init /\ [][Next]_vars
=============================================================================
