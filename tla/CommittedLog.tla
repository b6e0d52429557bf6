---------------------------- MODULE CommittedLog ----------------------------
(***************************************************************************)
(* What a raft group promises to the state machines above it: there is one *)
(* sequence of committed entries, it only ever grows, and what any node    *)
(* takes for committed is a prefix of it.  A node that restarts may know a *)
(* shorter prefix than before, never a different one.                      *)
(***************************************************************************)
EXTENDS Integers, SequencesExt

CONSTANTS Node, Entry

VARIABLES
    chosen,     \* all entries ever committed
    known       \* what each node takes for committed

vars == <<chosen, known>>

\* Something may have been committed before.
Init ==
    /\ chosen \in Seq(Entry)
    /\ known \in [Node -> {SubSeq(chosen, 1, k) : k \in 0..Len(chosen)}]

\* Node n is the first to know that more entries are committed.
Commit(n) ==
    /\ chosen' \in Seq(Entry)
    /\ IsPrefix(chosen, chosen')
    /\ known' = [known EXCEPT ![n] = chosen']

\* Node n learns what others know, or forgets some of it in a crash.
Know(n) ==
    /\ \E k \in 0..Len(chosen) : known' = [known EXCEPT ![n] = SubSeq(chosen, 1, k)]
    /\ UNCHANGED chosen

Next == \E n \in Node : Commit(n) \/ Know(n)

Spec == Init /\ [][Next]_vars
=============================================================================
