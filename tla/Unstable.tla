------------------------------ MODULE Unstable ------------------------------
(***************************************************************************)
(* log_unstable::Unstable: the part of a node's log that is not in its     *)
(* storage yet (raft-rs/src/log_unstable.rs), as operators on a record     *)
(*                                                                         *)
(*   snapshot    the metadata of a snapshot to be restored, or NoSnapshot  *)
(*   entries     entries [index, term], entries[1] at index offset         *)
(*   offset      the index of the first entry                              *)
(*                                                                         *)
(* A method that may panic has a predicate CanX that says when it does     *)
(* not.  entries_size is left out: it only limits memory.                  *)
(***************************************************************************)
EXTENDS Integers, Sequences

NoSnapshot == [index |-> 0, term |-> 0]

\* A term that cannot be told: None, or the error of a storage.
NoTerm == -1

NewUnstable(offset) == [snapshot |-> NoSnapshot, entries |-> <<>>, offset |-> offset]

HasSnapshot(u) == u.snapshot # NoSnapshot

\* Unstable::maybe_last_index, if there is one
HasLast(u) == u.entries # <<>> \/ HasSnapshot(u)
UnstableLast(u) ==
    IF u.entries = <<>> THEN u.snapshot.index ELSE u.offset + Len(u.entries) - 1

\* Unstable::maybe_term
MaybeTerm(u, i) ==
    IF i < u.offset
      THEN IF HasSnapshot(u) /\ i = u.snapshot.index THEN u.snapshot.term ELSE NoTerm
      ELSE IF HasLast(u) /\ i <= UnstableLast(u) THEN u.entries[i - u.offset + 1].term ELSE NoTerm

\* Unstable::stable_entries
CanStableEntries(u, last) ==
    /\ ~HasSnapshot(u)
    /\ u.entries # <<>> /\ u.entries[Len(u.entries)] = last

StableEntries(u, last) == [u EXCEPT !.offset = last.index + 1, !.entries = <<>>]

\* Unstable::stable_snap
CanStableSnap(u, snap) == HasSnapshot(u) /\ u.snapshot.index = snap.index

StableSnap(u) == [u EXCEPT !.snapshot = NoSnapshot]

\* Unstable::restore
UnstableRestore(snap) == [snapshot |-> snap, entries |-> <<>>, offset |-> snap.index + 1]

\* Truncating before the offset leaves the offset where it was.
MutTruncateAndAppend(u, ents) ==
    LET after == ents[1].index
    IN  IF after <= u.offset THEN [u EXCEPT !.entries = ents]
        ELSE [u EXCEPT !.entries = SubSeq(@, 1, after - u.offset) \o ents]

\* Unstable::truncate_and_append.  It panics if there were a gap between the
\* entries and ents.
CanTruncateAndAppend(u, ents) == ents[1].index <= u.offset + Len(u.entries)

TruncateAndAppend(u, ents) ==
    LET after == ents[1].index
    IN  IF after <= u.offset THEN [u EXCEPT !.offset = after, !.entries = ents]
        ELSE [u EXCEPT !.entries = SubSeq(@, 1, after - u.offset) \o ents]

\* Unstable::slice, entries lo to hi - 1
CanSlice(u, lo, hi) == lo <= hi /\ u.offset <= lo /\ hi <= u.offset + Len(u.entries)

UnstableSlice(u, lo, hi) == SubSeq(u.entries, lo - u.offset + 1, hi - u.offset)
=============================================================================
