----------------------------- MODULE MemStorage -----------------------------
(***************************************************************************)
(* storage::MemStorage, the storage under a node's log                     *)
(* (raft-rs/src/storage.rs), as operators on a record                      *)
(*                                                                         *)
(*   snap        snapshot_metadata: index and term of the last snapshot    *)
(*   entries     entries [index, term]                                     *)
(*   commit      raft_state.hard_state.commit                              *)
(*                                                                         *)
(* A method that may panic or fail has a predicate CanX.  The errors that  *)
(* tests can trigger (trigger_*_unavailable) and the ConfState are left    *)
(* out.                                                                    *)
(***************************************************************************)
EXTENDS Unstable

NewStorage == [snap |-> NoSnapshot, entries |-> <<>>, commit |-> 0]

StoreFirst(st) == IF st.entries = <<>> THEN st.snap.index + 1 ELSE st.entries[1].index

StoreLast(st) == IF st.entries = <<>> THEN st.snap.index ELSE st.entries[Len(st.entries)].index

\* Storage::term: Compacted and Unavailable are NoTerm.
StoreTerm(st, i) ==
    IF i = st.snap.index THEN st.snap.term
    ELSE IF i \in StoreFirst(st)..StoreLast(st) THEN st.entries[i - StoreFirst(st) + 1].term
    ELSE NoTerm

\* Storage::entries, from lo to hi - 1
CanReadEntries(st, lo, hi) == StoreFirst(st) <= lo /\ hi <= StoreLast(st) + 1

StoreEntries(st, lo, hi) == SubSeq(st.entries, lo - StoreFirst(st) + 1, hi - StoreFirst(st))

\* MemStorageCore::apply_snapshot fails with SnapshotOutOfDate otherwise.
CanApplySnapshot(st, snap) == StoreFirst(st) <= snap.index

ApplySnapshot(st, snap) == [snap |-> snap, entries |-> <<>>, commit |-> snap.index]

\* MemStorageCore::compact
CanCompact(st, i) == i <= StoreLast(st) + 1

\* The entry at i goes, too.
MutCompact(st, i) ==
    IF i <= StoreFirst(st) THEN st
    ELSE [st EXCEPT !.entries = SubSeq(@, i - StoreFirst(st) + 2, Len(@))]

Compact(st, i) ==
    IF i <= StoreFirst(st) THEN st
    ELSE [st EXCEPT !.entries = SubSeq(@, i - StoreFirst(st) + 1, Len(@))]

\* MemStorageCore::append
CanStoreAppend(st, ents) ==
    ents # <<>> => StoreFirst(st) <= ents[1].index /\ ents[1].index <= StoreLast(st) + 1

StoreAppend(st, ents) ==
    IF ents = <<>> THEN st
    ELSE [st EXCEPT !.entries = SubSeq(@, 1, ents[1].index - StoreFirst(st)) \o ents]

\* MemStorageCore::set_hardstate
SetHardState(st, commit) == [st EXCEPT !.commit = commit]

\* MemStorageCore::snapshot: it is taken at the commit index, which has to be
\* the last snapshot or one of the entries.
CanSnapshot(st) == st.commit = st.snap.index \/ st.commit \in StoreFirst(st)..StoreLast(st)
=============================================================================
