------------------------------ MODULE RaftLog ------------------------------
(***************************************************************************)
(* The reading side of raft_log::RaftLog, as operators on a record s with  *)
(* the fields                                                              *)
(*                                                                         *)
(*   log     the entries [term, type, data] since the beginning of time    *)
(*   first   RaftLog::first_index: the entries before it are compacted and *)
(*           only remembered by the model                                  *)
(*   snap    index of the snapshot the storage was last overwritten with   *)
(*                                                                         *)
(* How entries are divided between storage and unstable is the subject of  *)
(* LogStore.tla.                                                           *)
(***************************************************************************)
EXTENDS Integers, Sequences

LastIndex(s) == Len(s.log)

\* StorageError::Compacted
NoTerm == -1

\* RaftLog::term.  Outside the log it is 0.  MemStorage keeps the term of the
\* entry before the first one only if that is where its snapshot ends.
TermAt(s, i) ==
    IF i = 0 /\ s.snap = 0 /\ s.first = 1 THEN 0
    ELSE IF i \in s.first..Len(s.log) \/ (i = s.first - 1 /\ i = s.snap) THEN s.log[i].term
    ELSE IF i = s.first - 1 THEN NoTerm
    ELSE 0

\* RaftLog::last_term
LastTerm(s) == TermAt(s, Len(s.log))

\* Any entry at the index will do.
MutMatchTerm(s, i, t) == i <= LastIndex(s)

\* RaftLog::match_term
MatchTerm(s, i, t) == TermAt(s, i) = t

\* RaftLog::is_up_to_date: whoever asks has a log at least as good as ours.
IsUpToDate(s, last_index, t) ==
    \/ t > LastTerm(s)
    \/ t = LastTerm(s) /\ last_index >= LastIndex(s)

\* RaftLog::find_conflict: the first of the entries following index i that
\* the log does not have, 0 if it has them all.
FindConflict(s, i, ents) ==
    LET missing == {k \in 1..Len(ents) : ~MatchTerm(s, i + k, ents[k].term)}
    IN  IF missing = {} THEN 0
        ELSE i + CHOOSE k \in missing : \A l \in missing : k <= l

\* RaftLog::find_conflict_by_term: the largest index <= i whose term is <= t,
\* or cannot be told.
FindConflictByTerm(s, i, t) ==
    LET below == {k \in 0..i : TermAt(s, k) <= t}
    IN  IF i > LastIndex(s) THEN i
        ELSE CHOOSE k \in below : \A l \in below : l <= k

\* The entries lo..hi as RaftLog::slice returns them; Compacted if lo < first.
Slice(s, lo, hi) == SubSeq(s.log, lo, hi)

\* Raft::num_pending_conf is not 0 for the entries lo..hi.
HasConfChange(s, lo, hi) == \E k \in lo..hi : s.log[k].type = "ConfChange"

\* The two sequences of entries agree up to index n (and both reach it).
SamePrefix(log1, log2, n) ==
    /\ n <= Len(log1) /\ n <= Len(log2)
    /\ \A k \in 1..n : log1[k] = log2[k]
=============================================================================
