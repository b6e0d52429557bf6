------------------------------ MODULE Inflights ------------------------------
(***************************************************************************)
(* tracker::Inflights, the ring buffer of raft-rs/src/tracker/inflights.rs *)
(* that limits how many MsgAppend messages a leader has in flight to one   *)
(* replicating follower.                                                   *)
(*                                                                         *)
(* Positions count from 0 as in the code; buffer is a Vec, so position p   *)
(* of the code is buffer[p + 1] here.  A Vec's allocated capacity is not   *)
(* state: the code only uses it to decide whether to allocate.             *)
(*                                                                         *)
(* Each public operation is one action; the guard of Add is the contract   *)
(* of its only caller, Progress::update_state, which Raft calls only when  *)
(* Progress::is_paused() is false, i.e. the window is not full, and with   *)
(* increasing indexes.                                                     *)
(***************************************************************************)
EXTENDS Integers, Sequences

CONSTANTS
    Indexes,    \* log indexes that may be in flight
    Caps,       \* the sizes the buffer may be created with or set to
    None        \* Option::None of incoming_cap

ASSUME ConstantsAssumption ==
    /\ Indexes \subseteq Nat
    /\ Caps \subseteq Nat
    /\ None \notin Nat

VARIABLES
    start,          \* position of the oldest index in flight
    count,          \* number of indexes in flight
    buffer,         \* the ring's storage, filled up to its length
    cap,            \* the ring's size
    incoming_cap    \* a smaller size waiting for the ring to drain, or None

vars == <<start, count, buffer, cap, incoming_cap>>

-----------------------------------------------------------------------------
\* A position that ran off the end of the ring continues at its beginning.
Wrap(p) == IF p >= cap THEN p - cap ELSE p

\* The (i+1)-st oldest index in flight.
Inflight(i) == buffer[Wrap(start + i) + 1]

\* full() does not look for a size that is waiting.
MutFull == count = cap

\* Inflights::full
Full == count = cap \/ (incoming_cap # None /\ count >= incoming_cap)

\* The position Inflights::add writes to.
NextSlot == Wrap(start + count)

-----------------------------------------------------------------------------
\* Inflights::new
Init ==
    /\ start = 0
    /\ count = 0
    /\ buffer = <<>>
    /\ cap \in Caps
    /\ incoming_cap = None

\* Inflights::add: push at the end of the storage, or overwrite a freed slot.
Add(x) ==
    /\ ~Full
    /\ count > 0 => Inflight(count - 1) < x
    /\ buffer' = IF NextSlot = Len(buffer)
                   THEN Append(buffer, x)
                   ELSE [buffer EXCEPT ![NextSlot + 1] = x]
    /\ count' = count + 1
    /\ UNCHANGED <<start, cap, incoming_cap>>

\* The ring gives up its storage and takes the size that was waiting.
TakeIncomingCap ==
    /\ start' = 0
    /\ buffer' = <<>>
    /\ cap' = incoming_cap
    /\ incoming_cap' = None

\* Where the loop of Inflights::free_to stops: n indexes are <= to and the
\* next one, if there is one, is larger.
StopsAfter(n, to) ==
    /\ \A i \in 0..(n - 1) : Inflight(i) <= to
    /\ n < count => to < Inflight(n)

\* Inflights::free_to.  n = 0 is its early return: nothing in flight, or
\* `to` is left of the window.
FreeTo(to) ==
    \E n \in 0..count :
        /\ StopsAfter(n, to)
        /\ count' = count - n
        /\ \/ /\ n = 0
              /\ UNCHANGED <<start, buffer, cap, incoming_cap>>
           \/ /\ n > 0
              /\ count = n
              /\ incoming_cap # None
              /\ TakeIncomingCap
           \/ /\ n > 0
              /\ count > n \/ incoming_cap = None
              /\ start' = Wrap(start + n)
              /\ UNCHANGED <<buffer, cap, incoming_cap>>

\* Inflights::free_first_one
FreeFirstOne == count > 0 /\ FreeTo(Inflight(0))

\* Inflights::reset
Reset ==
    /\ count' = 0
    /\ start' = 0
    /\ buffer' = <<>>
    /\ cap' = IF incoming_cap = None THEN cap ELSE incoming_cap
    /\ incoming_cap' = None

\* Inflights::maybe_free_buffer
MaybeFreeBuffer ==
    /\ count = 0
    /\ start' = 0
    /\ buffer' = <<>>
    /\ UNCHANGED <<count, cap, incoming_cap>>

\* Inflights::set_cap, one action per arm of its match.
SetSameCap(c) ==
    /\ c = cap
    /\ incoming_cap' = None
    /\ UNCHANGED <<start, count, buffer, cap>>

\* The part that wrapped around is forgotten, or put first.
MutUnrotatedShort == SubSeq(buffer, start + 1, Len(buffer))
MutUnrotatedSwapped ==
    SubSeq(buffer, 1, count - (cap - start))
        \o SubSeq(buffer, start + 1, Len(buffer))

\* The storage with the window moved to its beginning: the part up to the
\* end of the ring, then the part that wrapped around.
Unrotated ==
    SubSeq(buffer, start + 1, Len(buffer))
        \o SubSeq(buffer, 1, count - (cap - start))

GrowCap(c) ==
    /\ c > cap
    /\ \/ /\ start + count <= cap
          /\ UNCHANGED <<start, buffer>>
       \/ /\ start + count > cap
          /\ start' = 0
          /\ buffer' = Unrotated
    /\ cap' = c
    /\ incoming_cap' = None
    /\ UNCHANGED count

ShrinkCap(c) ==
    /\ c < cap
    /\ \/ /\ count = 0
          /\ start' = 0
          /\ buffer' = <<>>
          /\ cap' = c
          /\ incoming_cap' = None
       \/ /\ count > 0
          /\ incoming_cap' = c
          /\ UNCHANGED <<start, buffer, cap>>
    /\ UNCHANGED count

SetCap(c) == SetSameCap(c) \/ GrowCap(c) \/ ShrinkCap(c)

Next ==
    \/ \E x \in Indexes : Add(x) \/ FreeTo(x)
    \/ FreeFirstOne
    \/ Reset
    \/ MaybeFreeBuffer
    \/ \E c \in Caps : SetCap(c)

Spec == Init /\ [][Next]_vars

-----------------------------------------------------------------------------
(***************************************************************************)
(* Properties.                                                             *)
(***************************************************************************)

\* Every field has the type the struct gives it; the ring's storage never
\* outgrows the ring (the reserve() of set_cap subtracts the lengths).
TypeOK ==
    /\ start \in Nat
    /\ count \in Nat
    /\ buffer \in Seq(Indexes)
    /\ cap \in Caps
    /\ incoming_cap \in Caps \cup {None}
    /\ Len(buffer) <= cap

\* How the three ways the ring can lie in its storage keep every slot of the
\* window readable: either the window is contiguous inside the storage, or
\* it wraps and the storage has been filled to the ring's size (the
\* debug_assert_eq! of set_cap).  A size is only waiting while something is
\* in flight and is smaller than the current one, so free_to and reset are
\* the only places that have to look for it.
RingShape ==
    /\ count <= cap
    /\ start < cap \/ start = 0
    /\ start + count <= cap => start + count <= Len(buffer)
    /\ start + count > cap => Len(buffer) = cap
    /\ incoming_cap # None => count > 0 /\ incoming_cap < cap

\* The assert! and debug_assert!s of Inflights::add hold whenever add may be
\* called: the slot is inside the storage or the one just after it, and a
\* ring without storage is empty, starts at 0 and has no size waiting.
AddNeverPanics ==
    ~Full =>
        /\ NextSlot <= Len(buffer)
        /\ buffer = <<>> => count = 0 /\ start = 0 /\ incoming_cap = None

\* The indexes in flight stay in increasing order however the ring was
\* rotated, shrunk and grown: free_to stops at the first larger one, so an
\* unordered ring would keep acknowledged messages in flight forever.
Ordered ==
    \A i, j \in 0..(count - 1) : i < j => Inflight(i) < Inflight(j)

\* The window the ring stores, and its limit.
Window == [i \in 1..count |-> Inflight(i - 1)]
Limit == IF incoming_cap = None THEN cap ELSE incoming_cap

\* full() says what it should: the limit last set is reached.
FullMeansLimit == Full <=> Len(Window) >= Limit

\* The ring buffer implements the sliding window: add appends, free_to drops
\* exactly the acknowledged prefix, reset empties it, and set_cap changes the
\* limit at once without losing or reordering anything in flight.
W == INSTANCE InflightsWindow WITH win <- Window, lim <- Limit
WindowSpec == W!WSpec
=============================================================================
