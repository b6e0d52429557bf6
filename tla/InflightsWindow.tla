--------------------------- MODULE InflightsWindow ---------------------------
(***************************************************************************)
(* What the leader may rely on when it talks to tracker::Inflights: a      *)
(* sliding window of the last indexes of the MsgAppend messages that are   *)
(* in flight to one follower, bounded by a limit that may be changed at    *)
(* any time.  A limit below the current length never drops an index, it    *)
(* only forbids new ones until enough of the old ones are acknowledged.    *)
(*                                                                         *)
(* The module is the abstract specification of the ring buffer in          *)
(* Inflights.tla.                                                          *)
(***************************************************************************)
EXTENDS Naturals, Sequences

CONSTANTS
    Indexes,    \* log indexes that may be in flight
    Caps        \* the sizes set_cap may be called with

VARIABLES
    win,        \* the indexes in flight, oldest first
    lim         \* how many may be in flight

wvars == <<win, lim>>

WInit == win = <<>> /\ lim \in Caps

\* Only a window below its limit takes an index, and the leader sends
\* indexes in increasing order.
WAdd(x) ==
    /\ Len(win) < lim
    /\ win # <<>> => win[Len(win)] < x
    /\ win' = Append(win, x)
    /\ UNCHANGED lim

\* n is the length of the longest prefix of win whose indexes are <= to.
IsPrefixUpTo(n, to) ==
    /\ \A i \in 1..n : win[i] <= to
    /\ n < Len(win) => to < win[n + 1]

\* An acknowledgement of `to` acknowledges everything sent before it.
WFreeTo(to) ==
    \E n \in 0..Len(win) :
        /\ IsPrefixUpTo(n, to)
        /\ win' = SubSeq(win, n + 1, Len(win))
        /\ UNCHANGED lim

WReset == win' = <<>> /\ UNCHANGED lim

WSetCap(c) == lim' = c /\ UNCHANGED win

WNext ==
    \/ \E x \in Indexes : WAdd(x) \/ WFreeTo(x)
    \/ WReset
    \/ \E c \in Caps : WSetCap(c)

WSpec == WInit /\ [][WNext]_wvars
=============================================================================
