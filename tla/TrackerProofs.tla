---------------------------- MODULE TrackerProofs ----------------------------
(***************************************************************************)
(* Proofs about the two parts of the progress tracker that keep state of   *)
(* their own: the ring of what is in flight to a follower (Inflights), and *)
(* the decisions about votes and commits (QuorumTracker).                  *)
(***************************************************************************)
EXTENDS QuorumTracker, Inflights, QuorumRulesProofs, SequenceTheorems

(***************************************************************************)
(* Inflights implements InflightsWindow, for every set of indexes and      *)
(* every set of capacities.                                                *)
(***************************************************************************)
IInv == TypeOK /\ RingShape /\ Ordered

\* Every position of the window lies in the storage, so reading it gives a
\* log index.
LEMMA Readable ==
    ASSUME TypeOK, RingShape, NEW i \in 0..(count - 1)
    PROVE  /\ Wrap(start + i) \in Nat
           /\ Wrap(start + i) < Len(buffer)
           /\ Wrap(start + i) + 1 \in 1..Len(buffer)
           /\ Inflight(i) \in Indexes
           /\ Inflight(i) \in Nat
  <1> USE ConstantsAssumption
  <1>1. /\ Wrap(start + i) \in Nat
        /\ Wrap(start + i) < Len(buffer)
    BY DEF TypeOK, RingShape, Wrap
  <1>2. Wrap(start + i) + 1 \in 1..Len(buffer)
    BY <1>1 DEF TypeOK
  <1>3. Inflight(i) \in Indexes
    BY <1>2 DEF TypeOK, Inflight
  <1> QED BY <1>1, <1>2, <1>3

\* A sequence is the function that lists its elements.
LEMMA SeqAsFunction ==
    ASSUME NEW S, NEW s \in Seq(S)
    PROVE  s = [i \in 1..Len(s) |-> s[i]]
  BY LenProperties

\* The window is a sequence of indexes as long as count says.
LEMMA WindowType ==
    ASSUME TypeOK, RingShape
    PROVE  /\ Window \in Seq(Indexes)
           /\ Len(Window) = count
           /\ \A i \in 1..count : Window[i] = Inflight(i - 1)
  <1>1. \A i \in 1..count : i - 1 \in 0..(count - 1) /\ Inflight(i - 1) \in Indexes
    BY Readable DEF TypeOK
  <1>2. Window \in [1..count -> Indexes]
    BY <1>1 DEF Window
  <1>3. count \in Nat
    BY DEF TypeOK
  <1> QED BY <1>2, <1>3 DEF Window

\* A ring that was just created (Inflights::new) satisfies the invariant.
LEMMA InitInv == Init => IInv
  BY ConstantsAssumption DEF Init, IInv, TypeOK, RingShape, Ordered

\* add writes past the window only: what was in flight is read unchanged.
LEMMA AddEffect ==
    ASSUME IInv, NEW x \in Indexes, Add(x)
    PROVE  /\ IInv'
           /\ Window' = Append(Window, x)
           /\ Len(Window) < Limit
           /\ Window # <<>> => Window[Len(Window)] < x
           /\ Limit' = Limit
  <1> USE ConstantsAssumption
  <1>1. count < cap /\ (incoming_cap # None => count < incoming_cap)
    BY DEF IInv, TypeOK, RingShape, Add, Full
  <1>2. /\ NextSlot \in Nat
        /\ NextSlot <= Len(buffer)
        /\ NextSlot < cap
    BY <1>1 DEF IInv, TypeOK, RingShape, NextSlot, Wrap
  <1>3. /\ buffer' \in Seq(Indexes)
        /\ Len(buffer') = IF NextSlot = Len(buffer) THEN Len(buffer) + 1 ELSE Len(buffer)
        /\ buffer'[NextSlot + 1] = x
        /\ \A p \in 1..Len(buffer) : p # NextSlot + 1 => buffer'[p] = buffer[p]
    BY <1>2 DEF IInv, TypeOK, Add
  <1>4. TypeOK'
    BY <1>1, <1>2, <1>3 DEF IInv, TypeOK, Add
  <1>5. RingShape'
    BY <1>1, <1>2, <1>3 DEF IInv, TypeOK, RingShape, Add, NextSlot, Wrap
  <1>6. \A i \in 0..(count - 1) : Inflight(i)' = Inflight(i)
    <2> TAKE i \in 0..(count - 1)
    <2>1. /\ Wrap(start + i) + 1 \in 1..Len(buffer)
          /\ Wrap(start + i) # NextSlot
      BY <1>1, Readable DEF IInv, TypeOK, RingShape, NextSlot, Wrap
    <2>2. Wrap(start + i) \in Nat /\ buffer'[Wrap(start + i) + 1] = buffer[Wrap(start + i) + 1]
      BY <1>2, <1>3, <2>1, Readable DEF IInv
    <2> QED BY <2>2 DEF Inflight, Wrap, Add
  <1>7. \A k : k = count => Inflight(k)' = x
    BY <1>3 DEF Inflight, NextSlot, Wrap, Add
  <1>8. Ordered'
    <2> SUFFICES ASSUME NEW i \in 0..count, NEW j \in 0..count, i < j
                 PROVE  Inflight(i)' < Inflight(j)'
      BY DEF Ordered, Add, IInv, TypeOK
    <2>1. CASE j < count
      BY <1>6, <2>1 DEF IInv, Ordered, TypeOK
    <2>2. CASE j = count
      <3>1. count > 0 /\ i \in 0..(count - 1) /\ count - 1 \in 0..(count - 1)
        BY <2>2 DEF IInv, TypeOK
      <3>2. Inflight(count - 1) < x
        BY <3>1 DEF Add
      <3>3. Inflight(i) <= Inflight(count - 1)
        <4>1. i = count - 1 \/ i < count - 1
          BY <3>1 DEF IInv, TypeOK
        <4> QED BY <3>1, <4>1, Readable DEF IInv, Ordered
      <3>4. Inflight(i) \in Nat /\ Inflight(count - 1) \in Nat /\ x \in Nat
        BY <3>1, Readable DEF IInv
      <3> QED BY <1>6, <1>7, <2>2, <3>1, <3>2, <3>3, <3>4
    <2> QED BY <2>1, <2>2 DEF IInv, TypeOK
  <1>9. Window' = Append(Window, x)
    <2>1. /\ Window \in Seq(Indexes)
          /\ Len(Window) = count
          /\ \A i \in 1..count : Window[i] = Inflight(i - 1)
      BY WindowType DEF IInv
    <2>2. count \in Nat /\ count' = count + 1
      BY DEF Add, IInv, TypeOK
    <2>3. Window' = [i \in 1..(count + 1) |-> Inflight(i - 1)']
      BY <2>2 DEF Window
    <2>4. \A i \in 1..(count + 1) : Inflight(i - 1)' = Append(Window, x)[i]
      <3> TAKE i \in 1..(count + 1)
      <3>1. CASE i = count + 1
        BY <1>7, <2>1, <2>2, <3>1
      <3>2. CASE i # count + 1
        <4>1. i \in 1..count /\ i - 1 \in 0..(count - 1)
          BY <2>2, <3>2
        <4> QED BY <1>6, <2>1, <2>2, <4>1
      <3> QED BY <3>1, <3>2
    <2>5. /\ Append(Window, x) \in Seq(Indexes)
          /\ Len(Append(Window, x)) = count + 1
      BY <2>1, <2>2
    <2>6. Append(Window, x) = [i \in 1..(count + 1) |-> Append(Window, x)[i]]
      BY <2>5, SeqAsFunction, Zenon
    <2> QED BY <2>3, <2>4, <2>6, Zenon
  <1>10. Len(Window) < Limit
    BY <1>1, WindowType DEF IInv, Limit
  <1>11. Window # <<>> => Window[Len(Window)] < x
    <2> HAVE Window # <<>>
    <2>1. count > 0 /\ count \in 1..count
      BY WindowType DEF IInv, TypeOK
    <2> QED BY <2>1, WindowType DEF Add, IInv
  <1>12. Limit' = Limit
    BY DEF Limit, Add
  <1> QED BY <1>4, <1>5, <1>8, <1>9, <1>10, <1>11, <1>12 DEF IInv

\* An empty ring is an empty window, however it came about.
LEMMA EmptyRing ==
    ASSUME count' = 0
    PROVE  Window' = <<>> /\ Ordered'
  <1>1. Window' = [i \in 1..0 |-> Inflight(i - 1)']
    BY DEF Window
  <1> QED BY <1>1 DEF Ordered

\* Where the ring moved past n indexes, the window lost its first n.
LEMMA Shifted ==
    ASSUME IInv, NEW n \in 0..count, count' = count - n,
           \A i \in 0..(count - n - 1) : Inflight(i)' = Inflight(i + n)
    PROVE  Ordered' /\ Window' = SubSeq(Window, n + 1, Len(Window))
  <1> count \in Nat /\ n \in Nat /\ count - n \in Nat
    BY DEF IInv, TypeOK
  <1>1. Ordered'
    <2> SUFFICES ASSUME NEW i \in 0..(count - n - 1), NEW j \in 0..(count - n - 1), i < j
                 PROVE  Inflight(i)' < Inflight(j)'
      BY DEF Ordered
    <2>1. i + n \in 0..(count - 1) /\ j + n \in 0..(count - 1) /\ i + n < j + n
      OBVIOUS
    <2>2. Inflight(i + n) < Inflight(j + n)
      BY <2>1 DEF IInv, Ordered
    <2> QED BY <2>2
  <1>2. Window' = SubSeq(Window, n + 1, Len(Window))
    <2>1. /\ Window \in Seq(Indexes)
          /\ Len(Window) = count
          /\ \A i \in 1..count : Window[i] = Inflight(i - 1)
      BY WindowType DEF IInv
    <2>2. Window' = [i \in 1..(count - n) |-> Inflight(i - 1)']
      BY DEF Window
    <2> DEFINE rest == SubSeq(Window, n + 1, Len(Window))
    <2>3. /\ rest \in Seq(Indexes)
          /\ Len(rest) = count - n
          /\ \A i \in 1..(count - n) : rest[i] = Window[n + i]
      <3>1. /\ rest \in Seq(Indexes)
            /\ Len(rest) = IF n + 1 <= Len(Window) THEN Len(Window) - (n + 1) + 1 ELSE 0
            /\ \A i \in 1 .. Len(Window) - (n + 1) + 1 : rest[i] = Window[n + 1 + i - 1]
        <4>1. /\ n + 1 \in 1..(Len(Window) + 1)
              /\ Len(Window) \in (n + 1 - 1)..Len(Window)
          BY <2>1
        <4> QED BY <2>1, <4>1, SubSeqProperties
      <3> QED BY <2>1, <3>1
    <2>4. \A i \in 1..(count - n) : Inflight(i - 1)' = rest[i]
      <3> TAKE i \in 1..(count - n)
      <3>1. i - 1 \in 0..(count - n - 1) /\ n + i \in 1..count /\ i - 1 + n = n + i - 1
        OBVIOUS
      <3>2. Inflight(i - 1)' = Inflight(i - 1 + n)
        BY <3>1
      <3>3. rest[i] = Inflight(n + i - 1)
        BY <2>1, <2>3, <3>1
      <3> QED BY <3>1, <3>2, <3>3
    <2>5. rest = [i \in 1..(count - n) |-> rest[i]]
      <3> HIDE DEF rest
      <3>1. rest = [i \in 1..Len(rest) |-> rest[i]]
        BY <2>3, SeqAsFunction, Zenon
      <3> QED BY <2>3, <3>1
    <2> HIDE DEF rest
    <2>6. Window' = rest
      BY <2>2, <2>4, <2>5, Zenon
    <2> QED BY <2>6 DEF rest
  <1> QED BY <1>1, <1>2

\* Wrap with the ring's size as an argument.
WrapAt(p, c) == IF p >= c THEN p - c ELSE p

\* free_to drops the acknowledged prefix of the window and nothing else, also
\* when it is the moment a waiting size is taken.
LEMMA FreeToEffect ==
    ASSUME IInv, NEW to \in Nat, FreeTo(to)
    PROVE  /\ IInv'
           /\ Limit' = Limit
           /\ W!WFreeTo(to)
  <1> USE ConstantsAssumption
  <1>1. PICK n \in 0..count :
        /\ StopsAfter(n, to)
        /\ count' = count - n
        /\ \/ n = 0 /\ UNCHANGED <<start, buffer, cap, incoming_cap>>
           \/ n > 0 /\ count = n /\ incoming_cap # None /\ TakeIncomingCap
           \/ /\ n > 0
              /\ count > n \/ incoming_cap = None
              /\ start' = Wrap(start + n)
              /\ UNCHANGED <<buffer, cap, incoming_cap>>
    BY DEF FreeTo
  <1>2. /\ TypeOK' /\ RingShape' /\ Limit' = Limit
        /\ \A i \in 0..(count - n - 1) : Inflight(i)' = Inflight(i + n)
    <2>1. CASE n = 0 /\ UNCHANGED <<start, buffer, cap, incoming_cap>>
      BY <1>1, <2>1 DEF IInv, TypeOK, RingShape, Limit, Inflight, Wrap
    <2>2. CASE n > 0 /\ count = n /\ incoming_cap # None /\ TakeIncomingCap
      BY <1>1, <2>2 DEF IInv, TypeOK, RingShape, Limit, TakeIncomingCap
    <2>3. CASE /\ n > 0
               /\ count > n \/ incoming_cap = None
               /\ start' = Wrap(start + n)
               /\ UNCHANGED <<buffer, cap, incoming_cap>>
      <3>1. start' \in Nat /\ start' = IF start + n >= cap THEN start + n - cap ELSE start + n
        BY <2>3 DEF IInv, TypeOK, RingShape, Wrap
      <3>2. TypeOK'
        BY <1>1, <2>3, <3>1 DEF IInv, TypeOK
      <3>3. RingShape'
        BY <1>1, <2>3, <3>1 DEF IInv, TypeOK, RingShape
      <3>4. Limit' = Limit
        BY <2>3 DEF Limit
      <3>5. ASSUME NEW i \in 0..(count - n - 1)
            PROVE  Inflight(i)' = Inflight(i + n)
        <4>1. cap' = cap /\ buffer' = buffer /\ start' = WrapAt(start + n, cap)
          BY <2>3 DEF Wrap, WrapAt
        <4>2. /\ cap \in Nat /\ start \in Nat /\ n \in Nat /\ i \in Nat
              /\ i + n < cap /\ (start < cap \/ start = 0)
          BY DEF IInv, TypeOK, RingShape
        <4>3. WrapAt(WrapAt(start + n, cap) + i, cap) = WrapAt(start + (i + n), cap)
          <5>1. CASE start + n >= cap
            BY <4>2, <5>1 DEF WrapAt
          <5>2. CASE ~(start + n >= cap)
            BY <4>2, <5>2 DEF WrapAt
          <5> QED BY <5>1, <5>2
        <4>4. Inflight(i)' = buffer'[WrapAt(start' + i, cap') + 1]
          BY Zenon DEF Inflight, Wrap, WrapAt
        <4>5. Inflight(i + n) = buffer[WrapAt(start + (i + n), cap) + 1]
          BY Zenon DEF Inflight, Wrap, WrapAt
        <4> QED BY <4>1, <4>3, <4>4, <4>5, Zenon
      <3> QED BY <3>2, <3>3, <3>4, <3>5
    <2> QED BY <1>1, <2>1, <2>2, <2>3
  <1>3. Ordered' /\ Window' = SubSeq(Window, n + 1, Len(Window))
    BY <1>1, <1>2, Shifted
  <1>4. n \in 0..Len(Window) /\ W!IsPrefixUpTo(n, to)
    <2>1. /\ Len(Window) = count
          /\ \A i \in 1..count : Window[i] = Inflight(i - 1)
      BY WindowType DEF IInv
    <2>2. count \in Nat /\ n \in Nat
      BY DEF IInv, TypeOK
    <2>3. \A i \in 1..n : Window[i] <= to
      <3> TAKE i \in 1..n
      <3>1. i \in 1..count /\ i - 1 \in 0..(n - 1)
        BY <2>2
      <3> QED BY <1>1, <2>1, <3>1 DEF StopsAfter
    <2>4. ASSUME n < count PROVE to < Window[n + 1]
      <3>1. n + 1 \in 1..count /\ n + 1 - 1 = n
        BY <2>2, <2>4
      <3> QED BY <1>1, <2>1, <2>4, <3>1 DEF StopsAfter
    <2> QED BY <2>1, <2>2, <2>3, <2>4 DEF W!IsPrefixUpTo
  <1>5. W!WFreeTo(to)
    BY <1>2, <1>3, <1>4 DEF W!WFreeTo
  <1> QED BY <1>2, <1>3, <1>5 DEF IInv

\* reset empties the window and takes the size that was waiting.
LEMMA ResetEffect ==
    ASSUME IInv, Reset
    PROVE  IInv' /\ W!WReset
  <1>1. count' = 0
    BY DEF Reset
  <1>2. TypeOK' /\ RingShape' /\ Limit' = Limit
    BY ConstantsAssumption DEF IInv, TypeOK, RingShape, Reset, Limit
  <1> QED BY <1>1, <1>2, EmptyRing DEF IInv, W!WReset

\* maybe_free_buffer gives up storage, not the window.
LEMMA MaybeFreeBufferEffect ==
    ASSUME IInv, MaybeFreeBuffer
    PROVE  IInv' /\ UNCHANGED <<Window, Limit>>
  <1>1. count' = 0 /\ count = 0
    BY DEF MaybeFreeBuffer
  <1>2. TypeOK' /\ RingShape' /\ Limit' = Limit
    BY ConstantsAssumption DEF IInv, TypeOK, RingShape, MaybeFreeBuffer, Limit
  <1>3. Window = <<>>
    BY <1>1, WindowType DEF IInv
  <1> QED BY <1>1, <1>2, <1>3, EmptyRing DEF IInv

\* A ring whose slots are read unchanged stores the same window.
LEMMA SameWindow ==
    ASSUME IInv, count' = count,
           \A i \in 0..(count - 1) : Inflight(i)' = Inflight(i)
    PROVE  Ordered' /\ Window' = Window
  <1>1. Ordered'
    BY DEF IInv, Ordered
  <1>2. \A i \in 1..count : i - 1 \in 0..(count - 1)
    BY DEF IInv, TypeOK
  <1> QED BY <1>1, <1>2 DEF Window

\* set_cap changes the limit and not the window, in each of its arms.
LEMMA SetCapEffect ==
    ASSUME IInv, NEW c \in Caps, SetCap(c)
    PROVE  IInv' /\ W!WSetCap(c)
  <1> USE ConstantsAssumption
  <1>0. count' = count
    BY DEF SetCap, SetSameCap, GrowCap, ShrinkCap
  <1>1. /\ TypeOK' /\ RingShape' /\ Limit' = c
        /\ \A i \in 0..(count - 1) : Inflight(i)' = Inflight(i)
    <2>1. CASE SetSameCap(c)
      BY <2>1 DEF SetSameCap, IInv, TypeOK, RingShape, Limit, Inflight, Wrap
    <2>2. CASE GrowCap(c) /\ start + count <= cap
      <3>1. TypeOK' /\ RingShape' /\ Limit' = c
        BY <2>2 DEF GrowCap, IInv, TypeOK, RingShape, Limit
      <3>2. ASSUME NEW i \in 0..(count - 1) PROVE Inflight(i)' = Inflight(i)
        <4>1. start' = start /\ buffer' = buffer /\ cap' = c /\ start + i < cap /\ start + i < c
          BY <2>2 DEF GrowCap, IInv, TypeOK
        <4> QED BY <4>1 DEF Inflight, Wrap, IInv, TypeOK
      <3> QED BY <3>1, <3>2
    <2>3. CASE GrowCap(c) /\ start + count > cap
      <3>0. /\ start' = 0 /\ cap' = c /\ incoming_cap' = None /\ buffer' = Unrotated
            /\ c \in Nat /\ c > cap
        BY <2>3 DEF GrowCap, IInv, TypeOK
      <3>1. /\ start \in Nat /\ count \in Nat /\ cap \in Nat
            /\ start + count > cap /\ start < cap /\ count <= cap
            /\ Len(buffer) = cap /\ buffer \in Seq(Indexes)
        BY <2>3 DEF IInv, TypeOK, RingShape
      <3> DEFINE a == SubSeq(buffer, start + 1, Len(buffer))
                 b == SubSeq(buffer, 1, count - (cap - start))
      <3>2. /\ a \in Seq(Indexes) /\ Len(a) = cap - start
            /\ \A k \in 1..(cap - start) : a[k] = buffer[start + k]
        <4>1. /\ start + 1 \in 1..(Len(buffer) + 1)
              /\ Len(buffer) \in (start + 1 - 1)..Len(buffer)
          BY <3>1
        <4> QED BY <3>1, <4>1, SubSeqProperties
      <3>3. /\ b \in Seq(Indexes) /\ Len(b) = count - (cap - start)
            /\ \A k \in 1..(count - (cap - start)) : b[k] = buffer[k]
        <4>1. /\ 1 \in 1..(Len(buffer) + 1)
              /\ count - (cap - start) \in (1 - 1)..Len(buffer)
          BY <3>1
        <4> QED BY <3>1, <4>1, SubSeqProperties
      <3> HIDE DEF a, b
      <3> DEFINE cat == a \o b
      <3>4. /\ cat \in Seq(Indexes) /\ Len(cat) = count
            /\ \A k \in 1..count : cat[k] = IF k <= cap - start THEN a[k] ELSE b[k - (cap - start)]
        <4>1. Len(a) + Len(b) = count
          BY <3>1, <3>2, <3>3
        <4>2. /\ a \o b \in Seq(Indexes)
              /\ Len(a \o b) = Len(a) + Len(b)
              /\ \A k \in 1..(Len(a) + Len(b)) :
                    (a \o b)[k] = IF k <= Len(a) THEN a[k] ELSE b[k - Len(a)]
          BY <3>2, <3>3, ConcatProperties, Zenon
        <4> QED BY <3>2, <4>1, <4>2
      <3>5. buffer' = cat
        BY <3>0 DEF Unrotated, a, b
      <3> HIDE DEF cat
      <3>6. TypeOK' /\ RingShape' /\ Limit' = c
        BY <1>0, <3>0, <3>1, <3>4, <3>5 DEF IInv, TypeOK, RingShape, Limit
      <3>7. ASSUME NEW i \in 0..(count - 1) PROVE Inflight(i)' = Inflight(i)
        <4>1. Inflight(i)' = cat[i + 1]
          <5>1. i \in Nat /\ 0 + i = i /\ ~(i >= c)
            BY <3>0, <3>1
          <5>2. Wrap(start + i)' = i
            BY <3>0, <5>1 DEF Wrap
          <5> QED BY <3>5, <5>2 DEF Inflight
        <4>2. CASE start + i < cap
          <5>1. i + 1 \in 1..(cap - start) /\ i + 1 \in 1..count /\ start + (i + 1) = start + i + 1
            BY <3>1, <4>2
          <5>2. Inflight(i) = buffer[start + i + 1]
            BY <3>1, <4>2 DEF Inflight, Wrap
          <5>3. cat[i + 1] = a[i + 1]
            BY <3>1, <3>4, <5>1
          <5> QED BY <3>2, <4>1, <5>1, <5>2, <5>3
        <4>3. CASE start + i >= cap
          <5>1. /\ i + 1 \in 1..count /\ ~(i + 1 <= cap - start)
                /\ i + 1 - (cap - start) \in 1..(count - (cap - start))
                /\ i + 1 - (cap - start) = start + i - cap + 1
            BY <3>1, <4>3
          <5>2. Inflight(i) = buffer[start + i - cap + 1]
            BY <3>1, <4>3 DEF Inflight, Wrap
          <5>3. cat[i + 1] = b[i + 1 - (cap - start)]
            BY <3>1, <3>4, <5>1
          <5> QED BY <3>3, <4>1, <5>1, <5>2, <5>3
        <4> QED BY <3>1, <4>2, <4>3
      <3> QED BY <3>6, <3>7
    <2>4. CASE ShrinkCap(c)
      <3>1. TypeOK' /\ RingShape' /\ Limit' = c
        <4>1. c \in Nat /\ c # None /\ c < cap
          BY <2>4 DEF ShrinkCap
        <4>2. CASE count = 0
          BY <2>4, <4>1, <4>2 DEF ShrinkCap, IInv, TypeOK, RingShape, Limit
        <4>3. CASE count > 0
          BY <2>4, <4>1, <4>3 DEF ShrinkCap, IInv, TypeOK, RingShape, Limit
        <4> QED BY <4>2, <4>3 DEF IInv, TypeOK
      <3>2. ASSUME NEW i \in 0..(count - 1) PROVE Inflight(i)' = Inflight(i)
        BY <2>4 DEF ShrinkCap, IInv, TypeOK, Inflight, Wrap
      <3> QED BY <3>1, <3>2
    <2> QED BY <2>1, <2>2, <2>3, <2>4 DEF SetCap, GrowCap, IInv, TypeOK
  <1>2. Ordered' /\ Window' = Window
    BY <1>0, <1>1, SameWindow
  <1> QED BY <1>1, <1>2 DEF IInv, W!WSetCap
-----------------------------------------------------------------------------
\* Every step keeps the inductive invariant and is a step of the window.
LEMMA StepEffect ==
    ASSUME IInv, [Next]_vars
    PROVE  IInv' /\ [W!WNext]_W!wvars
  <1> USE ConstantsAssumption
  <1>1. ASSUME NEW x \in Indexes, Add(x)
        PROVE  IInv' /\ [W!WNext]_W!wvars
    BY <1>1, AddEffect DEF W!WAdd, W!WNext
  <1>2. ASSUME NEW x \in Indexes, FreeTo(x)
        PROVE  IInv' /\ [W!WNext]_W!wvars
    BY <1>2, FreeToEffect DEF W!WNext
  <1>3. ASSUME FreeFirstOne
        PROVE  IInv' /\ [W!WNext]_W!wvars
    <2>1. 0 \in 0..(count - 1)
      BY <1>3 DEF FreeFirstOne, IInv, TypeOK
    <2>2. Inflight(0) \in Indexes
      BY <2>1, Readable DEF IInv
    <2> QED BY <1>3, <2>2, FreeToEffect DEF FreeFirstOne, W!WNext
  <1>4. ASSUME Reset
        PROVE  IInv' /\ [W!WNext]_W!wvars
    BY <1>4, ResetEffect DEF W!WNext
  <1>5. ASSUME MaybeFreeBuffer
        PROVE  IInv' /\ [W!WNext]_W!wvars
    BY <1>5, MaybeFreeBufferEffect DEF W!wvars
  <1>6. ASSUME NEW c \in Caps, SetCap(c)
        PROVE  IInv' /\ [W!WNext]_W!wvars
    BY <1>6, SetCapEffect DEF W!WNext
  <1>7. ASSUME UNCHANGED vars
        PROVE  IInv' /\ [W!WNext]_W!wvars
    <2>1. IInv'
      BY <1>7 DEF vars, IInv, TypeOK, RingShape, Ordered, Inflight, Wrap
    <2>2. UNCHANGED W!wvars
      BY <1>7 DEF vars, W!wvars, Window, Limit, Inflight, Wrap
    <2> QED BY <2>1, <2>2
  <1> QED BY <1>1, <1>2, <1>3, <1>4, <1>5, <1>6, <1>7 DEF Next

\* Every reachable ring is well typed, well shaped and ordered.
THEOREM RingInvariant == Spec => [](TypeOK /\ RingShape /\ Ordered)
  <1>1. Init => IInv
    BY InitInv
  <1>2. IInv /\ [Next]_vars => IInv'
    BY StepEffect
  <1> QED BY <1>1, <1>2, PTL DEF Spec, IInv

\* No call of Inflights::add that its caller may make reaches one of its
\* assertions.
THEOREM AddIsSafe == Spec => []AddNeverPanics
  <1>1. IInv => AddNeverPanics
    <2> SUFFICES ASSUME IInv, ~Full
                 PROVE  /\ NextSlot <= Len(buffer)
                        /\ buffer = <<>> => count = 0 /\ start = 0 /\ incoming_cap = None
      BY DEF AddNeverPanics
    <2>1. NextSlot <= Len(buffer)
      BY ConstantsAssumption DEF IInv, TypeOK, RingShape, Full, NextSlot, Wrap
    <2>2. ASSUME buffer = <<>>
          PROVE  count = 0 /\ start = 0 /\ incoming_cap = None
      BY <2>2, ConstantsAssumption DEF IInv, TypeOK, RingShape
    <2> QED BY <2>1, <2>2
  <1> QED BY <1>1, RingInvariant, PTL DEF IInv

\* full() is true exactly when the limit last set is reached.
THEOREM FullIsExact == Spec => []FullMeansLimit
  <1>1. IInv => FullMeansLimit
    BY WindowType, ConstantsAssumption DEF IInv, TypeOK, RingShape, Full, FullMeansLimit, Limit
  <1> QED BY <1>1, RingInvariant, PTL DEF IInv

\* The ring buffer implements the sliding window.
THEOREM RingImplementsWindow == Spec => WindowSpec
  <1>1. Init => W!WInit
    <2> SUFFICES ASSUME Init PROVE Window = <<>> /\ Limit \in Caps
      BY DEF W!WInit
    <2>1. Window = <<>>
      BY InitInv, WindowType DEF IInv, Init
    <2> QED BY <2>1 DEF Init, Limit
  <1>2. IInv /\ [Next]_vars => [W!WNext]_W!wvars
    BY StepEffect
  <1> QED BY <1>1, <1>2, RingInvariant, PTL DEF Spec, WindowSpec, W!WSpec, IInv

-----------------------------------------------------------------------------
(***************************************************************************)
(* What elections and commits rest on, for every finite set of nodes and   *)
(* every majority or joint configuration: any two quorums share a node, an *)
(* election is decided exactly when it can no longer change and then stays *)
(* decided, and the commit index is the largest one a quorum allows.       *)
(***************************************************************************)
\* The configuration is one of those the tracker may have, and stays it.
LEMMA ConfIsFixed == TrackerSpec => [](conf \in Confs)
  <1>1. TrackerInit => conf \in Confs
    BY DEF TrackerInit
  <1>2. conf \in Confs /\ [TrackerNext]_trackerVars => (conf \in Confs)'
    BY DEF TrackerNext, Ack, AssignGroup, Vote, trackerVars
  <1> QED BY <1>1, <1>2, PTL DEF TrackerSpec

\* Any two sets of nodes that decide by quorum share a node, in every majority
\* and joint configuration of finitely many nodes.
THEOREM QuorumsAlwaysIntersect == TrackerSpec => []QuorumsIntersect
  <1>1. ASSUME conf \in Confs PROVE QuorumsIntersect
    <2>1. SUFFICES ASSUME NEW S \in SUBSET Node, NEW T \in SUBSET Node,
                          HasQuorum(conf, S), HasQuorum(conf, T)
                   PROVE  S \cap T # {}
      BY DEF QuorumsIntersect
    <2>2. IsFiniteSet(conf.incoming)
      BY <1>1, NodeAssumption, FS_Subset DEF Confs
    <2>3. /\ Cardinality(conf.incoming \cap S) >= Majority(Cardinality(conf.incoming))
          /\ Cardinality(conf.incoming \cap T) >= Majority(Cardinality(conf.incoming))
      BY <1>1, <2>1, QuorumHoldsMajority DEF Confs
    <2>4. (conf.incoming \cap S) \cap (conf.incoming \cap T) # {}
      BY <2>2, <2>3, MajoritiesOverlap
    <2> QED BY <2>4
  <1> QED BY <1>1, ConfIsFixed, PTL

-----------------------------------------------------------------------------
\* w has the answers of v, and perhaps more (ProgressTracker::record_vote
\* never changes an answer).
Extends(w, v) == DOMAIN v \subseteq DOMAIN w /\ \A x \in DOMAIN v : w[x] = v[x]

\* More answers mean at least as many yes votes, and no more votes that are or
\* may become yes.
LEMMA CountsMoveOneWay ==
    ASSUME NEW V, IsFiniteSet(V), NEW v, NEW w, Extends(w, v)
    PROVE  /\ Cardinality(Answered(V, v, TRUE)) <= Cardinality(Answered(V, w, TRUE))
           /\ Cardinality(Answered(V, w, TRUE)) + Cardinality(V \ DOMAIN w)
                <= Cardinality(Answered(V, v, TRUE)) + Cardinality(V \ DOMAIN v)
           /\ Cardinality(Answered(V, v, TRUE)) \in Nat
           /\ Cardinality(Answered(V, w, TRUE)) \in Nat
           /\ Cardinality(V \ DOMAIN v) \in Nat
           /\ Cardinality(V \ DOMAIN w) \in Nat
  <1> DEFINE Yv == Answered(V, v, TRUE)
             Yw == Answered(V, w, TRUE)
             Mv == V \ DOMAIN v
             Mw == V \ DOMAIN w
  <1>1. Yv \subseteq Yw /\ Yw \cup Mw \subseteq Yv \cup Mv
    BY DEF Answered, Extends
  <1>2. Yv \cap Mv = {} /\ Yw \cap Mw = {}
    BY DEF Answered
  <1>3. Yv \subseteq V /\ Yw \subseteq V /\ Mv \subseteq V /\ Mw \subseteq V
    BY DEF Answered
  <1> HIDE DEF Yv, Yw, Mv, Mw
  <1>4. IsFiniteSet(Yv) /\ IsFiniteSet(Yw) /\ IsFiniteSet(Mv) /\ IsFiniteSet(Mw)
    BY <1>3, FS_Subset
  <1>5. IsFiniteSet(Yv \cup Mv)
    BY <1>4, FS_Union
  <1>6. Cardinality(Yv) <= Cardinality(Yw)
    BY <1>1, <1>4, FS_Subset
  <1>7. Cardinality(Yw \cup Mw) <= Cardinality(Yv \cup Mv)
    BY <1>1, <1>5, FS_Subset
  <1>8. /\ Cardinality(Yv \cup Mv) = Cardinality(Yv) + Cardinality(Mv) - Cardinality(Yv \cap Mv)
        /\ Cardinality(Yw \cup Mw) = Cardinality(Yw) + Cardinality(Mw) - Cardinality(Yw \cap Mw)
    BY <1>4, FS_Union
  <1>9. Cardinality(Yv \cap Mv) = 0 /\ Cardinality(Yw \cap Mw) = 0
    BY <1>2, FS_EmptySet
  <1>10. /\ Cardinality(Yv) \in Nat /\ Cardinality(Yw) \in Nat
         /\ Cardinality(Mv) \in Nat /\ Cardinality(Mw) \in Nat
    BY <1>4, FS_CardinalityType
  <1>11. Cardinality(Yw) + Cardinality(Mw) <= Cardinality(Yv) + Cardinality(Mv)
    BY <1>7, <1>8, <1>9, <1>10
  <1> QED BY <1>6, <1>10, <1>11 DEF Yv, Yw, Mv, Mw

\* A decided half of a configuration stays decided.
LEMMA HalfStays ==
    ASSUME NEW V, IsFiniteSet(V), NEW v, NEW w, Extends(w, v)
    PROVE  /\ MajorityVote(V, v) = "Won" => MajorityVote(V, w) = "Won"
           /\ MajorityVote(V, v) = "Lost" => MajorityVote(V, w) = "Lost"
  <1> DEFINE yv == Cardinality(Answered(V, v, TRUE))
             yw == Cardinality(Answered(V, w, TRUE))
             mv == Cardinality(V \ DOMAIN v)
             mw == Cardinality(V \ DOMAIN w)
             q == Majority(Cardinality(V))
  <1>1. q \in Nat
    BY FS_CardinalityType DEF Majority
  <1>2. /\ yv \in Nat /\ yw \in Nat /\ mv \in Nat /\ mw \in Nat
        /\ yv <= yw /\ yw + mw <= yv + mv
    BY CountsMoveOneWay
  <1>3. /\ MajorityVote(V, v) = IF V = {} \/ yv >= q THEN "Won"
                                ELSE IF yv + mv >= q THEN "Pending" ELSE "Lost"
        /\ MajorityVote(V, w) = IF V = {} \/ yw >= q THEN "Won"
                                ELSE IF yw + mw >= q THEN "Pending" ELSE "Lost"
    BY DEF MajorityVote
  <1> HIDE DEF yv, yw, mv, mw, q
  <1> QED BY <1>1, <1>2, <1>3

\* The result of a joint configuration follows from its halves.
LEMMA ResultStays ==
    ASSUME NEW cf \in Confs, NEW v, NEW w, Extends(w, v), VoteResult(cf, v) # "Pending"
    PROVE  VoteResult(cf, w) = VoteResult(cf, v)
  <1>1. IsFiniteSet(cf.incoming) /\ IsFiniteSet(cf.outgoing)
    BY NodeAssumption, FS_Subset DEF Confs
  <1>2. /\ MajorityVote(cf.incoming, v) = "Won" => MajorityVote(cf.incoming, w) = "Won"
        /\ MajorityVote(cf.incoming, v) = "Lost" => MajorityVote(cf.incoming, w) = "Lost"
    BY <1>1, HalfStays
  <1>3. /\ MajorityVote(cf.outgoing, v) = "Won" => MajorityVote(cf.outgoing, w) = "Won"
        /\ MajorityVote(cf.outgoing, v) = "Lost" => MajorityVote(cf.outgoing, w) = "Lost"
    BY <1>1, HalfStays
  <1> QED BY <1>2, <1>3 DEF VoteResult

\* record_vote only adds answers.
LEMMA RecordExtends ==
    ASSUME NEW v, NEW x, NEW b
    PROVE  Extends(RecordVote(v, x, b), v)
  BY DEF Extends, RecordVote

\* An election that is won or lost stays so, whatever answers, duplicates and
\* contradictions are recorded later.
THEOREM DecisionsAlwaysStand == TrackerSpec => DecisionsStand
  <1>1. ASSUME conf \in Confs, [TrackerNext]_trackerVars, VoteResult(conf, votes) # "Pending"
        PROVE  VoteResult(conf, votes') = VoteResult(conf, votes)
    <2>1. CASE votes' = votes
      BY <2>1
    <2>2. CASE \E n \in Node : \E b \in BOOLEAN : Vote(n, b)
      <3>1. PICK n \in Node, b \in BOOLEAN : votes' = RecordVote(votes, n, b)
        BY <2>2 DEF Vote
      <3>2. Extends(votes', votes)
        BY <3>1, RecordExtends
      <3> QED BY <1>1, <3>2, ResultStays
    <2> QED BY <1>1, <2>1, <2>2 DEF TrackerNext, Ack, AssignGroup, trackerVars
  <1>2. conf \in Confs /\ [TrackerNext]_trackerVars
            => [VoteResult(conf, votes) # "Pending" => VoteResult(conf, votes') = VoteResult(conf, votes)]_trackerVars
    BY <1>1
  <1> QED BY <1>2, ConfIsFixed, PTL DEF TrackerSpec, DecisionsStand

-----------------------------------------------------------------------------
\* What the tracker holds: a configuration, indexes within the bound, and answers
\* of known nodes.
TrackerInv ==
    /\ conf \in Confs
    /\ acked \in [Node -> 0..MaxAcked]
    /\ DOMAIN votes \subseteq Node

\* Acknowledgements and answers keep it.
LEMMA TrackerType == TrackerSpec => []TrackerInv
  <1>1. TrackerInit => TrackerInv
    BY AckedAssumption DEF TrackerInit, TrackerInv
  <1>2. TrackerInv /\ [TrackerNext]_trackerVars => TrackerInv'
    <2>1. SUFFICES ASSUME TrackerInv, [TrackerNext]_trackerVars PROVE TrackerInv'
      OBVIOUS
    <2>2. ASSUME NEW n \in Node, Ack(n) PROVE TrackerInv'
      <3>1. PICK i \in (acked[n] + 1)..MaxAcked : acked' = [acked EXCEPT ![n] = i]
        BY <2>2 DEF Ack
      <3>2. i \in 0..MaxAcked
        BY <2>1, AckedAssumption DEF TrackerInv
      <3> QED BY <2>1, <2>2, <3>1, <3>2 DEF Ack, TrackerInv
    <2>3. ASSUME NEW n \in Node, NEW b \in BOOLEAN, Vote(n, b) PROVE TrackerInv'
      BY <2>1, <2>3 DEF Vote, RecordVote, TrackerInv
    <2> QED BY <2>1, <2>2, <2>3 DEF TrackerNext, AssignGroup, trackerVars, TrackerInv
  <1> QED BY <1>1, <1>2, PTL DEF TrackerSpec

\* A half of the configuration is finite and its acknowledged indexes can be sorted.
LEMMA HalfType ==
    ASSUME TrackerInv, NEW V \in {conf.incoming, conf.outgoing}
    PROVE  /\ V \subseteq Node /\ IsFiniteSet(V)
           /\ \A v \in V : acked[v] \in 0..MaxAcked /\ acked[v] \in Nat
           /\ conf.incoming # {}
           /\ DescendingOrders(V, acked) # {}
  <1>1. V \subseteq Node
    BY DEF TrackerInv, Confs
  <1>2. \A v \in Node : acked[v] \in 0..MaxAcked /\ acked[v] \in Nat
    BY DEF TrackerInv
  <1>3. DescendingOrders(V, acked) # {}
    BY <1>1, <1>2, NodeAssumption, OrderExists
  <1> QED BY <1>1, <1>2, <1>3, NodeAssumption, FS_Subset DEF TrackerInv, Confs

\* committed_index without groups: the smaller of the quorum indexes of the halves.
LEMMA CommitsLargest == ASSUME TrackerInv PROVE CommitsLargestReplicated
  <1> DEFINE In == conf.incoming
             Out == conf.outgoing
             order(V) == CHOOSE o \in DescendingOrders(V, acked) : TRUE
             qi(V) == QuorumIndex(V, acked, order(V))
             mc(V) == MajorityCommitted(V, FALSE, acked, group)
  <1>1. ASSUME NEW V \in {In, Out}, V # {}
        PROVE  /\ mc(V) = qi(V) /\ qi(V) \in 0..MaxAcked
               /\ \A i \in Nat : IsMajority({n \in V : acked[n] >= i}, V) <=> qi(V) >= i
    <2>1. /\ V \subseteq Node /\ IsFiniteSet(V) /\ (\A v \in V : acked[v] \in 0..MaxAcked /\ acked[v] \in Nat)
          /\ order(V) \in DescendingOrders(V, acked)
      BY HalfType
    <2>2. mc(V) = qi(V)
      BY <1>1 DEF MajorityCommitted, MajorityCommittedIn
    <2>3. qi(V) \in 0..MaxAcked
      BY <1>1, <2>1, QuorumIndexType
    <2> HIDE DEF order
    <2>4. \A i \in Nat : 2 * Cardinality({n \in V : acked[n] >= i}) > Cardinality(V) <=> qi(V) >= i
      BY <1>1, <2>1, QuorumIndexExact
    <2> QED BY <2>2, <2>3, <2>4 DEF IsMajority
  <1>2. In # {}
    BY HalfType
  <1>3. IndexMax \in Nat /\ MaxAcked \in Nat /\ MaxAcked <= IndexMax
    BY IndexMaxAssumption, AckedAssumption
  <1>4. Out = {} => mc(Out) = IndexMax
    BY DEF MajorityCommitted
  <1>5. CommittedIndex(conf, FALSE, acked, group) = MinOf({mc(In), mc(Out)})
    BY DEF CommittedIndex
  <1> DEFINE x == MinOf({mc(In), mc(Out)})
  <1> HIDE DEF qi, mc
  <1>6. mc(In) \in 0..MaxAcked /\ mc(Out) \in Nat
    BY <1>1, <1>2, <1>3, <1>4
  <1>7. x = IF mc(In) <= mc(Out) THEN mc(In) ELSE mc(Out)
    BY <1>6, MinOfTwo
  <1> HIDE DEF x
  <1>8. x \in 0..MaxAcked
    BY <1>3, <1>6, <1>7
  <1>9. ASSUME NEW i \in Nat PROVE Replicated(i) <=> x >= i
    <2>1. IsMajority({n \in In : acked[n] >= i}, In) <=> mc(In) >= i
      BY <1>1, <1>2
    <2>2. CASE Out = {}
      <3>1. Replicated(i) <=> mc(In) >= i
        BY <1>2, <2>1, <2>2 DEF Replicated, Halves
      <3>2. x = mc(In)
        BY <1>3, <1>4, <1>6, <1>7, <2>2
      <3> QED BY <3>1, <3>2
    <2>3. CASE Out # {}
      <3>1. IsMajority({n \in Out : acked[n] >= i}, Out) <=> mc(Out) >= i
        BY <1>1, <2>3
      <3>2. Replicated(i) <=> mc(In) >= i /\ mc(Out) >= i
        BY <1>2, <2>1, <2>3, <3>1 DEF Replicated, Halves
      <3> QED BY <1>6, <1>7, <3>2
    <2> QED BY <2>2, <2>3
  <1>10. Largest(Replicated) = x
    <2>1. Replicated(x) /\ \A j \in (x + 1)..MaxAcked : ~Replicated(j)
      BY <1>3, <1>8, <1>9
    <2>2. ASSUME NEW i \in 0..MaxAcked, Replicated(i), \A j \in (i + 1)..MaxAcked : ~Replicated(j) PROVE i = x
      BY <1>3, <1>8, <1>9, <2>1, <2>2
    <2> QED BY <1>8, <2>1, <2>2 DEF Largest
  <1> QED BY <1>5, <1>10 DEF CommitsLargestReplicated, x

\* committed_index with groups, half by half, in every order of the sort.
LEMMA GroupCommitExact == ASSUME TrackerInv PROVE GroupCommitIsExact
  <1> DEFINE In == conf.incoming
             Out == conf.outgoing
             gc(V, o) == GroupCommitted(V, acked, group, o)
             largest(V) == Largest(LAMBDA i : GroupReplicated(V, i))
             mc(V) == MajorityCommitted(V, TRUE, acked, group)
  <1>1. ASSUME NEW V \in {In, Out}, V # {}, NEW o \in DescendingOrders(V, acked)
        PROVE  /\ MajorityCommittedIn(V, TRUE, acked, group, o) = largest(V)
               /\ largest(V) \in 0..MaxAcked
    <2>1. V \subseteq Node /\ IsFiniteSet(V) /\ \A v \in V : acked[v] \in 0..MaxAcked /\ acked[v] \in Nat
      BY HalfType
    <2> DEFINE x == gc(V, o)
    <2>2. \A i : InTwoGroups(V, i) <=> TwoGroups(V, acked, group, i)
      BY DEF InTwoGroups, TwoGroups
    <2>3. ASSUME NEW i \in Nat PROVE GroupReplicated(V, i) <=> x >= i
      <3>1. IsMajority({n \in V : acked[n] >= i}, V) <=> QuorumIndex(V, acked, o) >= i
        <4>1. 2 * Cardinality({n \in V : acked[n] >= i}) > Cardinality(V) <=> QuorumIndex(V, acked, o) >= i
          BY <1>1, <2>1, QuorumIndexExact
        <4> QED BY <4>1 DEF IsMajority
      <3>2. x >= i <=> /\ QuorumIndex(V, acked, o) >= i
                       /\ IF TwoGroups(V, acked, group, 0) THEN TwoGroups(V, acked, group, i)
                          ELSE (\A v \in V : group[v] # 0) \/ \A v \in V : acked[v] >= i
        BY <1>1, <2>1, GroupCommittedExact
      <3> HIDE DEF x
      <3> QED BY <2>2, <3>1, <3>2 DEF GroupReplicated
    <2>4. \E v \in V : x = acked[v]
      BY <1>1, <2>1, GroupCommittedExact
    <2>5. MajorityCommittedIn(V, TRUE, acked, group, o) = x
      BY DEF MajorityCommittedIn
    <2> HIDE DEF x
    <2>6. x \in 0..MaxAcked
      BY <2>1, <2>4
    <2>7. largest(V) = x
      <3>1. GroupReplicated(V, x) /\ \A j \in (x + 1)..MaxAcked : ~GroupReplicated(V, j)
        BY AckedAssumption, <2>3, <2>6
      <3>2. ASSUME NEW i \in 0..MaxAcked, GroupReplicated(V, i), \A j \in (i + 1)..MaxAcked : ~GroupReplicated(V, j)
            PROVE i = x
        BY AckedAssumption, <2>3, <2>6, <3>1, <3>2
      <3> QED BY <2>6, <3>1, <3>2 DEF Largest
    <2> QED BY <2>5, <2>6, <2>7
  <1>2. \A V \in Halves : \A o \in DescendingOrders(V, acked) : MajorityCommittedIn(V, TRUE, acked, group, o) = largest(V)
    BY <1>1 DEF Halves
  <1> HIDE DEF largest
  <1>3. ASSUME NEW V \in {In, Out}, V # {} PROVE mc(V) = largest(V) /\ largest(V) \in 0..MaxAcked
    <2> DEFINE o == CHOOSE o \in DescendingOrders(V, acked) : TRUE
    <2>1. o \in DescendingOrders(V, acked)
      BY HalfType
    <2>2. mc(V) = MajorityCommittedIn(V, TRUE, acked, group, o)
      BY <1>3 DEF MajorityCommitted
    <2> HIDE DEF o
    <2> QED BY <1>1, <1>3, <2>1, <2>2
  <1>4. In # {} /\ (Out = {} => mc(Out) = IndexMax)
    BY HalfType DEF MajorityCommitted
  <1>5. IndexMax \in Nat /\ MaxAcked \in Nat /\ MaxAcked <= IndexMax
    BY IndexMaxAssumption, AckedAssumption
  <1>6. CommittedIndex(conf, TRUE, acked, group) = MinOf({mc(In), mc(Out)})
    BY DEF CommittedIndex
  <1> HIDE DEF mc
  <1>7. MinOf({mc(In), mc(Out)}) = MinOf({largest(V) : V \in Halves})
    <2>1. CASE Out = {}
      <3>1. {largest(V) : V \in Halves} = {largest(In)}
        BY <1>4, <2>1 DEF Halves
      <3>2. {largest(In)} = {largest(In), largest(In)}
        OBVIOUS
      <3>3. largest(In) \in 0..MaxAcked /\ mc(In) = largest(In) /\ mc(Out) = IndexMax
        BY <1>3, <1>4, <2>1
      <3>4. MinOf({largest(In), largest(In)}) = largest(In)
        BY <1>5, <3>3, MinOfTwo
      <3>5. MinOf({mc(In), mc(Out)}) = largest(In)
        BY <1>5, <3>3, MinOfTwo
      <3> QED BY <3>1, <3>2, <3>4, <3>5
    <2>2. CASE Out # {}
      <3>1. {largest(V) : V \in Halves} = {mc(In), mc(Out)}
        BY <1>3, <1>4, <2>2 DEF Halves
      <3> QED BY <3>1
    <2> QED BY <2>1, <2>2
  <1> QED BY <1>2, <1>6, <1>7 DEF GroupCommitIsExact, largest

\* MajorityConfig::vote_result of one half: won when the yes votes are a majority,
\* lost when they would not be with every missing vote.
LEMMA HalfVote ==
    ASSUME NEW V, IsFiniteSet(V), V # {}, NEW vs
    PROVE  /\ MajorityVote(V, vs) = "Won" <=> IsMajority(Answered(V, vs, TRUE), V)
           /\ MajorityVote(V, vs) = "Lost" <=> ~IsMajority(Answered(V, vs, TRUE) \cup (V \ DOMAIN vs), V)
  <1> DEFINE Y == Answered(V, vs, TRUE)
             M == V \ DOMAIN vs
             n == Cardinality(V)
             y == Cardinality(Y)
             m == Cardinality(M)
  <1>1. Y \subseteq V /\ M \subseteq V /\ Y \cap M = {}
    BY DEF Answered
  <1>2. MajorityVote(V, vs) = IF y >= Majority(n) THEN "Won" ELSE IF y + m >= Majority(n) THEN "Pending" ELSE "Lost"
    BY DEF MajorityVote
  <1> HIDE DEF Y, M
  <1>3. IsFiniteSet(Y) /\ IsFiniteSet(M)
    BY <1>1, FS_Subset
  <1>4. y \in Nat /\ m \in Nat /\ n \in Nat
    BY <1>3, FS_CardinalityType
  <1>5. Cardinality(Y \cup M) = y + m
    <2>1. Cardinality(Y \cup M) = y + Cardinality(M \ Y)
      BY <1>3, UnionSize
    <2>2. M \ Y = M
      BY <1>1
    <2> QED BY <2>1, <2>2
  <1>6. IsMajority(Y, V) <=> 2 * y > n
    BY <1>1 DEF IsMajority
  <1>7. IsMajority(Y \cup M, V) <=> 2 * (y + m) > n
    BY <1>1, <1>5 DEF IsMajority
  <1> HIDE DEF n, y, m
  <1>8. \A x \in Nat : x >= Majority(n) <=> 2 * x > n
    BY <1>4 DEF Majority
  <1>9. /\ y >= Majority(n) <=> 2 * y > n
        /\ y + m >= Majority(n) <=> 2 * (y + m) > n
        /\ 2 * y > n => 2 * (y + m) > n
    BY <1>4, <1>8
  <1>10. /\ MajorityVote(V, vs) = "Won" <=> IsMajority(Y, V)
         /\ MajorityVote(V, vs) = "Lost" <=> ~IsMajority(Y \cup M, V)
    BY <1>2, <1>6, <1>7, <1>9
  <1> QED BY <1>10 DEF Y, M

\* More yes votes are still a majority.
LEMMA MajorityGrows ==
    ASSUME NEW V, IsFiniteSet(V), NEW A, NEW B, IsMajority(A, V), A \subseteq B, B \subseteq V
    PROVE  IsMajority(B, V)
  <1>1. IsFiniteSet(B) /\ IsFiniteSet(A)
    BY FS_Subset
  <1>2. Cardinality(A) <= Cardinality(B) /\ Cardinality(A) \in Nat /\ Cardinality(B) \in Nat /\ Cardinality(V) \in Nat
    BY <1>1, FS_Subset, FS_CardinalityType
  <1> QED BY <1>2 DEF IsMajority

\* joint::Configuration::vote_result says won or lost exactly when the missing votes
\* cannot change it.
LEMMA ResultIsFinal == ASSUME TrackerInv PROVE VoteResultIsFinal
  <1> DEFINE missing == Node \ DOMAIN votes
             yes(S) == Answered(Node, votes, TRUE) \cup S
             wins(S) == \A V \in Halves : IsMajority(yes(S) \cap V, V)
             In == conf.incoming
             Out == conf.outgoing
  <1>1. /\ In \subseteq Node /\ Out \subseteq Node /\ IsFiniteSet(In) /\ IsFiniteSet(Out) /\ In # {}
    BY HalfType
  <1>2. \A V \in Halves : V \subseteq Node /\ IsFiniteSet(V) /\ V # {}
    BY <1>1 DEF Halves
  <1>3. ASSUME NEW V \in Halves
        PROVE  /\ yes({}) \cap V = Answered(V, votes, TRUE)
               /\ yes(missing) \cap V = Answered(V, votes, TRUE) \cup (V \ DOMAIN votes)
    BY <1>2 DEF Answered
  <1>4. ASSUME NEW S \in SUBSET missing, wins({}) PROVE wins(S)
    <2>1. ASSUME NEW V \in Halves PROVE IsMajority(yes(S) \cap V, V)
      <3>1. IsMajority(yes({}) \cap V, V)
        BY <1>4
      <3>2. yes({}) \cap V \subseteq yes(S) \cap V /\ yes(S) \cap V \subseteq V
        OBVIOUS
      <3> QED BY <1>2, <3>1, <3>2, MajorityGrows
    <2> QED BY <2>1
  <1>5. ASSUME NEW S \in SUBSET missing, wins(S) PROVE wins(missing)
    <2>1. ASSUME NEW V \in Halves PROVE IsMajority(yes(missing) \cap V, V)
      <3>1. IsMajority(yes(S) \cap V, V)
        BY <1>5
      <3>2. yes(S) \cap V \subseteq yes(missing) \cap V /\ yes(missing) \cap V \subseteq V
        OBVIOUS
      <3> QED BY <1>2, <3>1, <3>2, MajorityGrows
    <2> QED BY <2>1
  <1> DEFINE half(V) == MajorityVote(V, votes)
  <1>3b. ASSUME NEW V \in Halves
         PROVE  /\ half(V) = "Won" <=> IsMajority(yes({}) \cap V, V)
                /\ half(V) = "Lost" <=> ~IsMajority(yes(missing) \cap V, V)
    <2>1. /\ half(V) = "Won" <=> IsMajority(Answered(V, votes, TRUE), V)
          /\ half(V) = "Lost" <=> ~IsMajority(Answered(V, votes, TRUE) \cup (V \ DOMAIN votes), V)
      BY <1>2, HalfVote
    <2> QED BY <1>3, <2>1
  <1>6. wins({}) <=> \A V \in Halves : half(V) = "Won"
    BY <1>3b
  <1>7. wins(missing) <=> \A V \in Halves : half(V) # "Lost"
    BY <1>3b
  <1>8. Out = {} => MajorityVote(Out, votes) = "Won"
    BY DEF MajorityVote
  <1>9. VoteResult(conf, votes) = "Won" <=> \A V \in Halves : MajorityVote(V, votes) = "Won"
    BY <1>1, <1>8 DEF VoteResult, Halves
  <1>10. VoteResult(conf, votes) = "Lost" <=> ~ \A V \in Halves : MajorityVote(V, votes) # "Lost"
    BY <1>1, <1>8 DEF VoteResult, Halves
  <1> HIDE DEF wins
  <1>11. {} \in SUBSET missing /\ missing \in SUBSET missing
    OBVIOUS
  <1> HIDE DEF missing
  <1>12. VoteResult(conf, votes) = "Won" <=> \A S \in SUBSET missing : wins(S)
    BY <1>4, <1>6, <1>9, <1>11
  <1>13. VoteResult(conf, votes) = "Lost" <=> \A S \in SUBSET missing : ~wins(S)
    BY <1>5, <1>7, <1>10, <1>11
  <1> QED BY <1>12, <1>13 DEF VoteResultIsFinal, wins, missing

\* maximal_committed_index is the largest index that a majority of each half has
\* acknowledged, for any number of voters and any acknowledged indexes: nothing is
\* committed too early, and nothing that could be committed is held back.
THEOREM AlwaysCommitsLargestReplicated == TrackerSpec => []CommitsLargestReplicated
  BY TrackerType, CommitsLargest, PTL

\* With group commit, committed_index is the largest index that is also in two
\* groups of each half that has two, whatever order the HashSet is iterated in.
THEOREM GroupCommitIsAlwaysExact == TrackerSpec => []GroupCommitIsExact
  BY TrackerType, GroupCommitExact, PTL

\* vote_result announces a win or a loss as soon as, and only when, no way to fill in
\* the missing votes can change it.
THEOREM VoteResultIsAlwaysFinal == TrackerSpec => []VoteResultIsFinal
  BY TrackerType, ResultIsFinal, PTL
=============================================================================
