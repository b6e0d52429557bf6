--------------------------- MODULE LogStoreProofs ---------------------------
(***************************************************************************)
(* Proofs about LogStore, for every value of its constants: no assertion   *)
(* is reached, the log and the disk are each a part of one leader's log, a *)
(* restart always succeeds, and the whole implements DurableLog.  What is  *)
(* persisted is on disk if at most two Readies are outstanding.            *)
(*                                                                         *)
(* The inductive invariant LInv says of                                    *)
(*   the group     that logs which share an entry are the same up to it,   *)
(*                 and the current leader has all that is chosen (EnvInv); *)
(*   a storage     that it is a part of one leader's log, and what it      *)
(*                 knows to be committed is chosen (StoreInv);             *)
(*   the node      the same of storage and unstable entries read together, *)
(*                 with the order of applied, since, persisted, committed  *)
(*                 and offset, and of a snapshot that waits (NodeInv);     *)
(*   the disk      that it is the last image synced, and that every image  *)
(*                 is at least as far as the one before it (DiskInv).      *)
(* The operators take the node, the logs and the chosen entries as         *)
(* parameters, so that a lemma about a handler speaks of any node.         *)
(***************************************************************************)
EXTENDS LogStore, SequenceTheorems, WellFoundedInduction, TLAPS

EntryT == [index : Nat \ {0}, term : Nat \ {0}]

StoreType == [snap : [index : Nat, term : Nat], entries : Seq(EntryT), commit : Nat]

\* What a storage always is.
IsStore(st) ==
    /\ st \in StoreType
    /\ \A k \in 1..Len(st.entries) : st.entries[k].index = StoreFirst(st) + k - 1
    /\ st.snap.index < StoreFirst(st) /\ StoreFirst(st) <= st.commit + 1
    /\ st.snap.index <= st.commit /\ st.commit <= StoreLast(st) /\ CanSnapshot(st)

\* Log l holds the first k of the entries ch.
Agree(l, ch, k) == k <= Len(ch) /\ \A i \in 1..k : l[i] = ch[i]

\* What a storage holds is a part of log l.
Fits(st, l) ==
    /\ StoreLast(st) <= Len(l)
    /\ \A i \in StoreFirst(st)..StoreLast(st) : st.entries[i - StoreFirst(st) + 1].term = l[i]

\* It is a part of one of the logs ls, and what it knows to be committed is in ch.
StoreInv(st, ls, ch) ==
    /\ IsStore(st) /\ st.commit <= Len(ch)
    /\ st.snap.term = TermIn(ch, st.snap.index)
    /\ \E l \in ls : Fits(st, l) /\ Agree(l, ch, st.commit)

\* Any two of the logs ls are the same up to an entry that they share.
Matching(ls) ==
    \A l, m \in ls : \A i \in 1..Len(l) :
        i <= Len(m) /\ l[i] = m[i] => \A j \in 1..i : l[j] = m[j]

LogsT(ls, ch) == (\A l \in ls : l \in Seq(Nat \ {0})) /\ ch \in Seq(Nat \ {0})

EnvInv ==
    /\ LogsT(logs, chosen) /\ Matching(logs)
    /\ term \in Nat /\ lead \in logs
    /\ \A l \in logs : \A i \in 1..Len(l) :
          l[i] <= term /\ (l[i] = term => i <= Len(lead) /\ lead[i] = term)
    /\ Len(chosen) <= Len(lead) /\ Agree(lead, chosen, Len(chosen))

IsUnstable(u) ==
    /\ u \in [snapshot : [index : Nat, term : Nat], entries : Seq(EntryT), offset : Nat \ {0}]
    /\ \A k \in 1..Len(u.entries) : u.entries[k].index = u.offset + k - 1
    /\ HasSnapshot(u) => u.snapshot.index > 0 /\ u.offset = u.snapshot.index + 1

RecordT == [snapshot : [index : Nat, term : Nat], last : [index : Nat, term : Nat]]

\* The log that a node reads through storage and unstable entries is a part of l.
NodeFits(n, l, ch) ==
    /\ LastIndex(n) <= Len(l) /\ Agree(l, ch, n.committed)
    /\ \A k \in 1..Len(n.unstable.entries) : n.unstable.entries[k].term = l[n.unstable.offset + k - 1]
    /\ ~HasSnapshot(n.unstable) =>
          \A i \in StoreFirst(n.store)..(n.unstable.offset - 1) :
              n.store.entries[i - StoreFirst(n.store) + 1].term = l[i]

\* The fields of a node, each by itself
NodeT(n) ==
    /\ n = [unstable |-> n.unstable, store |-> n.store, committed |-> n.committed,
             persisted |-> n.persisted, applied |-> n.applied, records |-> n.records,
             since |-> n.since, prev_commit |-> n.prev_commit]
    /\ IsUnstable(n.unstable) /\ IsStore(n.store) /\ n.records \in Seq(RecordT)
    /\ n.committed \in Nat /\ n.persisted \in Nat /\ n.applied \in Nat /\ n.since \in Nat
    /\ n.prev_commit \in Nat

\* How far the log is stored, persisted, committed, handed out and applied
Marks(n) ==
    /\ n.prev_commit = n.store.commit /\ n.prev_commit <= n.committed
    /\ n.applied <= n.since /\ n.applied <= n.persisted /\ n.since <= n.committed
    /\ n.persisted < n.unstable.offset /\ n.committed <= LastIndex(n)
    /\ StoreFirst(n.store) <= n.since + 1

\* A snapshot that waits to be stored is ahead of everything in the storage.
SnapshotAhead(n, ch) ==
    HasSnapshot(n.unstable) =>
        /\ n.persisted <= n.unstable.snapshot.index /\ n.since <= n.unstable.snapshot.index
        /\ n.prev_commit < n.unstable.snapshot.index /\ n.unstable.snapshot.index <= n.committed
        /\ StoreFirst(n.store) <= n.unstable.snapshot.index
        /\ n.unstable.snapshot.term = ch[n.unstable.snapshot.index]

\* Otherwise the unstable entries go on from the storage or replace its end.
NoGap(n) ==
    ~HasSnapshot(n.unstable) =>
        /\ StoreFirst(n.store) <= n.unstable.offset /\ n.unstable.offset <= StoreLast(n.store) + 1
        /\ n.unstable.entries = <<>> => n.unstable.offset = StoreLast(n.store) + 1

\* The snapshots of outstanding Readies can be reported, and what was handed out is
\* persisted once they are.
RecordsInv(n) ==
    /\ \A k \in 1..Len(n.records) : n.records[k].snapshot # NoSnapshot =>
          /\ n.records[k].snapshot.index <= n.committed
          /\ n.records[k].snapshot.index < n.unstable.offset
    /\ \/ n.since <= n.persisted
       \/ /\ LastSnapshot(n.records) # 0
          /\ n.since <= n.records[LastSnapshot(n.records)].snapshot.index

IsNode(n, ch) == NodeT(n) /\ Marks(n) /\ SnapshotAhead(n, ch) /\ NoGap(n) /\ RecordsInv(n)

NodeInv(n, ls, ch) ==
    IsNode(n, ch) /\ StoreInv(n.store, ls, ch) /\ \E l \in ls : NodeFits(n, l, ch)

\* st was written before su.
Older(st, su) == st.commit <= su.commit /\ StoreFirst(st) <= StoreFirst(su)

DiskInv ==
    /\ images \in Seq(StoreType)
    /\ Len(images) = Len(node.records) /\ synced \in 0..Len(images)
    /\ node.store = IF images = <<>> THEN disk ELSE images[Len(images)]
    /\ synced > 0 => disk = images[synced]
    /\ StoreInv(disk, logs, chosen)
    /\ \A k \in (synced + 1)..Len(images) : StoreInv(images[k], logs, chosen) /\ Older(disk, images[k])
    /\ \A j, k \in (synced + 1)..Len(images) : j <= k => Older(images[j], images[k])

LInv ==
    /\ EnvInv /\ NodeInv(node, logs, chosen) /\ DiskInv
    /\ given = SubSeq(chosen, 1, node.since)
    /\ ~fault

\* A non-empty set of natural numbers has a least element.
LEMMA LeastElement ==
    ASSUME NEW S \in SUBSET Nat, S # {}
    PROVE  \E x \in S : \A y \in S : x <= y
  <1>1. \E x \in S : \A y \in S : ~ (<<y, x>> \in OpToRel(<, Nat))
    BY NatLessThanWellFounded, WFMin
  <1>2. PICK x \in S : \A y \in S : ~ (<<y, x>> \in OpToRel(<, Nat))
    BY <1>1
  <1>3. ASSUME NEW y \in S, y < x PROVE FALSE
    <2>1. <<y, x>> \in OpToRel(<, Nat)
      BY <1>3 DEF OpToRel
    <2> QED BY <2>1, <1>2
  <1>4. \A y \in S : x <= y
    BY <1>3
  <1> QED BY <1>4

\* Where a storage whose entries begin at f begins and ends
LEMMA StoreSpan ==
    ASSUME NEW st \in StoreType, NEW f \in Nat, \A k \in 1..Len(st.entries) : st.entries[k].index = f + k - 1,
           st.entries = <<>> => f = st.snap.index + 1
    PROVE  StoreFirst(st) = f /\ StoreLast(st) = f + Len(st.entries) - 1
  <1>1. st.entries \in Seq(EntryT) /\ Len(st.entries) \in Nat /\ st.snap.index \in Nat
    BY DEF StoreType
  <1>2. CASE st.entries = <<>>
    BY <1>1, <1>2 DEF StoreFirst, StoreLast
  <1>3. CASE st.entries # <<>>
    <2>1. Len(st.entries) >= 1
      BY <1>1, <1>3
    <2> QED BY <1>1, <1>3, <2>1 DEF StoreFirst, StoreLast
  <1> QED BY <1>2, <1>3

\* Where a storage begins and ends
LEMMA StoreEnds ==
    ASSUME NEW st, IsStore(st)
    PROVE  /\ StoreFirst(st) \in Nat /\ StoreFirst(st) > 0 /\ StoreLast(st) \in Nat /\ Len(st.entries) \in Nat
           /\ StoreLast(st) = StoreFirst(st) + Len(st.entries) - 1
           /\ StoreFirst(st) <= StoreLast(st) + 1 /\ st.entries \in Seq(EntryT)
           /\ st.snap.index \in Nat /\ st.snap.term \in Nat /\ st.commit \in Nat /\ st.commit + 1 >= StoreFirst(st)
  <1>1. st.entries \in Seq(EntryT) /\ Len(st.entries) \in Nat /\ st.snap.index \in Nat /\ st.snap.term \in Nat /\ st.commit \in Nat
    BY DEF StoreType, IsStore
  <1>2. StoreFirst(st) \in Nat
    <2>1. CASE st.entries = <<>>
      BY <1>1, <2>1 DEF StoreFirst
    <2>2. CASE st.entries # <<>>
      <3>1. st.entries[1] \in EntryT
        BY <1>1, <2>2
      <3> QED BY <2>2, <3>1 DEF StoreFirst, EntryT
    <2> QED BY <2>1, <2>2
  <1>3. st.entries = <<>> => StoreFirst(st) = st.snap.index + 1
    BY DEF StoreFirst
  <1>4. StoreLast(st) = StoreFirst(st) + Len(st.entries) - 1
    BY <1>2, <1>3, StoreSpan DEF IsStore
  <1>5. StoreFirst(st) > st.snap.index
    BY DEF IsStore
  <1>6. st.commit + 1 >= StoreFirst(st)
    BY <1>1, <1>2 DEF IsStore
  <1> QED BY <1>1, <1>2, <1>4, <1>5, <1>6

\* Where the unstable part of a log begins and ends
LEMMA UnstableEnds ==
    ASSUME NEW u, IsUnstable(u)
    PROVE  /\ u.offset \in Nat /\ u.offset > 0 /\ u.entries \in Seq(EntryT) /\ Len(u.entries) \in Nat
           /\ u.snapshot \in [index : Nat, term : Nat] /\ u.snapshot.index \in Nat /\ u.snapshot.term \in Nat
           /\ HasLast(u) => UnstableLast(u) = u.offset + Len(u.entries) - 1
           /\ HasSnapshot(u) => u.offset = u.snapshot.index + 1 /\ u.snapshot.index > 0
           /\ u = [snapshot |-> u.snapshot, entries |-> u.entries, offset |-> u.offset]
  <1>1. /\ u.offset \in Nat /\ u.offset > 0 /\ u.entries \in Seq(EntryT) /\ Len(u.entries) \in Nat
        /\ u.snapshot \in [index : Nat, term : Nat]
        /\ u = [snapshot |-> u.snapshot, entries |-> u.entries, offset |-> u.offset]
    BY DEF IsUnstable
  <1>2. u.snapshot.index \in Nat /\ u.snapshot.term \in Nat
    BY <1>1
  <1>3. HasSnapshot(u) => u.offset = u.snapshot.index + 1 /\ u.snapshot.index > 0
    BY DEF IsUnstable
  <1>4. HasLast(u) => UnstableLast(u) = u.offset + Len(u.entries) - 1
    BY <1>1, <1>2, <1>3 DEF HasLast, UnstableLast
  <1> QED BY <1>1, <1>2, <1>3, <1>4

\* Where the log of a node begins and ends
LEMMA NodeEnds ==
    ASSUME NEW n, NEW ch, IsNode(n, ch)
    PROVE  /\ FirstIndex(n) \in Nat /\ FirstIndex(n) > 0 /\ LastIndex(n) \in Nat
           /\ LastIndex(n) = n.unstable.offset + Len(n.unstable.entries) - 1
           /\ FirstIndex(n) <= n.unstable.offset /\ FirstIndex(n) <= n.committed + 1
           /\ StoreFirst(n.store) <= FirstIndex(n)
           /\ HasSnapshot(n.unstable) => FirstIndex(n) = n.unstable.offset
           /\ ~HasSnapshot(n.unstable) => FirstIndex(n) = StoreFirst(n.store)
  <1>1. IsUnstable(n.unstable) /\ IsStore(n.store)
    BY DEF IsNode, NodeT
  <1>2. n.committed \in Nat /\ n.since \in Nat /\ n.since <= n.committed /\ StoreFirst(n.store) <= n.since + 1
    BY DEF IsNode, NodeT, Marks
  <1>3. CASE HasSnapshot(n.unstable)
    <2>1. FirstIndex(n) = n.unstable.snapshot.index + 1
      BY <1>3 DEF FirstIndex
    <2>2. LastIndex(n) = UnstableLast(n.unstable) /\ HasLast(n.unstable)
      BY <1>3 DEF LastIndex, HasLast
    <2>3. n.unstable.snapshot.index <= n.committed /\ StoreFirst(n.store) <= n.unstable.snapshot.index
      BY <1>3 DEF IsNode, SnapshotAhead
    <2>4. /\ n.unstable.offset \in Nat /\ Len(n.unstable.entries) \in Nat /\ n.unstable.snapshot.index \in Nat
          /\ UnstableLast(n.unstable) = n.unstable.offset + Len(n.unstable.entries) - 1
          /\ n.unstable.offset = n.unstable.snapshot.index + 1
      BY <1>1, <1>3, <2>2, UnstableEnds
    <2>5. StoreFirst(n.store) \in Nat
      BY <1>1, StoreEnds
    <2>6. /\ FirstIndex(n) \in Nat /\ FirstIndex(n) > 0 /\ FirstIndex(n) = n.unstable.offset
          /\ FirstIndex(n) <= n.unstable.offset /\ FirstIndex(n) <= n.committed + 1
          /\ StoreFirst(n.store) <= FirstIndex(n)
      <3>1. FirstIndex(n) = n.unstable.offset
        BY <2>1, <2>4, Zenon
      <3>2. FirstIndex(n) \in Nat /\ n.unstable.snapshot.index \in Nat
        BY <3>1, <2>4
      <3> QED BY <1>2, <2>1, <2>3, <2>5, <3>1, <3>2
    <2>7. LastIndex(n) \in Nat /\ LastIndex(n) = n.unstable.offset + Len(n.unstable.entries) - 1
      <3>1. n.unstable.offset \in Nat /\ Len(n.unstable.entries) \in Nat /\ n.unstable.offset > 0
        BY <2>4
      <3>2. LastIndex(n) = n.unstable.offset + Len(n.unstable.entries) - 1
        BY <2>2, <2>4, Zenon
      <3> QED BY <3>1, <3>2
    <2> QED BY <1>3, <2>6, <2>7
  <1>4. CASE ~HasSnapshot(n.unstable)
    <2>1. FirstIndex(n) = StoreFirst(n.store)
      BY <1>4 DEF FirstIndex
    <2>2. LastIndex(n) = n.unstable.offset + Len(n.unstable.entries) - 1
      <3>1. CASE n.unstable.entries = <<>>
        BY <1>1, <1>4, <3>1, UnstableEnds, StoreEnds DEF IsNode, NoGap, LastIndex, HasLast
      <3>2. CASE n.unstable.entries # <<>>
        BY <1>1, <1>4, <3>2, UnstableEnds DEF LastIndex, HasLast
      <3> QED BY <3>1, <3>2
    <2> QED BY <1>1, <1>2, <1>4, <2>1, <2>2, UnstableEnds, StoreEnds DEF IsNode, NoGap
  <1> QED BY <1>3, <1>4

\* Reading a storage
LEMMA StoreReads ==
    ASSUME NEW st, IsStore(st), NEW i \in Int
    PROVE  /\ i \in StoreFirst(st)..StoreLast(st) =>
                 /\ i - StoreFirst(st) + 1 \in 1..Len(st.entries)
                 /\ StoreTerm(st, i) = st.entries[i - StoreFirst(st) + 1].term
           /\ i = st.snap.index => StoreTerm(st, i) = st.snap.term
           /\ i # st.snap.index /\ i \notin StoreFirst(st)..StoreLast(st) => StoreTerm(st, i) = NoTerm
  <1>1. /\ StoreFirst(st) \in Nat /\ StoreFirst(st) > 0 /\ StoreLast(st) \in Nat /\ Len(st.entries) \in Nat
        /\ StoreLast(st) = StoreFirst(st) + Len(st.entries) - 1 /\ st.snap.index \in Nat
    BY StoreEnds
  <1>2. st.snap.index < StoreFirst(st)
    BY DEF IsStore
  <1> DEFINE f == StoreFirst(st)
             z == StoreLast(st)
             x == st.snap.index
             len == Len(st.entries)
  <1>3. f \in Nat /\ z \in Nat /\ x \in Nat /\ len \in Nat /\ x < f /\ z = f + len - 1
    BY <1>1, <1>2
  <1>4. StoreTerm(st, i) = IF i = x THEN st.snap.term
                           ELSE IF i \in f..z THEN st.entries[i - f + 1].term ELSE NoTerm
    BY DEF StoreTerm
  <1> HIDE DEF f, z, x, len
  <1>5. /\ i \in f..z => i - f + 1 \in 1..len /\ StoreTerm(st, i) = st.entries[i - f + 1].term
        /\ i = x => StoreTerm(st, i) = st.snap.term
        /\ i # x /\ i \notin f..z => StoreTerm(st, i) = NoTerm
    BY <1>3, <1>4
  <1> QED BY <1>5 DEF f, z, x, len

\* Reading the unstable part of a log
LEMMA UnstableReads ==
    ASSUME NEW u, IsUnstable(u), NEW i \in Nat
    PROVE  /\ i \in u.offset..(u.offset + Len(u.entries) - 1) =>
                 /\ i - u.offset + 1 \in 1..Len(u.entries)
                 /\ MaybeTerm(u, i) = u.entries[i - u.offset + 1].term
                 /\ MaybeTerm(u, i) \in Nat \ {0}
           /\ HasSnapshot(u) /\ i = u.snapshot.index => MaybeTerm(u, i) = u.snapshot.term
           /\ i < u.offset /\ ~(HasSnapshot(u) /\ i = u.snapshot.index) => MaybeTerm(u, i) = NoTerm
  <1> DEFINE off == u.offset
             len == Len(u.entries)
             x == u.snapshot.index
  <1>1. off \in Nat /\ len \in Nat /\ x \in Nat /\ u.entries \in Seq(EntryT) /\ (HasSnapshot(u) => off = x + 1)
    BY UnstableEnds
  <1>2. HasLast(u) => UnstableLast(u) = off + len - 1
    BY UnstableEnds
  <1>3. MaybeTerm(u, i) = IF i < off THEN IF HasSnapshot(u) /\ i = x THEN u.snapshot.term ELSE NoTerm
                          ELSE IF HasLast(u) /\ i <= UnstableLast(u) THEN u.entries[i - off + 1].term ELSE NoTerm
    BY DEF MaybeTerm
  <1>4. len > 0 => HasLast(u)
    BY DEF HasLast
  <1>5. \A k \in 1..len : u.entries[k].term \in Nat \ {0}
    <2> TAKE k \in 1..len
    <2>1. u.entries[k] \in EntryT
      BY <1>1
    <2> QED BY <2>1 DEF EntryT
  <1> HIDE DEF off, len, x
  <1>6. i \in off..(off + len - 1) => i - off + 1 \in 1..len /\ MaybeTerm(u, i) = u.entries[i - off + 1].term
    BY <1>1, <1>2, <1>3, <1>4
  <1>7. HasSnapshot(u) /\ i = x => MaybeTerm(u, i) = u.snapshot.term
    BY <1>1, <1>3
  <1>8. i < off /\ ~(HasSnapshot(u) /\ i = x) => MaybeTerm(u, i) = NoTerm
    BY <1>1, <1>3
  <1>9. i \in off..(off + len - 1) => MaybeTerm(u, i) \in Nat \ {0}
    BY <1>5, <1>6
  <1> QED BY <1>6, <1>7, <1>8, <1>9 DEF off, len, x

\* The facts about a node's marks, as plain numbers
LEMMA NodeNumbers ==
    ASSUME NEW n, NEW ls, NEW ch, NodeInv(n, ls, ch)
    PROVE  /\ n.committed \in Nat /\ n.persisted \in Nat /\ n.applied \in Nat /\ n.since \in Nat /\ n.prev_commit \in Nat
           /\ n.prev_commit = n.store.commit /\ n.prev_commit <= n.committed
           /\ n.applied <= n.since /\ n.applied <= n.persisted /\ n.since <= n.committed
           /\ n.persisted < n.unstable.offset /\ n.committed <= LastIndex(n)
           /\ StoreFirst(n.store) <= n.since + 1
           /\ n.unstable.offset \in Nat /\ Len(n.unstable.entries) \in Nat
           /\ IsUnstable(n.unstable) /\ IsStore(n.store)
  BY UnstableEnds DEF NodeInv, IsNode, NodeT, Marks

\* Reading the log of a node that is a part of l
LEMMA LogReads ==
    ASSUME NEW n, NEW ls, NEW ch, NEW l, LogsT(ls, ch), NodeInv(n, ls, ch), NodeFits(n, l, ch), NEW i \in Nat
    PROVE  /\ i \in FirstIndex(n)..LastIndex(n) => TermAt(n, i) = l[i]
           /\ i > LastIndex(n) => TermAt(n, i) = 0
           /\ i = n.committed /\ i > 0 => TermAt(n, i) = ch[i]
  <1> DEFINE u == n.unstable
             st == n.store
             off == n.unstable.offset
             len == Len(n.unstable.entries)
             f == FirstIndex(n)
             z == LastIndex(n)
             c == n.committed
             sf == StoreFirst(n.store)
             sl == StoreLast(n.store)
             x == n.unstable.snapshot.index
  <1>0. IsNode(n, ch)
    BY DEF NodeInv
  <1>1. IsUnstable(u) /\ IsStore(st) /\ off \in Nat /\ len \in Nat /\ c \in Nat /\ c <= z
    BY NodeNumbers
  <1>2. f \in Nat /\ z \in Nat /\ f > 0 /\ z = off + len - 1 /\ f <= off /\ f <= c + 1
    BY <1>0, NodeEnds
  <1>3. sf \in Nat /\ sl \in Nat /\ sf > 0 /\ x \in Nat
    BY <1>1, StoreEnds, UnstableEnds
  <1>4. /\ HasSnapshot(u) => f = off
        /\ ~HasSnapshot(u) => f = sf
    BY <1>0, NodeEnds
  <1>5. HasSnapshot(u) => off = x + 1
    BY <1>1, UnstableEnds
  <1>6. ~HasSnapshot(u) => off <= sl + 1
    BY <1>0 DEF IsNode, NoGap
  <1>7. /\ \A k \in 1..len : u.entries[k].term = l[off + k - 1]
        /\ ~HasSnapshot(u) => \A j \in sf..(off - 1) : st.entries[j - sf + 1].term = l[j]
        /\ c <= Len(ch) /\ \A j \in 1..c : l[j] = ch[j]
    BY DEF NodeFits, Agree
  <1>8. /\ i \in off..(off + len - 1) =>
              i - off + 1 \in 1..len /\ MaybeTerm(u, i) = u.entries[i - off + 1].term /\ MaybeTerm(u, i) \in Nat \ {0}
        /\ HasSnapshot(u) /\ i = x => MaybeTerm(u, i) = u.snapshot.term
        /\ i < off /\ ~(HasSnapshot(u) /\ i = x) => MaybeTerm(u, i) = NoTerm
    BY <1>1, UnstableReads
  <1>9. i \in sf..sl => StoreTerm(st, i) = st.entries[i - sf + 1].term
    BY <1>1, StoreReads
  <1>10. TermAt(n, i) = IF i < f - 1 \/ i > z THEN 0 ELSE IF MaybeTerm(u, i) # NoTerm THEN MaybeTerm(u, i) ELSE StoreTerm(st, i)
    BY DEF TermAt
  <1>11. HasSnapshot(u) => u.snapshot.term = ch[x] /\ u.snapshot.term \in Nat
    BY <1>0, <1>1, UnstableEnds DEF IsNode, SnapshotAhead
  <1>12. ~HasSnapshot(u) /\ c = sf - 1 => c = st.snap.index
    <2>1. st.commit = st.snap.index \/ st.commit \in sf..sl
      BY <1>1 DEF IsStore, CanSnapshot
    <2>2. st.commit <= c /\ st.commit \in Nat /\ st.snap.index \in Nat /\ st.snap.index < sf /\ sf <= st.commit + 1
      BY <1>1, StoreEnds, NodeNumbers DEF IsStore
    <2> DEFINE d == st.commit
               y == st.snap.index
    <2>3. (d = y \/ d \in sf..sl) /\ d <= c /\ d \in Nat /\ y \in Nat /\ y < sf /\ sf <= d + 1
      BY <2>1, <2>2
    <2> HIDE DEF d, y, sf, sl, c
    <2>4. c = sf - 1 => c = y
      BY <1>1, <1>3, <2>3
    <2> QED BY <2>4 DEF y
  <1>13. st.snap.term = TermIn(ch, st.snap.index)
    BY DEF NodeInv, StoreInv
  <1>14. i = st.snap.index => StoreTerm(st, i) = st.snap.term
    BY <1>1, StoreReads
  <1>15. i = c /\ i > 0 /\ ~HasSnapshot(u) /\ c = sf - 1 => StoreTerm(st, i) = ch[i]
    BY <1>12, <1>13, <1>14 DEF TermIn
  <1> HIDE DEF u, st, off, len, f, z, c, sf, sl, x
  <1>16. i \in f..z => TermAt(n, i) = l[i]
    <2> SUFFICES ASSUME i \in f..z PROVE TermAt(n, i) = l[i]
      OBVIOUS
    <2>1. CASE i >= off
      <3>1. TermAt(n, i) = u.entries[i - off + 1].term /\ i - off + 1 \in 1..len
        BY <1>1, <1>2, <1>8, <1>10, <2>1 DEF NoTerm
      <3>2. off + (i - off + 1) - 1 = i
        BY <1>1
      <3> QED BY <3>1, <3>2, <1>7
    <2>2. CASE i < off
      <3>1. ~HasSnapshot(u)
        BY <1>1, <1>2, <1>4, <2>2
      <3>2. i \in sf..sl /\ i \in sf..(off - 1)
        BY <1>1, <1>2, <1>3, <1>4, <1>6, <2>2, <3>1
      <3>3. TermAt(n, i) = StoreTerm(st, i)
        BY <1>1, <1>2, <1>8, <1>10, <2>2, <3>1
      <3> QED BY <1>7, <1>9, <3>1, <3>2, <3>3
    <2> QED BY <1>1, <2>1, <2>2
  <1>17. i > z => TermAt(n, i) = 0
    BY <1>10
  <1>18. i = c /\ i > 0 => TermAt(n, i) = ch[i]
    <2> SUFFICES ASSUME i = c, i > 0 PROVE TermAt(n, i) = ch[i]
      OBVIOUS
    <2>1. CASE c >= f
      <3>1. i \in f..z /\ i \in 1..c
        BY <1>1, <1>2, <2>1
      <3> QED BY <3>1, <1>16, <1>7
    <2>2. CASE c < f
      <3>1. c = f - 1 /\ c < off
        BY <1>1, <1>2, <2>2
      <3>2. CASE HasSnapshot(u)
        <4>1. i = x
          BY <1>1, <1>2, <1>3, <1>4, <1>5, <3>1, <3>2
        <4> QED BY <1>1, <1>2, <1>8, <1>10, <1>11, <3>1, <3>2, <4>1 DEF NoTerm
      <3>3. CASE ~HasSnapshot(u)
        <4>1. TermAt(n, i) = StoreTerm(st, i)
          BY <1>1, <1>2, <1>8, <1>10, <3>1, <3>3
        <4> QED BY <1>15, <1>4, <3>1, <3>3, <4>1
      <3> QED BY <3>2, <3>3
    <2> QED BY <1>1, <1>2, <2>1, <2>2
  <1> QED BY <1>16, <1>17, <1>18 DEF f, z, c

\* The group has chosen at least ch before ch2, and its leaders had the logs ls before ls2.
Grown(ls, ch, ls2, ch2) ==
    /\ LogsT(ls, ch) /\ LogsT(ls2, ch2) /\ ls \subseteq ls2
    /\ Len(ch) <= Len(ch2) /\ \A i \in 1..Len(ch) : ch2[i] = ch[i]

\* What is chosen stays chosen.
LEMMA AgreeGrows ==
    ASSUME NEW ls, NEW ch, NEW ls2, NEW ch2, Grown(ls, ch, ls2, ch2), NEW l, NEW k \in Nat, Agree(l, ch, k)
    PROVE  Agree(l, ch2, k)
  <1>1. Len(ch) \in Nat /\ Len(ch2) \in Nat
    BY DEF Grown, LogsT
  <1> QED BY <1>1 DEF Grown, Agree

\* A storage stays in order when the group goes on.
LEMMA StoreGrows ==
    ASSUME NEW ls, NEW ch, NEW ls2, NEW ch2, Grown(ls, ch, ls2, ch2), NEW st, StoreInv(st, ls, ch)
    PROVE  StoreInv(st, ls2, ch2)
  <1>1. Len(ch) \in Nat /\ Len(ch2) \in Nat /\ Len(ch) <= Len(ch2)
    BY DEF Grown, LogsT
  <1>2. IsStore(st) /\ st.commit <= Len(ch) /\ st.snap.term = TermIn(ch, st.snap.index)
    BY DEF StoreInv
  <1>3. st.commit \in Nat /\ st.snap.index \in Nat /\ st.snap.index <= st.commit
    BY <1>2, StoreEnds DEF IsStore
  <1>4. TermIn(ch2, st.snap.index) = TermIn(ch, st.snap.index)
    <2>1. CASE st.snap.index = 0
      BY <2>1 DEF TermIn
    <2>2. CASE st.snap.index # 0
      <3>1. st.snap.index \in 1..Len(ch)
        BY <1>1, <1>2, <1>3, <2>2
      <3>2. ch2[st.snap.index] = ch[st.snap.index]
        BY <3>1 DEF Grown
      <3> QED BY <2>2, <3>2 DEF TermIn
    <2> QED BY <2>1, <2>2
  <1>5. PICK l \in ls : Fits(st, l) /\ Agree(l, ch, st.commit)
    BY DEF StoreInv
  <1>6. l \in ls2 /\ Agree(l, ch2, st.commit)
    BY <1>3, <1>5, AgreeGrows DEF Grown
  <1>7. st.commit <= Len(ch2)
    BY <1>1, <1>2, <1>3
  <1> QED BY <1>2, <1>4, <1>5, <1>6, <1>7 DEF StoreInv

\* So does a node.
LEMMA NodeGrows ==
    ASSUME NEW ls, NEW ch, NEW ls2, NEW ch2, Grown(ls, ch, ls2, ch2), NEW n, NodeInv(n, ls, ch)
    PROVE  NodeInv(n, ls2, ch2)
  <1>1. PICK l \in ls : NodeFits(n, l, ch)
    BY DEF NodeInv
  <1>2. n.committed \in Nat /\ n.unstable.snapshot.index \in Nat
    BY NodeNumbers, UnstableEnds
  <1>3. Agree(l, ch, n.committed)
    BY <1>1 DEF NodeFits
  <1>4. Agree(l, ch2, n.committed)
    BY <1>2, <1>3, AgreeGrows
  <1>5. l \in ls2 /\ NodeFits(n, l, ch2)
    BY <1>1, <1>4 DEF NodeFits, Grown
  <1>6. StoreInv(n.store, ls2, ch2)
    BY StoreGrows DEF NodeInv
  <1>7. SnapshotAhead(n, ch2)
    <2>1. SnapshotAhead(n, ch)
      BY DEF NodeInv, IsNode
    <2>2. SUFFICES ASSUME HasSnapshot(n.unstable)
                   PROVE  ch2[n.unstable.snapshot.index] = ch[n.unstable.snapshot.index]
      BY <2>1 DEF SnapshotAhead
    <2>3. n.unstable.snapshot.index > 0 /\ n.unstable.snapshot.index <= n.committed /\ n.committed <= Len(ch)
      BY <1>3, <2>1, <2>2, NodeNumbers, UnstableEnds DEF SnapshotAhead, Agree
    <2>4. Len(ch) \in Nat
      BY DEF Grown, LogsT
    <2>5. n.unstable.snapshot.index \in 1..Len(ch)
      BY <1>2, <2>3, <2>4
    <2> QED BY <2>5 DEF Grown
  <1> QED BY <1>5, <1>6, <1>7 DEF NodeInv, IsNode

\* The part of the invariant that is about the group, after a step that changes only that
LEMMA GroupStep ==
    ASSUME LInv, EnvInv', Grown(logs, chosen, logs', chosen'),
           UNCHANGED <<node, images, synced, disk, given, fault>>
    PROVE  LInv'
  <1>1. NodeInv(node, logs, chosen)'
    BY NodeGrows DEF LInv
  <1>2. DiskInv'
    <2>1. StoreInv(disk, logs, chosen)'
      BY StoreGrows DEF LInv, DiskInv
    <2>2. \A k \in (synced + 1)..Len(images) : StoreInv(images[k], logs', chosen')
      BY StoreGrows DEF LInv, DiskInv
    <2> QED BY <2>1, <2>2 DEF LInv, DiskInv
  <1>3. node.since \in Nat /\ node.since <= Len(chosen)
    <2>1. PICK l \in logs : NodeFits(node, l, chosen)
      BY DEF LInv, NodeInv
    <2>2. node.committed <= Len(chosen)
      BY <2>1 DEF NodeFits, Agree
    <2>3. node.since \in Nat /\ node.committed \in Nat /\ node.since <= node.committed
      BY NodeNumbers DEF LInv
    <2>4. Len(chosen) \in Nat
      BY DEF Grown, LogsT
    <2> QED BY <2>2, <2>3, <2>4
  <1>4. SubSeq(chosen', 1, node.since) = SubSeq(chosen, 1, node.since)
    <2>1. chosen \in Seq(Nat \ {0}) /\ chosen' \in Seq(Nat \ {0}) /\ Len(chosen) <= Len(chosen')
      BY DEF Grown, LogsT
    <2>2. \A i \in 1..Len(chosen) : chosen'[i] = chosen[i]
      BY DEF Grown
    <2> QED BY <1>3, <2>1, <2>2
  <1>5. (given = SubSeq(chosen, 1, node.since))'
    BY <1>4 DEF LInv
  <1> QED BY <1>1, <1>2, <1>5 DEF LInv

\* A log m that takes over the first k entries of l, which is one of ls, and goes on with
\* entries of term t that nobody else has there, goes with ls.
LEMMA MatchingGrows ==
    ASSUME NEW ls, Matching(ls), \A l \in ls : l \in Seq(Nat \ {0}),
           NEW l \in ls, NEW m \in Seq(Nat \ {0}), NEW k \in Nat, k <= Len(l), Len(m) = k + 1,
           \A i \in 1..k : m[i] = l[i],
           \A p \in ls : k + 1 <= Len(p) /\ p[k + 1] = m[k + 1] => k + 1 <= Len(l) /\ l[k + 1] = m[k + 1]
    PROVE  Matching(ls \cup {m})
  <1>1. ASSUME NEW p \in ls, NEW i \in Nat, i >= 1, i <= Len(p), i <= Len(m), p[i] = m[i]
        PROVE  \A j \in 1..i : p[j] = m[j]
    <2>1. Len(p) \in Nat /\ Len(l) \in Nat
      OBVIOUS
    <2>2. i <= Len(l) /\ l[i] = m[i]
      <3>1. CASE i <= k
        BY <1>1, <2>1, <3>1
      <3>2. CASE i > k
        <4>1. i = k + 1
          BY <1>1, <3>2
        <4> QED BY <1>1, <4>1
      <3> QED BY <3>1, <3>2
    <2>3. i \in 1..Len(p) /\ i <= Len(l) /\ p[i] = l[i]
      BY <1>1, <2>1, <2>2
    <2>4. \A j \in 1..i : p[j] = l[j]
      BY <2>3 DEF Matching
    <2>5. ASSUME NEW j \in 1..i PROVE p[j] = m[j]
      <3>1. CASE j <= k
        BY <2>4, <3>1
      <3>2. CASE j > k
        <4>1. j = i
          BY <1>1, <3>2
        <4> QED BY <1>1, <4>1
      <3> QED BY <3>1, <3>2
    <2> QED BY <2>5
  <1>2. ASSUME NEW p \in ls \cup {m}, NEW q \in ls \cup {m}, NEW i \in 1..Len(p), i <= Len(q), p[i] = q[i]
        PROVE  \A j \in 1..i : p[j] = q[j]
    <2>0. i \in Nat /\ i >= 1 /\ i <= Len(p)
      <3>1. Len(p) \in Nat
        OBVIOUS
      <3> QED BY <3>1
    <2>1. CASE p = m /\ q = m
      BY <2>1
    <2>2. CASE p = m /\ q \in ls
      BY <1>1, <1>2, <2>0, <2>2
    <2>3. CASE p \in ls /\ q = m
      BY <1>1, <1>2, <2>0, <2>3
    <2>4. CASE p \in ls /\ q \in ls
      BY <1>2, <2>4 DEF Matching
    <2> QED BY <2>1, <2>2, <2>3, <2>4
  <1> QED BY <1>2 DEF Matching

\* The types of the group's variables
LEMMA EnvTypes ==
    ASSUME EnvInv
    PROVE  /\ term \in Nat /\ lead \in logs /\ lead \in Seq(Nat \ {0}) /\ Len(lead) \in Nat
           /\ chosen \in Seq(Nat \ {0}) /\ Len(chosen) \in Nat /\ Len(chosen) <= Len(lead)
           /\ \A i \in 1..Len(chosen) : lead[i] = chosen[i]
           /\ \A l \in logs : l \in Seq(Nat \ {0}) /\ Len(l) \in Nat
           /\ LogsT(logs, chosen) /\ Matching(logs)
  BY DEF EnvInv, LogsT, Agree

\* An election changes nothing that nodes hold: earlier logs remain the logs of leaders.
LEMMA NewLeaderKeeps ==
    ASSUME LInv, NewLeader
    PROVE  LInv'
  <1>0. EnvInv
    BY DEF LInv
  <1>1. PICK l \in logs : \E k \in Len(chosen)..MinOf2(Len(l), MaxIndex - 1) :
              SubSeq(l, 1, Len(chosen)) = chosen /\ lead' = Append(SubSeq(l, 1, k), term + 1)
    BY DEF NewLeader
  <1>2. PICK k \in Len(chosen)..MinOf2(Len(l), MaxIndex - 1) :
              SubSeq(l, 1, Len(chosen)) = chosen /\ lead' = Append(SubSeq(l, 1, k), term + 1)
    BY <1>1
  <1>3. term' = term + 1 /\ logs' = logs \cup {lead'} /\ chosen' = chosen
        /\ UNCHANGED <<node, images, synced, disk, given, fault>>
    BY DEF NewLeader
  <1>4. Len(l) \in Nat /\ Len(chosen) \in Nat /\ term \in Nat /\ l \in Seq(Nat \ {0})
    BY <1>0, EnvTypes
  <1>5. k \in Nat /\ k <= Len(l) /\ Len(chosen) <= k
    BY <1>2, <1>4, LogStoreAssumption DEF MinOf2
  <1>6. SubSeq(l, 1, k) \in Seq(Nat \ {0}) /\ Len(SubSeq(l, 1, k)) = k /\ \A i \in 1..k : SubSeq(l, 1, k)[i] = l[i]
    BY <1>4, <1>5
  <1>7. /\ lead' \in Seq(Nat \ {0}) /\ Len(lead') = k + 1 /\ lead'[k + 1] = term + 1
        /\ \A i \in 1..k : lead'[i] = l[i]
    BY <1>2, <1>4, <1>5, <1>6
  <1>8. \A p \in logs : k + 1 <= Len(p) => p[k + 1] # term + 1
    <2>1. ASSUME NEW p \in logs, k + 1 <= Len(p) PROVE p[k + 1] # term + 1
      <3>1. k + 1 \in 1..Len(p) /\ p \in Seq(Nat \ {0})
        BY <1>0, <1>5, <2>1, EnvTypes
      <3>2. p[k + 1] <= term /\ p[k + 1] \in Nat
        BY <1>0, <3>1 DEF EnvInv
      <3> QED BY <1>4, <3>2
    <2> QED BY <2>1
  <1>9. Matching(logs')
    <2>1. Matching(logs \cup {lead'})
      <3>1. \A p \in logs : k + 1 <= Len(p) /\ p[k + 1] = lead'[k + 1] => k + 1 <= Len(l) /\ l[k + 1] = lead'[k + 1]
        BY <1>7, <1>8
      <3> HIDE DEF Matching
      <3> QED BY <1>0, <1>5, <1>7, <3>1, EnvTypes, MatchingGrows
    <2> QED BY <1>3, <2>1
  <1>10. LogsT(logs, chosen)'
    BY <1>0, <1>3, <1>7 DEF EnvInv, LogsT
  <1>11. \A p \in logs' : \A i \in 1..Len(p) : p[i] <= term' /\ (p[i] = term' => i <= Len(lead') /\ lead'[i] = term')
    <2>1. ASSUME NEW p \in logs, NEW i \in 1..Len(p) PROVE p[i] <= term /\ p[i] \in Nat
      BY <1>0, EnvTypes DEF EnvInv
    <2>2. ASSUME NEW i \in 1..Len(lead')
          PROVE  lead'[i] <= term' /\ (lead'[i] = term' => i <= Len(lead'))
      <3>1. CASE i = k + 1
        BY <1>3, <1>4, <1>7, <3>1
      <3>2. CASE i # k + 1
        <4>1. i \in 1..k /\ i \in 1..Len(l)
          BY <1>4, <1>5, <1>7, <3>2
        <4>2. l[i] <= term /\ l[i] \in Nat
          BY <2>1, <4>1
        <4> QED BY <1>3, <1>4, <1>7, <4>1, <4>2
      <3> QED BY <3>1, <3>2
    <2> QED BY <1>3, <1>4, <2>1, <2>2
  <1>12. Len(chosen) <= Len(lead') /\ Agree(lead', chosen, Len(chosen))
    <2>1. \A i \in 1..Len(chosen) : lead'[i] = chosen[i]
      <3> TAKE i \in 1..Len(chosen)
      <3>1. lead'[i] = l[i]
        BY <1>4, <1>5, <1>7
      <3>2. SubSeq(l, 1, Len(chosen))[i] = l[i]
        BY <1>4, <1>5
      <3> QED BY <1>2, <3>1, <3>2
    <2> QED BY <1>4, <1>5, <1>7, <2>1 DEF Agree
  <1>13. EnvInv'
    <2>1. term' \in Nat /\ lead' \in logs'
      BY <1>3, <1>4
    <2>2. (Len(chosen) <= Len(lead) /\ Agree(lead, chosen, Len(chosen)))'
      BY <1>3, <1>12
    <2> QED BY <1>9, <1>10, <1>11, <2>1, <2>2 DEF EnvInv
  <1>14. Grown(logs, chosen, logs', chosen')
    BY <1>0, <1>3, <1>4, <1>10, EnvTypes DEF Grown
  <1> QED BY <1>3, <1>13, <1>14, GroupStep

\* Nor does an entry the leader adds.
LEMMA LeaderAppendsKeeps ==
    ASSUME LInv, LeaderAppends
    PROVE  LInv'
  <1>0. EnvInv
    BY DEF LInv
  <1>1. lead' = Append(lead, term) /\ term > 0 /\ term' = term /\ logs' = logs \cup {lead'} /\ chosen' = chosen
        /\ UNCHANGED <<node, images, synced, disk, given, fault>>
    BY DEF LeaderAppends
  <1> DEFINE k == Len(lead)
  <1>2. k \in Nat /\ Len(chosen) \in Nat /\ term \in Nat /\ lead \in Seq(Nat \ {0}) /\ lead \in logs
    BY <1>0, EnvTypes
  <1>3. /\ lead' \in Seq(Nat \ {0}) /\ Len(lead') = k + 1 /\ lead'[k + 1] = term
        /\ \A i \in 1..k : lead'[i] = lead[i]
    BY <1>1, <1>2
  <1>4. \A p \in logs : k + 1 <= Len(p) => p[k + 1] # term
    <2>1. ASSUME NEW p \in logs, k + 1 <= Len(p) PROVE p[k + 1] # term
      <3>1. k + 1 \in 1..Len(p)
        BY <1>0, <1>2, <2>1, EnvTypes
      <3>2. p[k + 1] = term => k + 1 <= Len(lead)
        BY <1>0, <3>1 DEF EnvInv
      <3> QED BY <1>2, <3>2
    <2> QED BY <2>1
  <1>5. Matching(logs')
    <2>1. Matching(logs \cup {lead'})
      <3>1. \A p \in logs : k + 1 <= Len(p) /\ p[k + 1] = lead'[k + 1] => k + 1 <= Len(lead) /\ lead[k + 1] = lead'[k + 1]
        BY <1>3, <1>4
      <3> HIDE DEF Matching
      <3>2. k <= Len(lead) /\ Matching(logs) /\ \A l \in logs : l \in Seq(Nat \ {0})
        BY <1>0, <1>2, EnvTypes
      <3> HIDE DEF k
      <3> QED BY <1>2, <1>3, <3>1, <3>2, MatchingGrows
    <2> QED BY <1>1, <2>1
  <1>6. LogsT(logs, chosen)'
    BY <1>0, <1>1, <1>3 DEF EnvInv, LogsT
  <1>7. \A p \in logs' : \A i \in 1..Len(p) : p[i] <= term' /\ (p[i] = term' => i <= Len(lead') /\ lead'[i] = term')
    <2>1. ASSUME NEW p \in logs, NEW i \in 1..Len(p)
          PROVE  p[i] <= term /\ (p[i] = term => i \in 1..k /\ lead[i] = term)
      BY <1>0, <1>2, EnvTypes DEF EnvInv
    <2>2. ASSUME NEW i \in 1..Len(lead') PROVE lead'[i] <= term'
      <3>1. CASE i = k + 1
        BY <1>1, <1>2, <1>3, <3>1
      <3>2. CASE i # k + 1
        <4>1. i \in 1..k
          BY <1>2, <1>3, <3>2
        <4> QED BY <1>1, <1>2, <1>3, <2>1, <4>1
      <3> QED BY <3>1, <3>2
    <2>3. ASSUME NEW p \in logs, NEW i \in 1..Len(p), p[i] = term PROVE i <= Len(lead') /\ lead'[i] = term
      <3>1. i \in 1..k /\ lead[i] = term
        BY <2>1, <2>3
      <3> QED BY <1>2, <1>3, <3>1
    <2>4. ASSUME NEW i \in 1..Len(lead') PROVE i <= Len(lead')
      BY <1>2, <1>3
    <2> QED BY <1>1, <2>1, <2>2, <2>3, <2>4
  <1>8. Len(chosen) <= Len(lead') /\ Agree(lead', chosen, Len(chosen))
    BY <1>0, <1>2, <1>3, EnvTypes DEF Agree
  <1>9. EnvInv'
    <2>1. term' \in Nat /\ lead' \in logs'
      BY <1>1, <1>2
    <2>2. (Len(chosen) <= Len(lead) /\ Agree(lead, chosen, Len(chosen)))'
      BY <1>1, <1>8
    <2> QED BY <1>5, <1>6, <1>7, <2>1, <2>2 DEF EnvInv
  <1>10. Grown(logs, chosen, logs', chosen')
    BY <1>0, <1>1, <1>2, <1>6, EnvTypes DEF Grown
  <1> QED BY <1>1, <1>9, <1>10, GroupStep

\* Committing an entry extends what is chosen.
LEMMA LeaderCommitsKeeps ==
    ASSUME LInv, LeaderCommits
    PROVE  LInv' /\ Len(chosen') > Len(chosen) /\ SubSeq(chosen', 1, Len(chosen)) = chosen
  <1>0. EnvInv
    BY DEF LInv
  <1>1. PICK k \in (Len(chosen) + 1)..Len(lead) : chosen' = SubSeq(lead, 1, k)
    BY DEF LeaderCommits
  <1>2. UNCHANGED <<term, lead, logs, node, images, synced, disk, given, fault>>
    BY DEF LeaderCommits
  <1>3. Len(chosen) \in Nat /\ Len(lead) \in Nat /\ lead \in Seq(Nat \ {0}) /\ chosen \in Seq(Nat \ {0})
        /\ \A i \in 1..Len(chosen) : lead[i] = chosen[i]
    BY <1>0, EnvTypes
  <1>4. /\ chosen' \in Seq(Nat \ {0}) /\ Len(chosen') = k /\ k > Len(chosen) /\ k <= Len(lead)
        /\ \A i \in 1..k : chosen'[i] = lead[i]
    BY <1>1, <1>3
  <1>5. ASSUME NEW i \in 1..Len(chosen) PROVE chosen'[i] = chosen[i]
    <2>1. i \in 1..k
      BY <1>3, <1>4
    <2>2. chosen'[i] = lead[i] /\ lead[i] = chosen[i]
      BY <1>3, <1>4, <2>1
    <2> QED BY <2>2
  <1>6. Grown(logs, chosen, logs', chosen')
    BY <1>0, <1>2, <1>3, <1>4, <1>5 DEF Grown, EnvInv, LogsT
  <1>7. EnvInv'
    BY <1>0, <1>2, <1>4, <1>6 DEF EnvInv, Agree, Grown
  <1>8. SubSeq(chosen', 1, Len(chosen)) = chosen
    BY <1>3, <1>4, <1>5
  <1> QED BY <1>2, <1>3, <1>4, <1>6, <1>7, <1>8, GroupStep

\* A node is the record of its fields.
LEMMA NodeRecord ==
    ASSUME NEW n, NodeT(n)
    PROVE  n \in [unstable : {n.unstable}, store : {n.store}, committed : {n.committed},
                  persisted : {n.persisted}, applied : {n.applied}, records : {n.records},
                  since : {n.since}, prev_commit : {n.prev_commit}]
  BY DEF NodeT

\* What RaftLog::commit_to changes
LEMMA CommitToFields ==
    ASSUME NEW n, NodeT(n), NEW i \in Nat
    PROVE  /\ CommitTo(n, i).committed = MaxOf2(n.committed, i) /\ MaxOf2(n.committed, i) \in Nat
           /\ CommitTo(n, i).unstable = n.unstable /\ CommitTo(n, i).store = n.store
           /\ CommitTo(n, i).persisted = n.persisted /\ CommitTo(n, i).applied = n.applied
           /\ CommitTo(n, i).records = n.records /\ CommitTo(n, i).since = n.since
           /\ CommitTo(n, i).prev_commit = n.prev_commit
           /\ NodeT(CommitTo(n, i))
  <1>1. MaxOf2(n.committed, i) \in Nat
    BY DEF NodeT, MaxOf2
  <1>2. /\ CommitTo(n, i).committed = MaxOf2(n.committed, i)
        /\ CommitTo(n, i).unstable = n.unstable /\ CommitTo(n, i).store = n.store
        /\ CommitTo(n, i).persisted = n.persisted /\ CommitTo(n, i).applied = n.applied
        /\ CommitTo(n, i).records = n.records /\ CommitTo(n, i).since = n.since
        /\ CommitTo(n, i).prev_commit = n.prev_commit
    BY NodeRecord DEF CommitTo
  <1>3. CommitTo(n, i) = [unstable |-> n.unstable, store |-> n.store, committed |-> MaxOf2(n.committed, i),
                         persisted |-> n.persisted, applied |-> n.applied, records |-> n.records,
                         since |-> n.since, prev_commit |-> n.prev_commit]
    BY NodeRecord DEF CommitTo
  <1> QED BY <1>1, <1>2, <1>3 DEF NodeT

\* Nodes with the same storage and unstable entries have the same log.
LEMMA SameLog ==
    ASSUME NEW n, NEW m, m.unstable = n.unstable, m.store = n.store
    PROVE  FirstIndex(m) = FirstIndex(n) /\ LastIndex(m) = LastIndex(n)
  BY DEF FirstIndex, LastIndex

\* The commit index moves up to i, an entry of the log.
LEMMA CommitKeeps ==
    ASSUME NEW n, NEW ls, NEW ch, NodeInv(n, ls, ch), NEW l \in ls, NodeFits(n, l, ch),
           NEW i \in Nat, i <= n.committed \/ i <= LastIndex(n), Agree(l, ch, MaxOf2(n.committed, i))
    PROVE  NodeInv(CommitTo(n, i), ls, ch)
  <1> DEFINE m == CommitTo(n, i)
             c == MaxOf2(n.committed, i)
  <1>0. IsNode(n, ch) /\ NodeT(n)
    BY DEF NodeInv, IsNode
  <1>1. /\ m.committed = c /\ c \in Nat /\ m.unstable = n.unstable /\ m.store = n.store
        /\ m.persisted = n.persisted /\ m.applied = n.applied /\ m.records = n.records /\ m.since = n.since
        /\ m.prev_commit = n.prev_commit /\ NodeT(m)
    BY <1>0, CommitToFields
  <1>2. FirstIndex(m) = FirstIndex(n) /\ LastIndex(m) = LastIndex(n) /\ LastIndex(n) \in Nat
    BY <1>0, <1>1, SameLog, NodeEnds
  <1>3. n.committed \in Nat /\ n.committed <= LastIndex(n) /\ n.since \in Nat /\ n.prev_commit \in Nat
        /\ n.prev_commit <= n.committed /\ n.since <= n.committed
    BY NodeNumbers
  <1>4. n.committed <= c /\ c <= LastIndex(n) /\ n.prev_commit <= c /\ n.since <= c
    BY <1>2, <1>3 DEF MaxOf2
  <1> HIDE DEF m, c
  <1>5. Marks(m)
    BY <1>0, <1>1, <1>2, <1>4 DEF IsNode, Marks
  <1>6. SnapshotAhead(m, ch)
    <2>1. SnapshotAhead(n, ch) /\ n.unstable.snapshot.index \in Nat
      BY <1>0, UnstableEnds DEF IsNode, NodeT
    <2>2. n.unstable.snapshot.index <= n.committed => n.unstable.snapshot.index <= c
      BY <1>1, <1>3, <1>4, <2>1
    <2> QED BY <1>1, <2>1, <2>2 DEF SnapshotAhead
  <1>7. NoGap(m)
    BY <1>0, <1>1 DEF IsNode, NoGap
  <1>8. RecordsInv(m)
    <2>1. \A k \in 1..Len(n.records) : n.records[k].snapshot.index <= n.committed => n.records[k].snapshot.index <= c
      <3> TAKE k \in 1..Len(n.records)
      <3>1. n.records[k] \in RecordT
        BY <1>0 DEF NodeT
      <3>2. n.records[k].snapshot.index \in Nat
        BY <3>1 DEF RecordT
      <3> QED BY <1>1, <1>3, <1>4, <3>2
    <2>2. RecordsInv(n)
      BY <1>0 DEF IsNode
    <2> QED BY <1>1, <2>1, <2>2 DEF RecordsInv
  <1>9. NodeFits(m, l, ch)
    BY <1>1, <1>2 DEF NodeFits, c
  <1> QED BY <1>1, <1>5, <1>6, <1>7, <1>8, <1>9 DEF NodeInv, IsNode, m

\* A step that changes the log of the node and its marks, not what was handed out or stored
LEMMA NodeStep ==
    ASSUME LInv, NEW n, NodeInv(n, logs, chosen), n.store = node.store, n.records = node.records,
           n.since = node.since, node' = n, fault' = FALSE, UNCHANGED <<envVars, images, synced, disk, given>>
    PROVE  LInv'
  <1>1. UNCHANGED <<term, lead, logs, chosen, images, synced, disk, given>>
    BY DEF envVars
  <1>2. EnvInv'
    BY <1>1 DEF LInv, EnvInv
  <1>3. NodeInv(node, logs, chosen)'
    BY <1>1
  <1>4. DiskInv'
    BY <1>1 DEF LInv, DiskInv
  <1> QED BY <1>1, <1>2, <1>3, <1>4 DEF LInv

\* ents are the entries lo to hi of log l.
Run(ents, l, lo, hi) ==
    /\ ents \in Seq(EntryT) /\ Len(ents) = hi - lo + 1
    /\ \A k \in 1..Len(ents) : ents[k].index = lo + k - 1 /\ ents[k].term = l[lo + k - 1]

\* The entries of an append are a run of the leader's log.
LEMMA LeaderEntriesRun ==
    ASSUME EnvInv, NEW lo \in Nat \ {0}, NEW hi \in Nat, lo <= hi + 1, hi <= Len(lead)
    PROVE  Run(LeaderEntries(lo, hi), lead, lo, hi)
  <1>1. lead \in Seq(Nat \ {0}) /\ Len(lead) \in Nat
    BY EnvTypes
  <1>2. hi - lo + 1 \in Nat
    OBVIOUS
  <1> DEFINE e(k) == [index |-> lo + k - 1, term |-> lead[lo + k - 1]]
             m == hi - lo + 1
  <1>3. \A k \in 1..m : e(k) \in EntryT
    <2> TAKE k \in 1..m
    <2>1. lo + k - 1 \in 1..Len(lead)
      BY <1>1, <1>2
    <2>2. lead[lo + k - 1] \in Nat \ {0} /\ lo + k - 1 \in Nat \ {0}
      BY <1>1, <2>1
    <2> QED BY <2>2 DEF EntryT
  <1>4. LeaderEntries(lo, hi) = [k \in 1..m |-> e(k)]
    BY DEF LeaderEntries
  <1>5. [k \in 1..m |-> e(k)] \in Seq(EntryT)
    <2> HIDE DEF e, m
    <2>1. [k \in 1..m |-> e(k)] \in [1..m -> EntryT]
      BY <1>3
    <2>2. m \in Nat
      BY <1>2 DEF m
    <2> QED BY <2>1, <2>2
  <1>6. Len([k \in 1..m |-> e(k)]) = m
    BY <1>2, <1>5
  <1>7. \A k \in 1..m : [j \in 1..m |-> e(j)][k].index = lo + k - 1 /\ [j \in 1..m |-> e(j)][k].term = lead[lo + k - 1]
    OBVIOUS
  <1> HIDE DEF e
  <1> QED BY <1>4, <1>5, <1>6, <1>7 DEF Run

\* The log of n has the terms of l from lo on up to c, or up to hi if c is 0.
ConflictAt(n, l, lo, hi, c) ==
    \/ c = 0 /\ \A i \in lo..hi : TermAt(n, i) = l[i]
    \/ c \in lo..hi /\ \A i \in lo..(c - 1) : TermAt(n, i) = l[i]

\* RaftLog::find_conflict finds the first entry that the log does not have.
LEMMA ConflictIs ==
    ASSUME NEW n, NEW ents, NEW l, NEW lo \in Nat \ {0}, NEW hi \in Nat, lo <= hi + 1, Run(ents, l, lo, hi)
    PROVE  ConflictAt(n, l, lo, hi, FindConflict(n, ents))
  <1> DEFINE missing == {k \in 1..Len(ents) : ~MatchTerm(n, ents[k].index, ents[k].term)}
  <1>1. Len(ents) = hi - lo + 1 /\ hi - lo + 1 \in Nat
    BY DEF Run
  <1>2. \A i \in lo..hi : i - lo + 1 \in 1..Len(ents) /\ (i - lo + 1 \notin missing => TermAt(n, i) = l[i])
    <2> TAKE i \in lo..hi
    <2>1. i - lo + 1 \in 1..Len(ents) /\ lo + (i - lo + 1) - 1 = i
      BY <1>1
    <2>2. ents[i - lo + 1].index = i /\ ents[i - lo + 1].term = l[i]
      BY <2>1 DEF Run
    <2> QED BY <2>1, <2>2 DEF MatchTerm
  <1>3. FindConflict(n, ents) = IF missing = {} THEN 0 ELSE ents[CHOOSE k \in missing : \A j \in missing : k <= j].index
    BY DEF FindConflict
  <1>4. missing \subseteq 1..Len(ents)
    OBVIOUS
  <1> HIDE DEF missing
  <1>5. CASE missing = {}
    BY <1>2, <1>3, <1>5 DEF ConflictAt
  <1>6. CASE missing # {}
    <2>1. \E k \in missing : \A j \in missing : k <= j
      <3>1. missing \in SUBSET Nat
        BY <1>1, <1>4
      <3> QED BY <1>6, <3>1, LeastElement
    <2> DEFINE k == CHOOSE kk \in missing : \A j \in missing : kk <= j
    <2>2. k \in missing /\ \A j \in missing : k <= j
      BY <2>1
    <2>3. FindConflict(n, ents) = ents[k].index
      BY <1>3, <1>6
    <2> HIDE DEF k
    <2>4. k \in 1..Len(ents) /\ ents[k].index = lo + k - 1
      BY <1>4, <2>2 DEF Run
    <2>5. FindConflict(n, ents) = lo + k - 1 /\ FindConflict(n, ents) \in lo..hi
      BY <1>1, <2>3, <2>4
    <2>6. ASSUME NEW i \in lo..(FindConflict(n, ents) - 1) PROVE TermAt(n, i) = l[i]
      <3>1. i \in lo..hi /\ i - lo + 1 < k /\ i - lo + 1 \in Nat
        BY <1>1, <2>4, <2>5
      <3>2. i - lo + 1 \notin missing
        BY <1>1, <2>2, <2>4, <3>1
      <3> QED BY <1>2, <3>1, <3>2
    <2> QED BY <2>5, <2>6 DEF ConflictAt
  <1> QED BY <1>5, <1>6

\* The entries of a run from c on
LEMMA RunRest ==
    ASSUME NEW ents, NEW l, NEW lo \in Nat \ {0}, NEW hi \in Nat, Run(ents, l, lo, hi), NEW c \in lo..hi
    PROVE  ents[1].index = lo /\ Run(SubSeq(ents, c - ents[1].index + 1, Len(ents)), l, c, hi)
  <1>1. Len(ents) = hi - lo + 1 /\ ents \in Seq(EntryT) /\ 1 \in 1..Len(ents)
    BY DEF Run
  <1>2. ents[1].index = lo
    <2>1. ents[1].index = lo + 1 - 1
      BY <1>1 DEF Run
    <2> QED BY <2>1
  <1> DEFINE a == c - lo + 1
             r == SubSeq(ents, a, Len(ents))
  <1>3. a \in 1..Len(ents)
    BY <1>1
  <1>4. r \in Seq(EntryT) /\ Len(r) = hi - c + 1 /\ \A k \in 1..Len(r) : r[k] = ents[a + k - 1]
    BY <1>1, <1>3
  <1>5. ASSUME NEW k \in 1..Len(r) PROVE r[k].index = c + k - 1 /\ r[k].term = l[c + k - 1]
    <2>1. a + k - 1 \in 1..Len(ents) /\ lo + (a + k - 1) - 1 = c + k - 1
      BY <1>1, <1>3, <1>4
    <2>2. ents[a + k - 1].index = lo + (a + k - 1) - 1 /\ ents[a + k - 1].term = l[lo + (a + k - 1) - 1]
      BY <2>1 DEF Run
    <2> QED BY <1>4, <2>1, <2>2
  <1>6. Run(r, l, c, hi)
    BY <1>4, <1>5 DEF Run
  <1> QED BY <1>2, <1>6

\* The unstable entries u are those of l before c, and c is not after the end of them.
GoesOn(u, l, c) ==
    /\ c <= u.offset + Len(u.entries) /\ (HasSnapshot(u) => c >= u.offset)
    /\ \A k \in 1..Len(u.entries) : u.offset + k - 1 < c => u.entries[k].term = l[u.offset + k - 1]

\* v is u, with everything from c on replaced by the entries of l up to hi.
Replaced(u, v, l, c, hi) ==
    /\ IsUnstable(v) /\ v.snapshot = u.snapshot /\ v.offset = MinOf2(u.offset, c)
    /\ v.offset + Len(v.entries) - 1 = hi /\ v.entries # <<>>
    /\ \A k \in 1..Len(v.entries) : v.entries[k].term = l[v.offset + k - 1]

\* What Unstable::truncate_and_append makes of entries c to hi of log l
LEMMA TruncateRun ==
    ASSUME NEW u, IsUnstable(u), NEW ents, NEW l, NEW c \in Nat \ {0}, NEW hi \in Nat, c <= hi, Run(ents, l, c, hi),
           GoesOn(u, l, c)
    PROVE  Replaced(u, TruncateAndAppend(u, ents), l, c, hi)
  <1> DEFINE off == u.offset
             len == Len(u.entries)
             v == TruncateAndAppend(u, ents)
  <1>0. /\ c <= off + len /\ (HasSnapshot(u) => c >= off)
        /\ \A k \in 1..len : off + k - 1 < c => u.entries[k].term = l[off + k - 1]
    BY DEF GoesOn
  <1>1. /\ off \in Nat /\ off > 0 /\ len \in Nat /\ u.entries \in Seq(EntryT)
        /\ u.snapshot \in [index : Nat, term : Nat]
        /\ u = [snapshot |-> u.snapshot, entries |-> u.entries, offset |-> u.offset]
        /\ HasSnapshot(u) => u.snapshot.index > 0 /\ off = u.snapshot.index + 1
    BY UnstableEnds
  <1>2. ents \in Seq(EntryT) /\ Len(ents) = hi - c + 1 /\ 1 \in 1..Len(ents) /\ ents # <<>>
    BY DEF Run
  <1>3. ents[1].index = c
    <2>1. ents[1].index = c + 1 - 1
      BY <1>2 DEF Run
    <2> QED BY <2>1
  <1>4. CASE c <= off
    <2>1. v = [snapshot |-> u.snapshot, entries |-> ents, offset |-> c]
      BY <1>1, <1>3, <1>4 DEF TruncateAndAppend
    <2> HIDE DEF v
    <2>2. v.snapshot = u.snapshot /\ v.entries = ents /\ v.offset = c
      BY <2>1
    <2>3. v \in [snapshot : [index : Nat, term : Nat], entries : Seq(EntryT), offset : Nat \ {0}]
      BY <1>1, <1>2, <2>1
    <2>4. HasSnapshot(v) => v.snapshot.index > 0 /\ v.offset = v.snapshot.index + 1
      <3>1. HasSnapshot(v) => HasSnapshot(u)
        BY <2>2 DEF HasSnapshot
      <3>2. HasSnapshot(u) => c = off
        BY <1>0, <1>1, <1>4
      <3> QED BY <1>1, <2>2, <3>1, <3>2
    <2>5. MinOf2(off, c) = c
      BY <1>1, <1>4 DEF MinOf2
    <2>6. c + Len(ents) - 1 = hi
      BY <1>2
    <2>7. \A k \in 1..Len(ents) : ents[k].index = c + k - 1 /\ ents[k].term = l[c + k - 1]
      BY DEF Run
    <2>8. IsUnstable(v)
      BY <2>2, <2>3, <2>4, <2>7 DEF IsUnstable
    <2>9. Replaced(u, v, l, c, hi)
      BY <1>2, <2>2, <2>5, <2>6, <2>7, <2>8 DEF Replaced
    <2> QED BY <2>9 DEF v
  <1>5. CASE c > off
    <2> DEFINE keep == SubSeq(u.entries, 1, c - off)
               new == keep \o ents
    <2>0. v = [u EXCEPT !.entries = new]
      <3>1. ~(c <= off)
        BY <1>1, <1>5
      <3> QED BY <1>3, <3>1, Zenon DEF TruncateAndAppend
    <2> HIDE DEF v
    <2>1. v = [snapshot |-> u.snapshot, entries |-> new, offset |-> off]
      <3> HIDE DEF new
      <3> QED BY <1>1, <2>0
    <2>2. v.snapshot = u.snapshot /\ v.entries = new /\ v.offset = off
      <3> HIDE DEF new, off
      <3> QED BY <2>1
    <2>3. c - off \in 1..len
      BY <1>0, <1>1, <1>5
    <2>4. keep \in Seq(EntryT) /\ Len(keep) = c - off /\ \A k \in 1..(c - off) : keep[k] = u.entries[k]
      BY <1>1, <2>3
    <2> HIDE DEF keep
    <2>5. /\ new \in Seq(EntryT) /\ Len(new) = (c - off) + (hi - c + 1)
          /\ \A k \in 1..Len(new) : new[k] = IF k <= c - off THEN keep[k] ELSE ents[k - (c - off)]
      BY <1>1, <1>2, <2>3, <2>4
    <2> HIDE DEF new
    <2>6. ASSUME NEW k \in 1..Len(new) PROVE new[k].index = off + k - 1 /\ new[k].term = l[off + k - 1]
      <3>1. k \in Nat /\ k > 0 /\ k <= hi - off + 1
        BY <1>1, <2>3, <2>5
      <3>2. CASE k <= c - off
        <4>1. new[k] = u.entries[k] /\ k \in 1..len
          BY <1>1, <2>3, <2>4, <2>5, <3>1, <3>2
        <4>2. u.entries[k].index = off + k - 1
          BY <4>1 DEF IsUnstable
        <4>3. off + k - 1 < c
          BY <1>1, <3>1, <3>2
        <4> QED BY <1>0, <4>1, <4>2, <4>3
      <3>3. CASE k > c - off
        <4>0. ~(k <= c - off) /\ k - (c - off) \in 1..Len(ents)
          BY <1>1, <1>2, <3>1, <3>3
        <4>1. new[k] = ents[k - (c - off)] /\ k - (c - off) \in 1..Len(ents)
          BY <2>5, <4>0
        <4>2. c + (k - (c - off)) - 1 = off + k - 1
          BY <1>1, <3>1
        <4>3. /\ ents[k - (c - off)].index = c + (k - (c - off)) - 1
              /\ ents[k - (c - off)].term = l[c + (k - (c - off)) - 1]
          BY <4>1 DEF Run
        <4> QED BY <4>1, <4>2, <4>3
      <3> QED BY <1>1, <3>1, <3>2, <3>3
    <2>7. MinOf2(off, c) = off
      BY <1>1, <1>5 DEF MinOf2
    <2>8. off + Len(new) - 1 = hi /\ new # <<>>
      BY <1>1, <2>3, <2>5
    <2>9. v \in [snapshot : [index : Nat, term : Nat], entries : Seq(EntryT), offset : Nat \ {0}]
      BY <1>1, <2>1, <2>5
    <2>10. HasSnapshot(v) => v.snapshot.index > 0 /\ v.offset = v.snapshot.index + 1
      <3>1. HasSnapshot(v) => HasSnapshot(u)
        BY <2>2 DEF HasSnapshot
      <3> QED BY <1>1, <2>2, <3>1
    <2>11. IsUnstable(v)
      BY <2>2, <2>6, <2>9, <2>10 DEF IsUnstable
    <2>12. Replaced(u, v, l, c, hi)
      BY <2>2, <2>6, <2>7, <2>8, <2>11 DEF Replaced
    <2> QED BY <2>12 DEF v
  <1> QED BY <1>1, <1>4, <1>5

\* m is n but for the unstable entries v and the index p that is persisted.
Rewritten(n, m, v, p) ==
    /\ m.unstable = v /\ m.persisted = p /\ m.store = n.store /\ m.committed = n.committed
    /\ m.applied = n.applied /\ m.records = n.records /\ m.since = n.since /\ m.prev_commit = n.prev_commit
    /\ NodeT(m)

\* What RaftLog::maybe_append changes
LEMMA ReplaceFields ==
    ASSUME NEW n, NodeT(n), NEW v, IsUnstable(v), NEW p \in Nat
    PROVE  Rewritten(n, [n EXCEPT !.unstable = v, !.persisted = p], v, p)
  <1> DEFINE m == [n EXCEPT !.unstable = v, !.persisted = p]
  <1>0. m = [n EXCEPT !.unstable = v, !.persisted = p]
    OBVIOUS
  <1> HIDE DEF m
  <1>1. m = [unstable |-> v, store |-> n.store, committed |-> n.committed, persisted |-> p, applied |-> n.applied,
             records |-> n.records, since |-> n.since, prev_commit |-> n.prev_commit]
    BY <1>0, NodeRecord
  <1>2. /\ m.unstable = v /\ m.persisted = p /\ m.store = n.store /\ m.committed = n.committed
        /\ m.applied = n.applied /\ m.records = n.records /\ m.since = n.since /\ m.prev_commit = n.prev_commit
    BY <1>1
  <1>3. Rewritten(n, m, v, p)
    BY <1>1, <1>2 DEF NodeT, Rewritten
  <1> QED BY <1>3 DEF m

\* The log of a node after RaftLog::maybe_append has replaced what follows the conflict c by
\* entries of the leader's log m
LEMMA ReplaceKeeps ==
    ASSUME NEW n, NEW ls, NEW ch, LogsT(ls, ch), NodeInv(n, ls, ch), NEW l \in ls, NodeFits(n, l, ch), NEW m \in ls,
           NEW ents, NEW lo \in Nat \ {0}, NEW hi \in Nat, Run(ents, m, lo, hi), hi <= Len(m), NEW c \in lo..hi,
           c > n.committed, c <= LastIndex(n) + 1, \A j \in 1..(c - 1) : l[j] = m[j],
           NEW r, r = ReplaceFrom(n, c, ents)
    PROVE  /\ CanReplaceFrom(n, c, ents) /\ NodeInv(r, ls, ch) /\ NodeFits(r, m, ch) /\ LastIndex(r) = hi
           /\ r.store = n.store /\ r.records = n.records /\ r.since = n.since /\ r.committed = n.committed
  <1> DEFINE rest == SubSeq(ents, c - ents[1].index + 1, Len(ents))
             u == n.unstable
             v == TruncateAndAppend(u, rest)
             off == n.unstable.offset
             len == Len(n.unstable.entries)
             p == MinOf2(n.persisted, c - 1)
  <1>0. c \in Nat \ {0} /\ c <= hi /\ IsNode(n, ch) /\ NodeT(n)
    BY DEF NodeInv, IsNode
  <1>1. Run(rest, m, c, hi)
    BY RunRest
  <1>2. /\ n.committed \in Nat /\ n.persisted \in Nat /\ n.applied \in Nat /\ n.since \in Nat /\ n.prev_commit \in Nat
        /\ n.prev_commit = n.store.commit /\ n.prev_commit <= n.committed
        /\ n.applied <= n.since /\ n.applied <= n.persisted /\ n.since <= n.committed
        /\ n.persisted < off /\ n.committed <= LastIndex(n)
        /\ StoreFirst(n.store) <= n.since + 1 /\ off \in Nat /\ len \in Nat /\ IsUnstable(u) /\ IsStore(n.store)
    BY NodeNumbers
  <1>3. LastIndex(n) = off + len - 1 /\ LastIndex(n) \in Nat
    BY <1>0, NodeEnds
  <1>4. c <= off + len /\ c - 1 >= n.committed
    <2> HIDE DEF off, len
    <2> QED BY <1>0, <1>2, <1>3
  <1>5. HasSnapshot(u) => c >= off
    <2>1. HasSnapshot(u) => u.snapshot.index <= n.committed /\ off = u.snapshot.index + 1 /\ u.snapshot.index \in Nat
      BY <1>0, <1>2, UnstableEnds DEF IsNode, SnapshotAhead
    <2>2. HasSnapshot(u) => off <= n.committed + 1
      BY <1>2, <2>1
    <2> QED BY <1>0, <1>2, <2>2
  <1>6. ASSUME NEW k \in 1..len, off + k - 1 < c PROVE u.entries[k].term = m[off + k - 1]
    <2>1. off > 0
      BY <1>2, UnstableEnds
    <2>2. off + k - 1 \in 1..(c - 1)
      BY <1>0, <1>2, <1>6, <2>1
    <2>3. u.entries[k].term = l[off + k - 1]
      BY DEF NodeFits
    <2> QED BY <2>2, <2>3
  <1>7. CanReplaceFrom(n, c, ents)
    <2>1. rest[1].index = c
      <3>1. 1 \in 1..Len(rest)
        BY <1>0, <1>1 DEF Run
      <3>2. rest[1].index = c + 1 - 1
        BY <1>1, <3>1 DEF Run
      <3> HIDE DEF rest
      <3> QED BY <3>2
    <2> HIDE DEF rest
    <2>2. CanAppend(n, rest)
      BY <1>4, <2>1 DEF CanAppend, CanTruncateAndAppend
    <2> QED BY <2>2 DEF CanReplaceFrom, rest
  <1>8. r = [n EXCEPT !.unstable = v, !.persisted = p]
    <2>1. c # 0
      BY <1>0
    <2> QED BY <2>1, Zenon DEF ReplaceFrom
  <1>9. p \in Nat /\ p <= n.persisted /\ p < c /\ (p = n.persisted \/ p = c - 1)
    BY <1>0, <1>2 DEF MinOf2
  <1>10. /\ IsUnstable(v) /\ v.snapshot = u.snapshot /\ v.offset = MinOf2(off, c)
         /\ v.offset + Len(v.entries) - 1 = hi /\ v.entries # <<>>
         /\ \A k \in 1..Len(v.entries) : v.entries[k].term = m[v.offset + k - 1]
    <2> HIDE DEF rest
    <2>1. GoesOn(u, m, c)
      BY <1>4, <1>5, <1>6 DEF GoesOn
    <2>2. Replaced(u, v, m, c, hi)
      BY <1>0, <1>1, <1>2, <2>1, TruncateRun
    <2> QED BY <2>2 DEF Replaced
  <1> HIDE DEF rest, v, p
  <1>11. /\ r.unstable = v /\ r.persisted = p /\ r.store = n.store /\ r.committed = n.committed
         /\ r.applied = n.applied /\ r.records = n.records /\ r.since = n.since /\ r.prev_commit = n.prev_commit
         /\ NodeT(r)
    <2>1. IsUnstable(v) /\ p \in Nat
      BY <1>9, <1>10
    <2>2. Rewritten(n, r, v, p)
      <3>1. Rewritten(n, [n EXCEPT !.unstable = v, !.persisted = p], v, p)
        BY <1>0, <2>1, ReplaceFields, Zenon
      <3> QED BY <1>8, <3>1, Zenon
    <2> QED BY <2>2 DEF Rewritten
  <1> DEFINE w == v.offset
  <1>12. w \in Nat /\ w <= off /\ w <= c /\ (w = off \/ w = c) /\ Len(v.entries) \in Nat
    BY <1>0, <1>2, <1>10, UnstableEnds DEF MinOf2
  <1>13. LastIndex(r) = hi
    <2>1. HasLast(r.unstable)
      BY <1>10, <1>11 DEF HasLast
    <2>2. UnstableLast(r.unstable) = hi
      BY <1>10, <1>11 DEF UnstableLast
    <2> QED BY <2>1, <2>2 DEF LastIndex
  <1>14. Marks(r)
    <2>1. p < w /\ n.applied <= p /\ n.committed <= hi
      BY <1>0, <1>2, <1>9, <1>12
    <2> QED BY <1>2, <1>11, <1>13, <2>1 DEF Marks
  <1>15. SnapshotAhead(r, ch)
    <2>1. SUFFICES ASSUME HasSnapshot(v) PROVE SnapshotAhead(r, ch)
      BY <1>11 DEF SnapshotAhead
    <2>2. HasSnapshot(u)
      BY <1>10, <2>1 DEF HasSnapshot
    <2>3. u.snapshot.index \in Nat
      BY <1>2, UnstableEnds
    <2>4. p <= u.snapshot.index
      BY <1>0, <1>2, <1>9, <2>2, <2>3 DEF IsNode, SnapshotAhead
    <2> QED BY <1>0, <1>10, <1>11, <2>2, <2>4 DEF IsNode, SnapshotAhead
  <1>16. NoGap(r)
    <2>1. SUFFICES ASSUME ~HasSnapshot(v)
                   PROVE  StoreFirst(n.store) <= w /\ w <= StoreLast(n.store) + 1
      BY <1>10, <1>11 DEF NoGap
    <2>2. ~HasSnapshot(u)
      BY <1>10, <2>1 DEF HasSnapshot
    <2>3. StoreFirst(n.store) <= off /\ off <= StoreLast(n.store) + 1
      BY <1>0, <2>2 DEF IsNode, NoGap
    <2>4. StoreFirst(n.store) \in Nat /\ StoreLast(n.store) \in Nat
      BY <1>2, StoreEnds
    <2>5. StoreFirst(n.store) <= n.committed + 1
      BY <1>2, <2>4
    <2> HIDE DEF w
    <2> QED BY <1>0, <1>2, <1>12, <2>3, <2>4, <2>5
  <1>17. RecordsInv(r)
    <2>1. RecordsInv(n)
      BY <1>0 DEF IsNode
    <2>2. ASSUME NEW k \in 1..Len(n.records), n.records[k].snapshot # NoSnapshot
          PROVE  n.records[k].snapshot.index <= n.committed /\ n.records[k].snapshot.index < w
      <3>1. n.records[k].snapshot.index <= n.committed /\ n.records[k].snapshot.index < off
        BY <2>1, <2>2 DEF RecordsInv
      <3>2. n.records[k] \in RecordT
        BY <1>0 DEF NodeT
      <3>3. n.records[k].snapshot.index \in Nat
        BY <3>2 DEF RecordT
      <3> HIDE DEF w, off
      <3> QED BY <1>0, <1>2, <1>12, <3>1, <3>3
    <2>3. n.since <= n.persisted => n.since <= p
      BY <1>0, <1>2, <1>9
    <2> QED BY <1>11, <2>1, <2>2, <2>3 DEF RecordsInv
  <1>18. NodeFits(r, m, ch)
    <2>1. n.committed <= Len(ch) /\ \A j \in 1..n.committed : l[j] = ch[j]
      BY DEF NodeFits, Agree
    <2>2. Agree(m, ch, n.committed)
      <3>1. ASSUME NEW j \in 1..n.committed PROVE m[j] = ch[j]
        <4>1. j \in 1..(c - 1)
          BY <1>0, <1>2
        <4> QED BY <2>1, <4>1
      <3> QED BY <2>1, <3>1 DEF Agree
    <2>3. ~HasSnapshot(v) => \A i \in StoreFirst(n.store)..(w - 1) : n.store.entries[i - StoreFirst(n.store) + 1].term = m[i]
      <3>1. SUFFICES ASSUME ~HasSnapshot(v), NEW i \in StoreFirst(n.store)..(w - 1)
                     PROVE  n.store.entries[i - StoreFirst(n.store) + 1].term = m[i]
        OBVIOUS
      <3>2. ~HasSnapshot(u)
        BY <1>10, <3>1 DEF HasSnapshot
      <3>3. StoreFirst(n.store) \in Nat /\ StoreFirst(n.store) > 0
        BY <1>2, StoreEnds
      <3>4. i \in StoreFirst(n.store)..(off - 1) /\ i \in 1..(c - 1)
        BY <1>0, <1>2, <1>12, <3>3
      <3>5. n.store.entries[i - StoreFirst(n.store) + 1].term = l[i]
        BY <3>2, <3>4 DEF NodeFits
      <3> QED BY <3>4, <3>5
    <2> QED BY <1>10, <1>11, <1>13, <2>2, <2>3 DEF NodeFits
  <1>19. NodeInv(r, ls, ch)
    BY <1>11, <1>14, <1>15, <1>16, <1>17, <1>18 DEF NodeInv, IsNode
  <1> QED BY <1>7, <1>11, <1>13, <1>18, <1>19

\* The node's log, a part of l, and the log m are the same up to an index at which RaftLog
\* finds m's term.
LEMMA MatchAgrees ==
    ASSUME NEW n, NEW ls, NEW ch, LogsT(ls, ch), Matching(ls), NodeInv(n, ls, ch), NEW l \in ls, NodeFits(n, l, ch),
           NEW m \in ls, Agree(m, ch, n.committed), NEW i \in Nat, i <= Len(m), i >= n.committed,
           MatchTerm(n, i, TermIn(m, i))
    PROVE  i <= LastIndex(n) /\ \A j \in 1..i : l[j] = m[j]
  <1>1. l \in Seq(Nat \ {0}) /\ m \in Seq(Nat \ {0}) /\ Len(l) \in Nat /\ Len(m) \in Nat
    BY DEF LogsT
  <1>2. n.committed \in Nat /\ n.committed <= LastIndex(n) /\ IsNode(n, ch)
    BY NodeNumbers DEF NodeInv
  <1>3. LastIndex(n) \in Nat /\ FirstIndex(n) \in Nat /\ FirstIndex(n) > 0 /\ FirstIndex(n) <= n.committed + 1
    BY <1>2, NodeEnds
  <1>4. LastIndex(n) <= Len(l) /\ \A j \in 1..n.committed : l[j] = ch[j]
    BY DEF NodeFits, Agree
  <1>5. CASE i = n.committed
    BY <1>2, <1>4, <1>5 DEF Agree
  <1>6. CASE i > n.committed
    <2>1. TermAt(n, i) = m[i] /\ m[i] \in Nat \ {0}
      BY <1>1, <1>2, <1>6 DEF MatchTerm, TermIn
    <2>2. /\ i \in FirstIndex(n)..LastIndex(n) => TermAt(n, i) = l[i]
          /\ i > LastIndex(n) => TermAt(n, i) = 0
      BY LogReads
    <2>3. i <= LastIndex(n)
      BY <1>3, <2>1, <2>2
    <2>4. i \in FirstIndex(n)..LastIndex(n)
      BY <1>2, <1>3, <1>6, <2>3
    <2>5. i \in 1..Len(l) /\ l[i] = m[i]
      BY <1>1, <1>2, <1>3, <1>4, <1>6, <2>1, <2>2, <2>4
    <2> QED BY <2>3, <2>5 DEF Matching
  <1> QED BY <1>2, <1>5, <1>6

\* handle_append_entries never overwrites committed entries, never leaves a gap and never
\* commits past the end of the log.
LEMMA ReceiveAppendKeeps ==
    ASSUME LInv, NEW prev \in 0..Len(lead), NEW last \in prev..Len(lead), NEW commit \in 0..Len(chosen),
           ReceiveAppend(prev, last, commit)
    PROVE  LInv'
  <1> DEFINE ents == LeaderEntries(prev + 1, last)
             conflict == FindConflict(node, ents)
             replaced == ReplaceFrom(node, conflict, ents)
             to == MinOf2(commit, last)
  <1>1. EnvInv /\ NodeInv(node, logs, chosen)
    BY DEF LInv
  <1>2. /\ lead \in logs /\ Len(lead) \in Nat /\ chosen \in Seq(Nat \ {0}) /\ Len(chosen) \in Nat
        /\ Len(chosen) <= Len(lead) /\ LogsT(logs, chosen) /\ Matching(logs)
        /\ \A i \in 1..Len(chosen) : lead[i] = chosen[i]
    BY <1>1, EnvTypes
  <1>3. prev \in Nat /\ last \in Nat /\ commit \in Nat /\ prev <= last /\ last <= Len(lead) /\ commit <= Len(chosen)
    BY <1>2
  <1>4. to \in Nat /\ to <= last /\ to <= Len(chosen)
    BY <1>2, <1>3 DEF MinOf2
  <1>5. PICK l \in logs : NodeFits(node, l, chosen)
    BY <1>1 DEF NodeInv
  <1>6. node.committed \in Nat /\ node.committed <= Len(chosen) /\ node.committed <= prev
    BY <1>1, <1>5, NodeNumbers DEF NodeFits, Agree, ReceiveAppend
  <1>7. Agree(lead, chosen, node.committed)
    BY <1>2, <1>6 DEF Agree
  <1>8. prev <= LastIndex(node) /\ \A j \in 1..prev : l[j] = lead[j]
    <2>1. MatchTerm(node, prev, TermIn(lead, prev))
      BY DEF ReceiveAppend
    <2> QED BY <1>1, <1>2, <1>3, <1>5, <1>6, <1>7, <2>1, MatchAgrees
  <1>9. Run(ents, lead, prev + 1, last)
    BY <1>1, <1>3, LeaderEntriesRun
  <1>10. /\ fault' = ~(CanReplaceFrom(node, conflict, ents) /\ CanCommitTo(replaced, to))
         /\ node' = (IF CanReplaceFrom(node, conflict, ents) /\ CanCommitTo(replaced, to)
                       THEN CommitTo(replaced, to) ELSE node)
         /\ UNCHANGED <<envVars, images, synced, disk, given>>
    BY DEF ReceiveAppend, Becomes
  <1> HIDE DEF ents, to
  <1>11. \A i \in Nat : /\ i > prev /\ i <= last
                        /\ \A j \in (prev + 1)..i : TermAt(node, j) = lead[j]
                        => i <= LastIndex(node) /\ \A j \in 1..i : l[j] = lead[j]
    <2> TAKE i \in Nat
    <2>1. SUFFICES ASSUME i > prev, i <= last, \A j \in (prev + 1)..i : TermAt(node, j) = lead[j]
                   PROVE  i <= LastIndex(node) /\ \A j \in 1..i : l[j] = lead[j]
      OBVIOUS
    <2>2. MatchTerm(node, i, TermIn(lead, i))
      BY <1>3, <2>1 DEF MatchTerm, TermIn
    <2>3. i <= Len(lead) /\ i >= node.committed
      BY <1>2, <1>3, <1>6, <2>1
    <2> QED BY <1>1, <1>2, <1>5, <1>7, <2>2, <2>3, MatchAgrees
  <1>12. \/ conflict = 0 /\ \A i \in (prev + 1)..last : TermAt(node, i) = lead[i]
         \/ conflict \in (prev + 1)..last /\ \A i \in (prev + 1)..(conflict - 1) : TermAt(node, i) = lead[i]
    <2>1. prev + 1 \in Nat \ {0} /\ prev + 1 <= last + 1
      BY <1>3
    <2>2. ConflictAt(node, lead, prev + 1, last, conflict)
      BY <1>3, <1>9, <2>1, ConflictIs
    <2> QED BY <2>2 DEF ConflictAt
  <1> DEFINE MovesTo(m) == /\ CanReplaceFrom(node, conflict, ents) /\ NodeInv(replaced, logs, chosen)
                           /\ m \in logs /\ NodeFits(replaced, m, chosen) /\ last <= LastIndex(replaced)
                           /\ LastIndex(replaced) \in Nat
                           /\ replaced.store = node.store /\ replaced.records = node.records
                           /\ replaced.since = node.since /\ replaced.committed = node.committed
                           /\ \A j \in 1..last : m[j] = lead[j]
  <1>13. conflict = 0 => \E m : MovesTo(m)
    <2>0. HAVE conflict = 0
    <2>1. replaced = node /\ CanReplaceFrom(node, conflict, ents)
      BY <2>0 DEF ReplaceFrom, CanReplaceFrom
    <2>2. last <= LastIndex(node) /\ \A j \in 1..last : l[j] = lead[j]
      <3>1. CASE last = prev
        BY <1>8, <3>1
      <3>2. CASE last > prev
        <4>1. \A i \in (prev + 1)..last : TermAt(node, i) = lead[i]
          BY <1>3, <1>12, <2>0
        <4> QED BY <1>3, <1>11, <3>2, <4>1
      <3> QED BY <1>3, <3>1, <3>2
    <2>3. LastIndex(node) \in Nat
      BY <1>1, NodeEnds DEF NodeInv
    <2>4. MovesTo(l)
      BY <1>1, <1>5, <2>1, <2>2, <2>3
    <2> QED BY <2>4
  <1>14. conflict # 0 => \E m : MovesTo(m)
    <2>0. HAVE conflict # 0
    <2>1. conflict \in (prev + 1)..last /\ \A i \in (prev + 1)..(conflict - 1) : TermAt(node, i) = lead[i]
      BY <1>12, <2>0
    <2> HIDE DEF conflict
    <2>2. conflict - 1 <= LastIndex(node) /\ \A j \in 1..(conflict - 1) : l[j] = lead[j]
      <3>1. CASE conflict - 1 = prev
        BY <1>8, <3>1
      <3>2. CASE conflict - 1 > prev
        BY <1>3, <1>11, <2>1, <3>2
      <3> QED BY <1>3, <2>1, <3>1, <3>2
    <2>3. LastIndex(node) \in Nat
      BY <1>1, NodeEnds DEF NodeInv
    <2>4. conflict > node.committed /\ conflict <= LastIndex(node) + 1
      BY <1>3, <1>6, <2>1, <2>2, <2>3
    <2>5. /\ CanReplaceFrom(node, conflict, ents) /\ NodeInv(replaced, logs, chosen)
          /\ NodeFits(replaced, lead, chosen) /\ LastIndex(replaced) = last
          /\ replaced.store = node.store /\ replaced.records = node.records
          /\ replaced.since = node.since /\ replaced.committed = node.committed
      <3>1. prev + 1 \in Nat \ {0}
        BY <1>3
      <3> QED BY <1>1, <1>2, <1>3, <1>5, <1>9, <2>1, <2>2, <2>4, <3>1, ReplaceKeeps
    <2> HIDE DEF replaced
    <2>6. MovesTo(lead)
      BY <1>2, <1>3, <2>5
    <2> QED BY <2>6
  <1>15. \E m : MovesTo(m)
    BY <1>13, <1>14
  <1> HIDE DEF conflict, replaced
  <1>16. PICK m : MovesTo(m)
    BY <1>15
  <1>17. to <= LastIndex(replaced)
    BY <1>3, <1>4, <1>16
  <1>18. CanCommitTo(replaced, to)
    BY <1>17 DEF CanCommitTo
  <1>19. Agree(m, chosen, MaxOf2(replaced.committed, to))
    <2> DEFINE c == MaxOf2(node.committed, to)
    <2>1. c \in Nat /\ c <= last /\ c <= Len(chosen)
      BY <1>2, <1>3, <1>4, <1>6 DEF MaxOf2
    <2> HIDE DEF c
    <2>2. ASSUME NEW j \in 1..c PROVE m[j] = chosen[j]
      <3>1. j \in 1..last /\ j \in 1..Len(chosen)
        BY <1>2, <1>3, <2>1
      <3> QED BY <1>2, <1>16, <3>1
    <2>3. Agree(m, chosen, c)
      BY <2>1, <2>2 DEF Agree
    <2> QED BY <1>16, <2>3 DEF c
  <1>20. NodeInv(CommitTo(replaced, to), logs, chosen)
    BY <1>4, <1>16, <1>17, <1>19, CommitKeeps
  <1>21. /\ CommitTo(replaced, to).store = node.store /\ CommitTo(replaced, to).records = node.records
         /\ CommitTo(replaced, to).since = node.since
    BY <1>4, <1>16, CommitToFields DEF NodeInv, IsNode
  <1>22. node' = CommitTo(replaced, to) /\ fault' = FALSE
    BY <1>10, <1>16, <1>18
  <1> QED BY <1>10, <1>20, <1>21, <1>22, NodeStep

\* m is n after RaftLog::restore for a snapshot of the first i entries of ch.
Restored(n, m, ch, i) ==
    /\ m.persisted = MinOf2(n.persisted, n.committed) /\ m.committed = i
    /\ m.unstable = [snapshot |-> [index |-> i, term |-> ch[i]], entries |-> <<>>, offset |-> i + 1]
    /\ m.store = n.store /\ m.applied = n.applied /\ m.records = n.records /\ m.since = n.since
    /\ m.prev_commit = n.prev_commit
    /\ NodeT(m)

\* What RaftLog::restore changes
LEMMA RestoreFields ==
    ASSUME NEW n, NodeT(n), NEW ch, NEW i \in Nat \ {0}, ch[i] \in Nat
    PROVE  Restored(n, Restore(n, [index |-> i, term |-> ch[i]]), ch, i)
  <1> DEFINE snap == [index |-> i, term |-> ch[i]]
             m == Restore(n, snap)
             u == [snapshot |-> snap, entries |-> <<>>, offset |-> i + 1]
             p == MinOf2(n.persisted, n.committed)
  <1>1. u \in [snapshot : [index : Nat, term : Nat], entries : Seq(EntryT), offset : Nat \ {0}]
    OBVIOUS
  <1>2. u.snapshot = snap /\ u.entries = <<>> /\ u.offset = i + 1 /\ snap.index = i
    OBVIOUS
  <1>3. IsUnstable(u)
    <2>1. Len(u.entries) = 0
      BY <1>2
    <2> QED BY <1>1, <1>2, <2>1 DEF IsUnstable
  <1>4. p \in Nat
    BY DEF NodeT, MinOf2
  <1>5. m = [n EXCEPT !.persisted = p, !.committed = i, !.unstable = u]
    BY DEF Restore, UnstableRestore
  <1> HIDE DEF m, u, p
  <1>6. m = [unstable |-> u, store |-> n.store, committed |-> i, persisted |-> p, applied |-> n.applied,
             records |-> n.records, since |-> n.since, prev_commit |-> n.prev_commit]
    BY <1>5, NodeRecord
  <1>7. /\ m.unstable = u /\ m.persisted = p /\ m.store = n.store /\ m.committed = i
        /\ m.applied = n.applied /\ m.records = n.records /\ m.since = n.since /\ m.prev_commit = n.prev_commit
    BY <1>6
  <1>8. NodeT(m)
    BY <1>3, <1>4, <1>6, <1>7 DEF NodeT
  <1> QED BY <1>7, <1>8 DEF Restored, m, u, p

\* A snapshot that is ahead of the log replaces it.
LEMMA RestoreKeeps ==
    ASSUME NEW n, NEW ls, NEW ch, LogsT(ls, ch), NodeInv(n, ls, ch), NEW l \in ls, NEW i \in 1..Len(ch),
           i > n.committed, Len(ch) <= Len(l), Agree(l, ch, Len(ch)), NEW m, Restored(n, m, ch, i)
    PROVE  NodeInv(m, ls, ch)
  <1>1. /\ n.committed \in Nat /\ n.persisted \in Nat /\ n.applied \in Nat /\ n.since \in Nat /\ n.prev_commit \in Nat
        /\ n.prev_commit = n.store.commit /\ n.prev_commit <= n.committed
        /\ n.applied <= n.since /\ n.applied <= n.persisted /\ n.since <= n.committed
        /\ StoreFirst(n.store) <= n.since + 1 /\ IsStore(n.store)
    BY NodeNumbers
  <1>2. i \in Nat /\ Len(ch) \in Nat /\ Len(l) \in Nat
    BY DEF LogsT
  <1>3. /\ m.unstable.snapshot = [index |-> i, term |-> ch[i]] /\ m.unstable.snapshot.index = i
        /\ m.unstable.snapshot.term = ch[i] /\ m.unstable.entries = <<>> /\ m.unstable.offset = i + 1
    BY DEF Restored
  <1>4. /\ m.store = n.store /\ m.applied = n.applied /\ m.records = n.records /\ m.since = n.since
        /\ m.prev_commit = n.prev_commit /\ m.committed = i /\ NodeT(m)
    BY DEF Restored
  <1>5. m.persisted \in Nat /\ m.persisted <= n.committed /\ n.applied <= m.persisted
        /\ (n.since <= n.persisted => n.since <= m.persisted)
    <2>1. m.persisted = MinOf2(n.persisted, n.committed)
      BY DEF Restored
    <2> QED BY <1>1, <2>1 DEF MinOf2
  <1>6. HasSnapshot(m.unstable)
    <2>1. m.unstable.snapshot # NoSnapshot
      BY <1>2, <1>3 DEF NoSnapshot
    <2> QED BY <2>1 DEF HasSnapshot
  <1>7. LastIndex(m) = i
    BY <1>3, <1>6 DEF LastIndex, HasLast, UnstableLast
  <1>8. StoreFirst(n.store) \in Nat
    BY <1>1, StoreEnds
  <1>9. Marks(m)
    <2>1. m.persisted < i + 1 /\ n.prev_commit <= i /\ n.since <= i
      BY <1>1, <1>2, <1>5
    <2> QED BY <1>1, <1>2, <1>3, <1>4, <1>5, <1>7, <2>1 DEF Marks
  <1>10. SnapshotAhead(m, ch)
    <2>1. m.persisted <= i /\ n.since <= i /\ n.prev_commit < i /\ i <= i /\ StoreFirst(n.store) <= i
      BY <1>1, <1>2, <1>5, <1>8
    <2> QED BY <1>3, <1>4, <2>1 DEF SnapshotAhead
  <1>11. NoGap(m)
    BY <1>6 DEF NoGap
  <1>12. RecordsInv(m)
    <2>1. RecordsInv(n) /\ NodeT(n)
      BY DEF NodeInv, IsNode
    <2>2. ASSUME NEW k \in 1..Len(n.records), n.records[k].snapshot # NoSnapshot
          PROVE  n.records[k].snapshot.index <= i /\ n.records[k].snapshot.index < i + 1
      <3>1. n.records[k].snapshot.index <= n.committed
        BY <2>1, <2>2 DEF RecordsInv
      <3>2. n.records[k] \in RecordT
        BY <2>1 DEF NodeT
      <3>3. n.records[k].snapshot.index \in Nat
        BY <3>2 DEF RecordT
      <3> QED BY <1>1, <1>2, <3>1, <3>3
    <2> QED BY <1>3, <1>4, <1>5, <2>1, <2>2 DEF RecordsInv
  <1>13. NodeFits(m, l, ch)
    <2>1. Agree(l, ch, i) /\ i <= Len(l)
      BY <1>2 DEF Agree
    <2>2. Len(m.unstable.entries) = 0
      BY <1>3
    <2> QED BY <1>4, <1>6, <1>7, <2>1, <2>2 DEF NodeFits
  <1>14. StoreInv(m.store, ls, ch)
    BY <1>4 DEF NodeInv
  <1> QED BY <1>4, <1>9, <1>10, <1>11, <1>12, <1>13, <1>14 DEF NodeInv, IsNode

\* Raft::restore, with a snapshot that matches the log or one that replaces it
LEMMA ReceiveSnapshotKeeps ==
    ASSUME LInv, NEW i \in 1..Len(chosen), ReceiveSnapshot(i)
    PROVE  LInv'
  <1>1. EnvInv /\ NodeInv(node, logs, chosen)
    BY DEF LInv
  <1>2. /\ lead \in logs /\ Len(lead) \in Nat /\ chosen \in Seq(Nat \ {0}) /\ Len(chosen) \in Nat
        /\ Len(chosen) <= Len(lead) /\ LogsT(logs, chosen) /\ Matching(logs)
        /\ \A j \in 1..Len(chosen) : lead[j] = chosen[j]
    BY <1>1, EnvTypes
  <1>3. i \in Nat \ {0} /\ i <= Len(chosen) /\ i <= Len(lead) /\ chosen[i] \in Nat /\ lead[i] = chosen[i]
    BY <1>2
  <1>4. PICK l \in logs : NodeFits(node, l, chosen)
    BY <1>1 DEF NodeInv
  <1>5. node.committed \in Nat /\ node.committed <= i
    BY <1>1, NodeNumbers DEF ReceiveSnapshot
  <1>6. /\ node' = (IF MatchTerm(node, i, chosen[i]) THEN CommitTo(node, i)
                    ELSE Restore(node, [index |-> i, term |-> chosen[i]]))
        /\ fault' = FALSE /\ UNCHANGED <<envVars, images, synced, disk, given>>
    BY DEF ReceiveSnapshot, Becomes
  <1>7. CASE MatchTerm(node, i, chosen[i])
    <2>1. MatchTerm(node, i, TermIn(lead, i))
      BY <1>3, <1>7 DEF TermIn
    <2>2. Agree(lead, chosen, node.committed)
      BY <1>2, <1>3, <1>5 DEF Agree
    <2>3. i <= LastIndex(node) /\ \A j \in 1..i : l[j] = lead[j]
      BY <1>1, <1>2, <1>3, <1>4, <1>5, <2>1, <2>2, MatchAgrees
    <2>4. MaxOf2(node.committed, i) = i
      BY <1>3, <1>5 DEF MaxOf2
    <2>5. Agree(l, chosen, i)
      BY <1>2, <1>3, <2>3 DEF Agree
    <2>6. NodeInv(CommitTo(node, i), logs, chosen)
      BY <1>1, <1>3, <1>4, <2>3, <2>4, <2>5, CommitKeeps
    <2>7. /\ CommitTo(node, i).store = node.store /\ CommitTo(node, i).records = node.records
          /\ CommitTo(node, i).since = node.since
      BY <1>1, <1>3, CommitToFields DEF NodeInv, IsNode
    <2> QED BY <1>6, <1>7, <2>6, <2>7, NodeStep
  <1>8. CASE ~MatchTerm(node, i, chosen[i])
    <2>1. i # node.committed
      <3>1. i = node.committed => TermAt(node, i) = chosen[i]
        BY <1>1, <1>2, <1>3, <1>4, LogReads
      <3> QED BY <1>8, <3>1 DEF MatchTerm
    <2>2. i > node.committed
      BY <1>3, <1>5, <2>1
    <2> DEFINE m == Restore(node, [index |-> i, term |-> chosen[i]])
    <2>3. Restored(node, m, chosen, i)
      BY <1>1, <1>3, RestoreFields DEF NodeInv, IsNode
    <2>4. Agree(lead, chosen, Len(chosen))
      BY <1>2 DEF Agree
    <2> HIDE DEF m
    <2>5. NodeInv(m, logs, chosen)
      BY <1>1, <1>2, <2>2, <2>3, <2>4, RestoreKeeps
    <2>6. m.store = node.store /\ m.records = node.records /\ m.since = node.since
      BY <2>3 DEF Restored
    <2>7. node' = m
      BY <1>6, <1>8 DEF m
    <2> QED BY <1>6, <2>5, <2>6, <2>7, NodeStep
  <1> QED BY <1>7, <1>8

\* advance_apply_to stays within what is committed and persisted.
LEMMA AppliedKeeps ==
    ASSUME LInv, NEW i \in Nat, Applied(i)
    PROVE  LInv'
  <1> DEFINE m == [node EXCEPT !.applied = i]
  <1>1. NodeInv(node, logs, chosen) /\ IsNode(node, chosen) /\ NodeT(node) /\ RecordsInv(node)
    BY DEF LInv, NodeInv, IsNode
  <1>2. i > node.applied /\ i <= node.since /\ LastSnapshot(node.records) = 0
    BY DEF Applied
  <1>3. node.since <= node.persisted
    BY <1>1, <1>2 DEF RecordsInv
  <1>4. /\ node.committed \in Nat /\ node.persisted \in Nat /\ node.applied \in Nat /\ node.since \in Nat
        /\ node.since <= node.committed
    BY <1>1, NodeNumbers
  <1>5. i <= node.persisted /\ i <= node.committed /\ i >= node.applied
    BY <1>2, <1>3, <1>4
  <1>6. CanApplyTo(node, i)
    BY <1>4, <1>5 DEF CanApplyTo, MinOf2
  <1>7. node' = m /\ fault' = FALSE /\ UNCHANGED <<envVars, images, synced, disk, given>>
    BY <1>6 DEF Applied, Becomes
  <1>8. m = [unstable |-> node.unstable, store |-> node.store, committed |-> node.committed,
             persisted |-> node.persisted, applied |-> i, records |-> node.records,
             since |-> node.since, prev_commit |-> node.prev_commit]
    BY <1>1, NodeRecord
  <1> HIDE DEF m
  <1>9. /\ m.unstable = node.unstable /\ m.store = node.store /\ m.committed = node.committed
        /\ m.persisted = node.persisted /\ m.applied = i /\ m.records = node.records
        /\ m.since = node.since /\ m.prev_commit = node.prev_commit
    BY <1>8
  <1>10. NodeT(m)
    BY <1>1, <1>8, <1>9 DEF NodeT
  <1>11. LastIndex(m) = LastIndex(node)
    BY <1>9, SameLog
  <1>12. Marks(m)
    BY <1>1, <1>2, <1>5, <1>9, <1>11 DEF IsNode, Marks
  <1>13. SnapshotAhead(m, chosen) /\ NoGap(m)
    BY <1>1, <1>9 DEF IsNode, SnapshotAhead, NoGap
  <1>14. RecordsInv(m)
    BY <1>1, <1>9 DEF RecordsInv
  <1>15. \E l \in logs : NodeFits(m, l, chosen)
    BY <1>1, <1>9, <1>11 DEF NodeInv, NodeFits
  <1>16. NodeInv(m, logs, chosen)
    BY <1>1, <1>9, <1>10, <1>12, <1>13, <1>14, <1>15 DEF NodeInv, IsNode
  <1> QED BY <1>7, <1>9, <1>16, NodeStep

\* A Ready reaches the disk.
LEMMA SyncKeeps ==
    ASSUME LInv, Sync
    PROVE  LInv'
  <1>1. /\ synced < Len(images) /\ synced' = synced + 1 /\ disk' = images[synced + 1]
        /\ UNCHANGED <<term, lead, logs, chosen, node, images, given, fault>>
    BY DEF Sync, envVars
  <1>2. synced \in Nat /\ Len(images) \in Nat
    BY DEF LInv, DiskInv
  <1>3. synced + 1 \in (synced + 1)..Len(images) /\ images # <<>>
    BY <1>1, <1>2
  <1>4. StoreInv(images[synced + 1], logs, chosen)
    BY <1>3 DEF LInv, DiskInv
  <1>5. \A k \in (synced + 1 + 1)..Len(images) : k \in (synced + 1)..Len(images) /\ synced + 1 <= k
    BY <1>2
  <1>6. \A j, k \in (synced + 1)..Len(images) : j <= k => Older(images[j], images[k])
    BY DEF LInv, DiskInv
  <1>7. \A k \in (synced + 1 + 1)..Len(images) : StoreInv(images[k], logs, chosen) /\ Older(images[synced + 1], images[k])
    BY <1>3, <1>5, <1>6 DEF LInv, DiskInv
  <1>8. \A j, k \in (synced + 1 + 1)..Len(images) : j <= k => Older(images[j], images[k])
    BY <1>5, <1>6
  <1>9. synced + 1 \in 0..Len(images) /\ images \in Seq(StoreType) /\ Len(images) = Len(node.records)
        /\ node.store = images[Len(images)]
    BY <1>2, <1>3 DEF LInv, DiskInv
  <1>10. DiskInv'
    BY <1>1, <1>3, <1>4, <1>7, <1>8, <1>9 DEF DiskInv
  <1>11. EnvInv'
    BY <1>1 DEF LInv, EnvInv
  <1> QED BY <1>1, <1>10, <1>11 DEF LInv

\* Raft::new from the storage st, with Config::applied = a
LEMMA RestartKeeps ==
    ASSUME NEW ls, NEW ch, NEW st, StoreInv(st, ls, ch), NEW a \in Nat, a + 1 >= StoreFirst(st), a <= st.commit
    PROVE  NodeInv(NewNode(st, a), ls, ch)
  <1> DEFINE n == NewNode(st, a)
             z == StoreLast(st)
             u == NewUnstable(z + 1)
  <1>1. IsStore(st)
    BY DEF StoreInv
  <1>2. /\ StoreFirst(st) \in Nat /\ StoreFirst(st) > 0 /\ z \in Nat /\ st.commit \in Nat /\ st.commit <= z
        /\ StoreFirst(st) <= z + 1
    BY <1>1, StoreEnds DEF IsStore
  <1>3. n = [unstable |-> u, store |-> st, committed |-> st.commit, persisted |-> z, applied |-> a,
             records |-> <<>>, since |-> a, prev_commit |-> st.commit]
    BY DEF NewNode
  <1>4. u = [snapshot |-> NoSnapshot, entries |-> <<>>, offset |-> z + 1]
    BY DEF NewUnstable
  <1> HIDE DEF n, u, z
  <1>5. /\ n.unstable = u /\ n.store = st /\ n.committed = st.commit /\ n.persisted = z /\ n.applied = a
        /\ n.records = <<>> /\ n.since = a /\ n.prev_commit = st.commit
    BY <1>3
  <1>6. u.snapshot = NoSnapshot /\ u.entries = <<>> /\ u.offset = z + 1 /\ ~HasSnapshot(u) /\ Len(u.entries) = 0
    BY <1>4 DEF HasSnapshot
  <1>7. IsUnstable(u)
    <2>1. u \in [snapshot : [index : Nat, term : Nat], entries : Seq(EntryT), offset : Nat \ {0}]
      BY <1>2, <1>4 DEF NoSnapshot
    <2> QED BY <1>6, <2>1 DEF IsUnstable
  <1>8. NodeT(n)
    BY <1>1, <1>2, <1>3, <1>5, <1>7 DEF NodeT
  <1>9. LastIndex(n) = z
    BY <1>5, <1>6 DEF LastIndex, HasLast, z
  <1>10. Marks(n)
    <2>1. a <= z /\ z < z + 1
      BY <1>2
    <2> QED BY <1>2, <1>5, <1>6, <1>9, <2>1 DEF Marks
  <1>11. SnapshotAhead(n, ch) /\ NoGap(n)
    BY <1>2, <1>5, <1>6 DEF SnapshotAhead, NoGap, z
  <1>12. RecordsInv(n)
    <2>1. Len(n.records) = 0 /\ n.since <= n.persisted
      BY <1>2, <1>5
    <2> QED BY <2>1 DEF RecordsInv
  <1>13. PICK l \in ls : Fits(st, l) /\ Agree(l, ch, st.commit)
    BY DEF StoreInv
  <1>14. NodeFits(n, l, ch)
    <2>1. z <= Len(l) /\ \A i \in StoreFirst(st)..z : st.entries[i - StoreFirst(st) + 1].term = l[i]
      BY <1>13 DEF Fits, z
    <2>2. z + 1 - 1 = z
      BY <1>2
    <2>3. \A k \in 1..Len(n.unstable.entries) : n.unstable.entries[k].term = l[n.unstable.offset + k - 1]
      BY <1>5, <1>6
    <2>4. \A i \in StoreFirst(n.store)..(n.unstable.offset - 1) : n.store.entries[i - StoreFirst(n.store) + 1].term = l[i]
      <3>1. n.unstable.offset - 1 = z
        BY <1>2, <1>5, <1>6
      <3> QED BY <1>5, <2>1, <3>1, Zenon
    <2>5. LastIndex(n) <= Len(l) /\ Agree(l, ch, n.committed)
      BY <1>5, <1>9, <1>13, <2>1
    <2> QED BY <2>3, <2>4, <2>5 DEF NodeFits
  <1>15. NodeInv(n, ls, ch)
    BY <1>5, <1>8, <1>10, <1>11, <1>12, <1>14 DEF NodeInv, IsNode
  <1> QED BY <1>15 DEF n

\* A restart from the disk, whatever has reached it
LEMMA CrashKeeps ==
    ASSUME LInv, NEW a \in Nat, Crash(a)
    PROVE  LInv' /\ a <= node.since
  <1>1. /\ a \in (StoreFirst(disk) - 1)..MaxOf2(StoreFirst(disk) - 1, MinOf2(node.applied, disk.commit))
        /\ images' = <<>> /\ synced' = 0 /\ given' = SubSeq(given, 1, a)
        /\ UNCHANGED <<term, lead, logs, chosen, disk>>
    BY DEF Crash, envVars
  <1>2. StoreInv(disk, logs, chosen) /\ IsStore(disk)
    BY DEF LInv, DiskInv, StoreInv
  <1>3. /\ StoreFirst(disk) \in Nat /\ StoreFirst(disk) > 0 /\ StoreLast(disk) \in Nat /\ disk.commit \in Nat
        /\ disk.commit <= StoreLast(disk) /\ StoreFirst(disk) <= disk.commit + 1
    BY <1>2, StoreEnds DEF IsStore
  <1>4. node.applied \in Nat /\ node.since \in Nat /\ node.applied <= node.since /\ node.committed \in Nat
        /\ StoreFirst(node.store) <= node.since + 1 /\ node.since <= node.committed
    BY NodeNumbers DEF LInv
  <1>5. StoreFirst(disk) <= StoreFirst(node.store)
    <2>1. CASE images = <<>>
      BY <1>3, <2>1 DEF LInv, DiskInv
    <2>2. CASE images # <<>>
      <3>1. Len(images) \in Nat /\ Len(images) > 0 /\ synced \in 0..Len(images) /\ node.store = images[Len(images)]
        BY <2>2 DEF LInv, DiskInv
      <3>2. CASE synced = Len(images)
        BY <1>3, <3>1, <3>2 DEF LInv, DiskInv
      <3>3. CASE synced # Len(images)
        <4>1. Len(images) \in (synced + 1)..Len(images)
          BY <3>1, <3>3
        <4> QED BY <3>1, <4>1 DEF LInv, DiskInv, Older
      <3> QED BY <3>2, <3>3
    <2> QED BY <2>1, <2>2
  <1>6. a <= disk.commit /\ StoreFirst(disk) <= a + 1
    BY <1>1, <1>3, <1>4 DEF MaxOf2, MinOf2
  <1>7. a <= node.since
    <2>1. StoreFirst(node.store) \in Nat
      BY NodeNumbers, StoreEnds DEF LInv
    <2> QED BY <1>1, <1>3, <1>4, <1>5, <2>1 DEF MaxOf2, MinOf2
  <1>8. NodeInv(NewNode(disk, a), logs, chosen)
    BY <1>2, <1>6, RestartKeeps
  <1>9. node' = NewNode(disk, a) /\ fault' = FALSE
    <2>1. disk.commit \in (StoreFirst(disk) - 1)..StoreLast(disk)
      BY <1>3
    <2> QED BY <2>1 DEF Crash, Becomes
  <1>10. NodeInv(node, logs, chosen)'
    BY <1>1, <1>8, <1>9
  <1>11. node'.since = a /\ node'.store = disk /\ node'.records = <<>>
    BY <1>9 DEF NewNode
  <1>12. DiskInv'
    <2>1. Len(<<>>) = 0 /\ \A k \in (0 + 1)..0 : FALSE
      OBVIOUS
    <2> QED BY <1>1, <1>2, <1>11, <2>1 DEF DiskInv
  <1>13. EnvInv'
    BY <1>1 DEF LInv, EnvInv
  <1>14. SubSeq(given, 1, a) = SubSeq(chosen, 1, a)
    <2>1. given = SubSeq(chosen, 1, node.since) /\ chosen \in Seq(Nat \ {0})
      BY EnvTypes DEF LInv
    <2>2. node.since <= Len(chosen)
      <3>1. node.committed <= Len(chosen)
        BY DEF LInv, NodeInv, NodeFits, Agree
      <3> QED BY <1>4, <2>1, <3>1
    <2> QED BY <1>4, <1>7, <2>1, <2>2
  <1>15. LInv'
    BY <1>1, <1>9, <1>10, <1>11, <1>12, <1>13, <1>14 DEF LInv
  <1> QED BY <1>7, <1>15

\* Compacting leaves a storage.
LEMMA CompactType ==
    ASSUME NEW st \in StoreType, NEW i \in Nat
    PROVE  Compact(st, i) \in StoreType
  <1>1. st.entries \in Seq(EntryT) /\ Len(st.entries) \in Nat /\ st.snap.index \in Nat
    BY DEF StoreType
  <1>2. StoreFirst(st) \in Nat
    <2>1. CASE st.entries = <<>>
      BY <1>1, <2>1 DEF StoreFirst
    <2>2. CASE st.entries # <<>>
      <3>1. st.entries[1] \in EntryT
        BY <1>1, <2>2
      <3> QED BY <2>2, <3>1 DEF StoreFirst, EntryT
    <2> QED BY <2>1, <2>2
  <1>3. CASE i <= StoreFirst(st)
    BY <1>3 DEF Compact
  <1>4. CASE i > StoreFirst(st)
    <2> DEFINE a == i - StoreFirst(st) + 1
               ents == SubSeq(st.entries, a, Len(st.entries))
    <2>1. a \in Int /\ a > 0
      BY <1>2, <1>4
    <2> HIDE DEF a
    <2>2. \A k \in a..Len(st.entries) : st.entries[k] \in EntryT
      BY <1>1, <2>1
    <2>3. ents \in Seq(EntryT)
      BY <1>1, <2>1, <2>2, SubSeqProperties
    <2>4. Compact(st, i) = [st EXCEPT !.entries = ents]
      BY <1>2, <1>4 DEF Compact, a
    <2> HIDE DEF ents
    <2> QED BY <2>3, <2>4 DEF StoreType
  <1> QED BY <1>2, <1>3, <1>4

\* s holds what st holds from index f on.
Rest(st, s, f) ==
    /\ IsStore(s) /\ StoreFirst(s) = f /\ StoreLast(s) = StoreLast(st)
    /\ s.commit = st.commit /\ s.snap = st.snap
    /\ \A j \in f..StoreLast(st) : s.entries[j - f + 1] = st.entries[j - StoreFirst(st) + 1]

\* What compacting leaves of a storage
LEMMA CompactRest ==
    ASSUME NEW st, IsStore(st), NEW i \in Nat, i <= st.commit
    PROVE  Rest(st, Compact(st, i), MaxOf2(StoreFirst(st), i)) /\ CanCompact(st, i)
  <1> DEFINE f == StoreFirst(st)
             z == StoreLast(st)
             len == Len(st.entries)
  <1>1. /\ f \in Nat /\ f > 0 /\ z \in Nat /\ len \in Nat /\ z = f + len - 1 /\ f <= z + 1 /\ st.commit \in Nat
        /\ st.commit <= z /\ st.snap.index \in Nat /\ st.snap.index < f /\ st.entries \in Seq(EntryT)
    BY StoreEnds DEF IsStore
  <1>2. CanCompact(st, i)
    BY <1>1 DEF CanCompact
  <1>3. CASE i <= f
    <2>1. Compact(st, i) = st /\ MaxOf2(f, i) = f
      BY <1>1, <1>3 DEF Compact, MaxOf2
    <2> QED BY <1>2, <2>1 DEF Rest
  <1>4. CASE i > f
    <2> DEFINE a == i - f + 1
               ents == SubSeq(st.entries, a, len)
               s == Compact(st, i)
    <2>1. s = [st EXCEPT !.entries = ents] /\ MaxOf2(f, i) = i
      BY <1>1, <1>4 DEF Compact, MaxOf2
    <2>2. a \in 1..len
      BY <1>1, <1>4
    <2>3. ents \in Seq(EntryT) /\ Len(ents) = len - a + 1 /\ \A k \in 1..Len(ents) : ents[k] = st.entries[a + k - 1]
      <3> HIDE DEF a
      <3> QED BY <1>1, <2>2
    <2> HIDE DEF ents
    <2>4. Len(ents) = z - i + 1 /\ Len(ents) > 0 /\ ents # <<>>
      <3>1. len - a + 1 = z - i + 1 /\ z - i + 1 > 0
        <4> HIDE DEF f, z, len
        <4> QED BY <1>1, <1>4
      <3>2. Len(ents) = z - i + 1 /\ Len(ents) > 0
        BY <2>3, <3>1
      <3> QED BY <2>3, <3>2
    <2>5. s = [snap |-> st.snap, entries |-> ents, commit |-> st.commit]
      BY <2>1 DEF IsStore, StoreType
    <2> HIDE DEF s
    <2>6. s.snap = st.snap /\ s.entries = ents /\ s.commit = st.commit
      BY <2>5
    <2>7. s \in StoreType
      BY <2>3, <2>5 DEF IsStore, StoreType
    <2>8. ASSUME NEW k \in 1..Len(ents) PROVE ents[k].index = i + k - 1
      <3>1. a + k - 1 \in 1..len /\ f + (a + k - 1) - 1 = i + k - 1
        <4> HIDE DEF f, z, len
        <4> QED BY <1>1, <2>2, <2>4
      <3>2. st.entries[a + k - 1].index = f + (a + k - 1) - 1
        BY <3>1 DEF IsStore
      <3> QED BY <2>3, <3>1, <3>2
    <2>9. StoreFirst(s) = i /\ StoreLast(s) = i + Len(ents) - 1
      BY <2>4, <2>6, <2>7, <2>8, StoreSpan
    <2>10. StoreLast(s) = z
      <3>1. i + (z - i + 1) - 1 = z
        <4> HIDE DEF z
        <4> QED BY <1>1
      <3> QED BY <2>4, <2>9, <3>1
    <2>11. st.commit \in i..z
      BY <1>1
    <2>12. CanSnapshot(s)
      BY <2>6, <2>9, <2>10, <2>11 DEF CanSnapshot
    <2>13. st.snap.index < i /\ i <= st.commit + 1 /\ st.snap.index <= st.commit
      BY <1>1, <1>4
    <2>14. IsStore(s)
      BY <1>1, <2>6, <2>7, <2>8, <2>9, <2>10, <2>12, <2>13 DEF IsStore
    <2>15. ASSUME NEW j \in i..z PROVE ents[j - i + 1] = st.entries[j - f + 1]
      <3>1. j - i + 1 \in 1..Len(ents) /\ a + (j - i + 1) - 1 = j - f + 1
        <4> HIDE DEF f, z, len
        <4> QED BY <1>1, <2>4
      <3> QED BY <2>3, <3>1
    <2>16. Rest(st, s, i)
      BY <2>6, <2>9, <2>10, <2>14, <2>15 DEF Rest
    <2> QED BY <1>2, <2>1, <2>16 DEF s
  <1> QED BY <1>1, <1>3, <1>4

\* The rest is still a part of a leader's log.
LEMMA CompactKeepsStore ==
    ASSUME NEW ls, NEW ch, NEW st, StoreInv(st, ls, ch), NEW i \in Nat, i <= st.commit
    PROVE  StoreInv(Compact(st, i), ls, ch)
  <1> DEFINE s == Compact(st, i)
             f == MaxOf2(StoreFirst(st), i)
  <1>1. IsStore(st) /\ st.commit <= Len(ch) /\ st.snap.term = TermIn(ch, st.snap.index)
    BY DEF StoreInv
  <1>2. Rest(st, s, f)
    BY <1>1, CompactRest
  <1>3. StoreFirst(st) \in Nat /\ StoreLast(st) \in Nat /\ f \in Nat /\ f >= StoreFirst(st)
    BY <1>1, StoreEnds DEF MaxOf2
  <1>4. PICK l \in ls : Fits(st, l) /\ Agree(l, ch, st.commit)
    BY DEF StoreInv
  <1> HIDE DEF s, f
  <1>5. Fits(s, l)
    <2>1. ASSUME NEW j \in f..StoreLast(st) PROVE s.entries[j - f + 1].term = l[j]
      <3>1. j \in StoreFirst(st)..StoreLast(st)
        BY <1>3
      <3>2. st.entries[j - StoreFirst(st) + 1].term = l[j]
        BY <1>4, <3>1 DEF Fits
      <3> QED BY <1>2, <3>2 DEF Rest
    <2>2. StoreLast(st) <= Len(l)
      BY <1>4 DEF Fits
    <2> QED BY <1>2, <2>1, <2>2 DEF Rest, Fits
  <1>6. StoreInv(s, ls, ch)
    BY <1>1, <1>2, <1>4, <1>5 DEF StoreInv, Rest
  <1> QED BY <1>6 DEF s

\* Compaction of the storage under a node, up to what is applied
LEMMA CompactKeepsNode ==
    ASSUME NEW ls, NEW ch, NEW n, NodeInv(n, ls, ch), NEW i \in Nat, i <= n.store.commit, i <= n.applied,
           NEW m, m = [n EXCEPT !.store = Compact(n.store, i)]
    PROVE  NodeInv(m, ls, ch) /\ m.since = n.since /\ m.records = n.records /\ m.store = Compact(n.store, i)
  <1> DEFINE s == Compact(n.store, i)
             f == MaxOf2(StoreFirst(n.store), i)
             off == n.unstable.offset
  <1>1. IsNode(n, ch) /\ NodeT(n) /\ StoreInv(n.store, ls, ch) /\ IsStore(n.store)
    BY DEF NodeInv, IsNode, NodeT
  <1>2. Rest(n.store, s, f)
    BY <1>1, CompactRest
  <1> HIDE DEF s
  <1>3. m = [unstable |-> n.unstable, store |-> s, committed |-> n.committed, persisted |-> n.persisted,
             applied |-> n.applied, records |-> n.records, since |-> n.since, prev_commit |-> n.prev_commit]
    BY <1>1, NodeRecord DEF s
  <1>4. /\ m.unstable = n.unstable /\ m.store = s /\ m.committed = n.committed /\ m.persisted = n.persisted
        /\ m.applied = n.applied /\ m.records = n.records /\ m.since = n.since /\ m.prev_commit = n.prev_commit
    BY <1>3
  <1>5. NodeT(m)
    BY <1>1, <1>2, <1>3, <1>4 DEF NodeT, Rest
  <1>6. /\ n.applied \in Nat /\ n.since \in Nat /\ n.persisted \in Nat /\ off \in Nat
        /\ n.applied <= n.since /\ n.applied <= n.persisted /\ n.persisted < off /\ StoreFirst(n.store) <= n.since + 1
    BY NodeNumbers
  <1>7. StoreFirst(n.store) \in Nat /\ StoreLast(n.store) \in Nat
    BY <1>1, StoreEnds
  <1>8. f \in Nat /\ StoreFirst(n.store) <= f /\ f <= n.since + 1 /\ (f = StoreFirst(n.store) \/ f = i)
    BY <1>6, <1>7 DEF MaxOf2
  <1> HIDE DEF f
  <1>9. LastIndex(m) = LastIndex(n)
    BY <1>2, <1>4 DEF LastIndex, Rest
  <1>10. Marks(m)
    BY <1>1, <1>2, <1>4, <1>8, <1>9 DEF IsNode, Marks, Rest
  <1>11. SnapshotAhead(m, ch)
    <2>1. SUFFICES ASSUME HasSnapshot(n.unstable) PROVE SnapshotAhead(m, ch)
      BY <1>4 DEF SnapshotAhead
    <2>2. n.unstable.snapshot.index \in Nat /\ n.since <= n.unstable.snapshot.index
          /\ StoreFirst(n.store) <= n.unstable.snapshot.index
      BY <1>1, <2>1, UnstableEnds DEF IsNode, NodeT, SnapshotAhead
    <2>3. f <= n.unstable.snapshot.index
      BY <1>6, <1>8, <2>2
    <2> QED BY <1>1, <1>2, <1>4, <2>3 DEF IsNode, SnapshotAhead, Rest
  <1>12. NoGap(m)
    <2>1. SUFFICES ASSUME ~HasSnapshot(n.unstable) PROVE NoGap(m)
      BY <1>4 DEF NoGap
    <2>2. StoreFirst(n.store) <= off
      BY <1>1, <2>1 DEF IsNode, NoGap
    <2>3. f <= off
      <3> HIDE DEF off
      <3> QED BY <1>6, <1>8, <2>2
    <2> QED BY <1>1, <1>2, <1>4, <2>3 DEF IsNode, NoGap, Rest
  <1>13. RecordsInv(m)
    BY <1>1, <1>4 DEF IsNode, RecordsInv
  <1>14. PICK l \in ls : NodeFits(n, l, ch)
    BY DEF NodeInv
  <1>15. NodeFits(m, l, ch)
    <2>1. ASSUME ~HasSnapshot(n.unstable), NEW j \in f..(off - 1) PROVE s.entries[j - f + 1].term = l[j]
      <3>1. off <= StoreLast(n.store) + 1
        BY <1>1, <2>1 DEF IsNode, NoGap
      <3>2. j \in StoreFirst(n.store)..(off - 1) /\ j \in f..StoreLast(n.store)
        <4> HIDE DEF off
        <4> QED BY <1>6, <1>7, <1>8, <3>1
      <3>3. n.store.entries[j - StoreFirst(n.store) + 1].term = l[j]
        BY <1>14, <2>1, <3>2 DEF NodeFits
      <3> QED BY <1>2, <3>2, <3>3 DEF Rest
    <2>2. StoreFirst(s) = f
      BY <1>2 DEF Rest
    <2> QED BY <1>4, <1>9, <1>14, <2>1, <2>2 DEF NodeFits
  <1>16. StoreInv(s, ls, ch)
    BY <1>1, CompactKeepsStore DEF s
  <1>17. NodeInv(m, ls, ch)
    BY <1>4, <1>5, <1>10, <1>11, <1>12, <1>13, <1>15, <1>16 DEF NodeInv, IsNode
  <1> QED BY <1>4, <1>17 DEF s

\* The storage of the node is as new as the disk.
LEMMA DiskIsOlder ==
    ASSUME LInv
    PROVE  Older(disk, node.store) /\ IsStore(disk)
  <1>1. IsStore(disk)
    BY DEF LInv, DiskInv, StoreInv
  <1>2. disk.commit \in Nat /\ StoreFirst(disk) \in Nat
    BY <1>1, StoreEnds
  <1>3. Older(disk, disk)
    BY <1>2 DEF Older
  <1>4. CASE images = <<>>
    BY <1>1, <1>3, <1>4 DEF LInv, DiskInv
  <1>5. CASE images # <<>>
    <2>1. Len(images) \in Nat /\ Len(images) > 0 /\ synced \in 0..Len(images) /\ node.store = images[Len(images)]
      BY <1>5 DEF LInv, DiskInv
    <2>2. CASE synced = Len(images)
      BY <1>1, <1>3, <2>1, <2>2 DEF LInv, DiskInv
    <2>3. CASE synced # Len(images)
      <3>1. Len(images) \in (synced + 1)..Len(images)
        BY <2>1, <2>3
      <3> QED BY <1>1, <2>1, <3>1 DEF LInv, DiskInv
    <2> QED BY <2>2, <2>3
  <1> QED BY <1>1, <1>4, <1>5

\* Compacting two storages to the same index keeps their order.
LEMMA CompactKeepsOlder ==
    ASSUME NEW st, NEW su, IsStore(st), IsStore(su), Older(st, su), NEW i \in Nat, i <= st.commit
    PROVE  Older(Compact(st, i), Compact(su, i))
  <1> DEFINE f == StoreFirst(st)
             g == StoreFirst(su)
  <1>1. f \in Nat /\ g \in Nat /\ st.commit \in Nat /\ su.commit \in Nat
    BY StoreEnds
  <1>2. f <= g /\ st.commit <= su.commit /\ i <= su.commit
    BY <1>1 DEF Older
  <1>3. StoreFirst(Compact(st, i)) = MaxOf2(f, i) /\ Compact(st, i).commit = st.commit
    BY CompactRest DEF Rest
  <1>4. StoreFirst(Compact(su, i)) = MaxOf2(g, i) /\ Compact(su, i).commit = su.commit
    BY <1>2, CompactRest DEF Rest
  <1> HIDE DEF f, g
  <1>5. MaxOf2(f, i) <= MaxOf2(g, i)
    BY <1>1, <1>2 DEF MaxOf2
  <1> QED BY <1>2, <1>3, <1>4, <1>5 DEF Older

\* MemStorage::compact, up to what is applied and committed on disk
LEMMA CompactToKeeps ==
    ASSUME LInv, NEW i \in Nat, CompactTo(i)
    PROVE  LInv'
  <1> DEFINE m == [node EXCEPT !.store = Compact(node.store, i)]
  <1>1. /\ i <= MinOf2(node.applied, disk.commit) /\ disk' = Compact(disk, i)
        /\ images' = [k \in 1..Len(images) |-> Compact(images[k], i)]
        /\ UNCHANGED <<term, lead, logs, chosen, synced, given>>
    BY DEF CompactTo, envVars
  <1>2. NodeInv(node, logs, chosen) /\ Older(disk, node.store) /\ IsStore(disk) /\ IsStore(node.store)
    BY DiskIsOlder, NodeNumbers DEF LInv
  <1>3. disk.commit \in Nat /\ node.store.commit \in Nat /\ node.applied \in Nat
    BY <1>2, StoreEnds, NodeNumbers
  <1>4. i <= disk.commit /\ i <= node.applied /\ i <= node.store.commit
    BY <1>1, <1>2, <1>3 DEF MinOf2, Older
  <1>5. node' = m /\ fault' = FALSE
    <2>1. CanCompact(node.store, i)
      BY <1>2, <1>4, CompactRest
    <2> QED BY <2>1 DEF CompactTo, Becomes
  <1>6. NodeInv(m, logs, chosen) /\ m.since = node.since /\ m.records = node.records /\ m.store = Compact(node.store, i)
    BY <1>2, <1>4, CompactKeepsNode
  <1> HIDE DEF m
  <1>7. NodeInv(node, logs, chosen)'
    BY <1>1, <1>5, <1>6
  <1>8. EnvInv'
    BY <1>1 DEF LInv, EnvInv
  <1>9. images \in Seq(StoreType) /\ Len(images) \in Nat /\ synced \in 0..Len(images) /\ Len(images) = Len(node.records)
    BY DEF LInv, DiskInv
  <1>10. images' \in Seq(StoreType) /\ Len(images') = Len(images) /\ \A k \in 1..Len(images) : images'[k] = Compact(images[k], i)
    <2>1. \A k \in 1..Len(images) : Compact(images[k], i) \in StoreType
      BY <1>9, CompactType
    <2>2. images' \in [1..Len(images) -> StoreType]
      BY <1>1, <2>1
    <2>3. images' \in Seq(StoreType)
      BY <1>9, <2>2
    <2>4. DOMAIN images' = 1..Len(images)
      BY <1>1
    <2>5. Len(images') = Len(images)
      BY <1>9, <2>3, <2>4
    <2> QED BY <1>1, <2>3, <2>5
  <1>11. \A k \in (synced + 1)..Len(images) : k \in 1..Len(images)
    BY <1>9
  <1>12. ASSUME NEW k \in (synced + 1)..Len(images)
         PROVE  /\ StoreInv(images[k], logs, chosen) /\ Older(disk, images[k]) /\ IsStore(images[k])
                /\ i <= images[k].commit
    <2>1. StoreInv(images[k], logs, chosen) /\ Older(disk, images[k]) /\ IsStore(images[k])
      BY DEF LInv, DiskInv, StoreInv
    <2>2. images[k].commit \in Nat /\ disk.commit <= images[k].commit
      BY <2>1, StoreEnds DEF Older
    <2> QED BY <1>3, <1>4, <2>1, <2>2
  <1>13. \A k \in (synced + 1)..Len(images) : StoreInv(images'[k], logs, chosen) /\ Older(disk', images'[k])
    <2> TAKE k \in (synced + 1)..Len(images)
    <2>1. images'[k] = Compact(images[k], i)
      BY <1>10, <1>11
    <2>2. StoreInv(Compact(images[k], i), logs, chosen)
      BY <1>12, CompactKeepsStore
    <2>3. Older(Compact(disk, i), Compact(images[k], i))
      BY <1>2, <1>4, <1>12, CompactKeepsOlder
    <2> QED BY <1>1, <2>1, <2>2, <2>3
  <1>14. \A j, k \in (synced + 1)..Len(images) : j <= k => Older(images'[j], images'[k])
    <2>1. ASSUME NEW j \in (synced + 1)..Len(images), NEW k \in (synced + 1)..Len(images), j <= k
          PROVE  Older(images'[j], images'[k])
      <3>1. Older(images[j], images[k])
        BY <2>1 DEF LInv, DiskInv
      <3>2. Older(Compact(images[j], i), Compact(images[k], i))
        BY <1>12, <3>1, CompactKeepsOlder
      <3> QED BY <1>10, <1>11, <3>2
    <2> QED BY <2>1
  <1>15. StoreInv(disk', logs, chosen)
    <2>1. StoreInv(disk, logs, chosen)
      BY DEF LInv, DiskInv
    <2> QED BY <1>1, <1>4, <2>1, CompactKeepsStore
  <1>16. synced > 0 => disk' = images'[synced]
    <2>1. SUFFICES ASSUME synced > 0 PROVE disk' = images'[synced]
      OBVIOUS
    <2>2. synced \in 1..Len(images)
      BY <1>9, <2>1
    <2>3. disk = images[synced]
      BY <2>1 DEF LInv, DiskInv
    <2> QED BY <1>1, <1>10, <2>2, <2>3
  <1>17. node'.store = IF images' = <<>> THEN disk' ELSE images'[Len(images')]
    <2>1. CASE images = <<>>
      <3>1. images' = <<>>
        BY <1>9, <1>10, <2>1
      <3>2. node.store = disk
        BY <2>1 DEF LInv, DiskInv
      <3> QED BY <1>1, <1>5, <1>6, <3>1, <3>2
    <2>2. CASE images # <<>>
      <3>1. images' # <<>> /\ Len(images) \in 1..Len(images)
        BY <1>9, <1>10, <2>2
      <3>2. node.store = images[Len(images)]
        BY <2>2 DEF LInv, DiskInv
      <3> QED BY <1>5, <1>6, <1>10, <3>1, <3>2
    <2> QED BY <2>1, <2>2
  <1>18. DiskInv'
    <2>1. Len(images') = Len(node'.records) /\ synced' \in 0..Len(images')
      BY <1>1, <1>5, <1>6, <1>9, <1>10
    <2>2. \A k \in (synced' + 1)..Len(images') : StoreInv(images'[k], logs', chosen') /\ Older(disk', images'[k])
      BY <1>1, <1>10, <1>13
    <2>3. \A j, k \in (synced' + 1)..Len(images') : j <= k => Older(images'[j], images'[k])
      BY <1>1, <1>10, <1>14
    <2> QED BY <1>1, <1>10, <1>15, <1>16, <1>17, <2>1, <2>2, <2>3 DEF DiskInv
  <1> QED BY <1>1, <1>5, <1>6, <1>7, <1>8, <1>18 DEF LInv

\* The last of the numbers S
LEMMA GreatestElement ==
    ASSUME NEW b \in Nat, NEW S \in SUBSET (0..b), S # {}
    PROVE  \E x \in S : \A y \in S : y <= x
  <1> DEFINE T == {b - y : y \in S}
  <1>1. T \in SUBSET Nat /\ T # {}
    <2>1. \A y \in S : b - y \in Nat
      <3> TAKE y \in S
      <3>1. y \in 0..b
        OBVIOUS
      <3> QED BY <3>1
    <2>2. PICK y \in S : TRUE
      OBVIOUS
    <2>3. b - y \in T
      OBVIOUS
    <2> QED BY <2>1, <2>3
  <1>2. \A y \in S : b - y \in T
    OBVIOUS
  <1>3. PICK z \in T : \A t \in T : z <= t
    <2> HIDE DEF T
    <2> QED BY <1>1, LeastElement
  <1>4. PICK x \in S : z = b - x
    OBVIOUS
  <1> HIDE DEF T
  <1>5. ASSUME NEW y \in S PROVE y <= x
    <2>1. b - x <= b - y
      BY <1>2, <1>3, <1>4
    <2>2. x \in 0..b /\ y \in 0..b
      OBVIOUS
    <2> QED BY <2>1, <2>2
  <1> QED BY <1>5

IsLastSnapshot(recs, k) ==
    \/ k = 0 /\ \A j \in 1..Len(recs) : recs[j].snapshot = NoSnapshot
    \/ /\ k \in 1..Len(recs) /\ recs[k].snapshot # NoSnapshot
       /\ \A j \in 1..Len(recs) : recs[j].snapshot # NoSnapshot => j <= k

\* LastSnapshot finds the last record with a snapshot.
LEMMA LastSnapshotIs ==
    ASSUME NEW recs \in Seq(RecordT)
    PROVE  IsLastSnapshot(recs, LastSnapshot(recs))
  <1> DEFINE at == {k \in 1..Len(recs) : recs[k].snapshot # NoSnapshot}
             last == CHOOSE k \in at : \A j \in at : j <= k
  <1>1. LastSnapshot(recs) = IF at = {} THEN 0 ELSE last
    BY DEF LastSnapshot
  <1>2. Len(recs) \in Nat
    OBVIOUS
  <1>3. CASE at = {}
    BY <1>1, <1>3 DEF IsLastSnapshot
  <1>4. CASE at # {}
    <2>1. \E k \in at : \A j \in at : j <= k
      <3>1. at \in SUBSET (0..Len(recs))
        BY <1>2
      <3> HIDE DEF at
      <3> QED BY <1>2, <1>4, <3>1, GreatestElement
    <2>2. last \in at /\ \A j \in at : j <= last
      <3> HIDE DEF at
      <3> QED BY <2>1
    <2> HIDE DEF last
    <2> QED BY <1>1, <1>4, <2>2 DEF IsLastSnapshot
  <1> QED BY <1>3, <1>4

\* There is one such record.
LEMMA LastSnapshotUnique ==
    ASSUME NEW recs \in Seq(RecordT), NEW k, IsLastSnapshot(recs, k)
    PROVE  LastSnapshot(recs) = k
  <1> DEFINE m == LastSnapshot(recs)
  <1>1. IsLastSnapshot(recs, m)
    BY LastSnapshotIs
  <1>2. Len(recs) \in Nat
    OBVIOUS
  <1> HIDE DEF m
  <1>3. m = k
    BY <1>1, <1>2 DEF IsLastSnapshot
  <1> QED BY <1>3 DEF m

\* The records after one more Ready
LEMMA LastSnapshotAppend ==
    ASSUME NEW recs \in Seq(RecordT), NEW rec \in RecordT
    PROVE  /\ Append(recs, rec) \in Seq(RecordT)
           /\ rec.snapshot # NoSnapshot => LastSnapshot(Append(recs, rec)) = Len(recs) + 1
           /\ rec.snapshot = NoSnapshot => LastSnapshot(Append(recs, rec)) = LastSnapshot(recs)
  <1> DEFINE new == Append(recs, rec)
  <1>1. /\ new \in Seq(RecordT) /\ Len(recs) \in Nat /\ Len(new) = Len(recs) + 1
        /\ \A k \in 1..Len(recs) : new[k] = recs[k]
        /\ new[Len(recs) + 1] = rec
    OBVIOUS
  <1> HIDE DEF new
  <1>2. \A k \in 1..Len(new) : k \in 1..Len(recs) \/ k = Len(recs) + 1
    BY <1>1
  <1>3. rec.snapshot # NoSnapshot => LastSnapshot(new) = Len(recs) + 1
    <2>1. HAVE rec.snapshot # NoSnapshot
    <2>2. Len(recs) + 1 \in 1..Len(new) /\ new[Len(recs) + 1].snapshot # NoSnapshot
      BY <1>1, <2>1
    <2>3. \A j \in 1..Len(new) : j <= Len(recs) + 1
      BY <1>1
    <2>4. IsLastSnapshot(new, Len(recs) + 1)
      BY <2>2, <2>3 DEF IsLastSnapshot
    <2> QED BY <1>1, <2>4, LastSnapshotUnique
  <1>4. rec.snapshot = NoSnapshot => LastSnapshot(new) = LastSnapshot(recs)
    <2>1. HAVE rec.snapshot = NoSnapshot
    <2> DEFINE m == LastSnapshot(recs)
    <2>2. IsLastSnapshot(recs, m)
      BY LastSnapshotIs
    <2> HIDE DEF m
    <2>3. IsLastSnapshot(new, m)
      <3>1. CASE m = 0 /\ \A j \in 1..Len(recs) : recs[j].snapshot = NoSnapshot
        BY <1>1, <1>2, <2>1, <3>1 DEF IsLastSnapshot
      <3>2. CASE /\ m \in 1..Len(recs) /\ recs[m].snapshot # NoSnapshot
                 /\ \A j \in 1..Len(recs) : recs[j].snapshot # NoSnapshot => j <= m
        <4>1. m \in 1..Len(new) /\ new[m].snapshot # NoSnapshot
          BY <1>1, <3>2
        <4>2. \A j \in 1..Len(new) : new[j].snapshot # NoSnapshot => j <= m
          BY <1>1, <1>2, <2>1, <3>2
        <4> QED BY <4>1, <4>2 DEF IsLastSnapshot
      <3> QED BY <2>2, <3>1, <3>2 DEF IsLastSnapshot
    <2> QED BY <1>1, <2>3, LastSnapshotUnique DEF m
  <1> QED BY <1>1, <1>3, <1>4 DEF new

\* a are the first k of recs, b those after them.
SplitAt(recs, k, a, b) ==
    /\ a \in Seq(RecordT) /\ Len(a) = k /\ \A j \in 1..k : a[j] = recs[j]
    /\ b \in Seq(RecordT) /\ Len(b) = Len(recs) - k /\ \A j \in 1..Len(b) : b[j] = recs[k + j]
    /\ LastSnapshot(recs) <= k => LastSnapshot(a) = LastSnapshot(recs)
    /\ LastSnapshot(recs) > k => LastSnapshot(b) = LastSnapshot(recs) - k

\* The records before and after the first k of them are reported
LEMMA LastSnapshotSplit ==
    ASSUME NEW recs \in Seq(RecordT), NEW k \in 0..Len(recs), NEW a, NEW b,
           a = SubSeq(recs, 1, k), b = SubSeq(recs, k + 1, Len(recs))
    PROVE  SplitAt(recs, k, a, b)
  <1>1. Len(recs) \in Nat /\ k \in Nat /\ k <= Len(recs)
    OBVIOUS
  <1>2. a \in Seq(RecordT) /\ Len(a) = k /\ \A j \in 1..k : a[j] = recs[j]
    <2>1. \A i \in 1..k : recs[i] \in RecordT
      BY <1>1
    <2> QED BY <1>1, <2>1, SubSeqProperties
  <1>3. b \in Seq(RecordT) /\ Len(b) = Len(recs) - k /\ \A j \in 1..Len(b) : b[j] = recs[k + j]
    <2>1. \A i \in (k + 1)..Len(recs) : recs[i] \in RecordT
      BY <1>1
    <2>2. /\ b \in Seq(RecordT) /\ Len(b) = IF k + 1 <= Len(recs) THEN Len(recs) - (k + 1) + 1 ELSE 0
          /\ \A i \in 1..(Len(recs) - (k + 1) + 1) : b[i] = recs[(k + 1) + i - 1]
      BY <1>1, <2>1, SubSeqProperties
    <2>3. Len(b) = Len(recs) - k /\ Len(recs) - (k + 1) + 1 = Len(recs) - k
      BY <1>1, <2>2
    <2>4. ASSUME NEW j \in 1..Len(b) PROVE b[j] = recs[k + j]
      <3>1. (k + 1) + j - 1 = k + j
        BY <1>1
      <3>2. j \in 1..(Len(recs) - (k + 1) + 1)
        BY <2>3
      <3> QED BY <2>2, <3>1, <3>2
    <2> QED BY <2>2, <2>3, <2>4
  <1> DEFINE m == LastSnapshot(recs)
  <1>4. IsLastSnapshot(recs, m)
    BY LastSnapshotIs
  <1>5. m \in Nat
    BY <1>1, <1>4 DEF IsLastSnapshot
  <1> HIDE DEF m
  <1>6. m <= k => IsLastSnapshot(a, m)
    BY <1>1, <1>2, <1>4 DEF IsLastSnapshot
  <1>7. m > k => IsLastSnapshot(b, m - k)
    <2>1. HAVE m > k
    <2>2. /\ m \in 1..Len(recs) /\ recs[m].snapshot # NoSnapshot
          /\ \A j \in 1..Len(recs) : recs[j].snapshot # NoSnapshot => j <= m
      BY <1>1, <1>4, <1>5, <2>1 DEF IsLastSnapshot
    <2>3. m - k \in 1..Len(b) /\ k + (m - k) = m
      BY <1>1, <1>3, <2>1, <2>2
    <2>4. b[m - k].snapshot # NoSnapshot
      BY <1>3, <2>2, <2>3
    <2>5. ASSUME NEW j \in 1..Len(b), b[j].snapshot # NoSnapshot PROVE j <= m - k
      <3>1. k + j \in 1..Len(recs) /\ b[j] = recs[k + j]
        BY <1>1, <1>3
      <3>2. k + j <= m
        BY <2>2, <2>5, <3>1
      <3> QED BY <1>1, <1>3, <1>5, <3>2
    <2> QED BY <2>3, <2>4, <2>5 DEF IsLastSnapshot
  <1>8. m <= k => LastSnapshot(a) = m
    BY <1>2, <1>6, LastSnapshotUnique
  <1>9. m > k => LastSnapshot(b) = m - k
    BY <1>3, <1>7, LastSnapshotUnique
  <1> QED BY <1>2, <1>3, <1>8, <1>9 DEF m, SplitAt

\* The entries of st are those from f on without a gap.
From(st, f) ==
    /\ st \in StoreType /\ \A k \in 1..Len(st.entries) : st.entries[k].index = f + k - 1
    /\ st.entries = <<>> => f = st.snap.index + 1

\* Where such a storage begins and ends
LEMMA FromSpan ==
    ASSUME NEW st, NEW f \in Nat, From(st, f)
    PROVE  StoreFirst(st) = f /\ StoreLast(st) = f + Len(st.entries) - 1
  BY StoreSpan DEF From

\* s is st with the entries from off on replaced by ents.
Overwritten(st, f, ents, off, s) ==
    /\ From(s, f) /\ Len(s.entries) = off - f + Len(ents) /\ s.snap = st.snap /\ s.commit = st.commit
    /\ \A j \in 1..(off - f) : s.entries[j] = st.entries[j]
    /\ \A k \in 1..Len(ents) : s.entries[off - f + k] = ents[k]

\* What MemStorageCore::append does with entries that go on from off
LEMMA StoreAppendOverwrites ==
    ASSUME NEW st, NEW f \in Nat, From(st, f), NEW ents \in Seq(EntryT), NEW off \in Nat, f <= off,
           off <= StoreLast(st) + 1, \A k \in 1..Len(ents) : ents[k].index = off + k - 1,
           ents = <<>> => off = StoreLast(st) + 1
    PROVE  CanStoreAppend(st, ents) /\ Overwritten(st, f, ents, off, StoreAppend(st, ents))
  <1> DEFINE len == Len(st.entries)
             add == Len(ents)
             s == StoreAppend(st, ents)
  <1>1. st \in StoreType /\ len \in Nat /\ add \in Nat /\ st.entries \in Seq(EntryT)
    BY DEF From, StoreType
  <1>2. StoreFirst(st) = f /\ StoreLast(st) = f + len - 1
    BY FromSpan
  <1>3. CASE ents = <<>>
    <2>1. s = st /\ CanStoreAppend(st, ents) /\ add = 0
      BY <1>3 DEF StoreAppend, CanStoreAppend
    <2>2. len = off - f /\ len = off - f + add
      <3> HIDE DEF len, add
      <3> QED BY <1>1, <1>2, <1>3, <2>1
    <2> QED BY <2>1, <2>2 DEF Overwritten
  <1>4. CASE ents # <<>>
    <2>1. add > 0 /\ 1 \in 1..add
      BY <1>1, <1>4
    <2>2. ents[1].index = off
      <3>1. ents[1].index = off + 1 - 1
        BY <2>1
      <3> QED BY <3>1
    <2>3. CanStoreAppend(st, ents)
      BY <1>2, <2>2 DEF CanStoreAppend
    <2> DEFINE d == off - f
               keep == SubSeq(st.entries, 1, d)
               new == keep \o ents
    <2>4. d \in 0..len
      <3> HIDE DEF len
      <3> QED BY <1>1, <1>2
    <2>5. s = [st EXCEPT !.entries = new]
      <3> HIDE DEF From
      <3> QED BY <1>2, <1>4, <2>2, Zenon DEF StoreAppend
    <2> HIDE DEF d, s
    <2>6. keep \in Seq(EntryT) /\ Len(keep) = d /\ \A k \in 1..d : keep[k] = st.entries[k]
      BY <1>1, <2>4
    <2> HIDE DEF keep
    <2>7. /\ new \in Seq(EntryT) /\ Len(new) = d + add
          /\ \A k \in 1..(d + add) : new[k] = IF k <= d THEN keep[k] ELSE ents[k - d]
      <3>1. new \in Seq(EntryT) /\ Len(new) = Len(keep) + Len(ents)
        BY <2>6
      <3>2. \A k \in 1..(Len(keep) + Len(ents)) : new[k] = IF k <= Len(keep) THEN keep[k] ELSE ents[k - Len(keep)]
        BY <2>6
      <3> QED BY <2>6, <3>1, <3>2
    <2> HIDE DEF new
    <2>8. s = [snap |-> st.snap, entries |-> new, commit |-> st.commit]
      BY <1>1, <2>5 DEF StoreType
    <2>9. s.snap = st.snap /\ s.entries = new /\ s.commit = st.commit /\ s \in StoreType
      BY <1>1, <2>7, <2>8 DEF StoreType
    <2>10. \A j \in 1..d : new[j] = st.entries[j]
      BY <1>1, <2>4, <2>6, <2>7
    <2>11. ASSUME NEW k \in 1..add PROVE new[d + k] = ents[k] /\ d + k \in 1..(d + add)
      <3>1. d + k \in 1..(d + add) /\ ~(d + k <= d) /\ (d + k) - d = k
        <4> HIDE DEF len, add
        <4> QED BY <1>1, <2>4
      <3> QED BY <2>7, <3>1
    <2>12. ASSUME NEW k \in 1..Len(new) PROVE new[k].index = f + k - 1
      <3>1. CASE k <= d
        <4>1. k \in 1..d /\ k \in 1..len
          BY <1>1, <2>4, <3>1
        <4> QED BY <2>10, <4>1 DEF From
      <3>2. CASE k > d
        <4>1. k - d \in 1..add /\ d + (k - d) = k /\ off + (k - d) - 1 = f + k - 1
          BY <1>1, <2>4, <2>7, <3>2 DEF d
        <4>2. new[k] = ents[k - d]
          BY <2>11, <4>1
        <4> QED BY <4>1, <4>2
      <3> QED BY <1>1, <2>4, <2>7, <3>1, <3>2
    <2>13. new # <<>>
      BY <1>1, <2>1, <2>4, <2>7
    <2>14. From(s, f)
      BY <2>9, <2>12, <2>13 DEF From
    <2>15. Overwritten(st, f, ents, off, s)
      BY <2>7, <2>9, <2>10, <2>11, <2>14 DEF Overwritten, d
    <2> QED BY <2>3, <2>15 DEF s
  <1> QED BY <1>3, <1>4

\* The storage before the entries of a Ready are appended
LEMMA SnapshottedFrom ==
    ASSUME NEW n, NEW ls, NEW ch, NodeInv(n, ls, ch), NEW st, st = Snapshotted(n)
    PROVE  /\ HasSnapshot(n.unstable) => CanApplySnapshot(n.store, n.unstable.snapshot)
           /\ From(st, FirstIndex(n)) /\ n.unstable.offset <= StoreLast(st) + 1
           /\ n.unstable.entries = <<>> => n.unstable.offset = StoreLast(st) + 1
           /\ HasSnapshot(n.unstable) => st.snap = n.unstable.snapshot /\ st.commit = n.unstable.snapshot.index
           /\ ~HasSnapshot(n.unstable) => st = n.store
  <1>1. IsNode(n, ch) /\ IsUnstable(n.unstable) /\ IsStore(n.store)
    BY NodeNumbers DEF NodeInv
  <1>2. CASE HasSnapshot(n.unstable)
    <2> DEFINE x == n.unstable.snapshot.index
               off == n.unstable.offset
    <2>1. x \in Nat /\ off = x + 1 /\ n.unstable.snapshot \in [index : Nat, term : Nat]
      BY <1>1, <1>2, UnstableEnds
    <2>2. st = [snap |-> n.unstable.snapshot, entries |-> <<>>, commit |-> x]
      BY <1>2 DEF Snapshotted, ApplySnapshot
    <2>3. st.snap = n.unstable.snapshot /\ st.entries = <<>> /\ st.commit = x /\ st.snap.index = x
      BY <2>2
    <2>4. st \in StoreType
      BY <2>1, <2>2 DEF StoreType
    <2>5. FirstIndex(n) = x + 1
      BY <1>2 DEF FirstIndex
    <2>6. From(st, FirstIndex(n))
      BY <2>3, <2>4, <2>5 DEF From
    <2>7. StoreLast(st) = x
      BY <2>3 DEF StoreLast
    <2>8. CanApplySnapshot(n.store, n.unstable.snapshot)
      BY <1>1, <1>2 DEF IsNode, SnapshotAhead, CanApplySnapshot
    <2>9. off <= StoreLast(st) + 1 /\ off = StoreLast(st) + 1
      <3> HIDE DEF off, x
      <3> QED BY <2>1, <2>7
    <2> QED BY <1>2, <2>3, <2>6, <2>8, <2>9
  <1>3. CASE ~HasSnapshot(n.unstable)
    <2>1. st = n.store
      BY <1>3 DEF Snapshotted
    <2>2. FirstIndex(n) = StoreFirst(n.store)
      BY <1>3 DEF FirstIndex
    <2>3. From(n.store, StoreFirst(n.store))
      <3>1. n.store.entries = <<>> => StoreFirst(n.store) = n.store.snap.index + 1
        BY DEF StoreFirst
      <3> QED BY <1>1, <3>1 DEF From, IsStore
    <2> QED BY <1>1, <1>3, <2>1, <2>2, <2>3 DEF IsNode, NoGap
  <1> QED BY <1>2, <1>3

\* The storage w holds the whole log of n.
Holds(n, w, ls, ch) ==
    /\ StoreInv(w, ls, ch) /\ IsStore(w) /\ w.commit = n.committed
    /\ StoreFirst(w) = FirstIndex(n) /\ StoreLast(w) = LastIndex(n)
    /\ \A l : NodeFits(n, l, ch) => Fits(w, l)

\* The application can store a Ready, and then holds the whole log.
LEMMA WrittenHolds ==
    ASSUME NEW n, NEW ls, NEW ch, NodeInv(n, ls, ch)
    PROVE  CanWrite(n) /\ Holds(n, Written(n), ls, ch)
  <1> DEFINE st == Snapshotted(n)
             ents == n.unstable.entries
             s == StoreAppend(st, ents)
             w == Written(n)
             f == FirstIndex(n)
             off == n.unstable.offset
             len == Len(n.unstable.entries)
             z == LastIndex(n)
             c == n.committed
  <1>1. IsNode(n, ch) /\ IsUnstable(n.unstable) /\ IsStore(n.store) /\ c \in Nat /\ c <= z /\ n.prev_commit \in Nat
        /\ n.prev_commit <= c /\ n.prev_commit = n.store.commit
    BY NodeNumbers DEF NodeInv
  <1>2. ents \in Seq(EntryT) /\ off \in Nat /\ len \in Nat /\ \A k \in 1..Len(ents) : ents[k].index = off + k - 1
    BY <1>1, UnstableEnds DEF IsUnstable
  <1>3. f \in Nat /\ f > 0 /\ f <= off /\ z = off + len - 1 /\ z \in Nat /\ f <= c + 1
    BY <1>1, NodeEnds
  <1>4. /\ HasSnapshot(n.unstable) => CanApplySnapshot(n.store, n.unstable.snapshot)
        /\ From(st, f) /\ off <= StoreLast(st) + 1
        /\ ents = <<>> => off = StoreLast(st) + 1
        /\ HasSnapshot(n.unstable) => st.snap = n.unstable.snapshot /\ st.commit = n.unstable.snapshot.index
        /\ ~HasSnapshot(n.unstable) => st = n.store
    BY SnapshottedFrom
  <1> HIDE DEF st
  <1>5. CanStoreAppend(st, ents) /\ Overwritten(st, f, ents, off, s)
    <2> HIDE DEF f, off, ents
    <2> QED BY <1>2, <1>3, <1>4, StoreAppendOverwrites
  <1>6. CanWrite(n)
    BY <1>4, <1>5 DEF CanWrite, st
  <1> HIDE DEF s
  <1>7. /\ From(s, f) /\ Len(s.entries) = off - f + len /\ s.snap = st.snap /\ s.commit = st.commit
        /\ \A j \in 1..(off - f) : s.entries[j] = st.entries[j]
        /\ \A k \in 1..len : s.entries[off - f + k] = ents[k]
    BY <1>5 DEF Overwritten
  <1>8. w = IF c # n.prev_commit THEN SetHardState(s, c) ELSE s
    BY DEF Written, s, st
  <1>9. s \in StoreType
    BY <1>7 DEF From
  <1> HIDE DEF w
  <1>10. w \in StoreType /\ w.entries = s.entries /\ w.snap = s.snap /\ w.commit = c
    <2>1. CASE c # n.prev_commit
      <3>1. w = [s EXCEPT !.commit = c]
        BY <1>8, <2>1 DEF SetHardState
      <3> QED BY <1>1, <1>9, <3>1 DEF StoreType
    <2>2. CASE c = n.prev_commit
      <3>1. w = s
        BY <1>8, <2>2
      <3>2. ~HasSnapshot(n.unstable)
        <4>1. n.unstable.snapshot.index \in Nat
          BY <1>1, UnstableEnds
        <4> QED BY <1>1, <2>2, <4>1 DEF IsNode, SnapshotAhead
      <3>3. s.commit = c
        BY <1>1, <1>4, <1>7, <2>2, <3>2
      <3> QED BY <1>9, <3>1, <3>3
    <2> QED BY <2>1, <2>2
  <1>11. From(w, f)
    BY <1>7, <1>10 DEF From
  <1>12. StoreFirst(w) = f /\ StoreLast(w) = z
    <2>1. StoreFirst(w) = f /\ StoreLast(w) = f + (off - f + len) - 1
      BY <1>3, <1>7, <1>10, <1>11, FromSpan
    <2>2. f + (off - f + len) - 1 = z
      <3> HIDE DEF f, off, len, z
      <3> QED BY <1>2, <1>3
    <2> QED BY <2>1, <2>2
  <1>13. w.snap.index \in Nat /\ w.snap.index < f /\ w.snap.index <= c /\ (c = w.snap.index \/ c \in f..z)
         /\ w.snap.term = TermIn(ch, w.snap.index)
    <2>1. CASE HasSnapshot(n.unstable)
      <3>1. w.snap = n.unstable.snapshot
        BY <1>4, <1>7, <1>10, <2>1
      <3>2. n.unstable.snapshot.index \in Nat /\ n.unstable.snapshot.index > 0
        BY <1>1, <2>1, UnstableEnds
      <3>3. n.unstable.snapshot.index <= c /\ n.unstable.snapshot.term = ch[n.unstable.snapshot.index]
        BY <1>1, <2>1 DEF IsNode, SnapshotAhead
      <3>4. f = n.unstable.snapshot.index + 1
        BY <2>1 DEF FirstIndex
      <3>5. w.snap.term = TermIn(ch, w.snap.index)
        BY <3>1, <3>2, <3>3 DEF TermIn
      <3> DEFINE x == n.unstable.snapshot.index
      <3>6. x \in Nat /\ x <= c /\ f = x + 1
        BY <3>2, <3>3, <3>4
      <3> HIDE DEF x, f, z, c
      <3>7. x < f /\ (c = x \/ c \in f..z)
        BY <1>1, <1>3, <3>6
      <3> QED BY <3>1, <3>5, <3>6, <3>7 DEF x
    <2>2. CASE ~HasSnapshot(n.unstable)
      <3>1. w.snap = n.store.snap /\ f = StoreFirst(n.store)
        BY <1>4, <1>7, <1>10, <2>2 DEF FirstIndex
      <3>2. n.store.snap.term = TermIn(ch, n.store.snap.index)
        BY DEF NodeInv, StoreInv
      <3> DEFINE x == n.store.snap.index
                 d == n.store.commit
                 sl == StoreLast(n.store)
      <3>3. x \in Nat /\ x < f /\ f <= d + 1 /\ x <= d /\ d <= c /\ d \in Nat /\ sl \in Nat /\ (d = x \/ d \in f..sl)
        BY <1>1, <3>1, StoreEnds DEF IsStore, CanSnapshot
      <3> HIDE DEF x, f, d, c, sl, z
      <3>4. x <= c /\ (c = x \/ c \in f..z)
        BY <1>1, <1>3, <3>3
      <3> QED BY <3>1, <3>2, <3>3, <3>4 DEF x
    <2> QED BY <2>1, <2>2
  <1>14. IsStore(w)
    <2>1. \A k \in 1..Len(w.entries) : w.entries[k].index = f + k - 1
      BY <1>11 DEF From
    <2> QED BY <1>1, <1>3, <1>10, <1>12, <1>13, <2>1 DEF IsStore, CanSnapshot
  <1>15. ASSUME NEW l, NodeFits(n, l, ch) PROVE Fits(w, l)
    <2>1. z <= Len(l)
      BY <1>15 DEF NodeFits
    <2>2. ASSUME NEW i \in f..z PROVE w.entries[i - f + 1].term = l[i]
      <3>1. CASE i < off
        <4>1. ~HasSnapshot(n.unstable) /\ f = StoreFirst(n.store)
          <5>1. HasSnapshot(n.unstable) => f = off
            BY <1>1, NodeEnds
          <5>2. ~HasSnapshot(n.unstable)
            <6> HIDE DEF f, off
            <6> QED BY <1>2, <1>3, <3>1, <5>1
          <5> QED BY <5>2 DEF FirstIndex
        <4>2. i - f + 1 \in 1..(off - f) /\ i \in f..(off - 1)
          <5> HIDE DEF f, off, z
          <5> QED BY <1>2, <1>3, <3>1
        <4>3. w.entries[i - f + 1] = n.store.entries[i - f + 1]
          BY <1>4, <1>7, <1>10, <4>1, <4>2
        <4> QED BY <1>15, <4>1, <4>2, <4>3 DEF NodeFits
      <3>2. CASE i >= off
        <4>1. i - off + 1 \in 1..len /\ off - f + (i - off + 1) = i - f + 1 /\ off + (i - off + 1) - 1 = i
          <5> HIDE DEF f, off, z, len
          <5> QED BY <1>2, <1>3, <3>2
        <4>2. w.entries[i - f + 1] = ents[i - off + 1]
          BY <1>7, <1>10, <4>1
        <4>3. ents[i - off + 1].term = l[off + (i - off + 1) - 1]
          BY <1>15, <4>1 DEF NodeFits
        <4> QED BY <4>1, <4>2, <4>3
      <3> QED BY <1>2, <1>3, <3>1, <3>2
    <2> QED BY <1>12, <2>1, <2>2 DEF Fits
  <1>16. StoreInv(w, ls, ch)
    <2>1. PICK l \in ls : NodeFits(n, l, ch)
      BY DEF NodeInv
    <2>2. Fits(w, l) /\ Agree(l, ch, c) /\ c <= Len(ch)
      BY <1>15, <2>1 DEF NodeFits, Agree
    <2> QED BY <1>10, <1>13, <1>14, <2>2 DEF StoreInv
  <1>17. Holds(n, w, ls, ch)
    BY <1>10, <1>12, <1>14, <1>15, <1>16 DEF Holds
  <1> QED BY <1>6, <1>17 DEF w

\* m is n but for what it has handed out: the entries of ch up to s.
HandedOut(n, m, s) ==
    /\ m.since = s /\ m.unstable = n.unstable /\ m.store = n.store /\ m.committed = n.committed
    /\ m.persisted = n.persisted /\ m.applied = n.applied /\ m.records = n.records /\ m.prev_commit = n.prev_commit
    /\ NodeT(m)

\* What handing out entries changes
LEMMA SinceFields ==
    ASSUME NEW n, NodeT(n), NEW s \in Nat
    PROVE  HandedOut(n, [n EXCEPT !.since = s], s) /\ HandedOut(n, n, n.since)
  <1> DEFINE m == [n EXCEPT !.since = s]
  <1>1. m = [unstable |-> n.unstable, store |-> n.store, committed |-> n.committed, persisted |-> n.persisted,
             applied |-> n.applied, records |-> n.records, since |-> s, prev_commit |-> n.prev_commit]
    BY NodeRecord
  <1> HIDE DEF m
  <1>2. /\ m.unstable = n.unstable /\ m.store = n.store /\ m.committed = n.committed /\ m.persisted = n.persisted
        /\ m.applied = n.applied /\ m.records = n.records /\ m.since = s /\ m.prev_commit = n.prev_commit
    BY <1>1
  <1>3. NodeT(m)
    BY <1>1, <1>2 DEF NodeT
  <1>4. HandedOut(n, m, s)
    BY <1>2, <1>3 DEF HandedOut
  <1> QED BY <1>4 DEF HandedOut, m

\* The range that next_entries_since hands out next is in the storage.
LEMMA NextRange ==
    ASSUME NEW n, NEW ls, NEW ch, NodeInv(n, ls, ch), HasNext(n)
    PROVE  /\ ~HasSnapshot(n.unstable) /\ NextLow(n) = n.since + 1 /\ NextHigh(n) \in Nat
           /\ NextLow(n) < NextHigh(n) /\ NextHigh(n) <= n.committed + 1 /\ NextHigh(n) <= n.persisted + 1
           /\ NextHigh(n) <= n.unstable.offset /\ NextHigh(n) <= StoreLast(n.store) + 1
           /\ StoreFirst(n.store) <= NextLow(n) /\ FirstIndex(n) = StoreFirst(n.store)
           /\ NextHigh(n) <= LastIndex(n) + 1
  <1> DEFINE c == n.committed
             p == n.persisted
             s == n.since
             f == FirstIndex(n)
             off == n.unstable.offset
             lo == NextLow(n)
             hi == NextHigh(n)
             sl == StoreLast(n.store)
             x == n.unstable.snapshot.index
             z == LastIndex(n)
  <1>1. IsNode(n, ch) /\ c \in Nat /\ p \in Nat /\ s \in Nat /\ off \in Nat /\ p < off /\ StoreFirst(n.store) <= s + 1
        /\ IsUnstable(n.unstable) /\ IsStore(n.store) /\ c <= z
    BY NodeNumbers DEF NodeInv
  <1>2. f \in Nat /\ sl \in Nat /\ x \in Nat /\ z \in Nat
    BY <1>1, NodeEnds, StoreEnds, UnstableEnds
  <1>3. lo = (IF s + 1 > f THEN s + 1 ELSE f) /\ hi = (IF c < p THEN c ELSE p) + 1 /\ hi > lo
    BY DEF NextLow, NextHigh, MinOf2, MaxOf2, HasNext
  <1>4. HasSnapshot(n.unstable) => f = x + 1 /\ p <= x
    BY <1>1 DEF IsNode, SnapshotAhead, FirstIndex
  <1>5. ~HasSnapshot(n.unstable) => f = StoreFirst(n.store) /\ off <= sl + 1
    BY <1>1 DEF IsNode, NoGap, FirstIndex
  <1> HIDE DEF c, p, s, f, off, lo, hi, sl, x, z
  <1>6. ~HasSnapshot(n.unstable)
    BY <1>1, <1>2, <1>3, <1>4
  <1>7. f = StoreFirst(n.store) /\ f <= s + 1
    BY <1>1, <1>5, <1>6
  <1>8. /\ lo = s + 1 /\ hi \in Nat /\ lo < hi /\ hi <= c + 1 /\ hi <= p + 1 /\ hi <= off /\ hi <= sl + 1 /\ f <= lo
        /\ hi <= z + 1
    BY <1>1, <1>2, <1>3, <1>5, <1>6, <1>7
  <1> QED BY <1>6, <1>7, <1>8 DEF c, p, s, f, off, lo, hi, sl, z

\* ents have the terms that ch has from lo up to, not including, h.
TermsOf(ents, ch, lo, h) == Len(ents) = h - lo /\ \A k \in 1..Len(ents) : ents[k].term = ch[lo + k - 1]

\* The first s entries of ch and ents are the first e of ch.
GoesOnTo(ch, s, ents, e) == SubSeq(ch, 1, s) \o Terms(ents) = SubSeq(ch, 1, e)

\* m goes on from n and hands out the entries of ch after n.since, up to m.since.
Gives(n, m, ents, ch) ==
    /\ HandedOut(n, m, m.since) /\ m.since \in Nat /\ n.since <= m.since /\ m.since <= n.committed
    /\ m.since = n.since \/ m.since <= n.persisted
    /\ GoesOnTo(ch, n.since, ents, m.since)

\* The entries lo to h - 1, read from the storage
LEMMA SliceReads ==
    ASSUME NEW n, NEW ls, NEW ch, NodeInv(n, ls, ch), HasNext(n), NEW h \in Nat, NextLow(n) < h, h <= NextHigh(n),
           NEW ents, ents = Slice(n, NextLow(n), h)
    PROVE  /\ Len(ents) = h - NextLow(n)
           /\ \A k \in 1..Len(ents) : ents[k].term = ch[NextLow(n) + k - 1]
  <1> DEFINE lo == NextLow(n)
             hi == NextHigh(n)
             off == n.unstable.offset
             st == n.store
             f == StoreFirst(n.store)
             sl == StoreLast(n.store)
             len == Len(n.store.entries)
             c == n.committed
             sub == SubSeq(st.entries, lo - f + 1, h - f)
  <1>0. lo < h /\ h <= hi
    OBVIOUS
  <1>1. /\ ~HasSnapshot(n.unstable) /\ lo = n.since + 1 /\ hi \in Nat /\ hi <= c + 1 /\ hi <= off /\ hi <= sl + 1
        /\ f <= lo
    BY NextRange
  <1>2. n.since \in Nat /\ c \in Nat /\ off \in Nat /\ IsStore(st)
    BY NodeNumbers
  <1>3. /\ f \in Nat /\ sl \in Nat /\ len \in Nat /\ sl = f + len - 1 /\ st.entries \in Seq(EntryT) /\ f > 0
    BY <1>2, StoreEnds
  <1>4. lo \in Nat
    BY <1>1, <1>2
  <1>5. ents = sub \o <<>>
    <2>1. lo < off /\ ~(h > off) /\ MinOf2(h, off) = h
      <3> HIDE DEF lo, hi, off
      <3> QED BY <1>0, <1>1, <1>2, <1>4 DEF MinOf2
    <2>2. ents = (IF lo < off THEN StoreEntries(st, lo, MinOf2(h, off)) ELSE <<>>)
                   \o (IF h > off THEN UnstableSlice(n.unstable, MaxOf2(lo, off), h) ELSE <<>>)
      BY DEF Slice
    <2>3. StoreEntries(st, lo, h) = sub
      BY DEF StoreEntries
    <2> HIDE DEF lo, hi, off, sub
    <2> QED BY <2>1, <2>2, <2>3, Zenon
  <1> DEFINE a == lo - f + 1
             b == h - f
  <1>6. a \in 1..len /\ b \in 1..len /\ a <= b /\ b - a + 1 = h - lo
    <2> HIDE DEF lo, hi, f, sl, len, c, off
    <2> QED BY <1>0, <1>1, <1>3, <1>4
  <1>7. sub \in Seq(EntryT) /\ Len(sub) = b - a + 1 /\ \A k \in 1..(b - a + 1) : sub[k] = st.entries[a + k - 1]
    <2>1. \A k \in a..b : st.entries[k] \in EntryT
      <3> HIDE DEF a, b
      <3> QED BY <1>3, <1>6
    <2>2. a \in Int /\ b \in Int
      BY <1>6
    <2>3. sub = SubSeq(st.entries, a, b)
      OBVIOUS
    <2> HIDE DEF a, b, sub
    <2> QED BY <1>6, <2>1, <2>2, <2>3, SubSeqProperties
  <1>8. ents = sub
    <2> HIDE DEF sub
    <2> QED BY <1>5, <1>7
  <1>9. PICK l \in ls : NodeFits(n, l, ch)
    BY DEF NodeInv
  <1>10. ASSUME NEW k \in 1..(h - lo) PROVE sub[k].term = ch[lo + k - 1]
    <2> DEFINE i == lo + k - 1
    <2>1. i \in f..(off - 1) /\ i \in 1..c /\ a + k - 1 = i - f + 1
      <3>1. k \in Nat /\ k >= 1 /\ k <= h - lo
        BY <1>0, <1>4
      <3> HIDE DEF lo, hi, f, sl, len, c, off
      <3>2. lo + k - 1 \in f..(off - 1)
        BY <1>0, <1>1, <1>2, <1>3, <1>4, <3>1
      <3>3. lo + k - 1 \in 1..c
        BY <1>0, <1>1, <1>2, <1>3, <1>4, <3>1
      <3>4. (lo - f + 1) + k - 1 = (lo + k - 1) - f + 1
        BY <1>3, <1>4, <3>1
      <3> QED BY <3>2, <3>3, <3>4
    <2>2. st.entries[i - f + 1].term = l[i]
      BY <1>1, <1>9, <2>1 DEF NodeFits
    <2>3. l[i] = ch[i]
      BY <1>9, <2>1 DEF NodeFits, Agree
    <2>4. sub[k] = st.entries[a + k - 1]
      BY <1>6, <1>7
    <2> HIDE DEF sub, i
    <2>5. sub[k].term = ch[i]
      BY <2>1, <2>2, <2>3, <2>4
    <2> QED BY <2>5 DEF i
  <1> HIDE DEF sub
  <1> QED BY <1>6, <1>7, <1>8, <1>10

\* Handing out the next entries extends the prefix of chosen entries that was handed out.
LEMMA PrefixGrows ==
    ASSUME NEW ch \in Seq(Nat \ {0}), NEW s \in Nat, NEW h \in Nat, s < h, h - 1 <= Len(ch), NEW ents,
           TermsOf(ents, ch, s + 1, h)
    PROVE  GoesOnTo(ch, s, ents, h - 1)
  <1> DEFINE d == h - (s + 1)
             t == Terms(ents)
             a == SubSeq(ch, 1, s)
             b == SubSeq(ch, 1, h - 1)
  <1>0. Len(ents) = d /\ \A k \in 1..Len(ents) : ents[k].term = ch[(s + 1) + k - 1]
    BY DEF TermsOf
  <1>1. d \in Nat /\ Len(ch) \in Nat /\ s <= Len(ch)
    OBVIOUS
  <1>2. a \in Seq(Nat \ {0}) /\ Len(a) = s /\ \A k \in 1..s : a[k] = ch[k]
    BY <1>1
  <1>3. b \in Seq(Nat \ {0}) /\ Len(b) = h - 1 /\ \A k \in 1..(h - 1) : b[k] = ch[k]
    BY <1>1
  <1>4. t = [k \in 1..d |-> ents[k].term]
    BY <1>0 DEF Terms
  <1>5. ASSUME NEW k \in 1..d PROVE ents[k].term = ch[s + k] /\ ch[s + k] \in Nat \ {0}
    <2>1. (s + 1) + k - 1 = s + k /\ s + k \in 1..Len(ch)
      BY <1>1
    <2> QED BY <1>0, <2>1
  <1> HIDE DEF d
  <1>6. t \in [1..d -> Nat \ {0}] /\ \A k \in 1..d : t[k] = ch[s + k]
    BY <1>4, <1>5
  <1>7. t \in Seq(Nat \ {0})
    BY <1>1, <1>6
  <1>8. Len(t) = d
    BY <1>1, <1>4, <1>7
  <1> HIDE DEF t, a, b
  <1> DEFINE at == a \o t
  <1>9. /\ at \in Seq(Nat \ {0}) /\ Len(at) = s + d
        /\ \A k \in 1..(s + d) : at[k] = IF k <= s THEN a[k] ELSE t[k - s]
    <2> DEFINE S == Nat \ {0}
    <2>0. a \in Seq(S) /\ t \in Seq(S)
      BY <1>2, <1>7
    <2>1. at \in Seq(Nat \ {0}) /\ Len(at) = Len(a) + Len(t)
      <3> HIDE DEF S
      <3>1. at \in Seq(S) /\ Len(at) = Len(a) + Len(t)
        BY <2>0
      <3> QED BY <3>1 DEF S
    <2>2. \A k \in 1..(Len(a) + Len(t)) : at[k] = IF k <= Len(a) THEN a[k] ELSE t[k - Len(a)]
      BY <1>2, <1>7
    <2> HIDE DEF at
    <2> QED BY <1>2, <1>8, <2>1, <2>2, Zenon
  <1> HIDE DEF at
  <1>10. s + d = h - 1
    BY DEF d
  <1>11. ASSUME NEW k \in 1..(h - 1) PROVE at[k] = b[k]
    <2>0. k \in Nat /\ k \in 1..(s + d)
      BY <1>10
    <2>1. CASE k <= s
      <3>1. k \in 1..s
        BY <2>0, <2>1
      <3> QED BY <1>2, <1>3, <1>9, <2>0, <2>1, <3>1
    <2>2. CASE k > s
      <3>1. k - s \in 1..d /\ s + (k - s) = k /\ ~(k <= s) /\ k \in 1..(s + d)
        BY <1>1, <1>10, <2>2
      <3> QED BY <1>3, <1>6, <1>9, <3>1
    <2> QED BY <2>0, <2>1, <2>2
  <1>12. at = b
    BY <1>3, <1>9, <1>10, <1>11, SeqEqual
  <1> QED BY <1>12 DEF at, a, t, b, GoesOnTo

\* gen_light_ready hands out the next chosen entries, and reads them without an error.
LEMMA LightGives ==
    ASSUME NEW n, NEW ls, NEW ch, LogsT(ls, ch), NodeInv(n, ls, ch)
    PROVE  CanGenLight(n) /\ Gives(n, GenLight(n), LightEntries(n), ch)
  <1>1. NodeT(n) /\ n.since \in Nat /\ n.committed \in Nat /\ n.persisted \in Nat /\ n.since <= n.committed
    BY NodeNumbers DEF NodeInv, IsNode
  <1>2. ch \in Seq(Nat \ {0}) /\ Len(ch) \in Nat /\ n.committed <= Len(ch)
    BY DEF LogsT, NodeInv, NodeFits, Agree
  <1>3. CASE ~HasNext(n)
    <2>1. GenLight(n) = n /\ LightEntries(n) = <<>> /\ CanGenLight(n)
      BY <1>3 DEF GenLight, LightEntries, CanGenLight
    <2>2. Terms(<<>>) = <<>>
      BY DEF Terms
    <2>3. SubSeq(ch, 1, n.since) \in Seq(Nat \ {0})
      BY <1>1, <1>2
    <2>4. SubSeq(ch, 1, n.since) \o <<>> = SubSeq(ch, 1, n.since)
      BY <2>3, ConcatEmptySeq
    <2>5. HandedOut(n, n, n.since)
      BY <1>1, SinceFields
    <2> QED BY <1>1, <2>1, <2>2, <2>4, <2>5 DEF Gives, GoesOnTo
  <1>4. CASE HasNext(n)
    <2> DEFINE lo == NextLow(n)
               hi == NextHigh(n)
               h == MinOf2(hi, lo + MaxPerReady)
               ents == LightEntries(n)
               m == GenLight(n)
    <2>1. /\ ~HasSnapshot(n.unstable) /\ lo = n.since + 1 /\ hi \in Nat
          /\ lo < hi /\ hi <= n.committed + 1 /\ hi <= n.persisted + 1
          /\ hi <= n.unstable.offset /\ hi <= StoreLast(n.store) + 1
          /\ StoreFirst(n.store) <= lo /\ FirstIndex(n) = StoreFirst(n.store)
          /\ hi <= LastIndex(n) + 1
      BY <1>4, NextRange
    <2>2. lo \in Nat /\ MaxPerReady \in Nat \ {0} /\ n.unstable.offset \in Nat
      BY <1>1, <2>1, LogStoreAssumption, NodeNumbers
    <2>3. CanGenLight(n)
      <3>1. MinOf2(hi, n.unstable.offset) = hi /\ ~(hi > n.unstable.offset)
        <4> DEFINE off == n.unstable.offset
        <4>1. hi <= off /\ off \in Nat
          BY <2>1, <2>2
        <4> HIDE DEF off, hi
        <4>2. MinOf2(hi, off) = hi /\ ~(hi > off)
          BY <2>1, <4>1 DEF MinOf2
        <4> QED BY <4>2 DEF off
      <3>2. CanReadSlice(n, lo, hi)
        <4>1. lo >= FirstIndex(n) /\ CanReadEntries(n.store, lo, hi)
          BY <2>1 DEF CanReadEntries
        <4> QED BY <2>1, <3>1, <4>1 DEF CanReadSlice
      <3>3. n.since < hi
        BY <1>1, <2>1, <2>2
      <3> QED BY <3>2, <3>3 DEF CanGenLight
    <2>4. h \in Nat /\ lo < h /\ h <= hi
      <3> HIDE DEF lo, hi
      <3> QED BY <2>1, <2>2 DEF MinOf2
    <2>5. ents = Slice(n, lo, h)
      BY <1>4 DEF LightEntries
    <2> HIDE DEF h
    <2>6. Len(ents) = h - lo /\ \A k \in 1..Len(ents) : ents[k].term = ch[lo + k - 1]
      BY <1>4, <2>4, <2>5, SliceReads
    <2>7. m = [n EXCEPT !.since = h - 1]
      <3>1. m = [n EXCEPT !.since = lo + Len(ents) - 1]
        BY <1>4 DEF GenLight
      <3>2. lo + Len(ents) - 1 = h - 1
        <4> HIDE DEF lo, ents
        <4> QED BY <2>2, <2>4, <2>6
      <3> QED BY <3>1, <3>2, Zenon
    <2>8. h - 1 \in Nat /\ n.since <= h - 1 /\ h - 1 <= n.committed /\ h - 1 <= n.persisted /\ n.since < h
          /\ h - 1 <= Len(ch)
      <3>1. lo = n.since + 1 /\ hi \in Nat /\ hi <= n.committed + 1 /\ hi <= n.persisted + 1
        BY <2>1
      <3> DEFINE s == n.since
                 c == n.committed
                 p == n.persisted
                 len == Len(ch)
      <3>2. /\ lo = s + 1 /\ hi \in Nat /\ hi <= c + 1 /\ hi <= p + 1 /\ s \in Nat /\ c \in Nat /\ p \in Nat
            /\ len \in Nat /\ c <= len
        BY <1>1, <1>2, <3>1
      <3> HIDE DEF lo, hi, s, c, p, len
      <3>3. h - 1 \in Nat /\ s <= h - 1 /\ h - 1 <= c /\ h - 1 <= p /\ s < h /\ h - 1 <= len
        BY <2>4, <3>2
      <3> QED BY <3>3 DEF s, c, p, len
    <2>9. HandedOut(n, m, h - 1)
      BY <1>1, <2>7, <2>8, SinceFields
    <2>10. GoesOnTo(ch, n.since, ents, h - 1)
      <3>1. TermsOf(ents, ch, n.since + 1, h)
        <4> HIDE DEF lo, ents
        <4> QED BY <2>1, <2>6 DEF TermsOf
      <3> HIDE DEF ents
      <3> QED BY <1>1, <1>2, <2>4, <2>8, <3>1, PrefixGrows
    <2>11. m.since = h - 1
      BY <2>9 DEF HandedOut
    <2> HIDE DEF m, ents
    <2>12. Gives(n, m, ents, ch)
      BY <2>8, <2>9, <2>10, <2>11 DEF Gives
    <2> QED BY <2>3, <2>12 DEF m, ents
  <1> QED BY <1>3, <1>4

\* Records whose snapshots are stored and committed as far as n goes
Storable(n, recs) ==
    /\ recs \in Seq(RecordT)
    /\ \A k \in 1..Len(recs) : recs[k].snapshot # NoSnapshot =>
          recs[k].snapshot.index <= n.committed /\ recs[k].snapshot.index < n.unstable.offset

\* LastEntry is an entry or none.
LEMMA LastEntryType ==
    ASSUME NEW recs \in Seq(RecordT)
    PROVE  LastEntry(recs).index \in Nat
  <1> DEFINE at == {k \in 1..Len(recs) : recs[k].last # NoEntry /\ k >= LastSnapshot(recs)}
             last == CHOOSE k \in at : \A j \in at : j <= k
  <1>1. LastEntry(recs) = IF at = {} THEN NoEntry ELSE recs[last].last
    BY DEF LastEntry
  <1>2. CASE at = {}
    BY <1>1, <1>2 DEF NoEntry
  <1>3. CASE at # {}
    <2>1. \E k \in at : \A j \in at : j <= k
      <3>1. at \in SUBSET (0..Len(recs)) /\ Len(recs) \in Nat
        OBVIOUS
      <3> HIDE DEF at
      <3> QED BY <1>3, <3>1, GreatestElement
    <2>2. last \in at
      <3> HIDE DEF at
      <3> QED BY <2>1
    <2>3. last \in 1..Len(recs)
      BY <2>2
    <2> HIDE DEF last
    <2>4. recs[last] \in RecordT
      BY <2>3
    <2>5. recs[last].last.index \in Nat
      BY <2>4 DEF RecordT
    <2> QED BY <1>1, <1>3, <2>5
  <1> QED BY <1>2, <1>3

\* m is n but for the index p that is persisted and the records recs.
Reported(n, m, p, recs) ==
    /\ m.persisted = p /\ m.records = recs /\ m.unstable = n.unstable /\ m.store = n.store
    /\ m.committed = n.committed /\ m.applied = n.applied /\ m.since = n.since /\ m.prev_commit = n.prev_commit
    /\ NodeT(m)

\* What on_persist_ready changes
LEMMA ReportFields ==
    ASSUME NEW n, NodeT(n), NEW p \in Nat, NEW recs \in Seq(RecordT)
    PROVE  Reported(n, [[n EXCEPT !.persisted = p] EXCEPT !.records = recs], p, recs)
  <1> DEFINE o == [n EXCEPT !.persisted = p]
             m == [o EXCEPT !.records = recs]
  <1>1. o = [unstable |-> n.unstable, store |-> n.store, committed |-> n.committed, persisted |-> p,
             applied |-> n.applied, records |-> n.records, since |-> n.since, prev_commit |-> n.prev_commit]
    BY NodeRecord
  <1> HIDE DEF o
  <1>2. m = [unstable |-> n.unstable, store |-> n.store, committed |-> n.committed, persisted |-> p,
             applied |-> n.applied, records |-> recs, since |-> n.since, prev_commit |-> n.prev_commit]
    BY <1>1
  <1> HIDE DEF m
  <1>3. /\ m.persisted = p /\ m.records = recs /\ m.unstable = n.unstable /\ m.store = n.store
        /\ m.committed = n.committed /\ m.applied = n.applied /\ m.since = n.since /\ m.prev_commit = n.prev_commit
    BY <1>2
  <1>4. NodeT(m)
    BY <1>2, <1>3 DEF NodeT
  <1>5. Reported(n, m, p, recs)
    BY <1>3, <1>4 DEF Reported
  <1> QED BY <1>5 DEF m, o

\* The index p that n may move persisted to when recs are reported
PersistsTo(n, recs, p) ==
    /\ p \in Nat /\ n.persisted <= p /\ p < n.unstable.offset
    /\ HasSnapshot(n.unstable) => p <= n.unstable.snapshot.index
    /\ LastSnapshot(recs) # 0 => recs[LastSnapshot(recs)].snapshot.index <= p

\* on_persist_ready passes its assertions, and moves persisted no further than the log is stored.
LEMMA ReportPersists ==
    ASSUME NEW n, NEW ls, NEW ch, NodeInv(n, ls, ch), NEW recs, Storable(n, recs)
    PROVE  CanReport(n, recs) /\ \E p : PersistsTo(n, recs, p) /\ Report(n, recs) = [n EXCEPT !.persisted = p]
  <1> DEFINE k == LastSnapshot(recs)
             i == recs[k].snapshot.index
             q == n.persisted
             off == n.unstable.offset
             x == n.unstable.snapshot.index
             sr == SnapReported(n, recs)
             e == LastEntry(recs)
  <1>1. NodeT(n) /\ q \in Nat /\ off \in Nat /\ q < off /\ IsUnstable(n.unstable) /\ IsNode(n, ch)
    BY NodeNumbers DEF NodeInv, IsNode
  <1>2. x \in Nat /\ (HasSnapshot(n.unstable) => off = x + 1 /\ q <= x)
    BY <1>1, UnstableEnds DEF IsNode, SnapshotAhead
  <1>3. recs \in Seq(RecordT)
    BY DEF Storable
  <1>4. k # 0 => k \in 1..Len(recs) /\ recs[k].snapshot # NoSnapshot
    BY <1>3, LastSnapshotIs DEF IsLastSnapshot
  <1>5. k # 0 => i \in Nat /\ i <= n.committed /\ i < off
    <2>1. HAVE k # 0
    <2>2. recs[k] \in RecordT
      BY <1>3, <1>4, <2>1
    <2>3. i \in Nat
      BY <2>2 DEF RecordT
    <2> QED BY <1>4, <2>1, <2>3 DEF Storable
  <1>6. CanReport(n, recs)
    BY <1>5 DEF CanReport, CanPersistSnap
  <1> DEFINE s == IF k = 0 THEN q ELSE MaxOf2(q, i)
  <1>7. s \in Nat /\ q <= s /\ s < off /\ (k # 0 => i <= s)
    <2> HIDE DEF q, off, i, k
    <2> QED BY <1>1, <1>5 DEF MaxOf2
  <1>8. sr = [n EXCEPT !.persisted = s]
    <2>1. n = [n EXCEPT !.persisted = q]
      BY <1>1, NodeRecord
    <2>2. CASE k = 0
      <3>1. sr = n /\ s = q
        BY <2>2 DEF SnapReported
      <3> HIDE DEF sr, s
      <3> QED BY <2>1, <3>1
    <2>3. CASE k # 0
      <3>1. sr = [n EXCEPT !.persisted = MaxOf2(n.persisted, i)]
        BY <2>3 DEF SnapReported, MaybePersistSnap
      <3>2. s = MaxOf2(n.persisted, i)
        BY <2>3
      <3> HIDE DEF sr, s, i
      <3> QED BY <3>1, <3>2
    <2> QED BY <2>2, <2>3
  <1>9. e.index \in Nat
    BY <1>3, LastEntryType
  <1> HIDE DEF s, sr, e
  <1>10. sr.unstable = n.unstable /\ sr.persisted = s /\ \A t : [sr EXCEPT !.persisted = t] = [n EXCEPT !.persisted = t]
    <2>1. sr = [unstable |-> n.unstable, store |-> n.store, committed |-> n.committed, persisted |-> s,
                applied |-> n.applied, records |-> n.records, since |-> n.since, prev_commit |-> n.prev_commit]
      BY <1>1, <1>8, NodeRecord
    <2>2. ASSUME NEW t PROVE [sr EXCEPT !.persisted = t] = [n EXCEPT !.persisted = t]
      <3> DEFINE r == [unstable |-> n.unstable, store |-> n.store, committed |-> n.committed, persisted |-> t,
                       applied |-> n.applied, records |-> n.records, since |-> n.since, prev_commit |-> n.prev_commit]
      <3>1. [sr EXCEPT !.persisted = t] = r
        BY <2>1
      <3>2. [n EXCEPT !.persisted = t] = r
        BY <1>1, NodeRecord
      <3> QED BY <3>1, <3>2, Zenon
    <2> QED BY <2>1, <2>2
  <1>11. \/ Report(n, recs) = sr
         \/ /\ Report(n, recs) = [n EXCEPT !.persisted = e.index]
            /\ s < e.index /\ e.index < FirstUpdateIndex(n.unstable)
    <2>1. Report(n, recs) = IF e = NoEntry THEN sr ELSE MaybePersist(sr, e)
      BY DEF Report, sr, e
    <2>2. \/ MaybePersist(sr, e) = sr
          \/ /\ MaybePersist(sr, e) = [sr EXCEPT !.persisted = e.index]
             /\ e.index > s /\ e.index < FirstUpdateIndex(n.unstable)
      BY <1>10 DEF MaybePersist
    <2>3. [sr EXCEPT !.persisted = e.index] = [n EXCEPT !.persisted = e.index]
      BY <1>10
    <2>4. e.index > s => s < e.index
      BY <1>7, <1>9
    <2> QED BY <2>1, <2>2, <2>3, <2>4
  <1>12. FirstUpdateIndex(n.unstable) = IF HasSnapshot(n.unstable) THEN x ELSE off
    BY DEF FirstUpdateIndex
  <1>13. CASE Report(n, recs) = sr
    <2>1. HasSnapshot(n.unstable) => s <= x
      <3> HIDE DEF x, off
      <3> QED BY <1>2, <1>7
    <2>2. PersistsTo(n, recs, s)
      BY <1>7, <2>1 DEF PersistsTo
    <2> QED BY <1>6, <1>8, <1>13, <2>2
  <1>14. CASE /\ Report(n, recs) = [n EXCEPT !.persisted = e.index]
              /\ s < e.index /\ e.index < FirstUpdateIndex(n.unstable)
    <2> DEFINE p == e.index
    <2>1. p \in Nat /\ s < p /\ p < (IF HasSnapshot(n.unstable) THEN x ELSE off)
      BY <1>9, <1>12, <1>14
    <2> HIDE DEF p
    <2>2. q <= p /\ p < off /\ (HasSnapshot(n.unstable) => p <= x) /\ (k # 0 => i <= p)
      <3> HIDE DEF q, off, x, i, k
      <3> QED BY <1>1, <1>2, <1>5, <1>7, <2>1
    <2>3. PersistsTo(n, recs, p)
      BY <2>1, <2>2 DEF PersistsTo
    <2>4. Report(n, recs) = [n EXCEPT !.persisted = p]
      BY <1>14 DEF p
    <2> QED BY <1>6, <2>3, <2>4
  <1> QED BY <1>11, <1>13, <1>14

\* m is n once the first k of its records are reported, without a panic.
Reports(n, k, m, ls, ch) ==
    /\ CanReport(n, SubSeq(n.records, 1, k)) /\ NodeInv(m, ls, ch)
    /\ m.store = n.store /\ m.since = n.since /\ m.records = SubSeq(n.records, k + 1, Len(n.records))

\* on_persist_ready keeps a node in order.
LEMMA OnPersistKeeps ==
    ASSUME NEW n, NEW ls, NEW ch, NodeInv(n, ls, ch), NEW k \in 0..Len(n.records), NEW m, m = OnPersistReady(n, k)
    PROVE  Reports(n, k, m, ls, ch)
  <1> DEFINE recs == n.records
             a == SubSeq(recs, 1, k)
             b == SubSeq(recs, k + 1, Len(recs))
  <1>1. IsNode(n, ch) /\ NodeT(n) /\ recs \in Seq(RecordT) /\ RecordsInv(n)
    BY DEF NodeInv, IsNode, NodeT
  <1>2. Len(recs) \in Nat /\ k \in Nat /\ k <= Len(recs)
    BY <1>1
  <1> HIDE DEF a, b
  <1>3. /\ a \in Seq(RecordT) /\ Len(a) = k /\ \A j \in 1..k : a[j] = recs[j]
        /\ b \in Seq(RecordT) /\ Len(b) = Len(recs) - k /\ \A j \in 1..Len(b) : b[j] = recs[k + j]
        /\ LastSnapshot(recs) <= k => LastSnapshot(a) = LastSnapshot(recs)
        /\ LastSnapshot(recs) > k => LastSnapshot(b) = LastSnapshot(recs) - k
    <2>1. SplitAt(recs, k, SubSeq(recs, 1, k), SubSeq(recs, k + 1, Len(recs)))
      <3>1. k \in 0..Len(recs)
        OBVIOUS
      <3> HIDE DEF recs
      <3> QED BY <1>1, <3>1, LastSnapshotSplit, Zenon
    <2>2. SplitAt(recs, k, a, b)
      BY <2>1 DEF a, b
    <2> QED BY <2>2 DEF SplitAt
  <1>4. \A j \in 1..k : j \in 1..Len(recs)
    BY <1>2
  <1>5. \A j \in 1..Len(b) : k + j \in 1..Len(recs)
    BY <1>2, <1>3
  <1>6. Storable(n, a)
    BY <1>1, <1>3, <1>4 DEF Storable, RecordsInv
  <1>7. CanReport(n, a) /\ \E p : PersistsTo(n, a, p) /\ Report(n, a) = [n EXCEPT !.persisted = p]
    BY <1>6, ReportPersists
  <1>8. PICK p : PersistsTo(n, a, p) /\ Report(n, a) = [n EXCEPT !.persisted = p]
    BY <1>7
  <1>9. /\ p \in Nat /\ n.persisted <= p /\ p < n.unstable.offset
        /\ HasSnapshot(n.unstable) => p <= n.unstable.snapshot.index
        /\ LastSnapshot(a) # 0 => a[LastSnapshot(a)].snapshot.index <= p
    BY <1>8 DEF PersistsTo
  <1>10. m = [[n EXCEPT !.persisted = p] EXCEPT !.records = b]
    <2> DEFINE o == [n EXCEPT !.persisted = p]
    <2>1. m = [Report(n, a) EXCEPT !.records = SubSeq(Report(n, a).records, k + 1, Len(Report(n, a).records))]
      BY Zenon DEF OnPersistReady, a
    <2>2. o.records = recs
      BY <1>1, NodeRecord
    <2>3. Report(n, a) = o
      BY <1>8
    <2> HIDE DEF o
    <2>4. m = [o EXCEPT !.records = SubSeq(o.records, k + 1, Len(o.records))]
      BY <2>1, <2>3, Zenon
    <2>5. m = [o EXCEPT !.records = b]
      BY <2>2, <2>4, Zenon DEF b
    <2> QED BY <2>5, Zenon DEF o
  <1>11. Reported(n, m, p, b)
    <2>1. Reported(n, [[n EXCEPT !.persisted = p] EXCEPT !.records = b], p, b)
      BY <1>1, <1>3, <1>9, ReportFields, Zenon
    <2> QED BY <1>10, <2>1, Zenon
  <1>12. /\ m.persisted = p /\ m.records = b /\ m.unstable = n.unstable /\ m.store = n.store
         /\ m.committed = n.committed /\ m.applied = n.applied /\ m.since = n.since /\ m.prev_commit = n.prev_commit
         /\ NodeT(m)
    BY <1>11 DEF Reported
  <1>13. LastIndex(m) = LastIndex(n)
    BY <1>12, SameLog
  <1>14. Marks(m)
    <2>1. n.applied <= p
      BY <1>9, NodeNumbers
    <2> QED BY <1>1, <1>9, <1>12, <1>13, <2>1 DEF IsNode, Marks
  <1>15. SnapshotAhead(m, ch) /\ NoGap(m)
    BY <1>1, <1>9, <1>12 DEF IsNode, SnapshotAhead, NoGap
  <1>16. RecordsInv(m)
    <2>1. \A j \in 1..Len(b) : b[j].snapshot # NoSnapshot =>
             b[j].snapshot.index <= n.committed /\ b[j].snapshot.index < n.unstable.offset
      BY <1>1, <1>3, <1>5 DEF RecordsInv
    <2>2. n.since <= p \/ (LastSnapshot(b) # 0 /\ n.since <= b[LastSnapshot(b)].snapshot.index)
      <3>0. n.since \in Nat /\ n.persisted \in Nat
        BY NodeNumbers
      <3>1. CASE n.since <= n.persisted
        BY <1>9, <3>0, <3>1
      <3>2. CASE LastSnapshot(recs) # 0 /\ n.since <= recs[LastSnapshot(recs)].snapshot.index
        <4> DEFINE g == LastSnapshot(recs)
        <4>1. g \in 1..Len(recs)
          BY <1>1, <3>2, LastSnapshotIs DEF IsLastSnapshot
        <4>2. recs[g] \in RecordT
          BY <1>1, <4>1
        <4>3. recs[g].snapshot.index \in Nat
          BY <4>2 DEF RecordT
        <4> HIDE DEF g
        <4>4. CASE g <= k
          <5>1. LastSnapshot(a) = g /\ g \in 1..k /\ g # 0
            BY <1>2, <1>3, <4>1, <4>4 DEF g
          <5>2. recs[g].snapshot.index <= p
            BY <1>3, <1>9, <5>1
          <5> QED BY <1>9, <3>0, <3>2, <4>3, <5>2 DEF g
        <4>5. CASE g > k
          <5>1. LastSnapshot(b) = g - k /\ g - k \in 1..Len(b) /\ k + (g - k) = g
            BY <1>2, <1>3, <4>1, <4>5 DEF g
          <5>2. b[LastSnapshot(b)] = recs[g] /\ LastSnapshot(b) # 0
            BY <1>3, <5>1
          <5> QED BY <3>2, <5>2 DEF g
        <4> QED BY <1>2, <4>1, <4>4, <4>5
      <3> QED BY <1>1, <3>1, <3>2 DEF RecordsInv
    <2> QED BY <1>12, <2>1, <2>2 DEF RecordsInv
  <1>17. \E l \in ls : NodeFits(m, l, ch)
    BY <1>12, <1>13 DEF NodeInv, NodeFits
  <1>18. NodeInv(m, ls, ch)
    BY <1>12, <1>14, <1>15, <1>16, <1>17 DEF NodeInv, IsNode
  <1> QED BY <1>7, <1>12, <1>18 DEF a, b, Reports

\* on_persist_ready for Readies that are on disk
LEMMA PersistedKeeps ==
    ASSUME LInv, NEW k \in Nat \ {0}, Persisted(k)
    PROVE  LInv'
  <1> DEFINE m == OnPersistReady(node, k)
  <1>1. /\ k <= synced /\ synced' = synced - k /\ images' = SubSeq(images, k + 1, Len(images))
        /\ UNCHANGED <<term, lead, logs, chosen, disk, given>>
    BY DEF Persisted, envVars
  <1>2. /\ images \in Seq(StoreType) /\ Len(images) \in Nat /\ Len(images) = Len(node.records) /\ synced \in 0..Len(images)
        /\ NodeInv(node, logs, chosen)
    BY DEF LInv, DiskInv
  <1>3. k \in 0..Len(node.records)
    BY <1>1, <1>2
  <1>4. /\ CanReport(node, SubSeq(node.records, 1, k)) /\ NodeInv(m, logs, chosen)
        /\ m.store = node.store /\ m.since = node.since /\ m.records = SubSeq(node.records, k + 1, Len(node.records))
    BY <1>2, <1>3, OnPersistKeeps DEF Reports
  <1>5. node' = m /\ fault' = FALSE
    BY <1>4 DEF Persisted, Becomes
  <1> HIDE DEF m
  <1>6. /\ images' \in Seq(StoreType) /\ Len(images') = Len(images) - k
        /\ \A j \in 1..Len(images') : images'[j] = images[k + j]
    <2>1. \A i \in (k + 1)..Len(images) : images[i] \in StoreType
      BY <1>2
    <2>2. /\ images' \in Seq(StoreType) /\ Len(images') = IF k + 1 <= Len(images) THEN Len(images) - (k + 1) + 1 ELSE 0
          /\ \A i \in 1..(Len(images) - (k + 1) + 1) : images'[i] = images[(k + 1) + i - 1]
      BY <1>1, <1>2, <2>1, SubSeqProperties
    <2>3. Len(images') = Len(images) - k /\ Len(images) - (k + 1) + 1 = Len(images) - k
      BY <1>1, <1>2, <2>2
    <2>4. ASSUME NEW j \in 1..Len(images') PROVE images'[j] = images[k + j]
      <3>1. (k + 1) + j - 1 = k + j
        OBVIOUS
      <3>2. j \in 1..(Len(images) - (k + 1) + 1)
        BY <2>3
      <3> QED BY <2>2, <3>1, <3>2
    <2> QED BY <2>2, <2>3, <2>4
  <1>7. Len(m.records) = Len(images')
    <2>1. node.records \in Seq(RecordT)
      BY <1>2 DEF NodeInv, IsNode, NodeT
    <2>2. Len(SubSeq(node.records, k + 1, Len(node.records))) = Len(node.records) - k
      BY <1>3, <2>1, LastSnapshotSplit DEF SplitAt
    <2> QED BY <1>2, <1>4, <1>6, <2>2
  <1>8. \A j \in (synced' + 1)..Len(images') :
            j \in 1..Len(images') /\ images'[j] = images[k + j] /\ k + j \in (synced + 1)..Len(images)
    BY <1>1, <1>2, <1>6
  <1>9. \A j \in (synced' + 1)..Len(images') : StoreInv(images'[j], logs, chosen) /\ Older(disk, images'[j])
    BY <1>8 DEF LInv, DiskInv
  <1>10. \A i, j \in (synced' + 1)..Len(images') : i <= j => Older(images'[i], images'[j])
    <2>1. ASSUME NEW i \in (synced' + 1)..Len(images'), NEW j \in (synced' + 1)..Len(images'), i <= j
          PROVE  Older(images'[i], images'[j])
      <3>1. k + i <= k + j
        BY <1>1, <1>2, <2>1
      <3> QED BY <1>8, <3>1 DEF LInv, DiskInv
    <2> QED BY <2>1
  <1>11. synced' > 0 => disk = images'[synced']
    <2>1. HAVE synced' > 0
    <2>2. synced' \in 1..Len(images') /\ k + synced' = synced
      BY <1>1, <1>2, <1>6, <2>1
    <2>3. disk = images[synced]
      BY <1>1, <1>2 DEF LInv, DiskInv
    <2> QED BY <1>6, <2>2, <2>3
  <1>12. node.store = IF images' = <<>> THEN disk ELSE images'[Len(images')]
    <2>0. images # <<>> /\ node.store = images[Len(images)]
      BY <1>1, <1>2 DEF LInv, DiskInv
    <2>1. CASE images' = <<>>
      <3>0. Len(images') = 0
        BY <2>1
      <3>1. synced = Len(images) /\ synced > 0
        BY <1>1, <1>2, <1>6, <3>0
      <3> QED BY <2>0, <2>1, <3>1 DEF LInv, DiskInv
    <2>2. CASE images' # <<>>
      <3>1. Len(images') \in 1..Len(images') /\ k + Len(images') = Len(images)
        BY <1>2, <1>6, <2>2
      <3> QED BY <1>6, <2>0, <2>2, <3>1
    <2> QED BY <2>1, <2>2
  <1>13. synced' \in 0..Len(images')
    BY <1>1, <1>2, <1>6
  <1>14. StoreInv(disk, logs, chosen)
    BY DEF LInv, DiskInv
  <1>15. DiskInv'
    BY <1>1, <1>4, <1>5, <1>6, <1>7, <1>9, <1>10, <1>11, <1>12, <1>13, <1>14 DEF DiskInv
  <1>16. EnvInv'
    BY <1>1 DEF LInv, EnvInv
  <1>17. NodeInv(node, logs, chosen)'
    BY <1>1, <1>4, <1>5
  <1> QED BY <1>1, <1>4, <1>5, <1>15, <1>16, <1>17 DEF LInv

\* m goes on from n, with the snapshot that waits to be stored handed out, if there is one,
\* and the entries ents.
ReadyGives(n, m, ents, ch) ==
    /\ HandedOut(n, m, m.since) /\ m.since \in Nat /\ n.since <= m.since /\ m.since <= n.committed
    /\ HasSnapshot(n.unstable) => m.since = n.unstable.snapshot.index /\ GoesOnTo(ch, n.unstable.snapshot.index, ents, m.since)
    /\ ~HasSnapshot(n.unstable) => /\ m.since = n.since \/ m.since <= n.persisted
                                   /\ GoesOnTo(ch, n.since, ents, m.since)

\* RawNode::ready passes its assertions and hands out the snapshot, or the next chosen entries.
LEMMA ReadyHandsOut ==
    ASSUME NEW n, NEW ls, NEW ch, LogsT(ls, ch), NodeInv(n, ls, ch)
    PROVE  CanReady(n) /\ ReadyGives(n, GenLight(AfterSnapshot(n)), LightEntries(AfterSnapshot(n)), ch)
  <1>1. CASE ~HasSnapshot(n.unstable)
    <2>1. AfterSnapshot(n) = n
      BY <1>1 DEF AfterSnapshot
    <2>2. CanGenLight(n) /\ Gives(n, GenLight(n), LightEntries(n), ch)
      BY LightGives
    <2> QED BY <1>1, <2>1, <2>2 DEF Gives, ReadyGives, CanReady
  <1>2. CASE HasSnapshot(n.unstable)
    <2> DEFINE x == n.unstable.snapshot.index
               a == AfterSnapshot(n)
               c == n.committed
               p == n.persisted
               s == n.since
    <2>1. IsNode(n, ch) /\ NodeT(n) /\ IsUnstable(n.unstable) /\ c \in Nat /\ p \in Nat /\ s \in Nat
      BY NodeNumbers DEF NodeInv, IsNode
    <2>2. x \in Nat /\ x > 0 /\ p <= x /\ s <= x /\ x <= c
      BY <1>2, <2>1, UnstableEnds DEF IsNode, SnapshotAhead
    <2>3. a = [n EXCEPT !.since = x]
      BY <1>2 DEF AfterSnapshot
    <2>4. HandedOut(n, a, x)
      BY <2>1, <2>2, <2>3, SinceFields
    <2> HIDE DEF a
    <2>5. a.since = x /\ a.unstable = n.unstable /\ a.committed = c /\ a.persisted = p
      BY <2>4 DEF HandedOut
    <2>6. FirstIndex(a) = x + 1
      BY <1>2, <2>5 DEF FirstIndex
    <2>7. ~HasNext(a)
      <3>1. NextLow(a) = (IF x + 1 > x + 1 THEN x + 1 ELSE x + 1) /\ NextHigh(a) = (IF c < p THEN c ELSE p) + 1
        BY <2>5, <2>6 DEF NextLow, NextHigh, MaxOf2, MinOf2
      <3> DEFINE lo == NextLow(a)
                 hi == NextHigh(a)
      <3> HIDE DEF lo, hi, x, c, p
      <3>2. lo = x + 1 /\ hi = (IF c < p THEN c ELSE p) + 1
        BY <3>1 DEF lo, hi
      <3>3. ~(hi > lo)
        BY <2>1, <2>2, <3>2
      <3> QED BY <3>3 DEF HasNext, lo, hi
    <2>8. GenLight(a) = a /\ LightEntries(a) = <<>> /\ CanGenLight(a)
      BY <2>7 DEF GenLight, LightEntries, CanGenLight
    <2>9. CanReady(n)
      BY <2>2, <2>7, <2>8 DEF CanReady, a
    <2>10. GoesOnTo(ch, x, <<>>, x)
      <3>1. ch \in Seq(Nat \ {0}) /\ Terms(<<>>) = <<>>
        BY DEF LogsT, Terms
      <3>2. SubSeq(ch, 1, x) \in Seq(Nat \ {0})
        <4>1. \A i \in 1..x : x <= Len(ch) /\ ch[i] \in Nat \ {0}
          <5>1. c <= Len(ch) /\ Len(ch) \in Nat
            BY <3>1 DEF NodeInv, NodeFits, Agree
          <5> HIDE DEF x, c
          <5> QED BY <2>1, <2>2, <3>1, <5>1
        <4> HIDE DEF x
        <4> QED BY <2>2, <3>1, <4>1
      <3>3. SubSeq(ch, 1, x) \o <<>> = SubSeq(ch, 1, x)
        BY <3>2, ConcatEmptySeq
      <3> QED BY <3>1, <3>3 DEF GoesOnTo
    <2>11. ReadyGives(n, a, <<>>, ch)
      BY <1>2, <2>2, <2>4, <2>5, <2>10 DEF ReadyGives
    <2> QED BY <2>8, <2>9, <2>11 DEF a
  <1> QED BY <1>1, <1>2

\* The unstable part of the log once a Ready is committed
StableUnstable(u, rec) ==
    IF rec.last # NoEntry THEN StableEntries(IF rec.snapshot # NoSnapshot THEN StableSnap(u) ELSE u, rec.last)
    ELSE IF rec.snapshot # NoSnapshot THEN StableSnap(u) ELSE u

\* commit_ready passes the assertions of stable_snap and stable_entries.
LEMMA ReadyStabilizes ==
    ASSUME NEW n, NEW ls, NEW ch, NodeInv(n, ls, ch), NEW g, g.unstable = n.unstable
    PROVE  /\ CanCommitReady(g, Record(n)) /\ Record(n) \in RecordT /\ Record(n).snapshot = n.unstable.snapshot
           /\ StableUnstable(n.unstable, Record(n)) = NewUnstable(LastIndex(n) + 1)
  <1> DEFINE u == n.unstable
             off == n.unstable.offset
             ents == n.unstable.entries
             len == Len(n.unstable.entries)
             z == LastIndex(n)
             rec == Record(n)
             w == IF rec.snapshot # NoSnapshot THEN StableSnap(u) ELSE u
  <1>1. IsNode(n, ch) /\ IsUnstable(u)
    BY NodeNumbers DEF NodeInv
  <1>2. /\ off \in Nat /\ ents \in Seq(EntryT) /\ len \in Nat /\ u.snapshot \in [index : Nat, term : Nat]
        /\ u = [snapshot |-> u.snapshot, entries |-> ents, offset |-> off]
    BY <1>1, UnstableEnds
  <1>3. z = off + len - 1 /\ z \in Nat
    BY <1>1, NodeEnds
  <1>4. rec.snapshot = u.snapshot /\ rec.last = (IF ents = <<>> THEN NoEntry ELSE ents[len])
        /\ rec = [snapshot |-> u.snapshot, last |-> IF ents = <<>> THEN NoEntry ELSE ents[len]]
    BY DEF Record
  <1>5. ents # <<>> => len \in 1..len /\ ents[len] \in EntryT /\ ents[len].index = z
    <2>1. HAVE ents # <<>>
    <2>2. len \in 1..len
      BY <1>2, <2>1
    <2>3. ents[len].index = off + len - 1
      BY <1>1, <2>2 DEF IsUnstable
    <2> QED BY <1>2, <1>3, <2>2, <2>3
  <1>6. ents # <<>> => rec.last = ents[len] /\ rec.last # NoEntry /\ rec.last \in [index : Nat, term : Nat]
    BY <1>4, <1>5 DEF EntryT, NoEntry
  <1>7. rec \in RecordT
    <2>1. rec.last \in [index : Nat, term : Nat]
      BY <1>4, <1>6 DEF NoEntry
    <2> QED BY <1>2, <1>4, <2>1 DEF RecordT
  <1> HIDE DEF rec
  <1>8. w = [snapshot |-> NoSnapshot, entries |-> ents, offset |-> off]
    <2>1. CASE u.snapshot # NoSnapshot
      <3>1. w = [u EXCEPT !.snapshot = NoSnapshot]
        BY <1>4, <2>1 DEF StableSnap
      <3> DEFINE d == u
      <3> HIDE DEF w
      <3> QED BY <1>2, <3>1
    <2>2. CASE u.snapshot = NoSnapshot
      <3>1. w = u
        BY <1>4, <2>2
      <3> HIDE DEF w
      <3> QED BY <1>2, <2>2, <3>1
    <2> QED BY <2>1, <2>2
  <1> HIDE DEF w
  <1>9. StableUnstable(u, rec) = IF rec.last # NoEntry THEN StableEntries(w, rec.last) ELSE w
    BY DEF StableUnstable, w
  <1>10. StableUnstable(u, rec) = NewUnstable(z + 1)
    <2>1. CASE ents = <<>>
      <3>1. StableUnstable(u, rec) = w
        BY <1>4, <1>9, <2>1
      <3>2. off = z + 1
        <4>1. len = 0
          BY <2>1
        <4> HIDE DEF off, len, z
        <4> QED BY <1>2, <1>3, <4>1
      <3> QED BY <1>8, <2>1, <3>1, <3>2 DEF NewUnstable
    <2>2. CASE ents # <<>>
      <3>1. StableUnstable(u, rec) = [w EXCEPT !.offset = rec.last.index + 1, !.entries = <<>>]
        BY <1>6, <1>9, <2>2 DEF StableEntries
      <3>2. rec.last.index = z
        BY <1>5, <1>6, <2>2
      <3>3. StableUnstable(u, rec) = [w EXCEPT !.offset = z + 1, !.entries = <<>>]
        BY <3>1, <3>2
      <3> HIDE DEF z
      <3> QED BY <1>8, <3>3 DEF NewUnstable
    <2> QED BY <2>1, <2>2
  <1>11. CanCommitReady(g, rec)
    <2>1. rec.snapshot # NoSnapshot => CanStableSnap(u, rec.snapshot)
      BY <1>4 DEF CanStableSnap, HasSnapshot
    <2>2. rec.last # NoEntry => CanStableEntries(w, rec.last)
      <3>1. HAVE rec.last # NoEntry
      <3>2. ents # <<>> /\ rec.last = ents[len]
        BY <1>4, <3>1
      <3>3. w.snapshot = NoSnapshot /\ w.entries = ents
        BY <1>8
      <3> QED BY <3>2, <3>3 DEF CanStableEntries, HasSnapshot
    <2> QED BY <2>1, <2>2 DEF CanCommitReady, w
  <1> QED BY <1>4, <1>7, <1>10, <1>11 DEF rec

\* m is n once a Ready has been written to the storage: nothing is unstable any more.
Stable(n, m, w, s, recs) ==
    /\ m.unstable = NewUnstable(LastIndex(n) + 1) /\ m.store = w /\ m.prev_commit = n.committed
    /\ m.records = recs /\ m.since = s /\ m.committed = n.committed /\ m.persisted = n.persisted
    /\ m.applied = n.applied /\ NodeT(m)

\* What ready, the write to the storage and commit_ready change
LEMMA StabilizedFields ==
    ASSUME NEW n, NEW ls, NEW ch, NodeInv(n, ls, ch), NEW g, NEW s \in Nat, HandedOut(n, g, s),
           NEW w, IsStore(w), NEW m, m = [CommitReady(g, Record(n)) EXCEPT !.store = w]
    PROVE  CanCommitReady(g, Record(n)) /\ Stable(n, m, w, s, Append(n.records, Record(n)))
  <1> DEFINE rec == Record(n)
             v == NewUnstable(LastIndex(n) + 1)
             o == CommitReady(g, rec)
             recs == Append(n.records, rec)
  <1>1. /\ g.since = s /\ g.unstable = n.unstable /\ g.store = n.store /\ g.committed = n.committed
        /\ g.persisted = n.persisted /\ g.applied = n.applied /\ g.records = n.records /\ g.prev_commit = n.prev_commit
        /\ NodeT(g)
    BY DEF HandedOut
  <1>2. CanCommitReady(g, rec) /\ rec \in RecordT /\ StableUnstable(n.unstable, rec) = v
    BY <1>1, ReadyStabilizes
  <1>3. IsNode(n, ch) /\ n.records \in Seq(RecordT) /\ n.committed \in Nat /\ n.persisted \in Nat /\ n.applied \in Nat
    BY DEF NodeInv, IsNode, NodeT
  <1>4. recs \in Seq(RecordT)
    BY <1>2, <1>3, LastSnapshotAppend
  <1>5. IsUnstable(v)
    <2>1. LastIndex(n) + 1 \in Nat \ {0}
      <3>1. LastIndex(n) \in Nat
        BY <1>3, NodeEnds
      <3> QED BY <3>1
    <2> QED BY <2>1 DEF IsUnstable, NewUnstable, NoSnapshot, HasSnapshot
  <1>6. o = [g EXCEPT !.prev_commit = g.committed, !.unstable = StableUnstable(g.unstable, rec),
                      !.records = Append(g.records, rec)]
    BY DEF CommitReady, StableUnstable
  <1>7. o = [g EXCEPT !.prev_commit = n.committed, !.unstable = v, !.records = recs]
    <2> HIDE DEF o, rec, v
    <2> QED BY <1>1, <1>2, <1>6, Zenon
  <1> HIDE DEF o, rec, v, recs
  <1>8. g = [unstable |-> n.unstable, store |-> n.store, committed |-> n.committed, persisted |-> n.persisted,
             applied |-> n.applied, records |-> n.records, since |-> s, prev_commit |-> n.prev_commit]
    BY <1>1 DEF NodeT
  <1>9. o = [unstable |-> v, store |-> n.store, committed |-> n.committed, persisted |-> n.persisted,
             applied |-> n.applied, records |-> recs, since |-> s, prev_commit |-> n.committed]
    BY <1>7, <1>8
  <1>10. m = [o EXCEPT !.store = w]
    BY DEF o, rec
  <1>11. m = [unstable |-> v, store |-> w, committed |-> n.committed, persisted |-> n.persisted,
              applied |-> n.applied, records |-> recs, since |-> s, prev_commit |-> n.committed]
    BY <1>9, <1>10
  <1>12. /\ m.unstable = v /\ m.store = w /\ m.committed = n.committed /\ m.persisted = n.persisted
         /\ m.applied = n.applied /\ m.records = recs /\ m.since = s /\ m.prev_commit = n.committed
    BY <1>11
  <1>13. NodeT(m)
    BY <1>3, <1>4, <1>5, <1>11, <1>12 DEF NodeT
  <1>14. Stable(n, m, w, s, recs)
    BY <1>12, <1>13 DEF Stable, v
  <1> QED BY <1>2, <1>14 DEF rec, recs

\* ready, the write to the storage and commit_ready keep a node in order.
LEMMA StabilizedKeeps ==
    ASSUME NEW n, NEW ls, NEW ch, LogsT(ls, ch), NodeInv(n, ls, ch), NEW m, m = Stabilized(n)
    PROVE  /\ CanStabilize(n) /\ NodeInv(m, ls, ch) /\ m.store = Written(n)
           /\ m.records = Append(n.records, Record(n))
           /\ ReadyGives(n, GenLight(AfterSnapshot(n)), LightEntries(AfterSnapshot(n)), ch)
           /\ m.since = GenLight(AfterSnapshot(n)).since
  <1> DEFINE g == GenLight(AfterSnapshot(n))
             ents == LightEntries(AfterSnapshot(n))
             w == Written(n)
             rec == Record(n)
             recs == Append(n.records, rec)
             s == g.since
             z == LastIndex(n)
             f == FirstIndex(n)
             c == n.committed
             p == n.persisted
             off == n.unstable.offset
             x == n.unstable.snapshot.index
  <1>1. CanReady(n) /\ ReadyGives(n, g, ents, ch)
    BY ReadyHandsOut
  <1>2. CanWrite(n) /\ Holds(n, w, ls, ch)
    BY WrittenHolds
  <1>3. HandedOut(n, g, s) /\ s \in Nat /\ n.since <= s /\ s <= c
        /\ (HasSnapshot(n.unstable) => s = x)
        /\ (~HasSnapshot(n.unstable) => s = n.since \/ s <= p)
    BY <1>1 DEF ReadyGives
  <1>4. /\ StoreInv(w, ls, ch) /\ IsStore(w) /\ w.commit = c /\ StoreFirst(w) = f /\ StoreLast(w) = z
        /\ \A l : NodeFits(n, l, ch) => Fits(w, l)
    BY <1>2 DEF Holds
  <1>5. m = [CommitReady(g, Record(n)) EXCEPT !.store = w]
    BY Zenon DEF Stabilized
  <1> HIDE DEF w, g, ents
  <1>6. CanCommitReady(g, rec) /\ Stable(n, m, w, s, recs)
    BY <1>3, <1>4, <1>5, StabilizedFields
  <1>7. /\ m.unstable = NewUnstable(z + 1) /\ m.store = w /\ m.prev_commit = c
        /\ m.records = recs /\ m.since = s /\ m.committed = c /\ m.persisted = p
        /\ m.applied = n.applied /\ NodeT(m)
    BY <1>6 DEF Stable
  <1>8. m.unstable.entries = <<>> /\ m.unstable.offset = z + 1 /\ ~HasSnapshot(m.unstable)
    BY <1>7 DEF NewUnstable, HasSnapshot
  <1>9. LastIndex(m) = z
    BY <1>4, <1>7, <1>8 DEF LastIndex, HasLast
  <1>10. IsNode(n, ch) /\ c \in Nat /\ p \in Nat /\ off \in Nat /\ p < off /\ c <= z /\ n.since \in Nat /\ n.applied \in Nat
         /\ n.applied <= n.since /\ n.applied <= p /\ n.since <= c /\ StoreFirst(n.store) <= n.since + 1
         /\ StoreFirst(n.store) \in Nat /\ Len(n.unstable.entries) \in Nat /\ IsUnstable(n.unstable)
    BY NodeNumbers, StoreEnds DEF NodeInv
  <1>11. f \in Nat /\ z \in Nat /\ z = off + Len(n.unstable.entries) - 1 /\ off <= z + 1 /\ f <= off
         /\ (~HasSnapshot(n.unstable) => f = StoreFirst(n.store))
         /\ (HasSnapshot(n.unstable) => f = x + 1 /\ off = x + 1 /\ x \in Nat /\ x <= c)
    <2>1. f \in Nat /\ z \in Nat /\ z = off + Len(n.unstable.entries) - 1 /\ f <= off
          /\ (~HasSnapshot(n.unstable) => f = StoreFirst(n.store))
      BY <1>10, NodeEnds
    <2>2. HasSnapshot(n.unstable) => f = x + 1 /\ off = x + 1 /\ x \in Nat /\ x <= c
      BY <1>10, UnstableEnds DEF FirstIndex, IsNode, SnapshotAhead
    <2>3. off <= z + 1
      <3> DEFINE len == Len(n.unstable.entries)
      <3>1. len \in Nat /\ z = off + len - 1
        BY <1>10, <2>1
      <3> HIDE DEF len, off, z
      <3> QED BY <1>10, <2>1, <3>1
    <2> QED BY <2>1, <2>2, <2>3
  <1>11b. off \in Nat /\ z \in Nat /\ off <= z + 1
    BY <1>10, <1>11
  <1>12. f <= s + 1
    <2>1. CASE HasSnapshot(n.unstable)
      BY <1>3, <1>11, <2>1
    <2>2. CASE ~HasSnapshot(n.unstable)
      <3> DEFINE t == n.since
      <3>1. f <= t + 1 /\ t <= s /\ t \in Nat
        BY <1>3, <1>10, <1>11, <2>2
      <3> HIDE DEF t, s, f
      <3> QED BY <1>3, <1>11, <3>1
    <2> QED BY <2>1, <2>2
  <1>13. Marks(m)
    <2>1. n.applied <= s
      BY <1>3, <1>10
    <2>2. p < z + 1
      <3> HIDE DEF p, off, z
      <3> QED BY <1>10, <1>11
    <2> QED BY <1>3, <1>4, <1>7, <1>8, <1>9, <1>10, <1>12, <2>1, <2>2 DEF Marks
  <1>14. SnapshotAhead(m, ch) /\ NoGap(m)
    <2>1. f <= z + 1 /\ z + 1 <= z + 1
      <3> HIDE DEF f, off, z
      <3> QED BY <1>10, <1>11
    <2> QED BY <1>4, <1>7, <1>8, <2>1 DEF SnapshotAhead, NoGap
  <1>15. RecordsInv(m)
    <2> DEFINE old == n.records
    <2>0. RecordsInv(n) /\ old \in Seq(RecordT) /\ rec \in RecordT /\ rec.snapshot = n.unstable.snapshot
      BY <1>10, ReadyStabilizes DEF IsNode, NodeT
    <2> HIDE DEF rec
    <2>1. /\ recs \in Seq(RecordT)
          /\ rec.snapshot # NoSnapshot => LastSnapshot(recs) = Len(old) + 1
          /\ rec.snapshot = NoSnapshot => LastSnapshot(recs) = LastSnapshot(old)
      BY <2>0, LastSnapshotAppend
    <2>2. /\ Len(old) \in Nat /\ Len(recs) = Len(old) + 1 /\ recs[Len(old) + 1] = rec
          /\ \A k \in 1..Len(old) : recs[k] = old[k]
      BY <2>0
    <2> HIDE DEF recs
    <2>3. ASSUME NEW k \in 1..Len(recs), recs[k].snapshot # NoSnapshot
          PROVE  recs[k].snapshot.index <= c /\ recs[k].snapshot.index < z + 1
      <3>1. CASE k \in 1..Len(old)
        <4>1. old[k].snapshot.index <= c /\ old[k].snapshot.index < off
          BY <2>0, <2>2, <2>3, <3>1 DEF RecordsInv
        <4>2. old[k].snapshot.index \in Nat
          <5>1. old[k] \in RecordT
            BY <2>0, <3>1
          <5> QED BY <5>1 DEF RecordT
        <4>3. old[k].snapshot.index < z + 1
          <5> DEFINE i == old[k].snapshot.index
          <5> HIDE DEF i, off, z
          <5>1. i < off /\ i \in Nat
            BY <4>1, <4>2 DEF i
          <5>2. i < z + 1
            BY <1>11b, <5>1
          <5> QED BY <5>2 DEF i
        <4> QED BY <2>2, <3>1, <4>1, <4>3
      <3>2. CASE k = Len(old) + 1
        <4>1. recs[k].snapshot = n.unstable.snapshot /\ HasSnapshot(n.unstable)
          BY <2>0, <2>2, <2>3, <3>2 DEF HasSnapshot
        <4>2. x <= c /\ x < z + 1
          <5>1. off = x + 1 /\ x \in Nat /\ x <= c
            BY <1>11, <4>1
          <5> HIDE DEF x, off, z, c
          <5> QED BY <1>11b, <5>1
        <4> QED BY <4>1, <4>2
      <3> QED BY <2>2, <3>1, <3>2
    <2>4. s <= p \/ (LastSnapshot(recs) # 0 /\ s <= recs[LastSnapshot(recs)].snapshot.index)
      <3>1. CASE HasSnapshot(n.unstable)
        <4>1. LastSnapshot(recs) = Len(old) + 1
          BY <2>0, <2>1, <3>1 DEF HasSnapshot
        <4>2. recs[LastSnapshot(recs)] = rec /\ LastSnapshot(recs) # 0
          BY <2>2, <4>1
        <4>3. s = x /\ rec.snapshot.index = x
          BY <1>3, <2>0, <3>1
        <4>4. s <= s
          BY <1>3
        <4> QED BY <4>2, <4>3, <4>4
      <3>2. CASE ~HasSnapshot(n.unstable) /\ s <= p
        BY <3>2
      <3>3. CASE ~HasSnapshot(n.unstable) /\ s = n.since
        <4>1. LastSnapshot(recs) = LastSnapshot(old)
          BY <2>0, <2>1, <3>3 DEF HasSnapshot
        <4>2. n.since <= p \/ (LastSnapshot(old) # 0 /\ n.since <= old[LastSnapshot(old)].snapshot.index)
          BY <2>0 DEF RecordsInv
        <4>3. LastSnapshot(old) # 0 => LastSnapshot(old) \in 1..Len(old)
          BY <2>0, LastSnapshotIs DEF IsLastSnapshot
        <4>4. LastSnapshot(old) # 0 => recs[LastSnapshot(old)] = old[LastSnapshot(old)]
          BY <2>2, <4>3
        <4> QED BY <3>3, <4>1, <4>2, <4>4
      <3> QED BY <1>3, <3>1, <3>2, <3>3
    <2> QED BY <1>7, <1>8, <2>3, <2>4 DEF RecordsInv
  <1>16. \E l \in ls : NodeFits(m, l, ch)
    <2>1. PICK l \in ls : NodeFits(n, l, ch)
      BY DEF NodeInv
    <2>2. z <= Len(l) /\ Agree(l, ch, c) /\ Fits(w, l)
      BY <1>4, <2>1 DEF NodeFits
    <2>3. m.unstable.offset - 1 = StoreLast(w)
      <3> HIDE DEF z
      <3> QED BY <1>4, <1>8, <1>11
    <2>4. NodeFits(m, l, ch)
      BY <1>7, <1>8, <1>9, <2>2, <2>3 DEF NodeFits, Fits
    <2> QED BY <2>4
  <1>17. NodeInv(m, ls, ch)
    BY <1>4, <1>7, <1>13, <1>14, <1>15, <1>16 DEF NodeInv, IsNode
  <1>18. CanStabilize(n)
    <2>1. CanCommitReady(n, rec)
      BY ReadyStabilizes
    <2> QED BY <1>1, <1>2, <2>1 DEF CanStabilize
  <1> QED BY <1>1, <1>7, <1>17, <1>18 DEF g, w, ents

\* Handing out more entries keeps a node in order.
LEMMA GivesKeeps ==
    ASSUME NEW n, NEW ls, NEW ch, NodeInv(n, ls, ch), NEW m, NEW ents, Gives(n, m, ents, ch)
    PROVE  NodeInv(m, ls, ch)
  <1> DEFINE s == n.since
             t == m.since
             p == n.persisted
             c == n.committed
             x == n.unstable.snapshot.index
  <1>1. HandedOut(n, m, t) /\ t \in Nat /\ s <= t /\ t <= c /\ (t = s \/ t <= p)
    BY DEF Gives
  <1>2. /\ m.unstable = n.unstable /\ m.store = n.store /\ m.committed = c /\ m.persisted = p
        /\ m.applied = n.applied /\ m.records = n.records /\ m.prev_commit = n.prev_commit /\ NodeT(m)
    BY <1>1 DEF HandedOut
  <1>3. IsNode(n, ch) /\ s \in Nat /\ p \in Nat /\ c \in Nat /\ n.applied \in Nat /\ n.applied <= s
        /\ StoreFirst(n.store) <= s + 1 /\ StoreFirst(n.store) \in Nat
    BY NodeNumbers, StoreEnds DEF NodeInv
  <1>4. LastIndex(m) = LastIndex(n)
    BY <1>2, SameLog
  <1>5. n.applied <= t /\ StoreFirst(n.store) <= t + 1
    <2> DEFINE a == n.applied
               f == StoreFirst(n.store)
    <2>1. a \in Nat /\ a <= s /\ f <= s + 1 /\ f \in Nat /\ s \in Nat /\ t \in Nat /\ s <= t
      BY <1>1, <1>3
    <2> HIDE DEF a, f, s, t
    <2>2. a <= t /\ f <= t + 1
      BY <2>1
    <2> QED BY <2>2 DEF a, f
  <1>6. Marks(m)
    BY <1>1, <1>2, <1>3, <1>4, <1>5 DEF IsNode, Marks
  <1>7. SnapshotAhead(m, ch)
    <2>1. HasSnapshot(n.unstable) => p <= x /\ s <= x /\ x \in Nat
      BY <1>3, UnstableEnds DEF IsNode, NodeT, SnapshotAhead
    <2>2. HasSnapshot(n.unstable) => t <= x
      <3> HIDE DEF t, x, p, s
      <3> QED BY <1>1, <1>3, <2>1
    <2> QED BY <1>2, <1>3, <2>2 DEF IsNode, SnapshotAhead
  <1>8. NoGap(m)
    BY <1>2, <1>3 DEF IsNode, NoGap
  <1>9. RecordsInv(m)
    <2>1. CASE t = s
      BY <1>2, <1>3, <2>1 DEF IsNode, RecordsInv
    <2>2. CASE t <= p
      BY <1>2, <1>3, <2>2 DEF IsNode, RecordsInv
    <2> QED BY <1>1, <2>1, <2>2
  <1>10. \E l \in ls : NodeFits(m, l, ch)
    BY <1>2, <1>4 DEF NodeInv, NodeFits
  <1> QED BY <1>2, <1>6, <1>7, <1>8, <1>9, <1>10 DEF NodeInv, IsNode

\* What the state machine has after a Ready is a prefix of the chosen entries.
LEMMA GivenByIs ==
    ASSUME LInv, NEW m, ReadyGives(node, m, LightEntries(AfterSnapshot(node)), chosen)
    PROVE  GivenBy(node) = SubSeq(chosen, 1, m.since)
  <1>1. given = SubSeq(chosen, 1, node.since)
    BY DEF LInv
  <1>2. CASE HasSnapshot(node.unstable)
    BY <1>2 DEF ReadyGives, GoesOnTo, GivenBy, GivenBySnapshot
  <1>3. CASE ~HasSnapshot(node.unstable)
    BY <1>1, <1>3 DEF ReadyGives, GoesOnTo, GivenBy, GivenBySnapshot
  <1> QED BY <1>2, <1>3

\* The storage after a Ready is newer than the one before it.
LEMMA WrittenIsNewer ==
    ASSUME NEW n, NEW ls, NEW ch, NodeInv(n, ls, ch), NEW st, IsStore(st), Older(st, n.store)
    PROVE  Older(st, Written(n))
  <1> DEFINE w == Written(n)
             f == FirstIndex(n)
             g == StoreFirst(n.store)
             h == StoreFirst(st)
             c == n.committed
             d == n.store.commit
             e == st.commit
  <1>1. IsNode(n, ch) /\ IsStore(n.store) /\ c \in Nat /\ d \in Nat /\ d <= c
    BY NodeNumbers DEF NodeInv
  <1>2. w.commit = c /\ StoreFirst(w) = f
    BY WrittenHolds DEF Holds
  <1>3. f \in Nat /\ g \in Nat /\ h \in Nat /\ e \in Nat /\ g <= f
    BY <1>1, NodeEnds, StoreEnds
  <1>4. e <= d /\ h <= g
    BY DEF Older
  <1> HIDE DEF w, f, g, h, c, d, e
  <1>5. e <= c /\ h <= f
    BY <1>1, <1>3, <1>4
  <1> QED BY <1>2, <1>5 DEF Older, w, e, h

\* advance_append_async
LEMMA HandleReadyAsyncKeeps ==
    ASSUME LInv, HandleReadyAsync
    PROVE  LInv' /\ node.since <= node'.since
  <1> DEFINE n == node
             m == Stabilized(node)
             w == Written(node)
             g == GenLight(AfterSnapshot(node))
  <1>1. NodeInv(n, logs, chosen) /\ LogsT(logs, chosen)
    BY DEF LInv, EnvInv
  <1>2. /\ CanStabilize(n) /\ NodeInv(m, logs, chosen) /\ m.store = w
        /\ m.records = Append(n.records, Record(n))
        /\ ReadyGives(n, g, LightEntries(AfterSnapshot(n)), chosen)
        /\ m.since = g.since
    BY <1>1, StabilizedKeeps
  <1>3. /\ node' = m /\ fault' = FALSE /\ images' = Append(images, w) /\ given' = GivenBy(node)
        /\ UNCHANGED <<term, lead, logs, chosen, synced, disk>>
    BY <1>2 DEF HandleReadyAsync, Becomes, envVars
  <1>4. GivenBy(node) = SubSeq(chosen, 1, m.since)
    BY <1>2, GivenByIs
  <1>5. n.since <= m.since
    BY <1>2 DEF ReadyGives
  <1>6. StoreInv(w, logs, chosen) /\ IsStore(w)
    BY <1>1, WrittenHolds DEF Holds
  <1> HIDE DEF m, w
  <1>7. /\ images \in Seq(StoreType) /\ Len(images) \in Nat /\ Len(images) = Len(n.records) /\ synced \in 0..Len(images)
    BY DEF LInv, DiskInv
  <1>8. w \in StoreType
    BY <1>6 DEF IsStore
  <1>9. /\ images' \in Seq(StoreType) /\ Len(images') = Len(images) + 1 /\ images'[Len(images) + 1] = w
        /\ \A k \in 1..Len(images) : images'[k] = images[k]
    BY <1>3, <1>7, <1>8
  <1>10. Len(m.records) = Len(images')
    <2>1. n.records \in Seq(RecordT)
      BY <1>1 DEF NodeInv, IsNode, NodeT
    <2> QED BY <1>2, <1>7, <1>9, <2>1
  <1>11. Older(disk, w) /\ StoreInv(disk, logs, chosen)
    BY <1>1, DiskIsOlder, WrittenIsNewer DEF w, LInv, DiskInv
  <1>12. \A k \in (synced + 1)..Len(images') :
             (k \in (synced + 1)..Len(images) /\ k \in 1..Len(images) /\ images'[k] = images[k])
             \/ (k = Len(images) + 1 /\ images'[k] = w)
    BY <1>7, <1>9
  <1>13. \A k \in (synced + 1)..Len(images') : StoreInv(images'[k], logs, chosen) /\ Older(disk, images'[k])
    BY <1>6, <1>11, <1>12 DEF LInv, DiskInv
  <1>14. ASSUME NEW j \in (synced + 1)..Len(images'), NEW k \in (synced + 1)..Len(images'), j <= k
         PROVE  Older(images'[j], images'[k])
    <2>1. CASE k \in 1..Len(images)
      <3>1. j \in (synced + 1)..Len(images) /\ k \in (synced + 1)..Len(images) /\ j \in 1..Len(images)
        BY <1>7, <1>14, <2>1
      <3>2. Older(images[j], images[k])
        BY <1>14, <3>1 DEF LInv, DiskInv
      <3> QED BY <1>9, <2>1, <3>1, <3>2
    <2>2. CASE k = Len(images) + 1 /\ j = k
      <3>1. w.commit \in Nat /\ StoreFirst(w) \in Nat
        BY <1>6, StoreEnds
      <3> QED BY <1>9, <2>2, <3>1 DEF Older
    <2>3. CASE k = Len(images) + 1 /\ j # k
      <3>1. j \in (synced + 1)..Len(images) /\ Len(images) \in (synced + 1)..Len(images) /\ j <= Len(images)
            /\ j \in 1..Len(images) /\ Len(images) # 0
        BY <1>7, <1>9, <1>14, <2>3
      <3>2. node.store = images[Len(images)]
        BY <3>1 DEF LInv, DiskInv
      <3>3. IsStore(images[j]) /\ Older(images[j], node.store)
        BY <3>1, <3>2 DEF LInv, DiskInv, StoreInv
      <3>4. Older(images[j], w)
        BY <1>1, <3>3, WrittenIsNewer DEF w
      <3> QED BY <1>9, <2>3, <3>1, <3>4
    <2> QED BY <1>7, <1>9, <2>1, <2>2, <2>3
  <1>15. synced > 0 => disk = images'[synced]
    BY <1>7, <1>9 DEF LInv, DiskInv
  <1>16. images' # <<>> /\ synced \in 0..Len(images')
    BY <1>7, <1>9
  <1>17. DiskInv'
    BY <1>2, <1>3, <1>9, <1>10, <1>11, <1>13, <1>14, <1>15, <1>16 DEF DiskInv
  <1>18. EnvInv'
    BY <1>3 DEF LInv, EnvInv
  <1>19. NodeInv(node, logs, chosen)'
    BY <1>2, <1>3
  <1> QED BY <1>3, <1>4, <1>5, <1>17, <1>18, <1>19 DEF LInv

\* advance_append, with the LightReady that follows
LEMMA HandleReadyKeeps ==
    ASSUME LInv, HandleReady
    PROVE  LInv' /\ node.since <= node'.since
  <1> DEFINE n == node
             m == Stabilized(node)
             r == OnPersistReady(m, Len(m.records))
             t == GenLight(r)
             w == Written(node)
             g == GenLight(AfterSnapshot(node))
  <1>1. NodeInv(n, logs, chosen) /\ LogsT(logs, chosen)
    BY DEF LInv, EnvInv
  <1>2. /\ CanStabilize(n) /\ NodeInv(m, logs, chosen) /\ m.store = w
        /\ ReadyGives(n, g, LightEntries(AfterSnapshot(n)), chosen)
        /\ m.since = g.since
    BY <1>1, StabilizedKeeps
  <1>3. m.records \in Seq(RecordT)
    BY <1>2 DEF NodeInv, IsNode, NodeT
  <1>4. GivenBy(node) = SubSeq(chosen, 1, m.since)
    BY <1>2, GivenByIs
  <1>5. n.since <= m.since
    BY <1>2 DEF ReadyGives
  <1>6. StoreInv(w, logs, chosen) /\ IsStore(w)
    BY <1>1, WrittenHolds DEF Holds
  <1> HIDE DEF m
  <1>7. /\ CanReport(m, SubSeq(m.records, 1, Len(m.records))) /\ NodeInv(r, logs, chosen)
        /\ r.store = m.store /\ r.since = m.since /\ r.records = SubSeq(m.records, Len(m.records) + 1, Len(m.records))
    <2> DEFINE k == Len(m.records)
    <2>1. k \in 0..Len(m.records)
      BY <1>3
    <2> HIDE DEF r
    <2>2. r = OnPersistReady(m, k)
      BY DEF r
    <2> HIDE DEF k
    <2>3. NodeInv(m, logs, chosen)
      BY <1>2
    <2>4. Reports(m, k, r, logs, chosen)
      BY <2>1, <2>2, <2>3, OnPersistKeeps, Zenon
    <2> QED BY <2>4, Zenon DEF k, Reports
  <1>8. CanReport(m, m.records)
    BY <1>3, <1>7, SubSeqFull
  <1>9. r.records = <<>>
    BY <1>3, <1>7
  <1> HIDE DEF r
  <1>10. CanGenLight(r) /\ Gives(r, t, LightEntries(r), chosen)
    BY <1>1, <1>7, LightGives
  <1>11. /\ node' = t /\ fault' = FALSE /\ images' = <<>> /\ synced' = 0 /\ disk' = m.store
         /\ given' = GivenBy(node) \o Terms(LightEntries(r))
         /\ UNCHANGED <<term, lead, logs, chosen>>
    BY <1>2, <1>8, <1>10 DEF HandleReady, Becomes, envVars, r, m
  <1> HIDE DEF t
  <1>12. NodeInv(t, logs, chosen)
    BY <1>7, <1>10, GivesKeeps
  <1>13. HandedOut(r, t, t.since) /\ r.since <= t.since /\ GoesOnTo(chosen, r.since, LightEntries(r), t.since)
         /\ t.since \in Nat
    BY <1>10 DEF Gives
  <1>14. t.store = w /\ t.records = <<>>
    BY <1>2, <1>7, <1>9, <1>13 DEF HandedOut
  <1>15. given' = SubSeq(chosen, 1, t.since)
    BY <1>4, <1>7, <1>11, <1>13 DEF GoesOnTo
  <1>16. n.since <= t.since
    <2>1. n.since \in Nat /\ m.since \in Nat
      BY <1>1, <1>2, NodeNumbers
    <2> DEFINE a == n.since
               b == m.since
               d == t.since
    <2>2. a \in Nat /\ b \in Nat /\ d \in Nat /\ a <= b /\ b <= d
      BY <1>5, <1>7, <1>13, <2>1
    <2> HIDE DEF a, b, d
    <2>3. a <= d
      BY <2>2
    <2> QED BY <2>3 DEF a, d
  <1>17. DiskInv'
    <2>1. images' \in Seq(StoreType) /\ Len(images') = 0
      BY <1>11
    <2>2. Len(t.records) = 0
      BY <1>14
    <2> QED BY <1>2, <1>6, <1>11, <1>14, <2>1, <2>2 DEF DiskInv
  <1>18. EnvInv'
    BY <1>11 DEF LInv, EnvInv
  <1>19. NodeInv(node, logs, chosen)'
    BY <1>11, <1>12
  <1> QED BY <1>11, <1>15, <1>16, <1>17, <1>18, <1>19 DEF LInv

\* A node that starts with k entries of bootstrap
Booted(k) ==
    [unstable |-> [snapshot |-> NoSnapshot, entries |-> [i \in 1..k |-> [index |-> i, term |-> 1]], offset |-> 1],
     store |-> NewStorage, committed |-> k, persisted |-> 0, applied |-> 0, records |-> <<>>, since |-> 0,
     prev_commit |-> 0]

\* A new MemStorage
LEMMA EmptyStorage ==
           /\ IsStore(NewStorage) /\ StoreFirst(NewStorage) = 1 /\ StoreLast(NewStorage) = 0
           /\ NewStorage.commit = 0 /\ NewStorage.entries = <<>> /\ NewStorage.snap = NoSnapshot
           /\ \A ls, ch : ls # {} /\ LogsT(ls, ch) => StoreInv(NewStorage, ls, ch)
  <1>1. NewStorage.commit = 0 /\ NewStorage.entries = <<>> /\ NewStorage.snap = NoSnapshot
        /\ NewStorage.snap.index = 0 /\ NewStorage.snap.term = 0
    BY DEF NewStorage, NoSnapshot
  <1>2. NewStorage \in StoreType
    BY DEF NewStorage, NoSnapshot, StoreType
  <1>3. StoreFirst(NewStorage) = 1 /\ StoreLast(NewStorage) = 0
    BY <1>1 DEF StoreFirst, StoreLast
  <1>4. IsStore(NewStorage)
    BY <1>1, <1>2, <1>3 DEF IsStore, CanSnapshot
  <1>5. ASSUME NEW ls, NEW ch, ls # {}, LogsT(ls, ch) PROVE StoreInv(NewStorage, ls, ch)
    <2>1. PICK l \in ls : TRUE
      BY <1>5
    <2>2. l \in Seq(Nat \ {0}) /\ ch \in Seq(Nat \ {0})
      BY <1>5 DEF LogsT
    <2>3. Len(l) >= 0 /\ Len(ch) >= 0
      BY <2>2
    <2>4. Fits(NewStorage, l) /\ Agree(l, ch, 0)
      BY <1>3, <2>3 DEF Fits, Agree
    <2> QED BY <1>1, <1>4, <2>3, <2>4 DEF StoreInv, TermIn
  <1> QED BY <1>1, <1>3, <1>4, <1>5

\* A node that starts is in order.
LEMMA BootedKeeps ==
    ASSUME NEW k \in Nat, NEW l, l = [i \in 1..k |-> 1]
    PROVE  NodeInv(Booted(k), {l}, l)
  <1> DEFINE n == Booted(k)
             ents == [i \in 1..k |-> [index |-> i, term |-> 1]]
             u == [snapshot |-> NoSnapshot, entries |-> ents, offset |-> 1]
  <1>1. /\ n.unstable = u /\ n.store = NewStorage /\ n.committed = k /\ n.persisted = 0 /\ n.applied = 0
        /\ n.records = <<>> /\ n.since = 0 /\ n.prev_commit = 0
        /\ n = [unstable |-> n.unstable, store |-> n.store, committed |-> n.committed,
                persisted |-> n.persisted, applied |-> n.applied, records |-> n.records,
                since |-> n.since, prev_commit |-> n.prev_commit]
    BY DEF Booted
  <1>2. l \in Seq(Nat \ {0}) /\ Len(l) = k /\ \A i \in 1..k : l[i] = 1
    <2>1. l \in [1..k -> Nat \ {0}]
      OBVIOUS
    <2> QED BY <2>1
  <1>3. ents \in Seq(EntryT) /\ Len(ents) = k /\ \A i \in 1..k : ents[i] = [index |-> i, term |-> 1]
    <2>1. ents \in [1..k -> EntryT]
      BY DEF EntryT
    <2> HIDE DEF ents
    <2>2. ents \in Seq(EntryT) /\ Len(ents) = k
      BY <2>1
    <2> QED BY <2>2 DEF ents
  <1> HIDE DEF ents
  <1>4. \A i \in 1..k : ents[i].index = i /\ ents[i].term = 1
    BY <1>3
  <1>5. u.snapshot = NoSnapshot /\ u.entries = ents /\ u.offset = 1 /\ ~HasSnapshot(u)
    BY DEF HasSnapshot
  <1>6. IsUnstable(u)
    <2>1. u \in [snapshot : [index : Nat, term : Nat], entries : Seq(EntryT), offset : Nat \ {0}]
      BY <1>3 DEF NoSnapshot
    <2>2. \A i \in 1..Len(u.entries) : u.entries[i].index = u.offset + i - 1
      BY <1>3, <1>4, <1>5
    <2> QED BY <1>5, <2>1, <2>2 DEF IsUnstable
  <1> HIDE DEF u, n
  <1>7. /\ IsStore(NewStorage) /\ StoreFirst(NewStorage) = 1 /\ StoreLast(NewStorage) = 0
        /\ NewStorage.commit = 0 /\ StoreInv(NewStorage, {l}, l)
    <2>1. LogsT({l}, l)
      BY <1>2 DEF LogsT
    <2> QED BY <2>1, EmptyStorage
  <1>8. LastIndex(n) = k
    <2>1. CASE k = 0
      <3>1. ents = <<>>
        BY <1>3, <2>1
      <3> QED BY <1>1, <1>5, <1>7, <2>1, <3>1 DEF LastIndex, HasLast
    <2>2. CASE k # 0
      <3>1. ents # <<>>
        BY <1>3, <2>2
      <3> QED BY <1>1, <1>3, <1>5, <3>1 DEF LastIndex, HasLast, UnstableLast
    <2> QED BY <2>1, <2>2
  <1>9. NodeT(n)
    <2>1. n.records \in Seq(RecordT)
      BY <1>1
    <2> QED BY <1>1, <1>6, <1>7, <2>1 DEF NodeT
  <1>10. Marks(n)
    BY <1>1, <1>5, <1>7, <1>8 DEF Marks
  <1>11. SnapshotAhead(n, l)
    BY <1>1, <1>5 DEF SnapshotAhead
  <1>12. NoGap(n)
    BY <1>1, <1>5, <1>7 DEF NoGap
  <1>13. RecordsInv(n)
    BY <1>1 DEF RecordsInv
  <1>14. NodeFits(n, l, l)
    <2>1. LastIndex(n) <= Len(l) /\ Agree(l, l, n.committed)
      BY <1>1, <1>2, <1>8 DEF Agree
    <2>2. \A i \in 1..Len(n.unstable.entries) : n.unstable.entries[i].term = l[n.unstable.offset + i - 1]
      <3>1. ASSUME NEW i \in 1..k PROVE ents[i].term = l[1 + i - 1]
        <4>1. 1 + i - 1 = i
          OBVIOUS
        <4> QED BY <1>2, <1>4, <4>1
      <3> QED BY <1>1, <1>3, <1>5, <3>1
    <2>3. \A i \in StoreFirst(n.store)..(n.unstable.offset - 1) :
              n.store.entries[i - StoreFirst(n.store) + 1].term = l[i]
      BY <1>1, <1>5, <1>7
    <2> QED BY <2>1, <2>2, <2>3 DEF NodeFits
  <1> QED BY <1>1, <1>7, <1>9, <1>10, <1>11, <1>12, <1>13, <1>14 DEF NodeInv, IsNode, n

\* The invariant holds at the start.
LEMMA InitKeeps ==
    ASSUME Init
    PROVE  LInv
  <1>1. PICK k \in 0..MaxPeers :
           /\ lead = [i \in 1..k |-> 1]
           /\ term = (IF k = 0 THEN 0 ELSE 1)
           /\ node = IF k = 0 THEN NewNode(NewStorage, 0) ELSE Bootstrap(NewNode(NewStorage, 0), k)
    BY DEF Init
  <1>2. logs = {lead} /\ chosen = lead /\ images = <<>> /\ synced = 0 /\ disk = NewStorage /\ given = <<>>
        /\ fault = FALSE
    BY DEF Init
  <1>3. k \in Nat
    BY LogStoreAssumption
  <1>4. StoreLast(NewStorage) = 0 /\ NewStorage.commit = 0
    BY EmptyStorage
  <1>5. NewNode(NewStorage, 0) =
           [unstable |-> [snapshot |-> NoSnapshot, entries |-> <<>>, offset |-> 1], store |-> NewStorage,
            committed |-> 0, persisted |-> 0, applied |-> 0, records |-> <<>>, since |-> 0, prev_commit |-> 0]
    BY <1>4 DEF NewNode, NewUnstable
  <1>6. node = Booted(k)
    <2>1. CASE k = 0
      <3>1. [i \in 1..k |-> [index |-> i, term |-> 1]] = <<>>
        BY <2>1
      <3> QED BY <1>1, <1>5, <2>1, <3>1 DEF Booted
    <2>2. CASE k # 0
      <3> DEFINE ents == [i \in 1..k |-> [index |-> i, term |-> 1]]
                 v == [snapshot |-> NoSnapshot, entries |-> <<>>, offset |-> 1]
                 o == NewNode(NewStorage, 0)
      <3>1. ents[1].index = 1
        BY <1>3, <2>2
      <3>2. node = [o EXCEPT !.unstable = TruncateAndAppend(o.unstable, ents), !.committed = k]
        BY <1>1, <2>2 DEF Bootstrap
      <3>3. o.unstable = v
        BY <1>5
      <3> HIDE DEF ents
      <3>4. TruncateAndAppend(v, ents) = [v EXCEPT !.offset = 1, !.entries = ents]
        BY <3>1 DEF TruncateAndAppend
      <3>5. TruncateAndAppend(v, ents) = [snapshot |-> NoSnapshot, entries |-> ents, offset |-> 1]
        BY <3>4
      <3> HIDE DEF v, o
      <3>6. node = [o EXCEPT !.unstable = [snapshot |-> NoSnapshot, entries |-> ents, offset |-> 1], !.committed = k]
        BY <3>2, <3>3, <3>5
      <3>7. o = [unstable |-> v, store |-> NewStorage, committed |-> 0, persisted |-> 0, applied |-> 0,
                 records |-> <<>>, since |-> 0, prev_commit |-> 0]
        BY <1>5 DEF o, v
      <3>8. node = [unstable |-> [snapshot |-> NoSnapshot, entries |-> ents, offset |-> 1], store |-> NewStorage,
                    committed |-> k, persisted |-> 0, applied |-> 0, records |-> <<>>, since |-> 0, prev_commit |-> 0]
        BY <3>6, <3>7
      <3> QED BY <3>8 DEF Booted, ents
    <2> QED BY <2>1, <2>2
  <1>7. NodeInv(node, logs, chosen)
    BY <1>1, <1>2, <1>3, <1>6, BootedKeeps
  <1>8. lead \in Seq(Nat \ {0}) /\ Len(lead) = k /\ \A i \in 1..k : lead[i] = 1
    <2>1. lead \in [1..k -> Nat \ {0}]
      BY <1>1
    <2> QED BY <1>1, <1>3, <2>1
  <1>9. LogsT(logs, chosen)
    BY <1>2, <1>8 DEF LogsT
  <1>10. EnvInv
    <2>1. Matching(logs)
      BY <1>2, <1>8 DEF Matching
    <2>2. \A l \in logs : \A i \in 1..Len(l) :
             l[i] <= term /\ (l[i] = term => i <= Len(lead) /\ lead[i] = term)
      <3>1. ASSUME NEW i \in 1..k PROVE lead[i] <= term /\ i <= Len(lead) /\ lead[i] = term
        <4>1. k # 0 /\ term = 1
          BY <1>1, <1>3
        <4> QED BY <1>8, <4>1
      <3> QED BY <1>2, <1>8, <3>1
    <2>3. Agree(lead, chosen, Len(chosen)) /\ Len(chosen) <= Len(lead)
      BY <1>2, <1>3, <1>8 DEF Agree
    <2>4. term \in Nat /\ lead \in logs
      BY <1>1, <1>2
    <2> QED BY <1>9, <2>1, <2>2, <2>3, <2>4 DEF EnvInv
  <1>11. DiskInv
    <2>1. StoreInv(disk, logs, chosen)
      BY <1>2, <1>9, EmptyStorage
    <2>2. images \in Seq(StoreType) /\ Len(images) = 0
      BY <1>2
    <2>3. Len(node.records) = 0 /\ node.store = disk
      BY <1>2, <1>6 DEF Booted
    <2> QED BY <1>2, <2>1, <2>2, <2>3 DEF DiskInv
  <1>12. given = SubSeq(chosen, 1, node.since)
    <2>1. node.since = 0
      BY <1>6 DEF Booted
    <2> QED BY <1>2, <1>8, <2>1
  <1> QED BY <1>2, <1>7, <1>10, <1>11, <1>12 DEF LInv

\* Every step keeps the invariant.
LEMMA NextKeeps ==
    ASSUME LInv, [Next]_vars
    PROVE  LInv'
  <1>1. CASE UNCHANGED vars
    <2>1. UNCHANGED <<term, lead, logs, chosen, node, images, synced, disk, given, fault>>
      BY <1>1 DEF vars, envVars
    <2> QED BY <2>1 DEF LInv, EnvInv, DiskInv
  <1>2. CASE NewLeader
    BY <1>2, NewLeaderKeeps
  <1>3. CASE LeaderAppends
    BY <1>3, LeaderAppendsKeeps
  <1>4. CASE LeaderCommits
    BY <1>4, LeaderCommitsKeeps
  <1>5. CASE \E prev \in 0..Len(lead) : \E last \in prev..Len(lead) : \E commit \in 0..Len(chosen) :
               ReceiveAppend(prev, last, commit)
    BY <1>5, ReceiveAppendKeeps
  <1>6. CASE \E i \in 1..Len(chosen) : ReceiveSnapshot(i)
    BY <1>6, ReceiveSnapshotKeeps
  <1>7. CASE HandleReadyAsync
    BY <1>7, HandleReadyAsyncKeeps
  <1>8. CASE HandleReady
    BY <1>8, HandleReadyKeeps
  <1>9. CASE Sync
    BY <1>9, SyncKeeps
  <1>10. CASE \E k \in 1..MaxFlying : Persisted(k)
    <2>1. PICK k \in 1..MaxFlying : Persisted(k)
      BY <1>10
    <2>2. k \in Nat \ {0}
      BY LogStoreAssumption
    <2> QED BY <2>1, <2>2, PersistedKeeps
  <1>11. CASE \E i \in 1..MaxIndex : Applied(i)
    <2>1. PICK i \in 1..MaxIndex : Applied(i)
      BY <1>11
    <2>2. i \in Nat
      BY LogStoreAssumption
    <2> QED BY <2>1, <2>2, AppliedKeeps
  <1>12. CASE \E i \in 1..MaxIndex : CompactTo(i)
    <2>1. PICK i \in 1..MaxIndex : CompactTo(i)
      BY <1>12
    <2>2. i \in Nat
      BY LogStoreAssumption
    <2> QED BY <2>1, <2>2, CompactToKeeps
  <1>13. CASE \E a \in 0..MaxIndex : Crash(a)
    <2>1. PICK a \in 0..MaxIndex : Crash(a)
      BY <1>13
    <2>2. a \in Nat
      BY LogStoreAssumption
    <2> QED BY <2>1, <2>2, CrashKeeps
  <1> QED BY <1>1, <1>2, <1>3, <1>4, <1>5, <1>6, <1>7, <1>8, <1>9, <1>10, <1>11, <1>12, <1>13 DEF Next

\* The inductive invariant LInv holds: node, storage and disk are each a part of one
\* leader's log, up to the marks that RaftLog and RawNode keep (raft_log.rs, raw_node.rs).
THEOREM LogStoreInvariant == Spec => []LInv
  <1>1. Init => LInv
    BY InitKeeps
  <1>2. LInv /\ [Next]_vars => LInv'
    BY NextKeeps
  <1> QED BY <1>1, <1>2, PTL DEF Spec

\* None of the assertions and fatal! calls of RaftLog, Unstable, MemStorage and RawNode is
\* reached, for any number of outstanding Readies, peers, snapshots and crashes, and any
\* bounds on terms, logs and Readies.
THEOREM LogStoreNeverPanics == Spec => []NoPanic
  <1>1. LInv => NoPanic
    BY DEF LInv, NoPanic
  <1> QED BY <1>1, LogStoreInvariant, PTL

\* Whenever the process dies, Raft::load_state accepts what is on disk, which holds the
\* chosen entries up to its commit index, and MemStorage can make a snapshot of it.
THEOREM LogStoreRestartable == Spec => []Restartable
  <1>1. ASSUME LInv PROVE Restartable
    <2>1. StoreInv(disk, logs, chosen) /\ IsStore(disk)
      BY <1>1 DEF LInv, DiskInv, StoreInv
    <2>2. /\ StoreFirst(disk) \in Nat /\ StoreLast(disk) \in Nat /\ disk.commit \in Nat
          /\ disk.commit <= StoreLast(disk) /\ StoreFirst(disk) <= disk.commit + 1 /\ CanSnapshot(disk)
      BY <2>1, StoreEnds DEF IsStore
    <2>3. PICK l \in logs : Fits(disk, l) /\ Agree(l, chosen, disk.commit)
      BY <2>1 DEF StoreInv
    <2>4. ASSUME NEW i \in StoreFirst(disk)..disk.commit PROVE StoreTerm(disk, i) = chosen[i]
      <3>1. i \in StoreFirst(disk)..StoreLast(disk) /\ i \in Int /\ i \in 1..disk.commit
        BY <2>1, <2>2, StoreEnds
      <3>2. StoreTerm(disk, i) = disk.entries[i - StoreFirst(disk) + 1].term
        BY <2>1, <3>1, StoreReads
      <3> QED BY <2>3, <3>1, <3>2 DEF Fits, Agree
    <2>5. disk.commit \in (StoreFirst(disk) - 1)..StoreLast(disk)
      <3> DEFINE f == StoreFirst(disk)
                 z == StoreLast(disk)
                 c == disk.commit
      <3>1. f \in Nat /\ z \in Nat /\ c \in Nat /\ c <= z /\ f <= c + 1
        BY <2>2
      <3> HIDE DEF f, z, c
      <3>2. c \in (f - 1)..z
        BY <3>1
      <3> QED BY <3>2 DEF f, z, c
    <2> QED BY <2>2, <2>4, <2>5 DEF Restartable
  <1> QED BY <1>1, LogStoreInvariant, PTL

\* A prefix of the chosen entries and entries that follow in a leader's log are the beginning of that log.
LEMMA JoinIsLeaderLog ==
    ASSUME NEW l \in logs, LogsT(logs, chosen), NEW f \in Nat, f > 0, NEW z \in Nat, f <= z + 1, z <= Len(l),
           Agree(l, chosen, f - 1), NEW ents, TermsOf(ents, l, f, z + 1)
    PROVE  IsLeaderLog(SubSeq(chosen, 1, f - 1) \o Terms(ents))
  <1> DEFINE s == f - 1
             h == z + 1
  <1>1. l \in Seq(Nat \ {0}) /\ chosen \in Seq(Nat \ {0}) /\ Len(l) \in Nat /\ Len(chosen) \in Nat
    BY DEF LogsT
  <1>2. s \in Nat /\ s <= Len(chosen) /\ s <= Len(l) /\ \A i \in 1..s : l[i] = chosen[i]
    BY <1>1 DEF Agree
  <1>3. SubSeq(chosen, 1, s) = SubSeq(l, 1, s)
    <2> DEFINE a == SubSeq(chosen, 1, s)
               b == SubSeq(l, 1, s)
    <2> HIDE DEF s
    <2>1. a \in Seq(Nat \ {0}) /\ Len(a) = s /\ \A i \in 1..s : a[i] = chosen[i]
      BY <1>1, <1>2
    <2>2. b \in Seq(Nat \ {0}) /\ Len(b) = s /\ \A i \in 1..s : b[i] = l[i]
      BY <1>1, <1>2
    <2> HIDE DEF a, b
    <2>3. a = b
      BY <1>2, <2>1, <2>2, SeqEqual
    <2> QED BY <2>3 DEF a, b
  <1>4. GoesOnTo(l, s, ents, z)
    <2>1. TermsOf(ents, l, s + 1, h) /\ h - 1 = z /\ s < h /\ h \in Nat /\ h - 1 <= Len(l)
      <3>1. s + 1 = f
        OBVIOUS
      <3> QED BY <3>1
    <2> HIDE DEF s, h
    <2>2. GoesOnTo(l, s, ents, h - 1)
      BY <1>1, <1>2, <2>1, PrefixGrows
    <2> QED BY <2>1, <2>2
  <1>5. SubSeq(chosen, 1, s) \o Terms(ents) = SubSeq(l, 1, z)
    BY <1>3, <1>4 DEF GoesOnTo
  <1>6. Len(SubSeq(l, 1, z)) = z
    BY <1>1
  <1> QED BY <1>5, <1>6 DEF IsLeaderLog

\* The whole log of a node, read with RaftLog::slice
LEMMA WholeSlice ==
    ASSUME NEW n, NEW ls, NEW ch, NodeInv(n, ls, ch), NEW l, NodeFits(n, l, ch),
           NEW ents, ents = Slice(n, FirstIndex(n), LastIndex(n) + 1)
    PROVE  TermsOf(ents, l, FirstIndex(n), LastIndex(n) + 1)
  <1> DEFINE f == FirstIndex(n)
             z == LastIndex(n)
             u == n.unstable
             off == n.unstable.offset
             len == Len(n.unstable.entries)
             st == n.store
             a == SubSeq(st.entries, 1, off - f)
             b == u.entries
  <1>1. IsNode(n, ch) /\ IsUnstable(u) /\ IsStore(st)
    BY NodeNumbers DEF NodeInv
  <1>2. off \in Nat /\ b \in Seq(EntryT) /\ len \in Nat /\ len = Len(b)
    BY <1>1, UnstableEnds
  <1>3. f \in Nat /\ z \in Nat /\ f <= off /\ z = off + len - 1 /\ f > 0
        /\ (HasSnapshot(u) => f = off) /\ (~HasSnapshot(u) => f = StoreFirst(st))
    BY <1>1, NodeEnds
  <1>4. ~HasSnapshot(u) => off - f <= Len(st.entries)
    <2>1. HAVE ~HasSnapshot(u)
    <2>2. off <= StoreLast(st) + 1 /\ f = StoreFirst(st)
      BY <1>1, <1>3, <2>1 DEF IsNode, NoGap
    <2>3. StoreLast(st) = StoreFirst(st) + Len(st.entries) - 1 /\ Len(st.entries) \in Nat /\ StoreLast(st) \in Nat
      BY <1>1, StoreEnds
    <2> DEFINE y == StoreLast(st)
               e == Len(st.entries)
    <2>4. off <= y + 1 /\ y = f + e - 1 /\ e \in Nat /\ y \in Nat
      BY <2>2, <2>3
    <2> HIDE DEF y, e, off, f
    <2>5. off - f <= e
      BY <1>2, <1>3, <2>4
    <2> QED BY <2>5 DEF e
  <1>5. st.entries \in Seq(EntryT)
    BY <1>1, StoreEnds
  <1>6. a \in Seq(EntryT) /\ Len(a) = off - f /\ \A k \in 1..(off - f) : a[k] = st.entries[k]
    <2> DEFINE d == off - f
               se == st.entries
    <2>1. d \in Nat /\ (d = 0 \/ d <= Len(se)) /\ se \in Seq(EntryT)
      BY <1>2, <1>3, <1>4, <1>5
    <2> HIDE DEF d, se
    <2>2. SubSeq(se, 1, d) \in Seq(EntryT) /\ Len(SubSeq(se, 1, d)) = d /\ \A k \in 1..d : SubSeq(se, 1, d)[k] = se[k]
      BY <2>1
    <2> QED BY <2>2 DEF d, se
  <1>7. ents = a \o b
    <2>1. ents = (IF f < off THEN StoreEntries(st, f, MinOf2(z + 1, off)) ELSE <<>>)
                 \o (IF z + 1 > off THEN UnstableSlice(u, MaxOf2(f, off), z + 1) ELSE <<>>)
      BY DEF Slice
    <2>2. (IF f < off THEN StoreEntries(st, f, MinOf2(z + 1, off)) ELSE <<>>) = a
      <3>1. CASE f < off
        <4>1. f = StoreFirst(st) /\ MinOf2(z + 1, off) = off
          <5>1. ~HasSnapshot(u) /\ f = StoreFirst(st)
            BY <1>3, <3>1
          <5> HIDE DEF f, z, off, len
          <5> QED BY <1>2, <1>3, <5>1 DEF MinOf2
        <4>2. StoreEntries(st, f, off) = SubSeq(st.entries, f - f + 1, off - f)
          BY <4>1 DEF StoreEntries
        <4>3. f - f + 1 = 1
          BY <1>3
        <4> HIDE DEF f, off
        <4> QED BY <3>1, <4>1, <4>2, <4>3
      <3>2. CASE ~(f < off)
        <4>1. off - f = 0
          BY <1>2, <1>3, <3>2
        <4>2. a = <<>>
          BY <1>6, <4>1
        <4> QED BY <3>2, <4>2
      <3> QED BY <3>1, <3>2
    <2>3. (IF z + 1 > off THEN UnstableSlice(u, MaxOf2(f, off), z + 1) ELSE <<>>) = b
      <3>1. CASE z + 1 > off
        <4>1. MaxOf2(f, off) = off /\ off - off + 1 = 1 /\ (z + 1) - off = len
          <5> HIDE DEF f, off, z, len
          <5> QED BY <1>2, <1>3 DEF MaxOf2
        <4>2. UnstableSlice(u, off, z + 1) = SubSeq(b, off - off + 1, (z + 1) - off)
          BY DEF UnstableSlice
        <4>3. UnstableSlice(u, off, z + 1) = SubSeq(b, 1, Len(b))
          <5> HIDE DEF off, z, b
          <5> QED BY <1>2, <4>1, <4>2
        <4>4. SubSeq(b, 1, Len(b)) = b
          BY <1>2, SubSeqFull
        <4> HIDE DEF f, off, z, b, u
        <4> QED BY <3>1, <4>1, <4>3, <4>4
      <3>2. CASE ~(z + 1 > off)
        <4>1. len = 0
          <5> HIDE DEF off, z, len
          <5> QED BY <1>2, <1>3, <3>2
        <4>2. b = <<>>
          BY <1>2, <4>1
        <4> QED BY <3>2, <4>2
      <3> QED BY <3>1, <3>2
    <2> QED BY <2>1, <2>2, <2>3, Zenon
  <1> HIDE DEF a, b
  <1> DEFINE d == off - f
  <1>8. d \in Nat /\ d + len = (z + 1) - f
    <2> HIDE DEF off, f, z, len
    <2> QED BY <1>2, <1>3
  <1>9. Len(a) = d /\ \A k \in 1..d : a[k] = st.entries[k]
    BY <1>6
  <1>10. \A k \in 1..d : st.entries[k].term = l[f + k - 1]
    <2> TAKE k \in 1..d
    <2>1. f < off
      <3> HIDE DEF f, off
      <3>1. d > 0
        BY <1>8
      <3> QED BY <1>2, <1>3, <3>1
    <2>2. ~HasSnapshot(u) /\ f = StoreFirst(st)
      BY <1>2, <1>3, <2>1
    <2>3. \A i \in f..(off - 1) : st.entries[i - f + 1].term = l[i]
      BY <2>2 DEF NodeFits
    <2>4. f + k - 1 \in f..(off - 1) /\ (f + k - 1) - f + 1 = k
      <3> HIDE DEF f, off
      <3> QED BY <1>2, <1>3 DEF d
    <2> HIDE DEF f, off, st
    <2> QED BY <2>3, <2>4
  <1>11. \A k \in 1..len : b[k].term = l[off + k - 1]
    BY DEF NodeFits, b
  <1> HIDE DEF d
  <1>12. Len(ents) = d + len /\ \A k \in 1..(d + len) : ents[k] = IF k <= d THEN a[k] ELSE b[k - d]
    <2> DEFINE e == Len(b)
               ab == a \o b
    <2>1. a \in Seq(EntryT) /\ b \in Seq(EntryT) /\ e \in Nat /\ e = len
      BY <1>2, <1>6
    <2>2. ab \in Seq(EntryT) /\ Len(ab) = Len(a) + Len(b)
          /\ \A k \in 1..(Len(a) + Len(b)) : ab[k] = IF k <= Len(a) THEN a[k] ELSE b[k - Len(a)]
      BY <2>1, ConcatProperties
    <2> HIDE DEF ab
    <2>3. ents = ab
      BY <1>7 DEF ab
    <2>4. Len(b) = len
      BY <1>2
    <2> HIDE DEF len
    <2> QED BY <1>9, <2>2, <2>3, <2>4
  <1>13. ASSUME NEW k \in 1..(d + len) PROVE ents[k].term = l[f + k - 1]
    <2>1. CASE k <= d
      <3>1. k \in 1..d
        BY <1>8, <2>1
      <3> QED BY <1>9, <1>10, <1>12, <2>1, <3>1
    <2>2. CASE ~(k <= d)
      <3>1. k - d \in 1..len /\ off + (k - d) - 1 = f + k - 1
        <4>1. off - f = d
          BY DEF d
        <4> HIDE DEF off, f, len
        <4> QED BY <1>2, <1>3, <1>8, <2>2, <4>1
      <3>2. ents[k].term = b[k - d].term
        BY <1>12, <2>2
      <3>3. b[k - d].term = l[off + (k - d) - 1]
        BY <1>11, <3>1
      <3> HIDE DEF off, f
      <3> QED BY <3>1, <3>2, <3>3
    <2> QED BY <2>1, <2>2
  <1>14. Len(ents) = (z + 1) - f /\ \A k \in 1..Len(ents) : ents[k].term = l[f + k - 1]
    <2> HIDE DEF z, f, len
    <2> QED BY <1>8, <1>12, <1>13
  <1> QED BY <1>14 DEF TermsOf

\* The log of the node, read through RaftLog::slice, and the log on disk are each a prefix
\* of one leader's log: truncate_and_append, restore, stable_entries and MemStorage::append
\* never splice two of them together.
THEOREM LogStoreNeverSplices == Spec => []NeverSpliced
  <1>1. ASSUME LInv PROVE NeverSpliced
    <2>0. NodeInv(node, logs, chosen) /\ LogsT(logs, chosen) /\ IsNode(node, chosen)
      BY <1>1 DEF LInv, EnvInv, NodeInv
    <2>1. IsLeaderLog(SubSeq(chosen, 1, FirstIndex(node) - 1)
                        \o Terms(Slice(node, FirstIndex(node), LastIndex(node) + 1)))
      <3> DEFINE f == FirstIndex(node)
                 z == LastIndex(node)
                 c == node.committed
                 ents == Slice(node, f, z + 1)
      <3>1. PICK l \in logs : NodeFits(node, l, chosen)
        BY <2>0 DEF NodeInv
      <3>2. TermsOf(ents, l, f, z + 1)
        BY <2>0, <3>1, WholeSlice
      <3>3. f \in Nat /\ f > 0 /\ z \in Nat /\ f <= c + 1 /\ c <= z /\ c \in Nat
        BY <2>0, NodeEnds, NodeNumbers
      <3>4. z <= Len(l) /\ Agree(l, chosen, c)
        BY <3>1 DEF NodeFits
      <3> HIDE DEF f, z, c, ents
      <3>5. f <= z + 1 /\ f - 1 \in Nat /\ f - 1 <= c
        BY <3>3
      <3>6. Agree(l, chosen, f - 1)
        <4> DEFINE g == f - 1
        <4>1. g \in Nat /\ g <= c /\ c \in Nat /\ Len(chosen) \in Nat
          BY <2>0, <3>3, <3>5 DEF LogsT
        <4> HIDE DEF g
        <4>2. Agree(l, chosen, g)
          BY <3>4, <4>1 DEF Agree
        <4> QED BY <4>2 DEF g
      <3>7. IsLeaderLog(SubSeq(chosen, 1, f - 1) \o Terms(ents))
        BY <2>0, <3>2, <3>3, <3>4, <3>5, <3>6, JoinIsLeaderLog
      <3> QED BY <3>7 DEF f, z, ents
    <2>2. IsLeaderLog(SubSeq(chosen, 1, StoreFirst(disk) - 1) \o Terms(disk.entries))
      <3> DEFINE f == StoreFirst(disk)
                 z == StoreLast(disk)
                 c == disk.commit
                 ents == disk.entries
      <3>0. StoreInv(disk, logs, chosen) /\ IsStore(disk)
        BY <1>1 DEF LInv, DiskInv, StoreInv
      <3>1. PICK l \in logs : Fits(disk, l) /\ Agree(l, chosen, c)
        BY <3>0 DEF StoreInv
      <3>2. f \in Nat /\ f > 0 /\ z \in Nat /\ c \in Nat /\ Len(ents) \in Nat /\ z = f + Len(ents) - 1 /\ f <= c + 1
        BY <3>0, StoreEnds
      <3>3. c <= z
        BY <3>0 DEF IsStore
      <3>4. z <= Len(l) /\ \A i \in f..z : ents[i - f + 1].term = l[i]
        BY <3>1 DEF Fits
      <3> HIDE DEF f, z, c, ents
      <3>5. f <= z + 1 /\ f - 1 \in Nat /\ f - 1 <= c
        BY <3>2, <3>3
      <3>6. Agree(l, chosen, f - 1)
        <4> DEFINE g == f - 1
        <4>1. g \in Nat /\ g <= c /\ c \in Nat /\ Len(chosen) \in Nat
          BY <2>0, <3>2, <3>5 DEF LogsT
        <4> HIDE DEF g
        <4>2. Agree(l, chosen, g)
          BY <3>1, <4>1 DEF Agree
        <4> QED BY <4>2 DEF g
      <3>7. TermsOf(ents, l, f, z + 1)
        <4>1. Len(ents) = (z + 1) - f
          BY <3>2
        <4>2. ASSUME NEW k \in 1..Len(ents) PROVE ents[k].term = l[f + k - 1]
          <5>1. f + k - 1 \in f..z /\ (f + k - 1) - f + 1 = k
            BY <3>2
          <5> QED BY <3>4, <5>1
        <4> QED BY <4>1, <4>2 DEF TermsOf
      <3>8. IsLeaderLog(SubSeq(chosen, 1, f - 1) \o Terms(ents))
        BY <2>0, <3>2, <3>4, <3>5, <3>6, <3>7, JoinIsLeaderLog
      <3> QED BY <3>8 DEF f, ents
    <2> QED BY <2>1, <2>2 DEF NeverSpliced
  <1> QED BY <1>1, LogStoreInvariant, PTL

\* How much the state machine was given
LEMMA GivenIs ==
    ASSUME LInv
    PROVE  /\ given = SubSeq(chosen, 1, node.since) /\ node.since \in Nat /\ Len(given) = node.since
           /\ node.since <= Len(chosen) /\ Len(chosen) \in Nat
  <1> DEFINE s == node.since
             c == node.committed
  <1>1. given = SubSeq(chosen, 1, s) /\ s \in Nat /\ c \in Nat /\ s <= c
    BY NodeNumbers DEF LInv
  <1>2. chosen \in Seq(Nat \ {0}) /\ Len(chosen) \in Nat
    BY DEF LInv, EnvInv, LogsT
  <1>3. c <= Len(chosen)
    BY DEF LInv, NodeInv, NodeFits, Agree
  <1> HIDE DEF s, c
  <1>4. s <= Len(chosen) /\ Len(given) = s
    BY <1>1, <1>2, <1>3
  <1> QED BY <1>1, <1>2, <1>4 DEF s

\* A step that hands out more is a step of DurableLog.
LEMMA HandsOutGives ==
    ASSUME LInv, LInv', node.since <= node'.since, UNCHANGED chosen
    PROVE  [D!Next]_(D!vars)
  <1> DEFINE s == node.since
             t == node'.since
  <1>1. given = SubSeq(chosen, 1, s) /\ s \in Nat /\ Len(given) = s
    BY GivenIs
  <1>2. given' = SubSeq(chosen, 1, t) /\ t \in Nat /\ t <= Len(chosen) /\ Len(chosen) \in Nat
    <2>1. LInv => /\ given = SubSeq(chosen, 1, node.since) /\ node.since \in Nat
                  /\ node.since <= Len(chosen) /\ Len(chosen) \in Nat
      BY GivenIs
    <2>2. (LInv => /\ given = SubSeq(chosen, 1, node.since) /\ node.since \in Nat
                   /\ node.since <= Len(chosen) /\ Len(chosen) \in Nat)'
      BY <2>1, GivenIs, PTL
    <2> QED BY <2>2
  <1>3. s <= t
    OBVIOUS
  <1> HIDE DEF s, t
  <1>4. CASE s = t
    BY <1>1, <1>2, <1>4 DEF D!vars
  <1>5. CASE s # t
    <2>1. t \in (Len(given) + 1)..Len(chosen)
      BY <1>1, <1>2, <1>3, <1>5
    <2>2. D!Give
      BY <1>2, <2>1 DEF D!Give, D!Prefix
    <2> QED BY <2>2 DEF D!Next
  <1> QED BY <1>4, <1>5

\* RawNode over RaftLog and MemStorage implements DurableLog: the state machine is given
\* the chosen entries, each once and in order, and after a crash goes on from something it
\* was given before.
THEOREM LogStoreImplementsDurableLog == Spec => DurableLogSpec
  <1>1. Init => D!Init
    BY DEF Init, D!Init
  <1>2. ASSUME LInv, LInv', [Next]_vars PROVE [D!Next]_(D!vars)
    <2>1. CASE UNCHANGED <<chosen, given>>
      BY <2>1 DEF D!vars
    <2>2. CASE LeaderCommits
      <3>1. Len(chosen') > Len(chosen) /\ SubSeq(chosen', 1, Len(chosen)) = chosen
        BY <1>2, <2>2, LeaderCommitsKeeps
      <3>2. D!Choose
        BY <2>2, <3>1 DEF LeaderCommits, D!Choose, D!Prefix
      <3> QED BY <3>2 DEF D!Next
    <2>3. CASE HandleReadyAsync
      <3>1. node.since <= node'.since /\ UNCHANGED chosen
        BY <1>2, <2>3, HandleReadyAsyncKeeps DEF HandleReadyAsync, envVars
      <3> QED BY <1>2, <3>1, HandsOutGives
    <2>4. CASE HandleReady
      <3>1. node.since <= node'.since /\ UNCHANGED chosen
        BY <1>2, <2>4, HandleReadyKeeps DEF HandleReady, envVars
      <3> QED BY <1>2, <3>1, HandsOutGives
    <2>5. CASE \E a \in 0..MaxIndex : Crash(a)
      <3>1. PICK a \in 0..MaxIndex : Crash(a)
        BY <2>5
      <3>2. a \in Nat
        BY LogStoreAssumption
      <3>3. a <= node.since /\ node.since \in Nat /\ Len(given) = node.since
        BY <1>2, <3>1, <3>2, CrashKeeps, GivenIs
      <3>4. a \in 0..Len(given)
        BY <3>2, <3>3
      <3>5. given' = SubSeq(given, 1, a) /\ UNCHANGED chosen
        BY <3>1 DEF Crash, envVars
      <3>6. D!Crash
        BY <3>4, <3>5 DEF D!Crash, D!Prefix
      <3> QED BY <3>6 DEF D!Next
    <2>6. CASE NewLeader \/ LeaderAppends \/ Sync
      BY <2>1, <2>6 DEF NewLeader, LeaderAppends, Sync, envVars
    <2>7. CASE \E prev \in 0..Len(lead) : \E last \in prev..Len(lead) : \E commit \in 0..Len(chosen) :
                 ReceiveAppend(prev, last, commit)
      BY <2>1, <2>7 DEF ReceiveAppend, envVars
    <2>8. CASE \E i \in 1..Len(chosen) : ReceiveSnapshot(i)
      BY <2>1, <2>8 DEF ReceiveSnapshot, envVars
    <2>9. CASE \E k \in 1..MaxFlying : Persisted(k)
      BY <2>1, <2>9 DEF Persisted, envVars
    <2>10. CASE \E i \in 1..MaxIndex : Applied(i)
      BY <2>1, <2>10 DEF Applied, envVars
    <2>11. CASE \E i \in 1..MaxIndex : CompactTo(i)
      BY <2>1, <2>11 DEF CompactTo, envVars
    <2>12. CASE UNCHANGED vars
      BY <2>1, <2>12 DEF vars, envVars
    <2> QED BY <1>2, <2>2, <2>3, <2>4, <2>5, <2>6, <2>7, <2>8, <2>9, <2>10, <2>11, <2>12 DEF Next
  <1> QED BY <1>1, <1>2, LogStoreInvariant, PTL DEF Spec, DurableLogSpec, D!Spec

\* Storage su holds what storage st holds, up to p.
StoreAgree(su, st, p) ==
    p <= StoreLast(su) /\ \A i \in StoreFirst(st)..p : StoreTerm(su, i) = StoreTerm(st, i)

\* st is the storage that the Ready with record rec was written to.
Recorded(rec, st) ==
    /\ rec.last # NoEntry => rec.last.index = StoreLast(st) /\ StoreTerm(st, rec.last.index) = rec.last.term
    /\ rec.snapshot # NoSnapshot => rec.snapshot.index <= st.commit

\* The snapshots of recs are in storage st.
SnapshotsIn(recs, st) ==
    \A k \in 1..Len(recs) : recs[k].snapshot # NoSnapshot => recs[k].snapshot.index <= st.commit

\* At most two Readies are outstanding, and what is persisted is in every storage that a crash
\* could leave.
DurableInv ==
    /\ Len(images) <= 2
    /\ StoreAgree(disk, node.store, node.persisted)
    /\ \A k \in (synced + 1)..Len(images) : StoreAgree(images[k], node.store, node.persisted)
    /\ \A k \in 1..Len(images) : k >= synced => Recorded(node.records[k], images[k])
    /\ SnapshotsIn(node.records, node.store)

\* A smaller mark is in the storage, too.
LEMMA AgreeUpTo ==
    ASSUME NEW su, NEW st, IsStore(su), IsStore(st), NEW p \in Nat, StoreAgree(su, st, p), NEW q \in Nat, q <= p
    PROVE  StoreAgree(su, st, q)
  <1>1. StoreFirst(st) \in Nat /\ StoreLast(su) \in Nat
    BY StoreEnds
  <1>2. p <= StoreLast(su) /\ \A i \in StoreFirst(st)..p : StoreTerm(su, i) = StoreTerm(st, i)
    BY DEF StoreAgree
  <1> DEFINE f == StoreFirst(st)
             z == StoreLast(su)
  <1> HIDE DEF f, z
  <1>3. q <= z
    BY <1>1, <1>2 DEF z
  <1>4. \A i \in f..q : i \in f..p
    BY <1>1 DEF f
  <1> QED BY <1>2, <1>3, <1>4 DEF StoreAgree, f, z

\* Storages that both hold what is chosen up to x
LEMMA AgreeOnChosen ==
    ASSUME NEW su, NEW st, NEW ls, NEW ch, StoreInv(su, ls, ch), StoreInv(st, ls, ch), Older(su, st),
           NEW x \in Nat, x <= su.commit
    PROVE  StoreAgree(su, st, x)
  <1> DEFINE f == StoreFirst(st)
             g == StoreFirst(su)
             y == StoreLast(st)
             z == StoreLast(su)
             c == su.commit
             d == st.commit
  <1>1. IsStore(su) /\ IsStore(st) /\ f \in Nat /\ g \in Nat /\ y \in Nat /\ z \in Nat /\ c \in Nat /\ d \in Nat
        /\ f > 0 /\ g > 0
    BY StoreEnds DEF StoreInv
  <1>2. c <= z /\ d <= y /\ c <= d /\ g <= f
    BY <1>1 DEF IsStore, Older
  <1>3. PICK l \in ls : Fits(su, l) /\ Agree(l, ch, c)
    BY DEF StoreInv
  <1>4. PICK m \in ls : Fits(st, m) /\ Agree(m, ch, d)
    BY DEF StoreInv
  <1>5. x <= c
    OBVIOUS
  <1> HIDE DEF f, g, y, z, c, d
  <1>6. x <= z
    BY <1>1, <1>2, <1>5
  <1>7. ASSUME NEW i \in f..x PROVE StoreTerm(su, i) = StoreTerm(st, i)
    <2>1. i \in Int /\ i \in g..z /\ i \in f..y /\ i \in 1..c /\ i \in 1..d
      BY <1>1, <1>2, <1>5
    <2>2. StoreTerm(su, i) = l[i]
      BY <1>1, <1>3, <2>1, StoreReads DEF Fits, g, z
    <2>3. StoreTerm(st, i) = m[i]
      BY <1>1, <1>4, <2>1, StoreReads DEF Fits, f, y
    <2>4. l[i] = ch[i] /\ m[i] = ch[i]
      BY <1>3, <1>4, <2>1 DEF Agree
    <2> QED BY <2>2, <2>3, <2>4
  <1> QED BY <1>6, <1>7 DEF StoreAgree, f, z

\* Storages that share an entry
LEMMA AgreeOnEntry ==
    ASSUME NEW su, NEW st, NEW ls, NEW ch, LogsT(ls, ch), Matching(ls), StoreInv(su, ls, ch), StoreInv(st, ls, ch),
           Older(su, st), NEW x \in Nat, x <= StoreLast(su), StoreTerm(su, x) = StoreTerm(st, x), StoreTerm(st, x) # NoTerm
    PROVE  StoreAgree(su, st, x)
  <1> DEFINE f == StoreFirst(st)
             g == StoreFirst(su)
             y == StoreLast(st)
             z == StoreLast(su)
  <1>1. IsStore(su) /\ IsStore(st) /\ f \in Nat /\ g \in Nat /\ y \in Nat /\ z \in Nat /\ f > 0 /\ g > 0
    BY StoreEnds DEF StoreInv
  <1>2. g <= f /\ x <= z
    BY DEF Older
  <1>3. PICK l \in ls : Fits(su, l)
    BY DEF StoreInv
  <1>4. PICK m \in ls : Fits(st, m)
    BY DEF StoreInv
  <1>5. z <= Len(l) /\ y <= Len(m) /\ Len(l) \in Nat /\ Len(m) \in Nat
    BY <1>3, <1>4 DEF Fits, LogsT
  <1>6. CASE x < f
    <2>1. \A i \in f..x : FALSE
      <3> HIDE DEF f
      <3> QED BY <1>1, <1>6
    <2> QED BY <1>2, <2>1 DEF StoreAgree
  <1>7. CASE ~(x < f)
    <2>1. x <= y
      <3>1. st.snap.index < f /\ st.snap.index \in Nat
        BY <1>1, StoreEnds DEF IsStore
      <3>2. x # st.snap.index
        BY <1>1, <1>7, <3>1
      <3>3. x \in f..y
        BY <1>1, <3>2, StoreReads
      <3> HIDE DEF f, y
      <3> QED BY <1>1, <3>3
    <2> HIDE DEF f, g, y, z
    <2>2. x \in f..y /\ x \in g..z /\ x \in 1..Len(l) /\ x <= Len(m)
      BY <1>1, <1>2, <1>5, <1>7, <2>1
    <2>3. ASSUME NEW i \in f..x PROVE StoreTerm(su, i) = l[i] /\ StoreTerm(st, i) = m[i] /\ i \in 1..x
      <3>1. i \in Int /\ i \in g..z /\ i \in f..y /\ i \in 1..x
        BY <1>1, <1>2, <2>1
      <3>2. StoreTerm(su, i) = l[i]
        BY <1>1, <1>3, <3>1, StoreReads DEF Fits, g, z
      <3>3. StoreTerm(st, i) = m[i]
        BY <1>1, <1>4, <3>1, StoreReads DEF Fits, f, y
      <3> QED BY <3>1, <3>2, <3>3
    <2>4. l[x] = m[x]
      <3>1. x \in f..x
        BY <1>1, <1>7
      <3> QED BY <2>3, <3>1
    <2>5. \A i \in 1..x : l[i] = m[i]
      BY <2>2, <2>4 DEF Matching
    <2>6. \A i \in f..x : StoreTerm(su, i) = StoreTerm(st, i)
      BY <2>3, <2>5
    <2> QED BY <1>2, <2>6 DEF StoreAgree, f, z
  <1> QED BY <1>6, <1>7

\* A storage holds what it holds.
LEMMA AgreeWithItself ==
    ASSUME NEW st, NEW p, p <= StoreLast(st)
    PROVE  StoreAgree(st, st, p)
  BY DEF StoreAgree

\* A storage that agrees with the node's storage before a Ready is written agrees with it after.
LEMMA WrittenAgrees ==
    ASSUME NEW n, NEW ls, NEW ch, NodeInv(n, ls, ch), NEW su, StoreAgree(su, n.store, n.persisted)
    PROVE  StoreAgree(su, Written(n), n.persisted)
  <1> DEFINE w == Written(n)
             f == FirstIndex(n)
             p == n.persisted
             off == n.unstable.offset
             x == n.unstable.snapshot.index
             sl == StoreLast(n.store)
             z == LastIndex(n)
  <1>1. IsNode(n, ch) /\ p \in Nat /\ off \in Nat /\ p < off /\ IsUnstable(n.unstable) /\ IsStore(n.store)
    BY NodeNumbers DEF NodeInv
  <1>2. /\ IsStore(w) /\ StoreFirst(w) = f /\ StoreLast(w) = z /\ \A l : NodeFits(n, l, ch) => Fits(w, l)
    BY WrittenHolds DEF Holds
  <1>3. p <= StoreLast(su) /\ \A i \in StoreFirst(n.store)..p : StoreTerm(su, i) = StoreTerm(n.store, i)
    BY DEF StoreAgree
  <1>4. f \in Nat /\ z \in Nat /\ z = off + Len(n.unstable.entries) - 1 /\ Len(n.unstable.entries) \in Nat /\ sl \in Nat
        /\ f > 0
    BY <1>1, NodeEnds, UnstableEnds, StoreEnds
  <1>5. CASE HasSnapshot(n.unstable)
    <2>1. f = x + 1 /\ p <= x /\ x \in Nat
      BY <1>1, <1>5, UnstableEnds DEF FirstIndex, IsNode, SnapshotAhead
    <2>2. \A i \in f..p : FALSE
      <3> HIDE DEF f, p, x
      <3> QED BY <1>1, <2>1
    <2> QED BY <1>2, <1>3, <2>2 DEF StoreAgree
  <1>6. CASE ~HasSnapshot(n.unstable)
    <2>1. f = StoreFirst(n.store) /\ off <= sl + 1
      BY <1>1, <1>6 DEF FirstIndex, IsNode, NoGap
    <2>2. PICK l \in ls : NodeFits(n, l, ch)
      BY DEF NodeInv
    <2>3. Fits(w, l) /\ \A i \in f..(off - 1) : n.store.entries[i - f + 1].term = l[i]
      BY <1>2, <1>6, <2>1, <2>2 DEF NodeFits
    <2>4. ASSUME NEW i \in f..p PROVE StoreTerm(n.store, i) = StoreTerm(w, i)
      <3>1. i \in Int /\ i \in f..(off - 1) /\ i \in f..sl /\ i \in f..z
        <4> DEFINE len == Len(n.unstable.entries)
        <4>1. z = off + len - 1 /\ len \in Nat
          BY <1>4
        <4>2. p \in Nat /\ off \in Nat /\ p < off /\ off <= sl + 1 /\ f \in Nat /\ z \in Nat /\ sl \in Nat
          BY <1>1, <1>4, <2>1
        <4> HIDE DEF f, p, off, sl, z, len
        <4> QED BY <4>1, <4>2
      <3>2. StoreTerm(n.store, i) = n.store.entries[i - f + 1].term
        BY <1>1, <2>1, <3>1, StoreReads
      <3>3. StoreTerm(w, i) = w.entries[i - f + 1].term
        BY <1>2, <3>1, StoreReads
      <3>4. w.entries[i - f + 1].term = l[i]
        BY <1>2, <2>3, <3>1 DEF Fits
      <3> QED BY <2>3, <3>1, <3>2, <3>3, <3>4
    <2> QED BY <1>2, <1>3, <2>1, <2>4 DEF StoreAgree
  <1> QED BY <1>5, <1>6

\* A Ready's record describes the storage it was written to.
LEMMA WrittenIsRecorded ==
    ASSUME NEW n, NEW ls, NEW ch, NodeInv(n, ls, ch)
    PROVE  Recorded(Record(n), Written(n)) /\ n.persisted <= StoreLast(Written(n))
  <1> DEFINE w == Written(n)
             rec == Record(n)
             ents == n.unstable.entries
             len == Len(n.unstable.entries)
             off == n.unstable.offset
             z == LastIndex(n)
             f == FirstIndex(n)
             p == n.persisted
  <1>1. IsNode(n, ch) /\ IsUnstable(n.unstable) /\ p \in Nat /\ p < off
    BY NodeNumbers DEF NodeInv
  <1>2. /\ IsStore(w) /\ StoreFirst(w) = f /\ StoreLast(w) = z /\ w.commit = n.committed
        /\ \A l : NodeFits(n, l, ch) => Fits(w, l)
    BY WrittenHolds DEF Holds
  <1>3. f \in Nat /\ z \in Nat /\ z = off + len - 1 /\ f <= off /\ len \in Nat /\ off \in Nat /\ ents \in Seq(EntryT)
    BY <1>1, NodeEnds, UnstableEnds
  <1>4. rec.snapshot = n.unstable.snapshot /\ rec.last = IF ents = <<>> THEN NoEntry ELSE ents[len]
    BY DEF Record
  <1>5. p <= z
    <2>1. p \in Nat /\ p < off
      BY <1>1
    <2> HIDE DEF p, off, z, len, f
    <2> QED BY <1>3, <2>1
  <1>6. rec.snapshot # NoSnapshot => rec.snapshot.index <= w.commit
    <2>1. HAVE rec.snapshot # NoSnapshot
    <2>2. HasSnapshot(n.unstable)
      BY <1>4, <2>1 DEF HasSnapshot
    <2> QED BY <1>1, <1>2, <1>4, <2>2 DEF IsNode, SnapshotAhead
  <1>7. rec.last # NoEntry => rec.last.index = z /\ StoreTerm(w, z) = rec.last.term
    <2>1. HAVE rec.last # NoEntry
    <2>2. rec.last = ents[len] /\ ents # <<>>
      BY <1>4, <2>1
    <2>3. len \in 1..len
      BY <1>3, <2>2
    <2>4. ents[len].index = z
      BY <1>1, <1>3, <2>3 DEF IsUnstable
    <2>5. PICK l \in ls : NodeFits(n, l, ch)
      BY DEF NodeInv
    <2>6. ents[len].term = l[z]
      BY <1>3, <2>3, <2>5 DEF NodeFits
    <2>7. z \in f..z /\ z \in Int
      <3> HIDE DEF f, z, off, len, ents
      <3> QED BY <1>3, <2>3
    <2>8. StoreTerm(w, z) = l[z]
      BY <1>2, <2>5, <2>7, StoreReads DEF Fits
    <2> QED BY <2>2, <2>4, <2>6, <2>8
  <1> QED BY <1>2, <1>5, <1>6, <1>7 DEF Recorded

\* The types of what DurableInv is about
LEMMA DurableTypes ==
    ASSUME LInv
    PROVE  /\ node.persisted \in Nat /\ Len(images) \in Nat /\ Len(images) = Len(node.records)
           /\ synced \in 0..Len(images) /\ images \in Seq(StoreType) /\ node.records \in Seq(RecordT)
           /\ IsStore(node.store) /\ IsStore(disk) /\ NodeT(node)
           /\ \A k \in (synced + 1)..Len(images) : IsStore(images[k])
  <1>1. NodeInv(node, logs, chosen) /\ DiskInv
    BY DEF LInv
  <1>2. NodeT(node)
    BY <1>1 DEF NodeInv, IsNode
  <1>3. node.persisted \in Nat /\ node.records \in Seq(RecordT) /\ IsStore(node.store)
    BY <1>2 DEF NodeT
  <1>4. IsStore(disk) /\ \A k \in (synced + 1)..Len(images) : IsStore(images[k])
    BY <1>1 DEF DiskInv, StoreInv
  <1>5. Len(images) = Len(node.records) /\ synced \in 0..Len(images) /\ images \in Seq(StoreType)
    BY <1>1 DEF DiskInv
  <1> QED BY <1>2, <1>3, <1>4, <1>5

\* A step that writes nothing and does not raise persisted
LEMMA LoweringKeeps ==
    ASSUME LInv, LInv', DurableInv, node'.persisted <= node.persisted, node'.store = node.store,
           node'.records = node.records, UNCHANGED <<images, synced, disk>>
    PROVE  DurableInv'
  <1>1. /\ node.persisted \in Nat /\ IsStore(node.store) /\ IsStore(disk)
        /\ \A k \in (synced + 1)..Len(images) : IsStore(images[k])
    BY DurableTypes
  <1>2. node'.persisted \in Nat
    BY NodeNumbers DEF LInv
  <1>3. StoreAgree(disk, node.store, node'.persisted)
    BY <1>1, <1>2, AgreeUpTo DEF DurableInv
  <1>4. \A k \in (synced + 1)..Len(images) : StoreAgree(images[k], node.store, node'.persisted)
    BY <1>1, <1>2, AgreeUpTo DEF DurableInv
  <1> QED BY <1>3, <1>4 DEF DurableInv

\* maybe_append lowers persisted with what it truncates.
LEMMA DurableReceiveAppend ==
    ASSUME LInv, LInv', DurableInv, NEW prev, NEW last, NEW commit, ReceiveAppend(prev, last, commit)
    PROVE  DurableInv'
  <1> DEFINE ents == LeaderEntries(prev + 1, last)
             c == FindConflict(node, ents)
             q == MinOf2(node.persisted, c - 1)
             v == TruncateAndAppend(node.unstable, SubSeq(ents, c - ents[1].index + 1, Len(ents)))
             r == ReplaceFrom(node, c, ents)
             to == MinOf2(commit, last)
  <1>1. node' = CommitTo(r, to) /\ UNCHANGED <<images, synced, disk>>
    BY DEF ReceiveAppend, Becomes, LInv
  <1>2. NodeT(node) /\ node.persisted \in Nat
    BY DurableTypes
  <1>3. node'.persisted \in Nat
    BY NodeNumbers DEF LInv
  <1> HIDE DEF ents, to, q, v, c
  <1>4. r = IF c = 0 THEN node ELSE [node EXCEPT !.unstable = v, !.persisted = q]
    BY DEF ReplaceFrom, v, q
  <1> HIDE DEF r
  <1>5. CASE c = 0
    <2>1. r = node
      BY <1>4, <1>5
    <2>2. node' = [node EXCEPT !.committed = MaxOf2(node.committed, to)]
      BY <1>1, <2>1 DEF CommitTo
    <2>3. node'.persisted = node.persisted /\ node'.store = node.store /\ node'.records = node.records
      BY <1>2, <2>2, NodeRecord
    <2>4. node'.persisted <= node.persisted
      BY <1>2, <2>3
    <2> QED BY <1>1, <2>3, <2>4, LoweringKeeps
  <1>6. CASE c # 0
    <2>1. r = [node EXCEPT !.unstable = v, !.persisted = q]
      BY <1>4, <1>6
    <2>2. r = [unstable |-> v, store |-> node.store, committed |-> node.committed, persisted |-> q,
               applied |-> node.applied, records |-> node.records, since |-> node.since, prev_commit |-> node.prev_commit]
      BY <1>2, <2>1, NodeRecord
    <2>3. node' = [r EXCEPT !.committed = MaxOf2(r.committed, to)]
      BY <1>1 DEF CommitTo
    <2>4. node'.persisted = q /\ node'.store = node.store /\ node'.records = node.records
      BY <2>2, <2>3
    <2>5. q <= node.persisted
      <3>1. q = IF node.persisted < c - 1 THEN node.persisted ELSE c - 1
        BY DEF q, MinOf2
      <3>2. q \in Nat
        BY <1>3, <2>4
      <3> DEFINE d == c - 1
                 p == node.persisted
      <3>3. q = (IF p < d THEN p ELSE d) /\ p \in Nat
        BY <1>2, <3>1
      <3> HIDE DEF d, p, q
      <3>4. q <= p
        BY <3>2, <3>3
      <3> QED BY <3>4 DEF p
    <2> QED BY <1>1, <2>4, <2>5, LoweringKeeps
  <1> QED BY <1>5, <1>6

\* RaftLog::restore lowers persisted to the commit index.
LEMMA DurableReceiveSnapshot ==
    ASSUME LInv, LInv', DurableInv, NEW i \in 1..Len(chosen), ReceiveSnapshot(i)
    PROVE  DurableInv'
  <1> DEFINE snap == [index |-> i, term |-> chosen[i]]
  <1>1. UNCHANGED <<images, synced, disk>>
        /\ (node' = CommitTo(node, i) \/ node' = Restore(node, snap))
    BY DEF ReceiveSnapshot, Becomes
  <1>2. NodeT(node) /\ node.persisted \in Nat /\ node.committed \in Nat
    BY DurableTypes DEF NodeT
  <1>3. CASE node' = CommitTo(node, i)
    <2>1. node'.persisted = node.persisted /\ node'.store = node.store /\ node'.records = node.records
      BY <1>2, <1>3, NodeRecord DEF CommitTo
    <2>2. node'.persisted <= node.persisted
      BY <1>2, <2>1
    <2> QED BY <1>1, <2>1, <2>2, LoweringKeeps
  <1>4. CASE node' = Restore(node, snap)
    <2>1. node' = [node EXCEPT !.persisted = MinOf2(node.persisted, node.committed), !.committed = snap.index,
                               !.unstable = UnstableRestore(snap)]
      BY <1>4 DEF Restore
    <2>2. node'.persisted = MinOf2(node.persisted, node.committed) /\ node'.store = node.store
          /\ node'.records = node.records
      <3> HIDE DEF snap
      <3> QED BY <1>2, <2>1, NodeRecord
    <2>3. node'.persisted <= node.persisted
      BY <1>2, <2>2 DEF MinOf2
    <2> QED BY <1>1, <2>2, <2>3, LoweringKeeps
  <1> QED BY <1>1, <1>3, <1>4

\* advance_apply_to leaves persisted alone.
LEMMA DurableApplied ==
    ASSUME LInv, LInv', DurableInv, NEW i, Applied(i)
    PROVE  DurableInv'
  <1>1. node' = [node EXCEPT !.applied = i] /\ UNCHANGED <<images, synced, disk>>
    BY DEF Applied, Becomes, LInv
  <1>2. NodeT(node) /\ node.persisted \in Nat
    BY DurableTypes
  <1>3. node'.persisted = node.persisted /\ node'.store = node.store /\ node'.records = node.records
    BY <1>1, <1>2, NodeRecord
  <1>4. node'.persisted <= node.persisted
    BY <1>2, <1>3
  <1> QED BY <1>1, <1>3, <1>4, LoweringKeeps

\* A Ready that reaches the disk holds what is persisted.
LEMMA DurableSync ==
    ASSUME LInv, LInv', DurableInv, Sync
    PROVE  DurableInv'
  <1>1. synced < Len(images) /\ synced' = synced + 1 /\ disk' = images[synced + 1] /\ UNCHANGED <<node, images>>
    BY DEF Sync
  <1>2. Len(images) \in Nat /\ synced \in 0..Len(images)
    BY DurableTypes
  <1>3. synced + 1 \in (synced + 1)..Len(images)
    BY <1>1, <1>2
  <1>4. StoreAgree(disk', node'.store, node'.persisted)
    BY <1>1, <1>3 DEF DurableInv
  <1>5. \A k \in (synced' + 1)..Len(images) : k \in (synced + 1)..Len(images)
    BY <1>1, <1>2
  <1>6. \A k \in (synced' + 1)..Len(images') : StoreAgree(images'[k], node'.store, node'.persisted)
    BY <1>1, <1>5 DEF DurableInv
  <1>7. \A k \in 1..Len(images) : k >= synced' => k >= synced
    BY <1>1, <1>2
  <1>8. \A k \in 1..Len(images') : k >= synced' => Recorded(node'.records[k], images'[k])
    BY <1>1, <1>7 DEF DurableInv
  <1> QED BY <1>1, <1>4, <1>6, <1>8 DEF DurableInv

\* A step after which nothing is outstanding and the node's storage is on disk.
LEMMA NothingOutstanding ==
    ASSUME images' = <<>>, synced' = 0, node'.store = disk', node'.records = <<>>, node'.persisted <= StoreLast(disk')
    PROVE  DurableInv'
  <1>1. Len(images') = 0 /\ Len(node'.records) = 0
    OBVIOUS
  <1>2. StoreAgree(disk', node'.store, node'.persisted)
    BY AgreeWithItself
  <1> QED BY <1>1, <1>2 DEF DurableInv, SnapshotsIn

\* After a restart everything on disk is persisted, and nothing else.
LEMMA DurableCrash ==
    ASSUME LInv, LInv', NEW a, Crash(a)
    PROVE  DurableInv'
  <1>1. node' = NewNode(disk, a) /\ images' = <<>> /\ synced' = 0 /\ disk' = disk
    BY DEF Crash, Becomes, LInv
  <1>2. node'.store = disk /\ node'.records = <<>> /\ node'.persisted = StoreLast(disk)
    BY <1>1 DEF NewNode
  <1>3. StoreLast(disk) \in Nat
    BY DurableTypes, StoreEnds
  <1>4. node'.persisted <= StoreLast(disk')
    BY <1>1, <1>2, <1>3
  <1> QED BY <1>1, <1>2, <1>4, NothingOutstanding

\* So it is at the start, with or without bootstrap.
LEMMA DurableInit ==
    ASSUME Init
    PROVE  DurableInv
  <1>1. PICK k \in 0..MaxPeers :
           node = IF k = 0 THEN NewNode(NewStorage, 0) ELSE Bootstrap(NewNode(NewStorage, 0), k)
    BY DEF Init
  <1>2. images = <<>> /\ synced = 0 /\ disk = NewStorage
    BY DEF Init
  <1>3. node.store = NewStorage /\ node.records = <<>> /\ node.persisted = StoreLast(NewStorage)
    BY <1>1 DEF NewNode, Bootstrap
  <1>4. node.persisted <= StoreLast(disk)
    BY <1>2, <1>3, EmptyStorage
  <1>5. Len(images) = 0 /\ Len(node.records) = 0
    BY <1>2, <1>3
  <1>6. StoreAgree(disk, node.store, node.persisted)
    BY <1>2, <1>3, <1>4, AgreeWithItself
  <1> QED BY <1>2, <1>5, <1>6 DEF DurableInv, SnapshotsIn

\* The last entry of records is the last entry of one of them.
LEMMA LastEntryIs ==
    ASSUME NEW recs \in Seq(RecordT)
    PROVE  LastEntry(recs) # NoEntry =>
              \E k \in 1..Len(recs) : recs[k].last = LastEntry(recs) /\ LastEntry(recs).index \in Nat /\ LastEntry(recs).term \in Nat
  <1> DEFINE at == {k \in 1..Len(recs) : recs[k].last # NoEntry /\ k >= LastSnapshot(recs)}
             last == CHOOSE k \in at : \A j \in at : j <= k
  <1>1. LastEntry(recs) = IF at = {} THEN NoEntry ELSE recs[last].last
    BY DEF LastEntry
  <1>2. SUFFICES ASSUME at # {}
                 PROVE  \E k \in 1..Len(recs) : recs[k].last = LastEntry(recs) /\ LastEntry(recs).index \in Nat
                                                /\ LastEntry(recs).term \in Nat
    BY <1>1
  <1>3. \E k \in at : \A j \in at : j <= k
    <2>1. at \in SUBSET (0..Len(recs)) /\ Len(recs) \in Nat
      OBVIOUS
    <2> HIDE DEF at
    <2> QED BY <1>2, <2>1, GreatestElement
  <1>4. last \in at
    <2> HIDE DEF at
    <2> QED BY <1>3
  <1>5. last \in 1..Len(recs)
    BY <1>4
  <1> HIDE DEF last
  <1>6. recs[last] \in RecordT
    BY <1>5
  <1>7. recs[last].last.index \in Nat /\ recs[last].last.term \in Nat
    BY <1>6 DEF RecordT
  <1> HIDE DEF at
  <1> QED BY <1>1, <1>2, <1>5, <1>7

\* What persisted may become when records are reported: the snapshot of one of them, or the last entry of
\* one of them, if the storage still has it.
PersistsOne(n, recs, q) ==
    \/ q = n.persisted
    \/ \E k \in 1..Len(recs) : recs[k].snapshot # NoSnapshot /\ q = recs[k].snapshot.index
    \/ \E k \in 1..Len(recs) : /\ recs[k].last # NoEntry /\ q = recs[k].last.index
                               /\ StoreTerm(n.store, q) = recs[k].last.term /\ recs[k].last.term \in Nat

\* on_persist_ready moves persisted to the snapshot or to an entry of a Ready that is reported.
LEMMA OnPersistValue ==
    ASSUME NEW n, NodeT(n), NEW k \in 0..Len(n.records), NEW m, m = OnPersistReady(n, k)
    PROVE  PersistsOne(n, SubSeq(n.records, 1, k), m.persisted)
  <1> DEFINE a == SubSeq(n.records, 1, k)
             g == LastSnapshot(a)
             i == a[g].snapshot.index
             s == IF g = 0 THEN n.persisted ELSE MaxOf2(n.persisted, i)
             sr == SnapReported(n, a)
             e == LastEntry(a)
             rep == Report(n, a)
             Rep(t) == [unstable |-> n.unstable, store |-> n.store, committed |-> n.committed, persisted |-> t,
                        applied |-> n.applied, records |-> n.records, since |-> n.since, prev_commit |-> n.prev_commit]
  <1>1. n.records \in Seq(RecordT)
    BY DEF NodeT
  <1>2. a \in Seq(RecordT)
    BY <1>1, LastSnapshotSplit DEF SplitAt
  <1> HIDE DEF a
  <1>3. g # 0 => g \in 1..Len(a) /\ a[g].snapshot # NoSnapshot
    BY <1>2, LastSnapshotIs DEF IsLastSnapshot
  <1>4. sr = Rep(s)
    <2>1. CASE g = 0
      <3>1. sr = n /\ s = n.persisted
        BY <2>1 DEF SnapReported
      <3>2. n = Rep(n.persisted)
        BY DEF NodeT
      <3> HIDE DEF sr, s
      <3> QED BY <3>1, <3>2, Zenon
    <2>2. CASE g # 0
      <3>1. sr = [n EXCEPT !.persisted = MaxOf2(n.persisted, i)] /\ s = MaxOf2(n.persisted, i)
        BY <2>2 DEF SnapReported, MaybePersistSnap
      <3> HIDE DEF sr, s, i
      <3>2. sr = [n EXCEPT !.persisted = s]
        BY <3>1
      <3> QED BY <3>2, NodeRecord
    <2> QED BY <2>1, <2>2
  <1> HIDE DEF sr, e, g
  <1>5. rep = IF e = NoEntry THEN sr ELSE MaybePersist(sr, e)
    BY DEF Report, sr, e
  <1>6. s = n.persisted \/ (g # 0 /\ s = i)
    BY DEF MaxOf2
  <1> HIDE DEF s, i
  <1>7. sr.store = n.store /\ sr.persisted = s /\ sr.records = n.records
    BY <1>4
  <1>8. \/ rep = sr
        \/ e # NoEntry /\ rep = [sr EXCEPT !.persisted = e.index] /\ StoreTerm(n.store, e.index) = e.term
    BY <1>5, <1>7 DEF MaybePersist
  <1>9. m = [rep EXCEPT !.records = SubSeq(rep.records, k + 1, Len(rep.records))]
    BY Zenon DEF OnPersistReady, a
  <1> HIDE DEF rep
  <1>10. CASE rep = sr
    <2>1. m.persisted = s
      BY <1>4, <1>9, <1>10
    <2> QED BY <1>3, <1>6, <2>1 DEF PersistsOne, i, a
  <1>11. CASE e # NoEntry /\ rep = [sr EXCEPT !.persisted = e.index] /\ StoreTerm(n.store, e.index) = e.term
    <2>1. rep = Rep(e.index)
      BY <1>4, <1>11
    <2>2. m.persisted = e.index
      BY <1>9, <2>1
    <2>3. PICK j \in 1..Len(a) : a[j].last = e /\ e.index \in Nat /\ e.term \in Nat
      BY <1>2, <1>11, LastEntryIs DEF e
    <2> QED BY <1>11, <2>2, <2>3 DEF PersistsOne, a
  <1> QED BY <1>8, <1>10, <1>11

\* What is reported is in the storage.
LEMMA ReportedIsStored ==
    ASSUME NEW n, NodeT(n), NEW k \in 0..Len(n.records), NEW m, m = OnPersistReady(n, k), NodeT(m),
           n.persisted <= StoreLast(n.store), SnapshotsIn(n.records, n.store)
    PROVE  m.persisted <= StoreLast(n.store)
  <1> DEFINE a == SubSeq(n.records, 1, k)
             q == m.persisted
             st == n.store
             z == StoreLast(n.store)
             c == n.store.commit
  <1>1. n.records \in Seq(RecordT) /\ IsStore(st) /\ q \in Nat
    BY DEF NodeT
  <1>2. z \in Nat /\ c \in Nat /\ c <= z /\ st.snap.index \in Nat /\ st.snap.index <= c
    BY <1>1, StoreEnds DEF IsStore
  <1>3. Len(a) = k /\ \A j \in 1..k : a[j] = n.records[j]
    BY <1>1, LastSnapshotSplit DEF SplitAt
  <1>4. \A j \in 1..k : j \in 1..Len(n.records)
    BY <1>1
  <1>5. PersistsOne(n, a, q)
    BY OnPersistValue
  <1> HIDE DEF a
  <1>6. CASE \E j \in 1..Len(a) : a[j].snapshot # NoSnapshot /\ q = a[j].snapshot.index
    <2>1. q <= c
      BY <1>3, <1>4, <1>6 DEF SnapshotsIn
    <2> HIDE DEF q, c, z
    <2>2. q <= z
      BY <1>1, <1>2, <2>1
    <2> QED BY <2>2 DEF q, z
  <1>7. CASE \E j \in 1..Len(a) : /\ a[j].last # NoEntry /\ q = a[j].last.index
                                  /\ StoreTerm(n.store, q) = a[j].last.term /\ a[j].last.term \in Nat
    <2>1. StoreTerm(st, q) # NoTerm
      BY <1>7 DEF NoTerm
    <2>2. q = st.snap.index \/ q \in StoreFirst(st)..z
      BY <1>1, <2>1, StoreReads
    <2>3. StoreFirst(st) \in Nat
      BY <1>1, StoreEnds
    <2> DEFINE f == StoreFirst(st)
               x == st.snap.index
    <2>4. (q = x \/ q \in f..z) /\ f \in Nat /\ x \in Nat /\ x <= c
      BY <1>2, <2>2, <2>3
    <2> HIDE DEF q, c, z, f, x
    <2>5. q <= z
      BY <1>1, <1>2, <2>4
    <2> QED BY <2>5 DEF q, z
  <1>8. CASE q = n.persisted
    BY <1>8
  <1> QED BY <1>5, <1>6, <1>7, <1>8 DEF PersistsOne

\* The node's storage holds what is persisted.
LEMMA PersistedIsStored ==
    ASSUME LInv, DurableInv
    PROVE  node.persisted <= StoreLast(node.store) /\ StoreInv(node.store, logs, chosen) /\ Older(disk, node.store)
  <1>1. Len(images) \in Nat /\ synced \in 0..Len(images) /\ images \in Seq(StoreType)
    BY DurableTypes
  <1>2. node.store = IF images = <<>> THEN disk ELSE images[Len(images)]
    BY DEF LInv, DiskInv
  <1>3. StoreInv(node.store, logs, chosen) /\ Older(disk, node.store)
    BY DiskIsOlder DEF LInv, NodeInv
  <1>4. CASE images = <<>>
    BY <1>2, <1>3, <1>4 DEF DurableInv, StoreAgree
  <1>5. CASE images # <<>> /\ synced = Len(images)
    <2>1. synced > 0
      BY <1>1, <1>5
    <2>2. disk = node.store
      BY <1>2, <1>5, <2>1 DEF LInv, DiskInv
    <2> QED BY <1>3, <2>2 DEF DurableInv, StoreAgree
  <1>6. CASE images # <<>> /\ synced # Len(images)
    <2>1. Len(images) \in (synced + 1)..Len(images)
      BY <1>1, <1>6
    <2> QED BY <1>2, <1>3, <1>6, <2>1 DEF DurableInv, StoreAgree
  <1> QED BY <1>4, <1>5, <1>6

\* on_persist_ready while the last Ready is not on disk yet: the first of two is reported.
LEMMA ReportedFirst ==
    ASSUME LInv, LInv', DurableInv, synced = 1, Len(images) = 2, node' = OnPersistReady(node, 1)
    PROVE  StoreAgree(disk, node.store, node'.persisted)
  <1> DEFINE a == SubSeq(node.records, 1, 1)
             q == node'.persisted
             r == node.records[1]
  <1>1. NodeT(node) /\ node.records \in Seq(RecordT) /\ Len(node.records) = 2
    BY DurableTypes
  <1>2. Len(a) = 1 /\ a[1] = r
    BY <1>1, LastSnapshotSplit DEF SplitAt
  <1>3. PersistsOne(node, a, q)
    <2>1. 1 \in 0..Len(node.records)
      BY <1>1
    <2> QED BY <1>1, <2>1, OnPersistValue
  <1>4. q \in Nat
    BY NodeNumbers DEF LInv
  <1>5. Recorded(r, disk)
    <2>1. disk = images[1]
      BY DEF LInv, DiskInv
    <2>2. 1 \in 1..Len(images) /\ 1 >= synced
      OBVIOUS
    <2> QED BY <2>1, <2>2 DEF DurableInv
  <1>6. StoreInv(disk, logs, chosen) /\ StoreInv(node.store, logs, chosen) /\ Older(disk, node.store)
        /\ LogsT(logs, chosen) /\ Matching(logs)
    BY PersistedIsStored DEF LInv, DiskInv, EnvInv
  <1> HIDE DEF a
  <1>7. \/ q = node.persisted
        \/ r.snapshot # NoSnapshot /\ q = r.snapshot.index
        \/ r.last # NoEntry /\ q = r.last.index /\ StoreTerm(node.store, q) = r.last.term /\ r.last.term \in Nat
    <2>1. \A j \in 1..Len(a) : a[j] = r
      BY <1>2
    <2> HIDE DEF q, r
    <2> QED BY <1>3, <2>1 DEF PersistsOne
  <1>8. CASE q = node.persisted
    BY <1>8 DEF DurableInv
  <1>9. CASE r.snapshot # NoSnapshot /\ q = r.snapshot.index
    BY <1>4, <1>5, <1>6, <1>9, AgreeOnChosen DEF Recorded
  <1>10. CASE r.last # NoEntry /\ q = r.last.index /\ StoreTerm(node.store, q) = r.last.term /\ r.last.term \in Nat
    <2>1. q = StoreLast(disk) /\ StoreTerm(disk, q) = StoreTerm(node.store, q)
      BY <1>5, <1>10 DEF Recorded
    <2>2. StoreTerm(node.store, q) # NoTerm
      BY <1>10 DEF NoTerm
    <2>3. q <= StoreLast(disk)
      BY <1>4, <2>1
    <2> QED BY <1>4, <1>6, <2>1, <2>2, <2>3, AgreeOnEntry
  <1> QED BY <1>7, <1>8, <1>9, <1>10

\* on_persist_ready, with at most two Readies outstanding
LEMMA DurablePersisted ==
    ASSUME LInv, LInv', DurableInv, NEW k \in Nat \ {0}, Persisted(k)
    PROVE  DurableInv'
  <1> DEFINE recs == node.records
             q == node'.persisted
  <1>1. /\ k <= synced /\ synced' = synced - k /\ images' = SubSeq(images, k + 1, Len(images))
        /\ node' = OnPersistReady(node, k) /\ disk' = disk
    BY DEF Persisted, Becomes, LInv
  <1>2. /\ images \in Seq(StoreType) /\ Len(images) \in Nat /\ Len(images) = Len(recs) /\ synced \in 0..Len(images)
        /\ NodeT(node) /\ recs \in Seq(RecordT) /\ NodeInv(node, logs, chosen) /\ Len(images) <= 2
    BY DurableTypes DEF LInv, DurableInv
  <1>3. k \in 0..Len(recs)
    BY <1>1, <1>2
  <1>4. node'.store = node.store /\ node'.records = SubSeq(recs, k + 1, Len(recs))
    BY <1>1, <1>2, <1>3, OnPersistKeeps DEF Reports
  <1>5. Len(node'.records) = Len(recs) - k /\ \A j \in 1..Len(node'.records) : node'.records[j] = recs[k + j]
    BY <1>2, <1>3, <1>4, LastSnapshotSplit DEF SplitAt
  <1>6. Len(images') = Len(images) - k /\ \A j \in 1..Len(images') : images'[j] = images[k + j]
    <2>1. \A i \in (k + 1)..Len(images) : images[i] \in StoreType
      BY <1>2
    <2>2. /\ Len(images') = IF k + 1 <= Len(images) THEN Len(images) - (k + 1) + 1 ELSE 0
          /\ \A i \in 1..(Len(images) - (k + 1) + 1) : images'[i] = images[(k + 1) + i - 1]
      BY <1>1, <1>2, <2>1, SubSeqProperties
    <2>3. Len(images') = Len(images) - k /\ Len(images) - (k + 1) + 1 = Len(images) - k
      BY <1>1, <1>2, <2>2
    <2>4. ASSUME NEW j \in 1..Len(images') PROVE images'[j] = images[k + j]
      <3>1. (k + 1) + j - 1 = k + j
        OBVIOUS
      <3>2. j \in 1..(Len(images) - (k + 1) + 1)
        BY <2>3
      <3> QED BY <2>2, <3>1, <3>2
    <2> QED BY <2>3, <2>4
  <1>7. NodeT(node') /\ q \in Nat
    BY DurableTypes DEF LInv, NodeInv, IsNode, NodeT
  <1>8. SnapshotsIn(recs, node.store)
    BY DEF DurableInv
  <1>9. q <= StoreLast(node.store)
    BY <1>1, <1>2, <1>3, <1>7, <1>8, PersistedIsStored, ReportedIsStored
  <1>10. SnapshotsIn(node'.records, node'.store)
    <2>1. \A j \in 1..Len(node'.records) : k + j \in 1..Len(recs)
      BY <1>2, <1>3, <1>5
    <2> QED BY <1>4, <1>5, <1>8, <2>1 DEF SnapshotsIn
  <1>11. \A j \in 1..Len(images') : j >= synced' => Recorded(node'.records[j], images'[j])
    <2>1. \A j \in 1..Len(images') : k + j \in 1..Len(images) /\ j \in 1..Len(node'.records)
                                     /\ (j >= synced' => k + j >= synced)
      BY <1>1, <1>2, <1>3, <1>5, <1>6
    <2> QED BY <1>5, <1>6, <2>1 DEF DurableInv
  <1>12. Len(images') <= 2
    BY <1>2, <1>3, <1>6
  <1>13. CASE synced = Len(images)
    <2>1. images # <<>> /\ synced > 0
      BY <1>1, <1>2, <1>13
    <2>2. disk = node.store
      BY <1>13, <2>1 DEF LInv, DiskInv
    <2>3. StoreAgree(disk', node'.store, q)
      BY <1>1, <1>4, <1>9, <2>2, AgreeWithItself
    <2>4. \A j \in (synced' + 1)..Len(images') : FALSE
      BY <1>1, <1>2, <1>6, <1>13
    <2> QED BY <1>10, <1>11, <1>12, <2>3, <2>4 DEF DurableInv
  <1>14. CASE synced # Len(images)
    <2>1. synced = 1 /\ Len(images) = 2 /\ k = 1 /\ synced' = 0 /\ Len(images') = 1
      <3> DEFINE len == Len(images)
                 fewer == Len(images')
                 after == synced'
      <3>1. len \in Nat /\ synced \in Nat /\ synced <= len /\ len <= 2 /\ synced # len /\ k <= synced
            /\ after = synced - k /\ fewer = len - k
        BY <1>1, <1>2, <1>6, <1>14
      <3> HIDE DEF len, fewer, after
      <3>2. synced = 1 /\ len = 2 /\ k = 1 /\ after = 0 /\ fewer = 1
        BY <3>1
      <3> QED BY <3>2 DEF len, fewer, after
    <2>2. StoreAgree(disk', node'.store, q)
      BY <1>1, <1>4, <2>1, ReportedFirst
    <2>3. images'[1] = node.store
      <3>1. images # <<>>
        BY <2>1
      <3> QED BY <1>6, <2>1, <3>1 DEF LInv, DiskInv
    <2>4. \A j \in (synced' + 1)..Len(images') : j = 1
      BY <2>1
    <2>5. \A j \in (synced' + 1)..Len(images') : StoreAgree(images'[j], node'.store, q)
      BY <1>4, <1>9, <2>3, <2>4, AgreeWithItself
    <2> QED BY <1>10, <1>11, <1>12, <2>2, <2>5 DEF DurableInv
  <1> QED BY <1>13, <1>14

\* ready, the write and commit_ready leave persisted alone.
LEMMA StabilizedPersisted ==
    ASSUME NEW n, NEW ls, NEW ch, LogsT(ls, ch), NodeInv(n, ls, ch), NEW m, m = Stabilized(n)
    PROVE  m.persisted = n.persisted
  <1> DEFINE g == GenLight(AfterSnapshot(n))
             w == Written(n)
  <1>1. HandedOut(n, g, g.since) /\ g.since \in Nat
    BY StabilizedKeeps DEF ReadyGives
  <1>2. IsStore(w)
    BY WrittenHolds DEF Holds
  <1>3. m = [CommitReady(g, Record(n)) EXCEPT !.store = w]
    BY DEF Stabilized
  <1> HIDE DEF g, w
  <1>4. Stable(n, m, w, g.since, Append(n.records, Record(n)))
    BY <1>1, <1>2, <1>3, StabilizedFields
  <1> QED BY <1>4 DEF Stable

\* The snapshots of the outstanding Readies are in the storage once one more is written.
LEMMA WrittenSnapshots ==
    ASSUME NEW n, NEW ls, NEW ch, NodeInv(n, ls, ch), SnapshotsIn(n.records, n.store)
    PROVE  SnapshotsIn(Append(n.records, Record(n)), Written(n))
  <1> DEFINE w == Written(n)
             recs == Append(n.records, Record(n))
             c == n.store.commit
             d == n.committed
  <1>1. n.records \in Seq(RecordT)
    BY DEF NodeInv, IsNode, NodeT
  <1>2. w.commit = d /\ c \in Nat /\ d \in Nat /\ c <= d
    BY WrittenHolds, NodeNumbers DEF Holds
  <1>3. Recorded(Record(n), w)
    BY WrittenIsRecorded
  <1>4. Len(recs) = Len(n.records) + 1 /\ Len(n.records) \in Nat /\ recs[Len(n.records) + 1] = Record(n)
        /\ \A k \in 1..Len(n.records) : recs[k] = n.records[k]
    BY <1>1
  <1> HIDE DEF recs, w
  <1>5. ASSUME NEW k \in 1..Len(recs), recs[k].snapshot # NoSnapshot
        PROVE  recs[k].snapshot.index <= w.commit
    <2>1. CASE k = Len(n.records) + 1
      BY <1>3, <1>4, <1>5, <2>1 DEF Recorded
    <2>2. CASE k # Len(n.records) + 1
      <3>1. k \in 1..Len(n.records)
        BY <1>4, <2>2
      <3>2. recs[k] = n.records[k] /\ n.records[k] \in RecordT
        BY <1>1, <1>4, <3>1
      <3> DEFINE x == n.records[k].snapshot.index
      <3>3. x \in Nat
        BY <3>2 DEF RecordT
      <3>4. x <= c
        BY <1>5, <3>1, <3>2 DEF SnapshotsIn
      <3> HIDE DEF x, c, d
      <3>5. x <= d
        BY <1>2, <3>3, <3>4
      <3> QED BY <1>2, <3>2, <3>5 DEF x
    <2> QED BY <2>1, <2>2
  <1> QED BY <1>5 DEF SnapshotsIn, recs, w

\* advance_append_async: one more Ready is outstanding.
LEMMA DurableHandleReadyAsync ==
    ASSUME LInv, LInv', DurableInv, HandleReadyAsync, MaxFlying <= 2
    PROVE  DurableInv'
  <1> DEFINE m == Stabilized(node)
             w == Written(node)
             rec == Record(node)
             len == Len(images)
             p == node.persisted
  <1>1. NodeInv(node, logs, chosen) /\ LogsT(logs, chosen)
    BY DEF LInv, EnvInv
  <1>2. CanStabilize(node) /\ m.store = w /\ m.records = Append(node.records, rec)
    BY <1>1, StabilizedKeeps
  <1>3. m.persisted = p
    BY <1>1, StabilizedPersisted
  <1>4. node' = m /\ images' = Append(images, w) /\ UNCHANGED <<synced, disk>> /\ Len(node.records) < MaxFlying
    BY <1>2 DEF HandleReadyAsync, Becomes
  <1>5. /\ images \in Seq(StoreType) /\ len \in Nat /\ len = Len(node.records) /\ synced \in 0..len
        /\ node.records \in Seq(RecordT)
    BY DurableTypes
  <1>6. Recorded(rec, w) /\ p <= StoreLast(w) /\ SnapshotsIn(m.records, w)
    BY <1>1, <1>2, WrittenIsRecorded, WrittenSnapshots DEF DurableInv
  <1>7. w \in StoreType
    BY <1>1, WrittenHolds DEF Holds, IsStore
  <1>8. StoreAgree(disk, w, p)
    BY <1>1, WrittenAgrees DEF DurableInv
  <1>9. \A k \in (synced + 1)..len : StoreAgree(images[k], w, p)
    BY <1>1, WrittenAgrees DEF DurableInv
  <1>10. StoreAgree(w, w, p)
    BY <1>6, AgreeWithItself
  <1> HIDE DEF m, w, rec
  <1>11. Len(images') = len + 1 /\ images'[len + 1] = w /\ \A k \in 1..len : images'[k] = images[k]
    BY <1>4, <1>5, <1>7
  <1>12. m.records[len + 1] = rec /\ \A k \in 1..len : m.records[k] = node.records[k]
    BY <1>2, <1>5
  <1>13. Len(images') <= 2
    <2>1. len < MaxFlying /\ MaxFlying \in Nat
      BY <1>4, <1>5, LogStoreAssumption
    <2> QED BY <1>5, <1>11, <2>1
  <1> HIDE DEF p
  <1>14. \A k \in (synced + 1)..Len(images') : StoreAgree(images'[k], w, p)
    <2>1. \A k \in (synced + 1)..Len(images') :
             (k \in (synced + 1)..len /\ k \in 1..len) \/ k = len + 1
      BY <1>5, <1>11
    <2> QED BY <1>9, <1>10, <1>11, <2>1
  <1>15. \A k \in 1..Len(images') : k >= synced => Recorded(m.records[k], images'[k])
    <2>1. \A k \in 1..Len(images') : k \in 1..len \/ k = len + 1
      BY <1>5, <1>11
    <2> QED BY <1>6, <1>11, <1>12, <2>1 DEF DurableInv
  <1> QED BY <1>2, <1>3, <1>4, <1>6, <1>8, <1>13, <1>14, <1>15 DEF DurableInv

\* advance_append: everything is on disk before it is reported.
LEMMA DurableHandleReady ==
    ASSUME LInv, LInv', DurableInv, HandleReady
    PROVE  DurableInv'
  <1> DEFINE m == Stabilized(node)
             r == OnPersistReady(m, Len(m.records))
             w == Written(node)
  <1>1. NodeInv(node, logs, chosen) /\ LogsT(logs, chosen)
    BY DEF LInv, EnvInv
  <1>2. /\ CanStabilize(node) /\ m.store = w /\ m.records = Append(node.records, Record(node))
        /\ NodeInv(m, logs, chosen)
    BY <1>1, StabilizedKeeps
  <1>3. m.persisted = node.persisted
    BY <1>1, StabilizedPersisted
  <1>4. node.persisted <= StoreLast(w) /\ SnapshotsIn(m.records, w)
    BY <1>1, <1>2, WrittenIsRecorded, WrittenSnapshots DEF DurableInv
  <1>5. node' = GenLight(r) /\ images' = <<>> /\ synced' = 0 /\ disk' = m.store
    BY <1>2 DEF HandleReady, Becomes, LInv
  <1> HIDE DEF m, w
  <1>6. NodeT(m) /\ m.records \in Seq(RecordT)
    BY <1>2 DEF NodeInv, IsNode, NodeT
  <1> DEFINE k == Len(m.records)
  <1>7. k \in 0..Len(m.records)
    BY <1>6
  <1> HIDE DEF r
  <1>8. r = OnPersistReady(m, k)
    BY DEF r
  <1> HIDE DEF k
  <1>9. Reports(m, k, r, logs, chosen)
    BY <1>2, <1>7, <1>8, OnPersistKeeps, Zenon
  <1>10. NodeInv(r, logs, chosen) /\ r.store = w /\ r.records = <<>>
    <2>1. NodeInv(r, logs, chosen) /\ r.store = m.store /\ r.records = SubSeq(m.records, k + 1, Len(m.records))
      BY <1>9, Zenon DEF Reports
    <2>2. r.records = <<>>
      BY <1>6, <2>1 DEF k
    <2> QED BY <1>2, <2>1, <2>2
  <1>11. NodeT(r)
    BY <1>10 DEF NodeInv, IsNode
  <1>12. r.persisted <= StoreLast(m.store)
    <2>1. m.persisted <= StoreLast(m.store) /\ SnapshotsIn(m.records, m.store)
      BY <1>2, <1>3, <1>4
    <2> QED BY <1>6, <1>7, <1>8, <1>11, <2>1, ReportedIsStored, Zenon
  <1>13. HandedOut(r, GenLight(r), GenLight(r).since)
    BY <1>1, <1>10, LightGives DEF Gives
  <1>14. node'.store = r.store /\ node'.records = r.records /\ node'.persisted = r.persisted
    BY <1>5, <1>13 DEF HandedOut
  <1>15. node'.persisted <= StoreLast(disk') /\ node'.store = disk' /\ node'.records = <<>>
    BY <1>2, <1>5, <1>10, <1>12, <1>14
  <1> QED BY <1>5, <1>15, NothingOutstanding

\* Compaction changes no entry that it keeps.
LEMMA CompactReads ==
    ASSUME NEW st, IsStore(st), NEW i \in Nat, i <= st.commit, NEW j \in Nat, j >= MaxOf2(StoreFirst(st), i)
    PROVE  StoreTerm(Compact(st, i), j) = StoreTerm(st, j)
  <1> DEFINE s == Compact(st, i)
             f == MaxOf2(StoreFirst(st), i)
             g == StoreFirst(st)
             z == StoreLast(st)
             x == st.snap.index
  <1>1. /\ IsStore(s) /\ StoreFirst(s) = f /\ StoreLast(s) = z /\ s.snap = st.snap
        /\ \A k \in f..z : s.entries[k - f + 1] = st.entries[k - g + 1]
    BY CompactRest DEF Rest
  <1>2. g \in Nat /\ z \in Nat /\ x \in Nat /\ x < g
    BY StoreEnds DEF IsStore
  <1>3. f \in Nat /\ g <= f
    BY <1>2 DEF MaxOf2
  <1> HIDE DEF s, f, g, z, x
  <1>4. j >= f
    BY DEF f
  <1>5. CASE j <= z
    <2>1. j \in f..z /\ j \in g..z
      BY <1>2, <1>3, <1>4, <1>5
    <2>2. StoreTerm(s, j) = s.entries[j - f + 1].term
      BY <1>1, <2>1, StoreReads
    <2>3. StoreTerm(st, j) = st.entries[j - g + 1].term
      BY <2>1, StoreReads DEF g, z
    <2> QED BY <1>1, <2>1, <2>2, <2>3 DEF s
  <1>6. CASE ~(j <= z)
    <2>1. j \notin f..z /\ j \notin g..z /\ j # x
      BY <1>2, <1>3, <1>4, <1>6
    <2>2. StoreTerm(s, j) = NoTerm
      BY <1>1, <2>1, StoreReads DEF x
    <2>3. StoreTerm(st, j) = NoTerm
      BY <2>1, StoreReads DEF g, z, x
    <2> QED BY <2>2, <2>3 DEF s
  <1> QED BY <1>5, <1>6

\* Storages that are compacted to the same index still agree.
LEMMA CompactAgrees ==
    ASSUME NEW su, NEW st, IsStore(su), IsStore(st), Older(su, st), NEW p \in Nat, StoreAgree(su, st, p),
           NEW i \in Nat, i <= su.commit
    PROVE  StoreAgree(Compact(su, i), Compact(st, i), p)
  <1> DEFINE f == StoreFirst(st)
             g == StoreFirst(su)
             c == su.commit
             d == st.commit
  <1>1. f \in Nat /\ g \in Nat /\ c \in Nat /\ d \in Nat /\ c <= d /\ g <= f
    BY StoreEnds DEF Older
  <1>2. i <= d
    <2>1. i <= c
      OBVIOUS
    <2> HIDE DEF c, d
    <2> QED BY <1>1, <2>1
  <1>3. StoreLast(Compact(su, i)) = StoreLast(su)
    BY CompactRest DEF Rest
  <1>4. StoreFirst(Compact(st, i)) = MaxOf2(f, i)
    BY <1>2, CompactRest DEF Rest
  <1>5. p <= StoreLast(su) /\ \A j \in f..p : StoreTerm(su, j) = StoreTerm(st, j)
    BY DEF StoreAgree
  <1>6. ASSUME NEW j \in MaxOf2(f, i)..p PROVE StoreTerm(Compact(su, i), j) = StoreTerm(Compact(st, i), j)
    <2>1. j \in Nat /\ j \in f..p /\ j >= MaxOf2(f, i) /\ j >= MaxOf2(g, i)
      <3> HIDE DEF f, g
      <3> QED BY <1>1, <1>6 DEF MaxOf2
    <2>2. StoreTerm(Compact(su, i), j) = StoreTerm(su, j)
      BY <2>1, CompactReads
    <2>3. StoreTerm(Compact(st, i), j) = StoreTerm(st, j)
      BY <1>2, <2>1, CompactReads
    <2> QED BY <1>5, <2>1, <2>2, <2>3
  <1> QED BY <1>3, <1>4, <1>5, <1>6 DEF StoreAgree

\* A record still describes the storage after compaction.
LEMMA CompactRecorded ==
    ASSUME NEW rec, NEW st, IsStore(st), Recorded(rec, st), NEW i \in Nat, i <= st.commit
    PROVE  Recorded(rec, Compact(st, i))
  <1> DEFINE g == StoreFirst(st)
             z == StoreLast(st)
  <1>1. CASE i <= StoreFirst(st)
    BY <1>1 DEF Compact
  <1>2. CASE ~(i <= StoreFirst(st))
    <2>1. StoreLast(Compact(st, i)) = z /\ Compact(st, i).commit = st.commit
      BY CompactRest DEF Rest
    <2>2. z \in Nat /\ z >= MaxOf2(g, i)
      <3> DEFINE c == st.commit
      <3>1. g \in Nat /\ z \in Nat /\ c \in Nat /\ c <= z /\ i <= c /\ ~(i <= g)
        BY <1>2, StoreEnds DEF IsStore
      <3> HIDE DEF g, z, c
      <3> QED BY <3>1 DEF MaxOf2
    <2>3. StoreTerm(Compact(st, i), z) = StoreTerm(st, z)
      BY <2>2, CompactReads
    <2> QED BY <2>1, <2>3 DEF Recorded
  <1> QED BY <1>1, <1>2

\* MemStorage::compact, of the storage and of what is on its way to the disk
LEMMA DurableCompactTo ==
    ASSUME LInv, LInv', DurableInv, NEW i \in Nat, CompactTo(i)
    PROVE  DurableInv'
  <1> DEFINE st == node.store
             p == node.persisted
  <1>1. /\ i <= MinOf2(node.applied, disk.commit) /\ disk' = Compact(disk, i) /\ synced' = synced
        /\ images' = [k \in 1..Len(images) |-> Compact(images[k], i)]
        /\ node' = [node EXCEPT !.store = Compact(st, i)]
    BY DEF CompactTo, Becomes, LInv
  <1>2. /\ p \in Nat /\ Len(images) \in Nat /\ synced \in 0..Len(images) /\ IsStore(st) /\ IsStore(disk) /\ NodeT(node)
        /\ Older(disk, st) /\ images \in Seq(StoreType)
    BY DurableTypes, DiskIsOlder
  <1>3. node'.store = Compact(st, i) /\ node'.persisted = p /\ node'.records = node.records
    BY <1>1, <1>2, NodeRecord
  <1>4. i <= disk.commit /\ disk.commit \in Nat
    <2>1. disk.commit \in Nat /\ node.applied \in Nat
      BY <1>2, StoreEnds DEF NodeT
    <2> QED BY <1>1, <2>1 DEF MinOf2
  <1>5. Len(images') = Len(images) /\ \A k \in 1..Len(images) : images'[k] = Compact(images[k], i)
    BY <1>1, <1>2
  <1>6. ASSUME NEW k \in (synced + 1)..Len(images)
        PROVE  IsStore(images[k]) /\ Older(images[k], st) /\ i <= images[k].commit /\ k \in 1..Len(images)
    <2>1. IsStore(images[k]) /\ Older(disk, images[k])
      BY DEF LInv, DiskInv, StoreInv
    <2>2. images[k].commit \in Nat /\ disk.commit <= images[k].commit
      BY <2>1, StoreEnds DEF Older
    <2>3. k \in 1..Len(images) /\ images # <<>> /\ Len(images) \in (synced + 1)..Len(images) /\ k <= Len(images)
      BY <1>2
    <2>4. Older(images[k], st)
      BY <2>3 DEF LInv, DiskInv
    <2>5. i <= images[k].commit
      BY <1>4, <2>2
    <2> QED BY <2>1, <2>3, <2>4, <2>5
  <1>7. StoreAgree(disk', node'.store, p)
    BY <1>1, <1>2, <1>3, <1>4, CompactAgrees DEF DurableInv
  <1>8. ASSUME NEW k \in (synced + 1)..Len(images) PROVE StoreAgree(images'[k], node'.store, p)
    <2>1. StoreAgree(images[k], st, p)
      BY DEF DurableInv
    <2>2. StoreAgree(Compact(images[k], i), Compact(st, i), p)
      BY <1>2, <1>6, <2>1, CompactAgrees
    <2> QED BY <1>3, <1>5, <1>6, <2>2
  <1>9. ASSUME NEW k \in 1..Len(images), k >= synced PROVE Recorded(node.records[k], images'[k])
    <2>1. IsStore(images[k]) /\ i <= images[k].commit
      <3>1. CASE k = synced
        <4>1. disk = images[k]
          BY <1>2, <3>1 DEF LInv, DiskInv
        <4> QED BY <1>2, <1>4, <4>1
      <3>2. CASE k # synced
        <4>1. k \in (synced + 1)..Len(images)
          BY <1>2, <1>9, <3>2
        <4> QED BY <1>6, <4>1
      <3> QED BY <3>1, <3>2
    <2>2. Recorded(node.records[k], images[k])
      BY <1>9 DEF DurableInv
    <2>3. Recorded(node.records[k], Compact(images[k], i))
      BY <2>1, <2>2, CompactRecorded
    <2> QED BY <1>5, <2>3
  <1>10. SnapshotsIn(node'.records, node'.store)
    <2>1. i <= st.commit
      <3>1. disk.commit <= st.commit /\ st.commit \in Nat
        BY <1>2, StoreEnds DEF Older
      <3> QED BY <1>4, <3>1
    <2>2. Compact(st, i).commit = st.commit
      BY <1>2, <2>1, CompactRest DEF Rest
    <2> QED BY <1>3, <2>2 DEF DurableInv, SnapshotsIn
  <1>11. Len(images) <= 2
    BY DEF DurableInv
  <1> QED BY <1>1, <1>3, <1>5, <1>7, <1>8, <1>9, <1>10, <1>11 DEF DurableInv

\* With at most two Readies outstanding, every step keeps what is persisted on disk.
LEMMA DurableNext ==
    ASSUME MaxFlying <= 2, LInv, LInv', DurableInv, [Next]_vars
    PROVE  DurableInv'
  <1>1. CASE UNCHANGED <<node, images, synced, disk>>
    BY <1>1 DEF DurableInv
  <1>2. CASE UNCHANGED vars
    BY <1>1, <1>2 DEF vars
  <1>3. CASE NewLeader \/ LeaderAppends \/ LeaderCommits
    BY <1>1, <1>3 DEF NewLeader, LeaderAppends, LeaderCommits
  <1>4. CASE \E prev \in 0..Len(lead) : \E last \in prev..Len(lead) : \E commit \in 0..Len(chosen) :
               ReceiveAppend(prev, last, commit)
    BY <1>4, DurableReceiveAppend
  <1>5. CASE \E i \in 1..Len(chosen) : ReceiveSnapshot(i)
    BY <1>5, DurableReceiveSnapshot
  <1>6. CASE HandleReadyAsync
    BY <1>6, DurableHandleReadyAsync
  <1>7. CASE HandleReady
    BY <1>7, DurableHandleReady
  <1>8. CASE Sync
    BY <1>8, DurableSync
  <1>9. CASE \E k \in 1..MaxFlying : Persisted(k)
    <2>1. PICK k \in 1..MaxFlying : Persisted(k)
      BY <1>9
    <2>2. k \in Nat \ {0}
      BY LogStoreAssumption
    <2> QED BY <2>1, <2>2, DurablePersisted
  <1>10. CASE \E i \in 1..MaxIndex : Applied(i)
    BY <1>10, DurableApplied
  <1>11. CASE \E i \in 1..MaxIndex : CompactTo(i)
    <2>1. PICK i \in 1..MaxIndex : CompactTo(i)
      BY <1>11
    <2>2. i \in Nat
      BY LogStoreAssumption
    <2> QED BY <2>1, <2>2, DurableCompactTo
  <1>12. CASE \E a \in 0..MaxIndex : Crash(a)
    BY <1>12, DurableCrash
  <1> QED BY <1>2, <1>3, <1>4, <1>5, <1>6, <1>7, <1>8, <1>9, <1>10, <1>11, <1>12 DEF Next

\* With at most two Readies outstanding, the entries up to RaftLog::persisted are on disk as
\* they are in the log now: maybe_persist is never led by a Ready that was overtaken.  (With
\* three it is, as run LogStoreOvertaken shows.)
THEOREM LogStorePersistedIsDurable ==
    ASSUME MaxFlying <= 2
    PROVE  Spec => []PersistedIsDurable
  <1>1. Init => DurableInv
    BY DurableInit
  <1>2. LInv /\ LInv' /\ DurableInv /\ [Next]_vars => DurableInv'
    BY DurableNext
  <1>3. ASSUME LInv, DurableInv PROVE PersistedIsDurable
    <2> DEFINE p == node.persisted
               u == node.unstable
               off == node.unstable.offset
               f == FirstIndex(node)
               z == LastIndex(node)
    <2>1. StoreAgree(disk, node.store, p) /\ NodeInv(node, logs, chosen) /\ IsNode(node, chosen)
      BY <1>3 DEF LInv, DurableInv, NodeInv
    <2>2. p \in Nat /\ off \in Nat /\ p < off /\ IsUnstable(u) /\ f \in Nat /\ z \in Nat /\ f > 0
          /\ Len(u.entries) \in Nat /\ z = off + Len(u.entries) - 1
      BY <2>1, NodeNumbers, NodeEnds
    <2>3. p <= StoreLast(disk)
      BY <2>1 DEF StoreAgree
    <2>4. CASE HasSnapshot(u)
      <3>1. f = u.snapshot.index + 1 /\ p <= u.snapshot.index /\ u.snapshot.index \in Nat
        BY <2>1, <2>2, <2>4, UnstableEnds DEF FirstIndex, IsNode, SnapshotAhead
      <3>2. \A i \in f..p : FALSE
        <4> DEFINE x == u.snapshot.index
        <4>1. f = x + 1 /\ p <= x /\ x \in Nat
          BY <3>1
        <4> HIDE DEF f, p, x
        <4> QED BY <2>2, <4>1
      <3> QED BY <2>3, <3>2 DEF PersistedIsDurable
    <2>5. CASE ~HasSnapshot(u)
      <3>1. f = StoreFirst(node.store)
        BY <2>5 DEF FirstIndex
      <3>2. ASSUME NEW i \in f..p PROVE StoreTerm(disk, i) = TermAt(node, i)
        <4>1. i \in Nat /\ i < off /\ ~(i < f - 1) /\ ~(i > z)
          <5> DEFINE len == Len(u.entries)
          <5>1. z = off + len - 1 /\ len \in Nat
            BY <2>2
          <5> HIDE DEF f, p, off, z, len
          <5> QED BY <2>2, <5>1
        <4>2. MaybeTerm(u, i) = NoTerm
          BY <2>2, <2>5, <4>1, UnstableReads
        <4>3. TermAt(node, i) = StoreTerm(node.store, i)
          BY <4>1, <4>2 DEF TermAt
        <4>4. StoreTerm(disk, i) = StoreTerm(node.store, i)
          BY <2>1, <3>1 DEF StoreAgree
        <4> QED BY <4>3, <4>4
      <3> QED BY <2>3, <3>2 DEF PersistedIsDurable
    <2> QED BY <2>4, <2>5
  <1> QED BY <1>1, <1>2, <1>3, LogStoreInvariant, PTL DEF Spec
=============================================================================
