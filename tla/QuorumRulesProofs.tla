-------------------------- MODULE QuorumRulesProofs --------------------------
(***************************************************************************)
(* The counting behind every quorum, for voter sets of any finite size:    *)
(* majorities overlap, the sort of committed_index has a result, and what  *)
(* is read off it is the index that a majority, or a majority in two       *)
(* commit groups, has acknowledged.                                        *)
(***************************************************************************)
EXTENDS QuorumRules, FiniteSetTheorems, FunctionTheorems, WellFoundedInduction, TLAPS

\* A set of numbers has a least one: the loops that stop at a first element find it.
LEMMA LeastElement ==
    ASSUME NEW S \in SUBSET Nat, S # {}
    PROVE  \E x \in S : \A y \in S : x <= y
  <1>1. \E x \in S : \A y \in S : ~ (<<y, x>> \in OpToRel(<, Nat))
    BY NatLessThanWellFounded, WFMin
  <1>2. PICK x \in S : \A y \in S : ~ (<<y, x>> \in OpToRel(<, Nat))
    BY <1>1
  <1>3. ASSUME NEW y \in S, y < x PROVE FALSE
    <2>1. <<y, x>> \in OpToRel(<, Nat)
      BY <1>3 DEF OpToRel
    <2> QED BY <2>1, <1>2
  <1>4. \A y \in S : x <= y
    BY <1>3
  <1> QED BY <1>4

\* Induction over the numbers, for what a loop preserves: the numbers for which it
\* holds are taken as a set.
LEMMA SetInduction ==
    ASSUME NEW S, 0 \in S, \A n \in Nat : n \in S => n + 1 \in S
    PROVE  Nat \subseteq S
  <1> DEFINE T == Nat \ S
  <1>1. SUFFICES ASSUME T # {} PROVE FALSE
    OBVIOUS
  <1>2. PICK x \in T : \A y \in T : x <= y
    BY <1>1, LeastElement
  <1>3. x # 0 /\ x - 1 \in Nat /\ x - 1 \notin T
    BY <1>2
  <1> QED BY <1>2, <1>3

\* std::cmp::min.
LEMMA MinOfTwo ==
    ASSUME NEW a \in Int, NEW b \in Int
    PROVE  MinOf({a, b}) = IF a <= b THEN a ELSE b
  <1> DEFINE c == IF a <= b THEN a ELSE b
  <1>1. c \in {a, b} /\ \A y \in {a, b} : c <= y
    OBVIOUS
  <1>2. \A x \in {a, b} : (\A y \in {a, b} : x <= y) => x = c
    OBVIOUS
  <1> HIDE DEF c
  <1> QED BY <1>1, <1>2 DEF MinOf

\* The first position of a non-empty set of positions, where a scan stops.
LEMMA MinOfIsLeast ==
    ASSUME NEW S \in SUBSET Nat, S # {}
    PROVE  MinOf(S) \in S /\ \A y \in S : MinOf(S) <= y
  BY LeastElement DEF MinOf

\* util::majority of n voters is more than half of them.
LEMMA MajorityIsMoreThanHalf ==
    ASSUME NEW n \in Nat
    PROVE  Majority(n) \in Nat /\ 2 * Majority(n) >= n + 1
  BY DEF Majority

\* The sizes of two sets and of their union, in terms of what each lacks.
LEMMA UnionSize ==
    ASSUME NEW V, IsFiniteSet(V), NEW W, IsFiniteSet(W)
    PROVE  /\ Cardinality(V \cup W) = Cardinality(V) + Cardinality(W \ V)
           /\ Cardinality(V) \in Nat /\ Cardinality(W \ V) \in Nat
           /\ IsFiniteSet(W \ V) /\ IsFiniteSet(V \cup W)
  <1>1. IsFiniteSet(W \ V)
    BY FS_Difference
  <1>2. IsFiniteSet(V \cup (W \ V))
        /\ Cardinality(V \cup (W \ V)) = Cardinality(V) + Cardinality(W \ V) - Cardinality(V \cap (W \ V))
    BY <1>1, FS_Union
  <1>3. V \cup (W \ V) = V \cup W /\ V \cap (W \ V) = {}
    OBVIOUS
  <1>4. Cardinality({}) = 0
    BY FS_EmptySet
  <1>5. Cardinality(V) \in Nat /\ Cardinality(W \ V) \in Nat
    BY <1>1, FS_CardinalityType
  <1>6. IsFiniteSet(V \cup W)
        /\ Cardinality(V \cup W) = Cardinality(V) + Cardinality(W \ V) - Cardinality({})
    BY <1>2, <1>3, Zenon
  <1>7. Cardinality(V \cup W) = Cardinality(V) + Cardinality(W \ V)
    BY <1>4, <1>5, <1>6
  <1> QED BY <1>1, <1>5, <1>6, <1>7

\* Majorities of two voter sets that differ in at most one voter share a voter.
\* This is why Changer::simple may move between them in one step.
LEMMA NeighboursOverlap ==
    ASSUME NEW V, IsFiniteSet(V), NEW W, IsFiniteSet(W),
           Cardinality((W \ V) \cup (V \ W)) <= 1,
           NEW A \in SUBSET V, NEW B \in SUBSET W,
           Cardinality(A) >= Majority(Cardinality(V)),
           Cardinality(B) >= Majority(Cardinality(W))
    PROVE  A \cap B # {}
  <1>1. SUFFICES ASSUME A \cap B = {} PROVE FALSE
    OBVIOUS
  <1> DEFINE U == V \cup W
             v == Cardinality(V)
             w == Cardinality(W)
             a == Cardinality(A)
             b == Cardinality(B)
             x == Cardinality(W \ V)
             y == Cardinality(V \ W)
             u == Cardinality(U)
  <1>2. u = v + x /\ v \in Nat /\ x \in Nat /\ IsFiniteSet(W \ V) /\ IsFiniteSet(U)
    BY UnionSize
  <1>3. u = w + y /\ w \in Nat /\ y \in Nat /\ IsFiniteSet(V \ W)
    <2>1. W \cup V = U
      OBVIOUS
    <2> QED BY <2>1, UnionSize
  <1>4. x + y <= 1
    <2>1. Cardinality((W \ V) \cup (V \ W)) = x + Cardinality((V \ W) \ (W \ V))
      BY <1>2, <1>3, UnionSize
    <2>2. (V \ W) \ (W \ V) = V \ W
      OBVIOUS
    <2> QED BY <2>1, <2>2
  <1>5. a + b <= u /\ a \in Nat /\ b \in Nat
    <2>1. IsFiniteSet(A) /\ IsFiniteSet(B)
      BY FS_Subset
    <2>2. /\ Cardinality(A \cup B) = a + Cardinality(B \ A)
          /\ a \in Nat /\ Cardinality(B \ A) \in Nat
      BY <2>1, UnionSize
    <2>3. B \ A = B
      BY <1>1
    <2>4. Cardinality(A \cup B) <= u
      <3>1. A \cup B \subseteq U
        OBVIOUS
      <3> QED BY <3>1, <1>2, FS_Subset
    <2> QED BY <2>2, <2>3, <2>4
  <1>6. /\ Majority(v) \in Nat /\ 2 * Majority(v) >= v + 1
        /\ Majority(w) \in Nat /\ 2 * Majority(w) >= w + 1
    BY <1>2, <1>3, MajorityIsMoreThanHalf
  <1>7. a >= Majority(v) /\ b >= Majority(w)
    OBVIOUS
  <1> HIDE DEF U, v, w, a, b, x, y, u
  <1> QED BY <1>2, <1>3, <1>4, <1>5, <1>6, <1>7

\* Majorities of one voter set share a voter.
LEMMA MajoritiesOverlap ==
    ASSUME NEW V, IsFiniteSet(V), NEW A \in SUBSET V, NEW B \in SUBSET V,
           Cardinality(A) >= Majority(Cardinality(V)),
           Cardinality(B) >= Majority(Cardinality(V))
    PROVE  A \cap B # {}
  <1>1. (V \ V) \cup (V \ V) = {}
    OBVIOUS
  <1>2. Cardinality((V \ V) \cup (V \ V)) <= 1
    BY <1>1, FS_EmptySet
  <1> QED BY <1>2, NeighboursOverlap

\* A set of nodes that has_quorum accepts holds a majority of each half of the
\* configuration that has voters.
LEMMA QuorumHoldsMajority ==
    ASSUME NEW cf, NEW S, HasQuorum(cf, S)
    PROVE  /\ cf.incoming # {} =>
                Cardinality(cf.incoming \cap S) >= Majority(Cardinality(cf.incoming))
           /\ cf.outgoing # {} =>
                Cardinality(cf.outgoing \cap S) >= Majority(Cardinality(cf.outgoing))
  <1> DEFINE votesOf == [v \in S |-> TRUE]
  <1>1. MajorityVote(cf.incoming, votesOf) = "Won" /\ MajorityVote(cf.outgoing, votesOf) = "Won"
    BY DEF HasQuorum, VoteResult
  <1>2. /\ Answered(cf.incoming, votesOf, TRUE) = cf.incoming \cap S
        /\ Answered(cf.outgoing, votesOf, TRUE) = cf.outgoing \cap S
    BY DEF Answered
  <1> QED BY <1>1, <1>2 DEF MajorityVote

-----------------------------------------------------------------------------
\* Some voter has acknowledged least.
LEMMA LeastAcked ==
    ASSUME NEW V, V # {}, NEW acks, \A v \in V : acks[v] \in Nat
    PROVE  \E v \in V : \A w \in V : acks[v] <= acks[w]
  <1> DEFINE A == {acks[v] : v \in V}
  <1>1. A \in SUBSET Nat /\ A # {}
    OBVIOUS
  <1>2. PICK x \in A : \A y \in A : x <= y
    BY <1>1, LeastElement
  <1> QED BY <1>2

\* The sort of MajorityConfig::committed_index has a result.
LEMMA OrderExists ==
    ASSUME NEW U, IsFiniteSet(U), NEW acks, \A v \in U : acks[v] \in Nat
    PROVE  \A V \in SUBSET U : DescendingOrders(V, acks) # {}
  <1> DEFINE Sorted == {n \in Nat : \A V \in SUBSET U : Cardinality(V) = n => DescendingOrders(V, acks) # {}}
  <1>1. 0 \in Sorted
    <2>1. SUFFICES ASSUME NEW V \in SUBSET U, Cardinality(V) = 0 PROVE DescendingOrders(V, acks) # {}
      OBVIOUS
    <2>2. V = {} /\ 1..Cardinality(V) = {}
      BY <2>1, FS_EmptySet, FS_Subset
    <2> DEFINE o == [i \in {} |-> i]
    <2>3. o \in [1..Cardinality(V) -> V]
      BY <2>2
    <2>4. o \in DescendingOrders(V, acks)
      BY <2>2, <2>3 DEF DescendingOrders
    <2> QED BY <2>4
  <1>2. ASSUME NEW n \in Nat, n \in Sorted PROVE n + 1 \in Sorted
    <2>1. SUFFICES ASSUME NEW V \in SUBSET U, Cardinality(V) = n + 1 PROVE DescendingOrders(V, acks) # {}
      OBVIOUS
    <2>2. IsFiniteSet(V)
      BY FS_Subset
    <2>3. V # {}
      BY <2>1, FS_EmptySet
    <2>4. PICK v \in V : \A w \in V : acks[v] <= acks[w]
      BY <2>3, LeastAcked
    <2> DEFINE W == V \ {v}
    <2>5. Cardinality(W) = n /\ W \in SUBSET U
      <3>1. Cardinality(V \ {v}) = IF v \in V THEN Cardinality(V) - 1 ELSE Cardinality(V)
        BY <2>2, FS_RemoveElement
      <3> QED BY <2>1, <3>1
    <2>6. PICK p : p \in DescendingOrders(W, acks)
      BY <1>2, <2>5
    <2>7. /\ p \in [1..n -> W]
          /\ \A i, j \in 1..n : p[i] = p[j] => i = j
          /\ \A i, j \in 1..n : i < j => acks[p[i]] >= acks[p[j]]
      BY <2>5, <2>6 DEF DescendingOrders
    <2> DEFINE o == [i \in 1..(n + 1) |-> IF i = n + 1 THEN v ELSE p[i]]
    <2>8. \A i \in 1..(n + 1) : i = n + 1 \/ i \in 1..n
      OBVIOUS
    <2>9. /\ \A i \in 1..n : o[i] = p[i] /\ o[i] \in W
          /\ o[n + 1] = v
      BY <2>7
    <2>10. o \in [1..(n + 1) -> V]
      BY <2>7, <2>8
    <2> HIDE DEF o
    <2>11. \A i, j \in 1..(n + 1) : o[i] = o[j] => i = j
      BY <2>7, <2>8, <2>9
    <2>12. ASSUME NEW i \in 1..(n + 1), NEW j \in 1..(n + 1), i < j PROVE acks[o[i]] >= acks[o[j]]
      <3>1. i \in 1..n /\ o[i] = p[i] /\ p[i] \in V
        BY <2>7, <2>8, <2>9, <2>12
      <3>2. CASE j = n + 1
        <4>1. o[j] = v /\ acks[v] <= acks[p[i]]
          BY <2>4, <2>9, <3>1, <3>2
        <4>2. acks[v] \in Nat /\ acks[p[i]] \in Nat
          BY <3>1
        <4> QED BY <3>1, <4>1, <4>2
      <3>3. CASE j \in 1..n
        BY <3>1, <3>3, <2>7, <2>9, <2>12
      <3> QED BY <2>8, <3>2, <3>3
    <2>13. o \in DescendingOrders(V, acks)
      BY <2>1, <2>10, <2>11, <2>12 DEF DescendingOrders
    <2> QED BY <2>13
  <1>3. Nat \subseteq Sorted
    BY <1>1, <1>2, SetInduction
  <1>4. \A V \in SUBSET U : Cardinality(V) \in Nat
    BY FS_Subset, FS_CardinalityType
  <1> QED BY <1>3, <1>4

\* An order reaches every voter, and the first k voters of an order are k.
LEMMA OrderCounts ==
    ASSUME NEW V, IsFiniteSet(V), NEW acks, NEW o \in DescendingOrders(V, acks)
    PROVE  /\ Cardinality(V) \in Nat
           /\ o \in [1..Cardinality(V) -> V]
           /\ \A v \in V : \E i \in 1..Cardinality(V) : o[i] = v
           /\ \A k \in 0..Cardinality(V) : Cardinality({o[i] : i \in 1..k}) = k
  <1> DEFINE n == Cardinality(V)
  <1>1. n \in Nat
    BY FS_CardinalityType
  <1>2. o \in [1..n -> V] /\ \A i, j \in 1..n : o[i] = o[j] => i = j
    BY DEF DescendingOrders
  <1>3. IsFiniteSet(1..n) /\ Cardinality(1..n) = n
    BY <1>1, FS_Interval
  <1> HIDE DEF n
  <1>4. o \in Injection(1..n, V)
    BY <1>2, Fun_IsInj
  <1>5. o \in Surjection(1..n, V)
    BY <1>3, <1>4, FS_Injection DEF n
  <1>6. \A v \in V : \E i \in 1..n : o[i] = v
    BY <1>5 DEF Surjection
  <1>7. ASSUME NEW k \in 0..n PROVE Cardinality({o[i] : i \in 1..k}) = k
    <2> DEFINE B == {o[i] : i \in 1..k}
               f == [i \in 1..k |-> o[i]]
    <2>1. 1..k \subseteq 1..n
      BY <1>1
    <2>2. f \in [1..k -> B] /\ (\A i, j \in 1..k : f[i] = f[j] => i = j) /\ \A b \in B : \E i \in 1..k : f[i] = b
      BY <2>1, <1>2
    <2> HIDE DEF f, B
    <2>3. f \in Bijection(1..k, B)
      BY <2>2, Fun_IsBij
    <2>4. k \in Nat /\ ExistsBijection(1..k, B)
      BY <1>1, <2>3 DEF ExistsBijection
    <2>5. Cardinality(B) = k
      BY <2>4, FS_CountingElements
    <2> QED BY <2>5 DEF B
  <1> QED BY <1>1, <1>2, <1>6, <1>7 DEF n

\* The quorum index decides which indexes a majority has acknowledged: it is at
\* least i exactly when more than half of the voters have acknowledged i.
LEMMA QuorumIndexExact ==
    ASSUME NEW V, IsFiniteSet(V), V # {}, NEW acks, \A v \in V : acks[v] \in Nat,
           NEW o \in DescendingOrders(V, acks), NEW i \in Nat
    PROVE  2 * Cardinality({v \in V : acks[v] >= i}) > Cardinality(V) <=> QuorumIndex(V, acks, o) >= i
  <1> DEFINE n == Cardinality(V)
             q == Majority(n)
             A == {v \in V : acks[v] >= i}
             First(k) == {o[j] : j \in 1..k}
  <1>1. /\ n \in Nat /\ o \in [1..n -> V] /\ \A v \in V : \E j \in 1..n : o[j] = v
        /\ \A k \in 0..n : Cardinality(First(k)) = k
    BY OrderCounts
  <1>2. n # 0
    BY FS_EmptySet
  <1>3. q \in 1..n /\ 2 * q > n /\ 2 * (q - 1) <= n /\ q - 1 \in 0..n
    BY <1>1, <1>2 DEF Majority
  <1>4. \A j, k \in 1..n : j < k => acks[o[j]] >= acks[o[k]]
    BY DEF DescendingOrders
  <1>5. IsFiniteSet(A) /\ A \subseteq V
    BY FS_Subset
  <1>6. QuorumIndex(V, acks, o) = acks[o[q]]
    BY DEF QuorumIndex
  <1> HIDE DEF n, q
  <1>7. o[q] \in V /\ acks[o[q]] \in Nat
    BY <1>1, <1>3
  <1>8. ASSUME acks[o[q]] >= i PROVE 2 * Cardinality(A) > n
    <2>1. ASSUME NEW j \in 1..q PROVE o[j] \in A
      <3>1. j \in 1..n /\ o[j] \in V /\ acks[o[j]] \in Nat
        BY <1>1, <1>3
      <3>2. acks[o[j]] >= acks[o[q]]
        BY <1>1, <1>3, <1>4, <1>7, <3>1
      <3> QED BY <1>7, <1>8, <3>1, <3>2
    <2>2. First(q) \subseteq A
      BY <2>1
    <2>3. Cardinality(First(q)) <= Cardinality(A)
      BY <1>5, <2>2, FS_Subset
    <2>4. Cardinality(First(q)) = q
      BY <1>1, <1>3
    <2>5. Cardinality(A) \in Nat
      BY <1>5, FS_CardinalityType
    <2> QED BY <1>1, <1>3, <2>3, <2>4, <2>5
  <1>9. ASSUME ~(acks[o[q]] >= i) PROVE ~(2 * Cardinality(A) > n)
    <2>1. ASSUME NEW v \in A PROVE v \in First(q - 1)
      <3>1. PICK j \in 1..n : o[j] = v
        BY <1>1
      <3>2. acks[v] \in Nat /\ acks[v] >= i
        OBVIOUS
      <3>3. ~(j >= q)
        BY <1>3, <1>4, <1>7, <1>9, <3>1, <3>2
      <3>4. j \in 1..(q - 1)
        BY <1>1, <1>3, <3>3
      <3> QED BY <3>1, <3>4
    <2>2. A \subseteq First(q - 1)
      BY <2>1
    <2>3. Cardinality(First(q - 1)) = q - 1
      BY <1>1, <1>3
    <2>4. IsFiniteSet(First(q - 1))
      <3>1. First(q - 1) \subseteq V
        BY <1>1, <1>3
      <3> QED BY <3>1, FS_Subset
    <2>5. Cardinality(A) <= Cardinality(First(q - 1))
      BY <2>2, <2>4, FS_Subset
    <2>6. Cardinality(A) \in Nat
      BY <1>5, FS_CardinalityType
    <2> QED BY <1>1, <1>3, <2>3, <2>5, <2>6
  <1> QED BY <1>6, <1>7, <1>8, <1>9 DEF n

\* The quorum index is the acknowledged index of a voter.
LEMMA QuorumIndexType ==
    ASSUME NEW V, IsFiniteSet(V), V # {}, NEW acks, NEW o \in DescendingOrders(V, acks)
    PROVE  Majority(Cardinality(V)) \in 1..Cardinality(V) /\ \E v \in V : QuorumIndex(V, acks, o) = acks[v]
  <1> DEFINE n == Cardinality(V)
             q == Majority(n)
  <1>1. n \in Nat /\ o \in [1..n -> V]
    BY OrderCounts
  <1>2. n # 0
    BY FS_EmptySet
  <1>3. q \in 1..n
    BY <1>1, <1>2 DEF Majority
  <1>4. o[q] \in V
    BY <1>1, <1>3
  <1> QED BY <1>3, <1>4 DEF QuorumIndex

\* Two voters in different groups have acknowledged i.
TwoGroups(V, acks, grp, i) ==
    \E v, w \in V : /\ acks[v] >= i /\ acks[w] >= i
                    /\ grp[v] # 0 /\ grp[w] # 0 /\ grp[v] # grp[w]

\* The loop of committed_index with group commit finds the largest index that a
\* majority has, and two groups if there are two, and everyone if some voter has
\* no group.
LEMMA GroupCommittedExact ==
    ASSUME NEW V, IsFiniteSet(V), V # {}, NEW acks, \A v \in V : acks[v] \in Nat, NEW grp,
           NEW o \in DescendingOrders(V, acks), NEW i \in Nat
    PROVE  /\ \E v \in V : GroupCommitted(V, acks, grp, o) = acks[v]
           /\ GroupCommitted(V, acks, grp, o) >= i <=>
                /\ QuorumIndex(V, acks, o) >= i
                /\ IF TwoGroups(V, acks, grp, 0) THEN TwoGroups(V, acks, grp, i)
                   ELSE (\A v \in V : grp[v] # 0) \/ \A v \in V : acks[v] >= i
  <1> DEFINE n == Cardinality(V)
             q == Majority(n)
             g == CheckedGroup(V, grp, o)
             grouped == {j \in 1..n : grp[o[j]] # 0}
             others == {j \in 1..n : grp[o[j]] \notin {0, g}}
             k == MinOf(others)
             f == MinOf(grouped)
  <1>1. n \in Nat /\ o \in [1..n -> V] /\ \A v \in V : \E j \in 1..n : o[j] = v
    BY OrderCounts
  <1>2. q \in 1..n
    BY QuorumIndexType
  <1>3. \A j, l \in 1..n : j < l => acks[o[j]] >= acks[o[l]]
    BY DEF DescendingOrders
  <1>4. \A j \in 1..n : o[j] \in V /\ acks[o[j]] \in Nat
    BY <1>1
  <1>5. QuorumIndex(V, acks, o) = acks[o[q]]
    BY DEF QuorumIndex
  <1>6. g = IF grp[o[q]] # 0 \/ grouped = {} THEN grp[o[q]] ELSE grp[o[f]]
    BY DEF CheckedGroup
  <1>7. GroupCommitted(V, acks, grp, o) =
            IF others # {} THEN MinOf({acks[o[k]], acks[o[q]]})
            ELSE IF \A j \in 1..n : grp[o[j]] # 0 THEN acks[o[q]] ELSE acks[o[n]]
    BY DEF GroupCommitted, QuorumIndex
  <1>8. others \in SUBSET Nat /\ grouped \in SUBSET Nat /\ n \in 1..n
    BY <1>1, <1>2
  <1>9. others # {} => k \in others /\ \A j \in others : k <= j
    BY <1>8, MinOfIsLeast
  <1>10. grouped # {} => f \in grouped /\ \A j \in grouped : f <= j
    BY <1>8, MinOfIsLeast
  <1> DEFINE c == GroupCommitted(V, acks, grp, o)
  <1> HIDE DEF n, q, g, k, f, c
  <1>11. CASE others # {}
    <2>1. k \in 1..n /\ grp[o[k]] # 0 /\ grp[o[k]] # g /\ k \in grouped
      BY <1>9, <1>11
    <2>2. g # 0
      BY <1>6, <1>10, <2>1
    <2>3. acks[o[k]] \in Nat /\ acks[o[q]] \in Nat
      BY <1>2, <1>4, <2>1
    <2>4. c = IF acks[o[k]] <= acks[o[q]] THEN acks[o[k]] ELSE acks[o[q]]
      BY <1>7, <1>11, <2>3, MinOfTwo DEF c
    <2>5. ASSUME NEW x \in Nat, acks[o[k]] >= x, acks[o[q]] >= x PROVE TwoGroups(V, acks, grp, x)
      <3>1. \E p \in 1..n : grp[o[p]] = g /\ acks[o[p]] >= x
        <4>1. CASE grp[o[q]] # 0
          BY <1>2, <1>6, <2>5, <4>1
        <4>2. CASE grp[o[q]] = 0
          <5>1. f \in 1..n /\ f <= k /\ grp[o[f]] = g
            BY <1>6, <1>10, <2>1, <4>2
          <5>2. acks[o[f]] >= acks[o[k]]
            BY <1>3, <1>4, <2>1, <2>3, <5>1
          <5> QED BY <1>4, <2>3, <2>5, <5>1, <5>2
        <4> QED BY <4>1, <4>2
      <3> QED BY <1>4, <2>1, <2>2, <2>5, <3>1 DEF TwoGroups
    <2>6. ASSUME NEW x \in Nat, TwoGroups(V, acks, grp, x) PROVE acks[o[k]] >= x
      <3>1. PICK v \in V : acks[v] >= x /\ grp[v] \notin {0, g}
        BY <2>6 DEF TwoGroups
      <3>2. PICK j \in 1..n : o[j] = v
        BY <1>1
      <3>3. j \in others
        BY <3>1, <3>2
      <3>4. k <= j
        BY <1>9, <3>3
      <3>5. acks[o[k]] >= acks[o[j]]
        BY <1>3, <1>4, <2>1, <2>3, <3>4
      <3> QED BY <1>4, <2>3, <3>1, <3>2, <3>5
    <2>7. TwoGroups(V, acks, grp, 0)
      BY <2>3, <2>5
    <2>8. c >= i <=> acks[o[k]] >= i /\ acks[o[q]] >= i
      BY <2>3, <2>4
    <2>9. o[k] \in V /\ o[q] \in V
      BY <1>2, <1>4, <2>1
    <2> QED BY <1>5, <2>4, <2>5, <2>6, <2>7, <2>8, <2>9 DEF c
  <1>12. CASE others = {}
    <2>1. \A v \in V : grp[v] \in {0, g}
      BY <1>1, <1>12
    <2>2. ~TwoGroups(V, acks, grp, 0)
      BY <2>1 DEF TwoGroups
    <2>3. (\A j \in 1..n : grp[o[j]] # 0) <=> \A v \in V : grp[v] # 0
      BY <1>1
    <2>4. CASE \A v \in V : grp[v] # 0
      BY <1>2, <1>4, <1>5, <1>7, <1>12, <2>2, <2>3, <2>4
    <2>5. CASE ~ \A v \in V : grp[v] # 0
      <3>1. c = acks[o[n]] /\ o[n] \in V
        BY <1>4, <1>7, <1>8, <1>12, <2>3, <2>5 DEF c
      <3>2. \A j \in 1..n : acks[o[j]] >= acks[o[n]]
        BY <1>1, <1>3, <1>4, <1>8
      <3>3. acks[o[n]] >= i => \A v \in V : acks[v] >= i
        BY <1>1, <1>4, <1>8, <3>2
      <3> QED BY <1>2, <1>4, <1>5, <2>2, <2>5, <3>1, <3>3 DEF c
    <2> QED BY <2>4, <2>5
  <1> QED BY <1>11, <1>12
==============================================================================
