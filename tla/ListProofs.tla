----------------------------- MODULE ListProofs -----------------------------
(***************************************************************************)
(* For any values, any number of nodes and any width of size_t: until a    *)
(* walk strays, the nodes of the list form a ring whose cursor is where    *)
(* its index says, and every operation is the one of a sequence.           *)
(*                                                                         *)
(* The lemmas on rings speak of a memory m, a length n, an index i, the    *)
(* node of the cursor and the last node as parameters, so that they apply  *)
(* to the list before and after an operation alike.                        *)
(***************************************************************************)
EXTENDS LinkedList, FiniteSetTheorems, SequenceTheorems, WellFoundedInduction, TLAPS

\* A set of naturals has a least element: it stands in for induction.
LEMMA LeastOf ==
  ASSUME NEW S, S \subseteq Nat, S # {}
  PROVE  \E m \in S : \A j \in S : m <= j
<1> DEFINE R == OpToRel(<, Nat)
<1>1. PICK x \in S : \A y \in S : ~ (<<y, x>> \in R)
  BY NatLessThanWellFounded, WFMin, Zenon
<1>2. \A y \in S : ~ (y < x)
  BY <1>1, Zenon DEF OpToRel
<1> QED
  BY <1>2

First(S) == CHOOSE k \in S : \A j \in S : k <= j

\* CHOOSE finds that least element.
LEMMA FirstIsLeast ==
  ASSUME NEW S, S \subseteq Nat, S # {}
  PROVE  First(S) \in S /\ \A j \in S : First(S) <= j
BY LeastOf, Zenon DEF First

\* A size_t has room for every index of a list.
LEMMA Sizes ==
  /\ Cardinality(Nodes) \in Nat
  /\ 2 ^ SizeBits \in Nat
  /\ Cardinality(Nodes) < 2 ^ SizeBits
<1>1. Cardinality(Nodes) \in Nat
  BY ListAssumption, FS_CardinalityType, Zenon
<1>2. 2 ^ SizeBits \in Int
  BY ListAssumption, SMT
<1> QED
  BY <1>1, <1>2, ListAssumption

-----------------------------------------------------------------------------
(* The walk *)

\* What a walk of n rounds does.
IsWalk(f, n, direction) ==
    f = [k \in 0..n |-> IF k = 0 THEN <<currentIndex, current>>
                        ELSE <<StepIndex(f[k - 1][1], direction),
                               StepNode(f[k - 1][2], direction)>>]

\* There is such a walk: the recursion that defines it has a solution.
LEMMA WalkExists ==
  ASSUME NEW direction, NEW n \in Nat
  PROVE  \E f : IsWalk(f, n, direction)
<1> DEFINE Bad == {m \in Nat : ~ \E f : IsWalk(f, m, direction)}
<1> SUFFICES ASSUME Bad # {} PROVE FALSE
  OBVIOUS
<1>1. PICK m \in Bad : \A j \in Bad : m <= j
  BY LeastOf, Zenon
<1>2. m # 0
  <2>1. IsWalk([k \in 0..0 |-> <<currentIndex, current>>], 0, direction)
    BY DEF IsWalk
  <2> QED
    BY <1>1, <2>1, Zenon
<1>3. m \in Nat /\ m - 1 \in Nat /\ ~ (m <= m - 1)
  BY <1>1, <1>2
<1>4. PICK f : IsWalk(f, m - 1, direction)
  <2>1. m - 1 \notin Bad
    BY <1>1, <1>3, Zenon
  <2> QED
    BY <1>3, <2>1, Zenon
<1> DEFINE g == [k \in 0..m |-> IF k = m
                                THEN <<StepIndex(f[m - 1][1], direction), StepNode(f[m - 1][2], direction)>>
                                ELSE f[k]]
<1>5. IsWalk(g, m, direction)
  <2>1. ASSUME NEW k \in 0..m
        PROVE  g[k] = IF k = 0 THEN <<currentIndex, current>>
                      ELSE <<StepIndex(g[k - 1][1], direction), StepNode(g[k - 1][2], direction)>>
    <3>1. CASE k = 0
      <4>1. 0 \in 0..(m - 1) /\ g[0] = f[0]
        BY <1>2, <1>3, <3>1
      <4> QED
        BY <1>4, <3>1, <4>1, Zenon DEF IsWalk
    <3>2. CASE k \in 1..(m - 1)
      <4>1. k \in 0..(m - 1) /\ k # 0 /\ g[k] = f[k] /\ g[k - 1] = f[k - 1]
        BY <1>3, <3>2
      <4>2. f[k] = <<StepIndex(f[k - 1][1], direction), StepNode(f[k - 1][2], direction)>>
        BY <1>4, <4>1, Zenon DEF IsWalk
      <4> QED
        BY <4>1, <4>2, Zenon
    <3>3. CASE k = m
      <4>1. g[m - 1] = f[m - 1] /\ g[m] = <<StepIndex(f[m - 1][1], direction), StepNode(f[m - 1][2], direction)>>
        BY <1>2, <1>3
      <4> QED
        BY <1>2, <3>3, <4>1, Zenon
    <3> QED
      BY <1>3, <3>1, <3>2, <3>3
  <2> QED
    BY <2>1, Zenon DEF IsWalk
<1> QED
  BY <1>1, <1>5, Zenon

\* The rounds of list_moveToIndex, one by one.
LEMMA Rounds ==
  ASSUME NEW direction, length \in Nat
  PROVE  /\ Walk(direction)[0] = <<currentIndex, current>>
         /\ \A k \in 1..length :
               Walk(direction)[k] = <<StepIndex(Walk(direction)[k - 1][1], direction),
                                      StepNode(Walk(direction)[k - 1][2], direction)>>
<1>1. Walk(direction) = CHOOSE f : IsWalk(f, length, direction)
  BY Zenon DEF Walk, IsWalk
<1>2. IsWalk(Walk(direction), length, direction)
  BY <1>1, WalkExists, Zenon
<1> DEFINE f == Walk(direction)
<1> HIDE DEF f
<1>3. f = [k \in 0..length |-> IF k = 0 THEN <<currentIndex, current>>
                        ELSE <<StepIndex(f[k - 1][1], direction),
                               StepNode(f[k - 1][2], direction)>>]
  BY <1>2, Zenon DEF IsWalk, f
<1>4. f[0] = <<currentIndex, current>>
  BY <1>3
<1>5. ASSUME NEW k \in 1..length
      PROVE  f[k] = <<StepIndex(f[k - 1][1], direction), StepNode(f[k - 1][2], direction)>>
  <2>1. k \in 0..length /\ k # 0
    OBVIOUS
  <2> QED
    BY <1>3, <2>1, Zenon
<1> QED
  BY <1>4, <1>5, Zenon DEF f

-----------------------------------------------------------------------------
(* The ring *)

Succ(k, n) == IF k = n THEN 1 ELSE k + 1
Pred(k, n) == IF k = 1 THEN n ELSE k - 1

\* In the memory m, c lists the n nodes in use in order, end being the last and
\* cursor the one of index i.
IsRing(c, m, n, i, cursor, end) ==
    /\ n \in Nat /\ i \in Nat
    /\ c \in [1..n -> Nodes]
    /\ \A j, k \in 1..n : c[j] = c[k] => j = k
    /\ \A k \in 1..n : m[c[k]].next = c[Succ(k, n)] /\ m[c[k]].previous = c[Pred(k, n)]
    /\ \A x \in Nodes : m[x] # Free => \E k \in 1..n : x = c[k]
    /\ n = 0 => i = 0
    /\ n > 0 => i < n /\ end = c[n] /\ cursor = c[i + 1]

Ring(c) == IsRing(c, node, length, currentIndex, current, tail)

\* The list is no longer than the memory.
LEMMA RingFits ==
  ASSUME NEW c, NEW m, NEW n, NEW i, NEW cursor, NEW end, IsRing(c, m, n, i, cursor, end)
  PROVE  n <= Cardinality(Nodes) /\ n < 2 ^ SizeBits
<1>1. c \in Injection(1..n, Nodes)
  BY Zenon DEF IsRing, Injection, IsInjective
<1>2. Cardinality(1..n) <= Cardinality(Nodes)
  BY <1>1, FS_Injection, ListAssumption, Zenon
<1>3. n \in Nat
  BY Zenon DEF IsRing
<1>4. Cardinality(1..n) = n
  BY <1>3, FS_Interval
<1> QED
  BY <1>2, <1>3, <1>4, Sizes

\* The index k steps to the right of the cursor, and to the left.
RightOf(k) == IF currentIndex + k < length THEN currentIndex + k ELSE currentIndex + k - length
LeftOf(k) == IF k <= currentIndex THEN currentIndex - k ELSE currentIndex - k + length

\* One step to the right.
LEMMA StepRight ==
  ASSUME NEW c, Ring(c), NEW i \in 0..(length - 1)
  PROVE  LET j == IF i + 1 = length THEN 0 ELSE i + 1
         IN  StepIndex(i, 1) = j /\ StepNode(c[i + 1], 1) = c[j + 1]
<1> DEFINE j == IF i + 1 = length THEN 0 ELSE i + 1
<1>1. length \in Nat /\ length < 2 ^ SizeBits /\ 2 ^ SizeBits \in Nat
  <2>1. length \in Nat
    BY Zenon DEF Ring, IsRing
  <2>2. length < 2 ^ SizeBits
    BY RingFits, Zenon DEF Ring
  <2> QED
    BY <2>1, <2>2, Sizes, Zenon
<1>2. StepIndex(i, 1) = j
  <2>1. PICK m \in Nat : m = 2 ^ SizeBits
    BY <1>1, Zenon
  <2>2. (i + 1) % m = i + 1
    BY <1>1, <2>1, SMT
  <2>3. (i + 1) % length = j
    BY <1>1, SMT
  <2> QED
    BY <2>1, <2>2, <2>3, Zenon DEF StepIndex
<1>3. i + 1 \in 1..length /\ Succ(i + 1, length) = j + 1
  BY <1>1 DEF Succ
<1>4. StepNode(c[i + 1], 1) = c[j + 1]
  BY <1>3, Zenon DEF StepNode, Ring, IsRing
<1> QED
  BY <1>2, <1>4, Zenon

\* A walk to the right meets the nodes in order, around the end of the list.
LEMMA WalkRight ==
  ASSUME NEW c, Ring(c), length > 0
  PROVE  \A k \in 0..length : RightOf(k) \in 0..(length - 1)
                             /\ Walk(1)[k] = <<RightOf(k), c[RightOf(k) + 1]>>
<1>1. length \in Nat /\ currentIndex \in Nat /\ currentIndex < length
  BY Zenon DEF Ring, IsRing
<1>2. \A k \in 0..length : RightOf(k) \in 0..(length - 1)
  BY <1>1 DEF RightOf
<1> DEFINE Bad == {k \in 0..length : Walk(1)[k] # <<RightOf(k), c[RightOf(k) + 1]>>}
<1> SUFFICES ASSUME Bad # {} PROVE FALSE
  BY <1>2, Zenon
<1>3. PICK k \in Bad : \A j \in Bad : k <= j
  <2>1. Bad \subseteq Nat
    BY <1>1
  <2> QED
    BY <2>1, LeastOf, Zenon
<1>4. k # 0
  <2>1. RightOf(0) = currentIndex
    BY <1>1 DEF RightOf
  <2>2. Walk(1)[0] = <<currentIndex, c[currentIndex + 1]>>
    BY <1>1, Rounds, Zenon DEF Ring, IsRing
  <2> QED
    BY <1>3, <2>1, <2>2, Zenon
<1>5. k \in 1..length /\ k - 1 \in 0..length /\ k - 1 \notin Bad
  BY <1>1, <1>3, <1>4
<1> DEFINE i == RightOf(k - 1)
<1>6. i \in 0..(length - 1) /\ Walk(1)[k - 1] = <<i, c[i + 1]>>
  BY <1>2, <1>5, Zenon
<1>7. Walk(1)[k] = <<StepIndex(i, 1), StepNode(c[i + 1], 1)>>
  <2>1. Walk(1)[k] = <<StepIndex(Walk(1)[k - 1][1], 1), StepNode(Walk(1)[k - 1][2], 1)>>
    BY <1>1, <1>5, Rounds, Zenon
  <2> QED
    BY <1>6, <2>1
<1>8. RightOf(k) = IF i + 1 = length THEN 0 ELSE i + 1
  BY <1>1, <1>5 DEF RightOf
<1>9. StepIndex(i, 1) = RightOf(k) /\ StepNode(c[i + 1], 1) = c[RightOf(k) + 1]
  BY <1>6, <1>8, StepRight, Zenon
<1> QED
  BY <1>3, <1>7, <1>9, Zenon

\* The remainder before a multiple of n.
LEMMA BeforeMultiple ==
  ASSUME NEW m \in Nat, NEW n \in Nat, n > 0, m > 0, m % n = 0
  PROVE  (m - 1) % n = n - 1
<1> DEFINE q == m \div n
           p == (m - 1) \div n
           r == (m - 1) % n
<1>1. q \in Int /\ m = n * q
  BY SMT
<1>2. p \in Int /\ r \in 0..(n - 1) /\ m - 1 = n * p + r
  BY SMT
<1> HIDE DEF q, p, r
<1>3. PICK d \in Int : d = q - p
  BY <1>1, <1>2
<1>4. n * d = r + 1
  <2>1. n * d = n * q - n * p
    BY <1>1, <1>2, <1>3, SMT
  <2> QED
    BY <1>1, <1>2, <2>1, SMT
<1>5. d = 1
  <2>1. ~ (d <= 0)
    <3>1. d <= 0 => n * d <= 0
      BY SMT
    <3> QED
      BY <1>2, <1>4, <3>1
  <2>2. ~ (d >= 2)
    <3>1. d >= 2 => n * d >= n * 2
      BY SMT
    <3> QED
      BY <1>2, <1>4, <3>1
  <2> QED
    BY <2>1, <2>2
<1>6. n = r + 1
  BY <1>4, <1>5
<1> QED
  BY <1>2, <1>6 DEF r

\* One step to the left, except from index 0 when the length does not divide 2^w.
LEMMA StepLeft ==
  ASSUME NEW c, Ring(c), NEW i \in 0..(length - 1), i # 0 \/ 2 ^ SizeBits % length = 0
  PROVE  LET j == IF i = 0 THEN length - 1 ELSE i - 1
         IN  StepIndex(i, -1) = j /\ StepNode(c[i + 1], -1) = c[j + 1]
<1> DEFINE j == IF i = 0 THEN length - 1 ELSE i - 1
<1>1. length \in Nat /\ length > 0 /\ length < 2 ^ SizeBits /\ 2 ^ SizeBits \in Nat
  <2>1. length \in Nat
    BY Zenon DEF Ring, IsRing
  <2>2. length < 2 ^ SizeBits
    BY RingFits, Zenon DEF Ring
  <2> QED
    BY ONLY <2>1, <2>2, Sizes, i \in 0..(length - 1)
<1>2. StepIndex(i, -1) = j
  <2>1. PICK m \in Nat : m = 2 ^ SizeBits
    BY <1>1, Zenon
  <2>2. CASE i = 0
    <3>1. (0 + -1) % m = m - 1
      BY <1>1, <2>1, SMT
    <3>2. (m - 1) % length = length - 1
      BY <1>1, <2>1, <2>2, BeforeMultiple
    <3> QED
      BY <2>1, <2>2, <3>1, <3>2, Zenon DEF StepIndex
  <2>3. CASE i # 0
    <3>1. (i + -1) % m = i - 1
      BY <1>1, <2>1, <2>3, SMT
    <3>2. (i - 1) % length = i - 1
      BY <1>1, <2>3, SMT
    <3> QED
      BY <2>1, <2>3, <3>1, <3>2, Zenon DEF StepIndex
  <2> QED
    BY <2>2, <2>3, Zenon
<1>3. i + 1 \in 1..length /\ Pred(i + 1, length) = j + 1
  BY <1>1 DEF Pred
<1>4. StepNode(c[i + 1], -1) = c[j + 1]
  BY <1>3 DEF StepNode, Ring, IsRing
<1> QED
  BY <1>2, <1>4, Zenon

\* A walk to the left that does not stray meets them in reverse order.
LEMMA WalkLeft ==
  ASSUME NEW c, Ring(c), length > 0, NEW n \in 0..length,
         n <= currentIndex \/ 2 ^ SizeBits % length = 0
  PROVE  \A k \in 0..n : LeftOf(k) \in 0..(length - 1)
                        /\ Walk(-1)[k] = <<LeftOf(k), c[LeftOf(k) + 1]>>
<1>1. length \in Nat /\ currentIndex \in Nat /\ currentIndex < length
  BY Zenon DEF Ring, IsRing
<1>2. \A k \in 0..n : LeftOf(k) \in 0..(length - 1)
  BY <1>1 DEF LeftOf
<1> DEFINE Bad == {k \in 0..n : Walk(-1)[k] # <<LeftOf(k), c[LeftOf(k) + 1]>>}
<1> SUFFICES ASSUME Bad # {} PROVE FALSE
  BY <1>2, Zenon
<1>3. PICK k \in Bad : \A j \in Bad : k <= j
  <2>1. Bad \subseteq Nat
    BY <1>1
  <2> QED
    BY <2>1, LeastOf, Zenon
<1>4. k # 0
  <2>1. LeftOf(0) = currentIndex
    BY <1>1 DEF LeftOf
  <2>2. Walk(-1)[0] = <<currentIndex, c[currentIndex + 1]>>
    BY <1>1, Rounds, Zenon DEF Ring, IsRing
  <2> QED
    BY <1>3, <2>1, <2>2, Zenon
<1>5. k \in 1..length /\ k <= n /\ k - 1 \in 0..n /\ k - 1 \notin Bad
  BY <1>1, <1>3, <1>4
<1> DEFINE i == LeftOf(k - 1)
<1>6. i \in 0..(length - 1) /\ Walk(-1)[k - 1] = <<i, c[i + 1]>>
  BY <1>2, <1>5, Zenon
<1>7. Walk(-1)[k] = <<StepIndex(i, -1), StepNode(c[i + 1], -1)>>
  <2>1. Walk(-1)[k] = <<StepIndex(Walk(-1)[k - 1][1], -1), StepNode(Walk(-1)[k - 1][2], -1)>>
    BY <1>1, <1>5, Rounds, Zenon
  <2> QED
    BY <1>6, <2>1
<1>8. LeftOf(k) = IF i = 0 THEN length - 1 ELSE i - 1
  BY <1>1, <1>5 DEF LeftOf
<1>9. i # 0 \/ 2 ^ SizeBits % length = 0
  BY <1>1, <1>5 DEF LeftOf
<1>10. StepIndex(i, -1) = LeftOf(k) /\ StepNode(c[i + 1], -1) = c[LeftOf(k) + 1]
  BY <1>6, <1>8, <1>9, StepLeft, Zenon
<1> QED
  BY <1>3, <1>7, <1>10, Zenon

-----------------------------------------------------------------------------
(* list_moveToIndex *)

\* A walk that strays takes a list of at least six values.
LEMMA StrayLength ==
  ASSUME NEW c, Ring(c), NEW i \in 0..(length - 1), Strays(i)
  PROVE  length >= 6 /\ 2 ^ SizeBits % length # 0
<1>1. length \in Nat /\ currentIndex \in Nat
  BY Zenon DEF Ring, IsRing
<1>2. i + 1 # length /\ currentIndex < i /\ 1 + currentIndex + length - i < i - currentIndex
  BY <1>1 DEF Strays, Direction
<1>3. 2 ^ SizeBits % length # 0
  BY Zenon DEF Strays
<1> QED
  BY <1>1, <1>2, <1>3

\* Unless it strays, list_moveToIndex ends at the node of the index.
LEMMA Moves ==
  ASSUME NEW c, Ring(c), NEW i \in 0..(length - 1), ~Strays(i)
  PROVE  list_moveToIndex(i) = <<i, c[i + 1]>>
<1>1. length \in Nat /\ length > 0 /\ currentIndex \in Nat /\ currentIndex < length
  BY DEF Ring, IsRing
<1>2. CASE currentIndex = i
  BY <1>1, <1>2, Zenon DEF list_moveToIndex, Ring, IsRing
<1>3. CASE currentIndex # i /\ i = 0
  <2>1. length \in 1..length /\ Succ(length, length) = 1
    BY <1>1 DEF Succ
  <2>2. node[tail].next = c[1]
    BY <1>1, <2>1, Zenon DEF Ring, IsRing
  <2> QED
    BY <1>3, <2>2 DEF list_moveToIndex
<1>4. CASE currentIndex # i /\ i # 0 /\ i + 1 = length
  BY <1>1, <1>4, Zenon DEF list_moveToIndex, Ring, IsRing
<1>5. CASE currentIndex # i /\ i # 0 /\ i + 1 # length
  <2> DEFINE d == Direction(i)
             f == Walk(d)
             hits == {k \in 0..length : f[k][1] = i}
  <2>1. \E h \in 0..length : f[h][1] = i /\ \A k \in 0..h : f[k] = <<f[k][1], c[f[k][1] + 1]>>
    <3>1. CASE d = 1
      <4> DEFINE h == IF currentIndex < i THEN i - currentIndex ELSE i + length - currentIndex
      <4>1. h \in 0..length /\ RightOf(h) = i
        BY <1>1, <1>5 DEF RightOf
      <4>2. \A k \in 0..length : f[k] = <<RightOf(k), c[RightOf(k) + 1]>>
        BY <1>1, <3>1, WalkRight, Zenon
      <4>3. \A k \in 0..length : f[k][1] = RightOf(k) /\ f[k] = <<f[k][1], c[f[k][1] + 1]>>
        BY <4>2
      <4>4. \A k \in 0..h : k \in 0..length
        BY <1>1, <4>1
      <4> QED
        BY <4>1, <4>3, <4>4, Zenon
    <3>2. CASE d = -1
      <4> DEFINE h == IF currentIndex < i THEN currentIndex + length - i ELSE currentIndex - i
      <4>1. h \in 0..length /\ LeftOf(h) = i
        BY <1>1, <1>5 DEF LeftOf
      <4>2. h <= currentIndex \/ 2 ^ SizeBits % length = 0
        <5>1. CASE currentIndex < i
          BY <1>5, <3>2, <5>1, Zenon DEF Strays
        <5>2. CASE ~ (currentIndex < i)
          BY <1>1, <5>2
        <5> QED
          BY <5>1, <5>2, Zenon
      <4>3. \A k \in 0..h : f[k] = <<LeftOf(k), c[LeftOf(k) + 1]>>
        <5> HIDE DEF h
        <5> QED
          BY <1>1, <3>2, <4>1, <4>2, WalkLeft, Zenon
      <4>4. \A k \in 0..h : f[k][1] = LeftOf(k) /\ f[k] = <<f[k][1], c[f[k][1] + 1]>>
        BY <4>3
      <4>5. h \in 0..h
        BY <4>1
      <4> QED
        BY <4>1, <4>4, <4>5, Zenon
    <3> QED
      BY <3>1, <3>2, Zenon DEF Direction
  <2>2. PICK h \in 0..length : f[h][1] = i /\ \A k \in 0..h : f[k] = <<f[k][1], c[f[k][1] + 1]>>
    BY <2>1, Zenon
  <2> HIDE DEF f
  <2>3. h \in hits /\ hits \subseteq Nat
    BY <1>1, <2>2
  <2>4. First(hits) \in hits /\ First(hits) <= h
    BY <2>3, FirstIsLeast, Zenon
  <2>5. First(hits) \in 0..h /\ f[First(hits)][1] = i
    BY <1>1, <2>4
  <2>6. list_moveToIndex(i) = f[First(hits)]
    BY <1>5, <2>3, Zenon DEF list_moveToIndex, f, First
  <2> QED
    BY <2>2, <2>5, <2>6, Zenon
<1> QED
  BY <1>2, <1>3, <1>4, <1>5, Zenon

-----------------------------------------------------------------------------
(* What the ring says of the list *)

IsChain(f) ==
    f = [k \in 1..length |-> IF k = 1 THEN node[tail].next ELSE node[f[k - 1]].next]

\* The nodes that are met from the tail on are the ring's.
LEMMA ChainIsRing == \A c : Ring(c) => Chain = c
<1> SUFFICES ASSUME NEW c, Ring(c) PROVE Chain = c
  OBVIOUS
<1>1. length \in Nat /\ c \in [1..length -> Nodes]
  BY Zenon DEF Ring, IsRing
<1>2. \A k \in 1..length : c[k] = IF k = 1 THEN node[tail].next ELSE node[c[k - 1]].next
  <2> SUFFICES ASSUME NEW k \in 1..length
               PROVE  c[k] = IF k = 1 THEN node[tail].next ELSE node[c[k - 1]].next
    OBVIOUS
  <2>1. CASE k = 1
    <3>1. length \in 1..length /\ Succ(length, length) = 1 /\ tail = c[length]
      BY <1>1 DEF Succ, Ring, IsRing
    <3> QED
      BY <2>1, <3>1, Zenon DEF Ring, IsRing
  <2>2. CASE k # 1
    <3>1. k - 1 \in 1..length /\ Succ(k - 1, length) = k
      BY <1>1, <2>2 DEF Succ
    <3> QED
      BY <2>2, <3>1, Zenon DEF Ring, IsRing
  <2> QED
    BY <2>1, <2>2, Zenon
<1>3. IsChain(c)
  BY <1>1, <1>2, Zenon DEF IsChain
<1>4. Chain = CHOOSE f : IsChain(f)
  BY Zenon DEF Chain, IsChain
<1>5. IsChain(Chain)
  BY <1>3, <1>4, Zenon
<1> DEFINE f == Chain
<1> HIDE DEF f
<1>6. /\ f = [k \in 1..length |-> f[k]]
      /\ \A k \in 1..length : f[k] = IF k = 1 THEN node[tail].next ELSE node[f[k - 1]].next
  BY <1>5, Zenon DEF f, IsChain
<1> DEFINE Bad == {k \in 1..length : f[k] # c[k]}
<1>7. Bad = {}
  <2> SUFFICES ASSUME Bad # {} PROVE FALSE
    OBVIOUS
  <2>1. PICK k \in Bad : \A j \in Bad : k <= j
    <3>1. Bad \subseteq Nat
      BY <1>1
    <3> QED
      BY <3>1, LeastOf, Zenon
  <2>2. k # 1
    BY <1>2, <1>6, <2>1, Zenon
  <2>3. k \in 1..length /\ k - 1 \in 1..length /\ k - 1 \notin Bad
    BY <1>1, <2>1, <2>2
  <2>4. f[k - 1] = c[k - 1]
    BY <2>3, Zenon
  <2>5. c[k] = node[c[k - 1]].next
    BY <1>2, <2>2, <2>3, Zenon
  <2>6. f[k] = node[f[k - 1]].next
    BY <1>6, <2>2, <2>3, Zenon
  <2> QED
    BY <2>1, <2>4, <2>5, <2>6, Zenon
<1>8. f = c
  BY <1>1, <1>6, <1>7, Zenon
<1> QED
  BY <1>8, Zenon DEF f

\* As many nodes are in use as the list is long, and the chain meets each once.
LEMMA RingCounts ==
  ASSUME NEW c, Ring(c)
  PROVE  /\ Cardinality({c[k] : k \in 1..length}) = length
         /\ Cardinality({n \in Nodes : node[n] # Free}) = length
<1> DEFINE S == {c[k] : k \in 1..length}
<1>1. length \in Nat /\ c \in [1..length -> Nodes]
  BY Zenon DEF Ring, IsRing
<1>2. c \in Bijection(1..length, S)
  <2>1. c \in [1..length -> S]
    BY <1>1, Zenon
  <2>2. \A j, k \in 1..length : c[j] = c[k] => j = k
    BY Zenon DEF Ring, IsRing
  <2> QED
    BY <2>1, <2>2, Zenon DEF Bijection, Injection, Surjection, IsInjective
<1>3. IsFiniteSet(1..length) /\ Cardinality(1..length) = length
  BY <1>1, FS_Interval
<1>4. Cardinality(S) = length
  BY <1>2, <1>3, FS_Bijection, Zenon DEF ExistsBijection
<1>5. {n \in Nodes : node[n] # Free} = S
  <2>1. ASSUME NEW n \in Nodes, node[n] # Free PROVE n \in S
    BY <2>1, Zenon DEF Ring, IsRing
  <2>2. ASSUME NEW k \in 1..length PROVE c[k] \in Nodes /\ node[c[k]] # Free
    <3>1. c[k] \in Nodes /\ Succ(k, length) \in 1..length
      BY <1>1 DEF Succ
    <3>2. node[c[k]].next \in Nodes
      BY <1>1, <3>1, Zenon DEF Ring, IsRing
    <3>3. node[c[k]].next # Nil
      BY <3>2, ListAssumption, Zenon
    <3> QED
      BY <3>1, <3>3 DEF Free
  <2> QED
    BY <2>1, <2>2, Zenon
<1> QED
  BY <1>4, <1>5, Zenon

-----------------------------------------------------------------------------
(* Rings before and after an operation *)

Memory == [Nodes -> [next : Nodes \union {Nil}, previous : Nodes \union {Nil},
                     value : Pointers \union {Nil}]]

\* An empty list.
LEMMA EmptyRing ==
  ASSUME NEW m, \A x \in Nodes : m[x] = Free, NEW cursor, NEW end
  PROVE  IsRing(<<>>, m, 0, 0, cursor, end)
BY DEF IsRing

\* The cursor moves; links and length stay.
LEMMA CursorRing ==
  ASSUME NEW c, NEW m, NEW n, NEW i, NEW cursor, NEW end, IsRing(c, m, n, i, cursor, end),
         NEW j \in 0..(n - 1), NEW m2,
         \A x \in Nodes : m2[x].next = m[x].next /\ m2[x].previous = m[x].previous,
         \A x \in Nodes : m2[x] # Free => m[x] # Free
  PROVE  IsRing(c, m2, n, j, c[j + 1], end)
<1>1. n \in Nat /\ c \in [1..n -> Nodes] /\ j \in Nat /\ j < n
  BY DEF IsRing
<1>2. \A k \in 1..n : c[k] \in Nodes
  BY <1>1, Zenon
<1>3. \A k \in 1..n : m2[c[k]].next = c[Succ(k, n)] /\ m2[c[k]].previous = c[Pred(k, n)]
  BY <1>2, Zenon DEF IsRing
<1>4. \A x \in Nodes : m2[x] # Free => \E k \in 1..n : x = c[k]
  BY Zenon DEF IsRing
<1>5. n > 0 /\ end = c[n]
  BY <1>1 DEF IsRing
<1>6. \A k, l \in 1..n : c[k] = c[l] => k = l
  BY Zenon DEF IsRing
<1>7. ~ (n = 0)
  BY <1>1
<1> QED
  BY <1>1, <1>3, <1>4, <1>5, <1>6, <1>7, Zenon DEF IsRing

\* Nodes of the ring are in use.
LEMMA RingInUse ==
  ASSUME NEW c, NEW m, NEW n, NEW i, NEW cursor, NEW end, IsRing(c, m, n, i, cursor, end),
         NEW k \in 1..n
  PROVE  c[k] \in Nodes /\ m[c[k]] # Free
<1>1. n \in Nat /\ c \in [1..n -> Nodes]
  BY Zenon DEF IsRing
<1>2. c[k] \in Nodes /\ Succ(k, n) \in 1..n
  BY <1>1 DEF Succ
<1>3. m[c[k]].next \in Nodes
  BY <1>1, <1>2, Zenon DEF IsRing
<1>4. m[c[k]].next # Nil
  BY <1>3, ListAssumption, Zenon
<1> QED
  BY <1>2, <1>4 DEF Free

\* The first node.
LEMMA FirstRing ==
  ASSUME NEW m, NEW x \in Nodes, m[x].next = x, m[x].previous = x,
         \A y \in Nodes : y # x => m[y] = Free
  PROVE  IsRing(<<x>>, m, 1, 0, x, x)
<1>1. <<x>> \in [1..1 -> Nodes] /\ <<x>>[1] = x
  OBVIOUS
<1>2. \A k \in 1..1 : k = 1 /\ Succ(k, 1) = 1 /\ Pred(k, 1) = 1
  BY DEF Succ, Pred
<1> QED
  BY <1>1, <1>2 DEF IsRing

\* In m2 the node x with value v is linked in between end and head.
Inserted(m, m2, x, head, end, v) ==
    \A y \in Nodes :
        /\ m2[y].next = IF y = x THEN head ELSE IF y = end THEN x ELSE m[y].next
        /\ m2[y].previous = IF y = x THEN end ELSE IF y = head THEN x ELSE m[y].previous
        /\ m2[y].value = IF y = x THEN v ELSE m[y].value
        /\ y \notin {x, head, end} => m2[y] = m[y]

\* A node is linked in between the last one and the first one.
LEMMA AddRing ==
  ASSUME NEW c, NEW m, NEW n, NEW i, NEW cursor, NEW end, IsRing(c, m, n, i, cursor, end),
         n > 0, NEW x \in Nodes, m[x] = Free, NEW m2, NEW v, Inserted(m, m2, x, c[1], c[n], v),
         NEW d, d = [k \in 1..(n + 1) |-> IF k = n + 1 THEN x ELSE c[k]]
  PROVE  IsRing(d, m2, n + 1, i, cursor, x)
<1>1. n \in Nat /\ i \in Nat /\ i < n /\ end = c[n] /\ cursor = c[i + 1] /\ c \in [1..n -> Nodes]
  BY Zenon DEF IsRing
<1>2. \A k \in 1..n : c[k] \in Nodes /\ c[k] # x
  <2> SUFFICES ASSUME NEW k \in 1..n PROVE c[k] \in Nodes /\ c[k] # x
    OBVIOUS
  <2>1. c[k] \in Nodes /\ m[c[k]] # Free
    BY RingInUse, Zenon
  <2> QED
    BY <2>1, Zenon
<1>a. \A k \in 1..n : m[c[k]].next = c[Succ(k, n)] /\ m[c[k]].previous = c[Pred(k, n)]
  BY Zenon DEF IsRing
<1>b. \A y \in Nodes : m[y] # Free => \E k \in 1..n : y = c[k]
  BY Zenon DEF IsRing
<1>c. /\ m2[x].next = c[1] /\ m2[x].previous = c[n]
      /\ \A y \in Nodes : /\ y # x => m2[y].next = IF y = c[n] THEN x ELSE m[y].next
                          /\ y # x => m2[y].previous = IF y = c[1] THEN x ELSE m[y].previous
                          /\ y \notin {x, c[1], c[n]} => m2[y] = m[y]
  BY Zenon DEF Inserted
<1>3. \A j, k \in 1..n : c[j] = c[k] => j = k
  BY Zenon DEF IsRing
<1>4. d[n + 1] = x /\ \A k \in 1..n : d[k] = c[k]
  BY <1>1
<1>5. d \in [1..(n + 1) -> Nodes]
  BY <1>1, <1>2
<1>6. \A k \in 1..(n + 1) : k = n + 1 \/ k \in 1..n
  BY <1>1
<1>7. \A j, k \in 1..(n + 1) : d[j] = d[k] => j = k
  BY <1>2, <1>3, <1>4, <1>6, Zenon
<1>8. ASSUME NEW k \in 1..(n + 1) PROVE m2[d[k]].next = d[Succ(k, n + 1)]
  <2>1. CASE k = n + 1
    <3>1. Succ(k, n + 1) = 1 /\ 1 \in 1..n
      BY <1>1, <2>1 DEF Succ
    <3> QED
      BY ONLY <1>4, <1>c, <2>1, <3>1, Zenon
  <2>2. CASE k = n
    <3>1. Succ(k, n + 1) = n + 1 /\ n \in 1..n
      BY <1>1, <2>2 DEF Succ
    <3> QED
      BY <1>2, <1>4, <1>c, <2>2, <3>1, Zenon
  <2>3. CASE k # n /\ k # n + 1
    <3>1. k \in 1..n /\ n \in 1..n /\ Succ(k, n) = k + 1 /\ Succ(k, n + 1) = k + 1 /\ k + 1 \in 1..n
      BY <1>1, <2>3 DEF Succ
    <3>2. c[k] # c[n] /\ c[k] # x /\ c[k] \in Nodes
      BY <1>2, <1>3, <2>3, <3>1, Zenon
    <3>3. m[c[k]].next = c[k + 1]
      BY ONLY <1>a, <3>1, Zenon
    <3>4. m2[c[k]].next = m[c[k]].next
      BY <1>c, <3>2, Zenon
    <3> QED
      BY <1>4, <3>1, <3>3, <3>4, Zenon
  <2> QED
    BY <2>1, <2>2, <2>3, Zenon
<1>9. ASSUME NEW k \in 1..(n + 1) PROVE m2[d[k]].previous = d[Pred(k, n + 1)]
  <2>1. CASE k = n + 1
    <3>1. Pred(k, n + 1) = n /\ n \in 1..n
      BY <1>1, <2>1 DEF Pred
    <3> QED
      BY ONLY <1>4, <1>c, <2>1, <3>1, Zenon
  <2>2. CASE k = 1
    <3>1. Pred(k, n + 1) = n + 1 /\ 1 \in 1..n
      BY <1>1, <2>2 DEF Pred
    <3> QED
      BY <1>2, <1>4, <1>c, <2>2, <3>1, Zenon
  <2>3. CASE k # 1 /\ k # n + 1
    <3>1. k \in 1..n /\ 1 \in 1..n /\ Pred(k, n) = k - 1 /\ Pred(k, n + 1) = k - 1 /\ k - 1 \in 1..n
      BY <1>1, <2>3 DEF Pred
    <3>2. c[k] # c[1] /\ c[k] # x /\ c[k] \in Nodes
      BY <1>2, <1>3, <2>3, <3>1, Zenon
    <3>3. m[c[k]].previous = c[k - 1]
      BY ONLY <1>a, <3>1, Zenon
    <3>4. m2[c[k]].previous = m[c[k]].previous
      BY <1>c, <3>2, Zenon
    <3> QED
      BY <1>4, <3>1, <3>3, <3>4, Zenon
  <2> QED
    BY <2>1, <2>2, <2>3, Zenon
<1>10. ASSUME NEW y \in Nodes, m2[y] # Free PROVE \E k \in 1..(n + 1) : y = d[k]
  <2>1. n + 1 \in 1..(n + 1) /\ 1 \in 1..n /\ n \in 1..n /\ \A k \in 1..n : k \in 1..(n + 1)
    BY <1>1
  <2>2. CASE y \in {x, c[1], c[n]}
    BY <1>4, <2>1, <2>2, Zenon
  <2>3. CASE y \notin {x, c[1], c[n]}
    <3>1. m[y] # Free
      BY <1>c, <1>10, <2>3, Zenon
    <3> QED
      BY ONLY <1>4, <1>b, <2>1, <3>1, y \in Nodes, Zenon
  <2> QED
    BY <2>2, <2>3, Zenon
<1>11. n + 1 \in Nat /\ n + 1 > 0 /\ i < n + 1 /\ i + 1 \in 1..n /\ n + 1 # 0
  BY <1>1
<1> QED
  BY <1>1, <1>4, <1>5, <1>7, <1>8, <1>9, <1>10, <1>11, Zenon DEF IsRing

\* Where the k-th node was before the p-th was taken out.
Old(k, p) == IF k < p THEN k ELSE k + 1

\* Successors and predecessors once the p-th of n is taken out.
LEMMA Neighbours ==
  ASSUME NEW n \in Nat, n > 1, NEW p \in 1..n, NEW k \in 1..(n - 1)
  PROVE  LET o == Old(k, p)
         IN  /\ o \in 1..n /\ o # p
             /\ Succ(o, n) \in 1..n /\ Pred(o, n) \in 1..n
             /\ Succ(k, n - 1) \in 1..(n - 1) /\ Pred(k, n - 1) \in 1..(n - 1)
             /\ Old(Succ(k, n - 1), p) = IF o = Pred(p, n) THEN Succ(p, n) ELSE Succ(o, n)
             /\ Old(Pred(k, n - 1), p) = IF o = Succ(p, n) THEN Pred(p, n) ELSE Pred(o, n)
BY DEF Old, Succ, Pred

\* In m2 the node x between previous and next is unlinked and freed.
Unlinked(m, m2, x, next, previous) ==
    /\ m2[x] = Free
    /\ \A y \in Nodes : y # x =>
          /\ m2[y].next = IF y = previous THEN next ELSE m[y].next
          /\ m2[y].previous = IF y = next THEN previous ELSE m[y].previous
          /\ m2[y].value = m[y].value
          /\ y \notin {next, previous} => m2[y] = m[y]

\* A node is unlinked: its neighbours are linked to each other.
LEMMA RemoveRing ==
  ASSUME NEW c, NEW m, NEW n, NEW i, NEW cursor, NEW end, IsRing(c, m, n, i, cursor, end),
         n > 1, NEW p \in 1..n, NEW m2, Unlinked(m, m2, c[p], c[Succ(p, n)], c[Pred(p, n)]),
         NEW d, d = [k \in 1..(n - 1) |-> c[Old(k, p)]]
  PROVE  IsRing(d, m2, n - 1, IF p = n THEN 0 ELSE p - 1, c[Succ(p, n)],
                IF p = n THEN c[Pred(p, n)] ELSE c[n])
<1>1. n \in Nat /\ c \in [1..n -> Nodes]
  BY Zenon DEF IsRing
<1>2. \A j, k \in 1..n : c[j] = c[k] => j = k
  BY Zenon DEF IsRing
<1>3. \A k \in 1..n : m[c[k]].next = c[Succ(k, n)] /\ m[c[k]].previous = c[Pred(k, n)]
  BY Zenon DEF IsRing
<1>4. \A y \in Nodes : m[y] # Free => \E k \in 1..n : y = c[k]
  BY Zenon DEF IsRing
<1>5. \A y \in Nodes : y # c[p] =>
             /\ m2[y].next = IF y = c[Pred(p, n)] THEN c[Succ(p, n)] ELSE m[y].next
             /\ m2[y].previous = IF y = c[Succ(p, n)] THEN c[Pred(p, n)] ELSE m[y].previous
             /\ y \notin {c[Succ(p, n)], c[Pred(p, n)]} => m2[y] = m[y]
  BY Zenon DEF Unlinked
<1>6. Succ(p, n) \in 1..n /\ Pred(p, n) \in 1..n
  BY <1>1 DEF Succ, Pred
<1>7. \A k \in 1..(n - 1) :
        /\ Old(k, p) \in 1..n /\ Old(k, p) # p
        /\ Succ(Old(k, p), n) \in 1..n /\ Pred(Old(k, p), n) \in 1..n
        /\ Succ(k, n - 1) \in 1..(n - 1) /\ Pred(k, n - 1) \in 1..(n - 1)
        /\ Old(Succ(k, n - 1), p) = IF Old(k, p) = Pred(p, n) THEN Succ(p, n) ELSE Succ(Old(k, p), n)
        /\ Old(Pred(k, n - 1), p) = IF Old(k, p) = Succ(p, n) THEN Pred(p, n) ELSE Pred(Old(k, p), n)
  BY <1>1, Neighbours, Zenon
<1>8. \A k \in 1..(n - 1) : d[k] = c[Old(k, p)] /\ c[Old(k, p)] \in Nodes /\ c[Old(k, p)] # c[p]
  <2>1. \A k \in 1..(n - 1) : d[k] = c[Old(k, p)]
    BY Zenon
  <2>2. \A k \in 1..n : c[k] \in Nodes
    BY <1>1, Zenon
  <2> QED
    BY ONLY <1>2, <1>7, <2>1, <2>2, p \in 1..n, Zenon
<1>9. d \in [1..(n - 1) -> Nodes]
  BY <1>8, Zenon
<1>10. \A j, k \in 1..(n - 1) : d[j] = d[k] => j = k
  <2> SUFFICES ASSUME NEW j \in 1..(n - 1), NEW k \in 1..(n - 1), d[j] = d[k] PROVE j = k
    OBVIOUS
  <2>1. Old(j, p) = Old(k, p)
    <3>1. c[Old(j, p)] = c[Old(k, p)] /\ Old(j, p) \in 1..n /\ Old(k, p) \in 1..n
      BY <1>7, <1>8, Zenon
    <3> QED
      BY <1>2, <3>1, Zenon
  <2> QED
    BY <1>1, <2>1 DEF Old
<1>11. ASSUME NEW k \in 1..(n - 1)
       PROVE  m2[d[k]].next = d[Succ(k, n - 1)] /\ m2[d[k]].previous = d[Pred(k, n - 1)]
  <2> DEFINE o == Old(k, p)
  <2>1. /\ o \in 1..n /\ Succ(o, n) \in 1..n /\ Pred(o, n) \in 1..n /\ d[k] = c[o]
        /\ c[o] \in Nodes /\ c[o] # c[p]
    BY <1>7, <1>8, Zenon
  <2>2. d[Succ(k, n - 1)] = c[IF o = Pred(p, n) THEN Succ(p, n) ELSE Succ(o, n)]
    BY <1>7, <1>8, Zenon
  <2>3. d[Pred(k, n - 1)] = c[IF o = Succ(p, n) THEN Pred(p, n) ELSE Pred(o, n)]
    BY <1>7, <1>8, Zenon
  <2>4. /\ m2[c[o]].next = IF c[o] = c[Pred(p, n)] THEN c[Succ(p, n)] ELSE m[c[o]].next
        /\ m2[c[o]].previous = IF c[o] = c[Succ(p, n)] THEN c[Pred(p, n)] ELSE m[c[o]].previous
    BY <1>5, <2>1, Zenon
  <2>5. (c[o] = c[Pred(p, n)]) = (o = Pred(p, n)) /\ (c[o] = c[Succ(p, n)]) = (o = Succ(p, n))
    BY ONLY <1>2, <1>6, <2>1, Zenon
  <2>6. m[c[o]].next = c[Succ(o, n)] /\ m[c[o]].previous = c[Pred(o, n)]
    BY ONLY <1>3, <2>1, Zenon
  <2> HIDE DEF o
  <2> QED
    BY ONLY <2>1, <2>2, <2>3, <2>4, <2>5, <2>6, Zenon
<1>12. ASSUME NEW y \in Nodes, m2[y] # Free PROVE \E k \in 1..(n - 1) : y = d[k]
  <2>1. y # c[p] /\ m[y] # Free
    <3>1. y # c[p]
      BY <1>12, Zenon DEF Unlinked
    <3>2. CASE y \in {c[Succ(p, n)], c[Pred(p, n)]}
      BY <1>6, <3>1, <3>2, RingInUse, Zenon
    <3>3. CASE y \notin {c[Succ(p, n)], c[Pred(p, n)]}
      BY <1>5, <1>12, <3>1, <3>3, Zenon
    <3> QED
      BY <3>1, <3>2, <3>3, Zenon
  <2>2. PICK j \in 1..n : y = c[j]
    BY <1>4, <2>1, Zenon
  <2>3. j # p
    BY <2>1, <2>2, Zenon
  <2>4. \E k \in 1..(n - 1) : Old(k, p) = j
    <3>1. CASE j < p
      <4>1. j \in 1..(n - 1) /\ Old(j, p) = j
        BY <1>1, <3>1 DEF Old
      <4> QED
        BY <4>1, Zenon
    <3>2. CASE j > p
      <4>1. j - 1 \in 1..(n - 1) /\ Old(j - 1, p) = j
        BY <1>1, <3>2 DEF Old
      <4> QED
        BY <4>1, Zenon
    <3> QED
      BY <1>1, <2>3, <3>1, <3>2
  <2> QED
    BY <1>8, <2>2, <2>4, Zenon
<1>13. n - 1 \in Nat /\ n - 1 > 0 /\ n - 1 # 0 /\ n - 1 \in 1..(n - 1) /\ 1 \in 1..(n - 1)
  BY <1>1
<1>14. (IF p = n THEN c[Pred(p, n)] ELSE c[n]) = d[n - 1]
  <2>1. Old(n - 1, p) = IF p = n THEN Pred(p, n) ELSE n
    BY <1>1 DEF Old, Pred
  <2> QED
    BY <1>8, <1>13, <2>1, Zenon
<1> DEFINE j == IF p = n THEN 0 ELSE p - 1
<1>15. j \in Nat /\ j < n - 1 /\ j + 1 \in 1..(n - 1) /\ Old(j + 1, p) = Succ(p, n)
  BY <1>1 DEF Old, Succ
<1>16. c[Succ(p, n)] = d[j + 1]
  BY <1>8, <1>15, Zenon
<1> HIDE DEF j
<1>17. IsRing(d, m2, n - 1, j, c[Succ(p, n)], IF p = n THEN c[Pred(p, n)] ELSE c[n])
  BY ONLY <1>9, <1>10, <1>11, <1>12, <1>13, <1>14, <1>15, <1>16, Zenon DEF IsRing
<1> QED
  BY <1>17, Zenon DEF j

-----------------------------------------------------------------------------
(* The memory after an operation *)

\* The assignments of list_addValue, in terms of the memory.
LinkIn(m, m2, x, head, end, v) ==
    LET linked == [m EXCEPT ![x] = [next |-> head, previous |-> end, value |-> v],
                            ![head].previous = x]
    IN  m2 = [linked EXCEPT ![end].next = x]

LinkFirst(m, m2, x, v) == m2 = [m EXCEPT ![x] = [next |-> x, previous |-> x, value |-> v]]

\* Those of list_removeValue.
LinkOut(m, m2, x, next, previous) ==
    LET linked == [m EXCEPT ![next].previous = previous]
    IN  m2 = [[linked EXCEPT ![previous].next = next] EXCEPT ![x] = Free]

\* What the assignments of list_addValue do to each node.
LEMMA LinkedIn ==
  ASSUME NEW m \in Memory, NEW x \in Nodes, NEW head \in Nodes, NEW end \in Nodes,
         x # head, x # end, NEW v \in Pointers, NEW m2, LinkIn(m, m2, x, head, end, v)
  PROVE  m2 \in Memory /\ Inserted(m, m2, x, head, end, v)
<1> DEFINE linked == [m EXCEPT ![x] = [next |-> head, previous |-> end, value |-> v],
                               ![head].previous = x]
<1>1. linked = [y \in Nodes |-> IF y = x THEN [next |-> head, previous |-> end, value |-> v]
                                ELSE IF y = head THEN [m[head] EXCEPT !.previous = x] ELSE m[y]]
  BY Zenon DEF Memory
<1>2. linked \in Memory
  BY <1>1 DEF Memory
<1>3. m2 = [y \in Nodes |-> IF y = end THEN [linked[end] EXCEPT !.next = x] ELSE linked[y]]
  BY <1>2, Zenon DEF Memory, LinkIn
<1>4. m2 \in Memory
  BY <1>2, <1>3 DEF Memory
<1>5. ASSUME NEW y \in Nodes
      PROVE  /\ m2[y].next = IF y = x THEN head ELSE IF y = end THEN x ELSE m[y].next
             /\ m2[y].previous = IF y = x THEN end ELSE IF y = head THEN x ELSE m[y].previous
             /\ y \notin {x, head, end} => m2[y] = m[y]
             /\ m2[y].value = IF y = x THEN v ELSE m[y].value
  <2> HIDE DEF linked
  <2>1. /\ linked[y].next = IF y = x THEN head ELSE m[y].next
        /\ linked[y].previous = IF y = x THEN end ELSE IF y = head THEN x ELSE m[y].previous
        /\ linked[y].value = IF y = x THEN v ELSE m[y].value
        /\ y \notin {x, head} => linked[y] = m[y]
    BY <1>1, Zenon DEF Memory
  <2>2. /\ m2[y].next = IF y = end THEN x ELSE linked[y].next
        /\ m2[y].previous = linked[y].previous
        /\ m2[y].value = linked[y].value
        /\ y # end => m2[y] = linked[y]
    BY <1>2, <1>3, Zenon DEF Memory
  <2> QED
    BY <2>1, <2>2, Zenon
<1> QED
  BY <1>4, <1>5, Zenon DEF Inserted

\* What the assignments of list_removeValue do to each node.
LEMMA LinkedOut ==
  ASSUME NEW m \in Memory, NEW x \in Nodes, NEW next \in Nodes, NEW previous \in Nodes,
         x # next, x # previous, NEW m2, LinkOut(m, m2, x, next, previous)
  PROVE  m2 \in Memory /\ Unlinked(m, m2, x, next, previous)
<1> DEFINE linked == [m EXCEPT ![next].previous = previous]
           both == [linked EXCEPT ![previous].next = next]
<1>1. linked = [y \in Nodes |-> IF y = next THEN [m[next] EXCEPT !.previous = previous] ELSE m[y]]
  BY Zenon DEF Memory
<1>2. linked \in Memory
  BY <1>1, Zenon DEF Memory
<1> HIDE DEF linked
<1>3. both = [y \in Nodes |-> IF y = previous THEN [linked[previous] EXCEPT !.next = next] ELSE linked[y]]
  BY <1>2, Zenon DEF Memory
<1>4. both \in Memory
  BY <1>2, <1>3, Zenon DEF Memory
<1>5. m2 = [y \in Nodes |-> IF y = x THEN Free ELSE both[y]]
  BY <1>4, Zenon DEF Memory, linked, LinkOut
<1> HIDE DEF both
<1>6. m2 \in Memory /\ m2[x] = Free
  BY <1>4, <1>5, Zenon DEF Memory, Free
<1>7. ASSUME NEW y \in Nodes, y # x
      PROVE  /\ m2[y].next = IF y = previous THEN next ELSE m[y].next
             /\ m2[y].previous = IF y = next THEN previous ELSE m[y].previous
             /\ m2[y].value = m[y].value
             /\ y \notin {next, previous} => m2[y] = m[y]
  <2>1. m2[y] = both[y]
    BY <1>5, <1>7, Zenon
  <2>2. /\ linked[y].next = m[y].next
        /\ linked[y].previous = IF y = next THEN previous ELSE m[y].previous
        /\ linked[y].value = m[y].value
        /\ y # next => linked[y] = m[y]
    BY <1>1, Zenon DEF Memory
  <2>3. /\ both[y].next = IF y = previous THEN next ELSE linked[y].next
        /\ both[y].previous = linked[y].previous
        /\ both[y].value = linked[y].value
        /\ y # previous => both[y] = linked[y]
    BY <1>2, <1>3, Zenon DEF Memory
  <2> QED
    BY <2>1, <2>2, <2>3, Zenon
<1> QED
  BY <1>6, <1>7, Zenon DEF Unlinked

\* The values along the ring.
Along(c, m, n) == [k \in 1..n |-> m[c[k]].value]

\* The values along a ring are a sequence.
LEMMA AlongSeq ==
  ASSUME NEW m \in Memory, NEW n \in Nat, NEW c \in [1..n -> Nodes]
  PROVE  /\ Along(c, m, n) \in Seq(Pointers \union {Nil})
         /\ Len(Along(c, m, n)) = n
         /\ \A k \in 1..n : Along(c, m, n)[k] = m[c[k]].value
<1>1. \A k \in 1..n : m[c[k]].value \in Pointers \union {Nil}
  BY Zenon DEF Memory
<1> QED
  BY <1>1 DEF Along

\* A sequence with one more value is what Append makes of it.
LEMMA OneMore ==
  ASSUME NEW S, NEW s \in Seq(S), NEW v \in S
  PROVE  [k \in 1..(Len(s) + 1) |-> IF k = Len(s) + 1 THEN v ELSE s[k]] = Append(s, v)
<1> DEFINE t == [k \in 1..(Len(s) + 1) |-> IF k = Len(s) + 1 THEN v ELSE s[k]]
<1>1. Len(s) \in Nat /\ \A k \in 1..Len(s) : s[k] \in S
  BY LenProperties, ElementOfSeq, Zenon
<1>2. t \in Seq(S) /\ Len(t) = Len(s) + 1
  BY <1>1
<1>3. /\ Append(s, v) \in Seq(S) /\ Len(Append(s, v)) = Len(s) + 1
      /\ Append(s, v)[Len(s) + 1] = v /\ \A k \in 1..Len(s) : Append(s, v)[k] = s[k]
  BY AppendProperties
<1>4. \A k \in 1..Len(t) : t[k] = Append(s, v)[k]
  BY <1>1, <1>2, <1>3
<1> QED
  BY <1>2, <1>3, <1>4, SeqEqual, Zenon

\* A heap that holds a list of the values s.
Holds(s, m, n, i, cursor, end) ==
    /\ m \in Memory
    /\ \E c : IsRing(c, m, n, i, cursor, end) /\ Along(c, m, n) = s
    /\ n = 0 => cursor = Nil /\ end = Nil

\* The links of list_addValue add a value at the end of a list that is not empty.
LEMMA AddsOne ==
  ASSUME NEW s, NEW m, NEW n, NEW i, NEW cursor, NEW end, Holds(s, m, n, i, cursor, end),
         n > 0, NEW x \in Nodes, m[x] = Free, NEW v \in Pointers, NEW m2,
         LinkIn(m, m2, x, m[end].next, end, v)
  PROVE  Holds(Append(s, v), m2, n + 1, i, cursor, x)
<1> PICK c : IsRing(c, m, n, i, cursor, end) /\ Along(c, m, n) = s
  BY Zenon DEF Holds
<1>1. n \in Nat /\ c \in [1..n -> Nodes] /\ m \in Memory
  BY Zenon DEF IsRing, Holds
<1>2. n > 0 /\ n \in 1..n /\ 1 \in 1..n /\ Succ(n, n) = 1
  BY <1>1 DEF Succ
<1>3. end = c[n] /\ m[end].next = c[1] /\ c[1] \in Nodes /\ c[n] \in Nodes
  BY <1>1, <1>2, Zenon DEF IsRing
<1>4. \A k \in 1..n : c[k] \in Nodes /\ c[k] # x
  <2> SUFFICES ASSUME NEW k \in 1..n PROVE c[k] \in Nodes /\ c[k] # x
    OBVIOUS
  <2>1. c[k] \in Nodes /\ m[c[k]] # Free
    BY RingInUse, Zenon
  <2> QED
    BY <2>1, Zenon
<1>5. LinkIn(m, m2, x, c[1], c[n], v)
  BY <1>3, Zenon
<1>6. x # c[1] /\ x # c[n]
  BY <1>2, <1>4, Zenon
<1>7. m2 \in Memory /\ Inserted(m, m2, x, c[1], c[n], v)
  BY <1>1, <1>3, <1>5, <1>6, LinkedIn, Zenon
<1>8. PICK d : d = [k \in 1..(n + 1) |-> IF k = n + 1 THEN x ELSE c[k]]
  BY Zenon
<1>9. IsRing(d, m2, n + 1, i, cursor, x)
  BY <1>2, <1>7, <1>8, AddRing, Zenon
<1>10. \A y \in Nodes : m2[y].value = IF y = x THEN v ELSE m[y].value
  BY <1>7, Zenon DEF Inserted
<1>11. s \in Seq(Pointers \union {Nil}) /\ Len(s) = n /\ \A k \in 1..n : s[k] = m[c[k]].value
  BY <1>1, AlongSeq, Zenon
<1>12. ASSUME NEW k \in 1..(n + 1) PROVE m2[d[k]].value = IF k = n + 1 THEN v ELSE s[k]
  <2>1. CASE k = n + 1
    <3>1. d[k] = x
      BY <1>8, <2>1, Zenon
    <3> QED
      BY <1>10, <2>1, <3>1, Zenon
  <2>2. CASE k # n + 1
    <3>1. k \in 1..n /\ d[k] = c[k]
      BY <1>1, <1>8, <2>2
    <3>2. m2[c[k]].value = m[c[k]].value
      BY <1>4, <1>10, <3>1, Zenon
    <3> QED
      BY <1>11, <2>2, <3>1, <3>2, Zenon
  <2> QED
    BY <2>1, <2>2, Zenon
<1>13. Along(d, m2, n + 1) = [k \in 1..(Len(s) + 1) |-> IF k = Len(s) + 1 THEN v ELSE s[k]]
  BY <1>11, <1>12, Zenon DEF Along
<1>14. Along(d, m2, n + 1) = Append(s, v)
  <2> SUFFICES [k \in 1..(Len(s) + 1) |-> IF k = Len(s) + 1 THEN v ELSE s[k]] = Append(s, v)
    BY <1>13, Zenon
  <2> QED
    BY ONLY <1>11, OneMore, v \in Pointers
<1> QED
  BY <1>1, <1>7, <1>9, <1>14 DEF Holds

\* Its links of the first value.
LEMMA AddsFirst ==
  ASSUME NEW s, NEW m, NEW i, NEW cursor, NEW end, Holds(s, m, 0, i, cursor, end),
         NEW x \in Nodes, NEW v \in Pointers, NEW m2,
         LinkFirst(m, m2, x, v)
  PROVE  Holds(Append(s, v), m2, 1, 0, x, x) /\ i = 0
<1>1. PICK c : IsRing(c, m, 0, i, cursor, end) /\ Along(c, m, 0) = s
  BY Zenon DEF Holds
<1>2. i = 0 /\ \A y \in Nodes : m[y] = Free
  BY <1>1 DEF IsRing
<1>3. /\ m2 \in Memory /\ m2[x].next = x /\ m2[x].previous = x /\ m2[x].value = v
      /\ \A y \in Nodes : y # x => m2[y] = Free
  BY <1>2, Zenon DEF Holds, Memory, LinkFirst
<1>4. IsRing(<<x>>, m2, 1, 0, x, x)
  BY <1>3, FirstRing, Zenon
<1>5. Along(<<x>>, m2, 1) = <<v>> /\ s = <<>>
  BY <1>1, <1>3 DEF Along
<1>6. Append(s, v) = <<v>>
  BY <1>5
<1>7. 1 # 0
  OBVIOUS
<1> QED
  BY <1>2, <1>3, <1>4, <1>5, <1>6, <1>7, Zenon DEF Holds

\* A sequence without its p-th value.
Without(s, p) == SubSeq(s, 1, p - 1) \o SubSeq(s, p + 1, Len(s))

\* It is the sequence that skips the p-th.
LEMMA Taken ==
  ASSUME NEW S, NEW s \in Seq(S), NEW p \in 1..Len(s)
  PROVE  [k \in 1..(Len(s) - 1) |-> s[Old(k, p)]] = Without(s, p)
<1> DEFINE t == [k \in 1..(Len(s) - 1) |-> s[Old(k, p)]]
           a == SubSeq(s, 1, p - 1)
           b == SubSeq(s, p + 1, Len(s))
<1>1. Len(s) \in Nat /\ \A k \in 1..Len(s) : s[k] \in S
  BY LenProperties, ElementOfSeq, Zenon
<1>2. \A k \in 1..(Len(s) - 1) : Old(k, p) \in 1..Len(s)
  BY <1>1 DEF Old
<1>3. t \in Seq(S) /\ Len(t) = Len(s) - 1
  <2>1. Len(s) - 1 \in Nat
    BY <1>1
  <2> QED
    BY <1>1, <1>2, <2>1
<1>4. a \in Seq(S) /\ Len(a) = p - 1 /\ \A k \in 1..(p - 1) : a[k] = s[k]
  <2>1. SubSeq(s, 1, p - 1) \in Seq(S)
    BY <1>1
  <2> QED
    BY <1>1, <2>1
<1>5. b \in Seq(S) /\ Len(b) = Len(s) - p /\ \A k \in 1..(Len(s) - p) : b[k] = s[p + k]
  <2>1. SubSeq(s, p + 1, Len(s)) \in Seq(S)
    BY <1>1
  <2> QED
    BY <1>1, <2>1
<1> HIDE DEF a, b
<1>6. a \o b \in Seq(S) /\ Len(a \o b) = Len(s) - 1
      /\ \A k \in 1..(Len(s) - 1) : (a \o b)[k] = IF k <= p - 1 THEN a[k] ELSE b[k - (p - 1)]
  <2>1. /\ a \o b \in Seq(S) /\ Len(a \o b) = Len(a) + Len(b)
        /\ \A k \in 1..(Len(a) + Len(b)) :
               (a \o b)[k] = IF k <= Len(a) THEN a[k] ELSE b[k - Len(a)]
    BY <1>4, <1>5, ConcatProperties, Zenon
  <2>2. Len(a) + Len(b) = Len(s) - 1
    BY <1>1, <1>4, <1>5
  <2> QED
    BY <1>4, <2>1, <2>2, Zenon
<1>7. ASSUME NEW k \in 1..(Len(s) - 1) PROVE t[k] = (a \o b)[k]
  <2>1. CASE k < p
    <3>1. k \in 1..(p - 1) /\ k <= p - 1 /\ Old(k, p) = k
      BY <1>1, <2>1 DEF Old
    <3> QED
      BY <1>4, <1>6, <3>1, Zenon
  <2>2. CASE ~ (k < p)
    <3>1. /\ k - (p - 1) \in 1..(Len(s) - p) /\ ~ (k <= p - 1) /\ Old(k, p) = k + 1
          /\ p + (k - (p - 1)) = k + 1
      BY <1>1, <2>2 DEF Old
    <3> QED
      BY <1>5, <1>6, <3>1, Zenon
  <2> QED
    BY <2>1, <2>2, Zenon
<1>8. t = a \o b
  BY <1>3, <1>6, <1>7, SeqEqual, Zenon
<1> QED
  BY <1>8, Zenon DEF Without, a, b

\* The links of list_removeValue take out the p-th value of several.
LEMMA RemovesOne ==
  ASSUME NEW c, NEW m \in Memory, NEW n, NEW i, NEW cursor, NEW end, IsRing(c, m, n, i, cursor, end),
         n > 1, NEW p \in 1..n, NEW m2,
         LinkOut(m, m2, c[p], m[c[p]].next, m[c[p]].previous)
  PROVE  Holds(Without(Along(c, m, n), p), m2, n - 1, (p - 1) % (n - 1), m[c[p]].next,
               IF p = n THEN m[c[p]].previous ELSE end)
<1>1. n \in Nat /\ c \in [1..n -> Nodes] /\ end = c[n]
  BY DEF IsRing
<1>2. Succ(p, n) \in 1..n /\ Pred(p, n) \in 1..n /\ Succ(p, n) # p /\ Pred(p, n) # p
  BY <1>1 DEF Succ, Pred
<1>3. m[c[p]].next = c[Succ(p, n)] /\ m[c[p]].previous = c[Pred(p, n)]
  BY Zenon DEF IsRing
<1>4. c[p] \in Nodes /\ c[Succ(p, n)] \in Nodes /\ c[Pred(p, n)] \in Nodes
  BY <1>1, <1>2, Zenon
<1>5. c[p] # c[Succ(p, n)] /\ c[p] # c[Pred(p, n)]
  BY <1>2, Zenon DEF IsRing
<1>6. LinkOut(m, m2, c[p], c[Succ(p, n)], c[Pred(p, n)])
  BY <1>3, Zenon
<1>7. m2 \in Memory /\ Unlinked(m, m2, c[p], c[Succ(p, n)], c[Pred(p, n)])
  BY <1>4, <1>5, <1>6, LinkedOut, Zenon
<1>8. PICK d : d = [k \in 1..(n - 1) |-> c[Old(k, p)]]
  BY Zenon
<1>9. IsRing(d, m2, n - 1, IF p = n THEN 0 ELSE p - 1, c[Succ(p, n)],
             IF p = n THEN c[Pred(p, n)] ELSE c[n])
  BY <1>7, <1>8, RemoveRing, Zenon
<1>10. (p - 1) % (n - 1) = IF p = n THEN 0 ELSE p - 1
  BY <1>1, SMT
<1>11. IsRing(d, m2, n - 1, (p - 1) % (n - 1), m[c[p]].next,
              IF p = n THEN m[c[p]].previous ELSE end)
  BY <1>1, <1>3, <1>9, <1>10, Zenon
<1>12. /\ Along(c, m, n) \in Seq(Pointers \union {Nil}) /\ Len(Along(c, m, n)) = n
       /\ \A k \in 1..n : Along(c, m, n)[k] = m[c[k]].value
  BY <1>1, AlongSeq, Zenon
<1>13. ASSUME NEW k \in 1..(n - 1) PROVE m2[d[k]].value = Along(c, m, n)[Old(k, p)]
  <2>1. Old(k, p) \in 1..n /\ Old(k, p) # p
    BY <1>1 DEF Old
  <2>2. c[Old(k, p)] \in Nodes /\ c[Old(k, p)] # c[p]
    <3>1. c[Old(k, p)] # c[p]
      BY <2>1, Zenon DEF IsRing
    <3> QED
      BY <1>1, <2>1, <3>1, Zenon
  <2>3. m2[c[Old(k, p)]].value = m[c[Old(k, p)]].value
    BY <1>7, <2>2, Zenon DEF Unlinked
  <2>4. d[k] = c[Old(k, p)]
    BY <1>8, Zenon
  <2> QED
    BY <1>12, <2>1, <2>3, <2>4, Zenon
<1>14. Along(d, m2, n - 1) = [k \in 1..(Len(Along(c, m, n)) - 1) |-> Along(c, m, n)[Old(k, p)]]
  BY <1>12, <1>13, Zenon DEF Along
<1>15. Along(d, m2, n - 1) = Without(Along(c, m, n), p)
  <2>1. p \in 1..Len(Along(c, m, n))
    BY <1>12, Zenon
  <2>2. [k \in 1..(Len(Along(c, m, n)) - 1) |-> Along(c, m, n)[Old(k, p)]] = Without(Along(c, m, n), p)
    BY ONLY <1>12, <2>1, Taken, Zenon
  <2> QED
    BY <1>14, <2>2, Zenon
<1>16. ~ (n - 1 = 0)
  BY <1>1
<1> QED
  BY <1>7, <1>11, <1>15, <1>16, Zenon DEF Holds

\* A heap without nodes holds the empty list.
LEMMA HoldsNone ==
  ASSUME NEW m \in Memory, \A x \in Nodes : m[x] = Free
  PROVE  Holds(<<>>, m, 0, 0, Nil, Nil)
<1>1. IsRing(<<>>, m, 0, 0, Nil, Nil)
  BY EmptyRing, Zenon
<1>2. Along(<<>>, m, 0) = <<>>
  BY DEF Along
<1> QED
  BY <1>1, <1>2, Zenon DEF Holds

\* The cursor moves to the p-th value.
LEMMA MovesCursor ==
  ASSUME NEW c, NEW m \in Memory, NEW n, NEW i, NEW cursor, NEW end, IsRing(c, m, n, i, cursor, end),
         NEW p \in 1..n
  PROVE  Holds(Along(c, m, n), m, n, p - 1, c[p], end)
<1>1. n \in Nat
  BY Zenon DEF IsRing
<1>2. p - 1 \in 0..(n - 1) /\ (p - 1) + 1 = p /\ ~ (n = 0)
  BY <1>1
<1>3. IsRing(c, m, n, p - 1, c[(p - 1) + 1], end)
  BY <1>2, CursorRing, Zenon
<1>4. IsRing(c, m, n, p - 1, c[p], end)
  BY <1>2, <1>3, Zenon
<1> QED
  BY <1>2, <1>4, Zenon DEF Holds

\* The p-th value is replaced, the cursor is left there.
Stores(m, m2, x, w) == m2 = [m EXCEPT ![x].value = w]

\* The sequence of values then differs at p only.
LEMMA SetsOne ==
  ASSUME NEW c, NEW m \in Memory, NEW n, NEW i, NEW cursor, NEW end, IsRing(c, m, n, i, cursor, end),
         NEW p \in 1..n, NEW w \in Pointers \union {Nil}, NEW m2, Stores(m, m2, c[p], w)
  PROVE  Holds([Along(c, m, n) EXCEPT ![p] = w], m2, n, p - 1, c[p], end)
<1>1. n \in Nat /\ c \in [1..n -> Nodes] /\ c[p] \in Nodes /\ m[c[p]] # Free
  <2>1. n \in Nat /\ c \in [1..n -> Nodes]
    BY Zenon DEF IsRing
  <2> QED
    BY <2>1, RingInUse, Zenon
<1>2. /\ m2 \in Memory
      /\ \A x \in Nodes : m2[x].next = m[x].next /\ m2[x].previous = m[x].previous
      /\ \A x \in Nodes : m2[x].value = IF x = c[p] THEN w ELSE m[x].value
      /\ \A x \in Nodes : x # c[p] => m2[x] = m[x]
  BY <1>1, Zenon DEF Stores, Memory
<1>3. \A x \in Nodes : m2[x] # Free => m[x] # Free
  BY <1>1, <1>2, Zenon
<1>4. p - 1 \in 0..(n - 1) /\ (p - 1) + 1 = p /\ ~ (n = 0)
  BY <1>1
<1>5. IsRing(c, m2, n, p - 1, c[(p - 1) + 1], end)
  BY <1>2, <1>3, <1>4, CursorRing, Zenon
<1>6. IsRing(c, m2, n, p - 1, c[p], end)
  BY <1>4, <1>5, Zenon
<1>7. ASSUME NEW k \in 1..n PROVE m2[c[k]].value = IF k = p THEN w ELSE m[c[k]].value
  <2>1. c[k] \in Nodes /\ (c[k] = c[p] <=> k = p)
    BY <1>1, Zenon DEF IsRing
  <2> QED
    BY <1>2, <2>1, Zenon
<1>8. Along(c, m2, n) = [Along(c, m, n) EXCEPT ![p] = w]
  BY <1>7, Zenon DEF Along
<1> QED
  BY <1>2, <1>4, <1>6, <1>8, Zenon DEF Holds

-----------------------------------------------------------------------------
(* The invariant *)

\* The values of a list are a sequence of its length.
LEMMA HoldsSeq ==
  ASSUME NEW s, NEW m, NEW n, NEW i, NEW cursor, NEW end, Holds(s, m, n, i, cursor, end)
  PROVE  n \in Nat /\ s \in Seq(Pointers \union {Nil}) /\ Len(s) = n
<1> PICK c : IsRing(c, m, n, i, cursor, end) /\ Along(c, m, n) = s
  BY Zenon DEF Holds
<1>1. n \in Nat /\ c \in [1..n -> Nodes] /\ m \in Memory
  BY Zenon DEF IsRing, Holds
<1> QED
  BY <1>1, AlongSeq, Zenon

\* The heap of the list holds the values s.
List(s) == Holds(s, node, length, currentIndex, current, tail)

Sound == strayed = 0 /\ hung = FALSE /\ \E s : List(s)

Astray == strayed # 0 /\ strayed >= 6 /\ 2 ^ SizeBits % strayed # 0

\* Unless a walk has strayed, the nodes form a ring with the cursor at its index.
ListIInv == Sound \/ Astray

\* Lengths, indices and pointers of a ring are in range.
LEMMA RingTypes ==
  ASSUME NEW c, NEW m, NEW n, NEW i, NEW cursor, NEW end, IsRing(c, m, n, i, cursor, end)
  PROVE  /\ n \in Indices /\ i \in Indices
         /\ n # 0 => cursor \in Nodes /\ end \in Nodes
<1>1. n \in Nat /\ i \in Nat /\ i <= n /\ c \in [1..n -> Nodes]
  BY DEF IsRing
<1>2. n <= Cardinality(Nodes)
  BY RingFits, Zenon
<1>3. ASSUME n # 0 PROVE cursor \in Nodes /\ end \in Nodes
  <2>1. n > 0 /\ i < n /\ cursor = c[i + 1] /\ end = c[n]
    BY <1>1, <1>3 DEF IsRing
  <2> QED
    BY <1>1, <2>1
<1> QED
  BY <1>1, <1>2, <1>3, Sizes DEF Indices

\* So are those of a list.
LEMMA HoldsTypes ==
  ASSUME NEW s, NEW m, NEW n, NEW i, NEW cursor, NEW end, Holds(s, m, n, i, cursor, end)
  PROVE  /\ m \in Memory /\ n \in Indices /\ i \in Indices
         /\ cursor \in Nodes \union {Nil} /\ end \in Nodes \union {Nil}
<1> PICK c : IsRing(c, m, n, i, cursor, end) /\ Along(c, m, n) = s
  BY Zenon DEF Holds
<1>1. /\ n \in Indices /\ i \in Indices
      /\ n # 0 => cursor \in Nodes /\ end \in Nodes
  BY RingTypes
<1> QED
  BY <1>1, Zenon DEF Holds

\* The invariant implies WellFormed.
LEMMA RingWell == ListIInv => WellFormed
<1> SUFFICES ASSUME ListIInv, strayed = 0
             PROVE  /\ ListTypeOK
                    /\ ~hung
                    /\ Cardinality({n \in Nodes : node[n] # Free}) = length
                    /\ length > 0 =>
                         /\ Cardinality({Chain[k] : k \in 1..length}) = length
                         /\ Chain[length] = tail
                         /\ Chain[currentIndex + 1] = current
                         /\ \A k \in 1..length : node[node[Chain[k]].next].previous = Chain[k]
  BY Zenon DEF ListIInv, Sound, Astray, WellFormed
<1> PICK s : Holds(s, node, length, currentIndex, current, tail)
  BY Zenon DEF ListIInv, Sound, Astray, List
<1>1. ListTypeOK /\ ~hung
  <2>1. hung = FALSE
    BY Zenon DEF ListIInv, Sound, Astray
  <2>2. /\ node \in Memory /\ length \in Indices /\ currentIndex \in Indices
        /\ current \in Nodes \union {Nil} /\ tail \in Nodes \union {Nil}
    BY HoldsTypes, Zenon
  <2> QED
    BY <2>1, <2>2, Zenon DEF ListTypeOK, Memory
<1>2. PICK c : Ring(c)
  BY Zenon DEF Holds, Ring
<1>3. Chain = c
  BY <1>2, ChainIsRing, Zenon
<1>4. ASSUME NEW k \in 1..length PROVE node[node[c[k]].next].previous = c[k]
  <2>1. Succ(k, length) \in 1..length /\ Pred(Succ(k, length), length) = k
    BY <1>2 DEF Succ, Pred, Ring, IsRing
  <2> QED
    BY <1>2, <2>1, Zenon DEF Ring, IsRing
<1>5. length > 0 => c[length] = tail /\ c[currentIndex + 1] = current
  BY <1>2, Zenon DEF Ring, IsRing
<1> QED
  BY <1>1, <1>2, <1>3, <1>4, <1>5, RingCounts, Zenon

-----------------------------------------------------------------------------
(* The operations *)

\* list_addValue
LEMMA AddStep ==
  ASSUME NEW s, List(s), NEW v \in Pointers, list_addValue(v)
  PROVE  List(Append(s, v))'
<1>1. PICK x \in Nodes :
          /\ node[x] = Free
          /\ IF length = 0
             THEN /\ node' = [node EXCEPT ![x] = [next |-> x, previous |-> x, value |-> v]]
                  /\ current' = x
             ELSE /\ LET head == node[tail].next
                         linked == [node EXCEPT ![x] = [next |-> head, previous |-> tail,
                                                        value |-> v],
                                                ![head].previous = x]
                     IN  node' = [linked EXCEPT ![tail].next = x]
                  /\ UNCHANGED current
          /\ tail' = x
  BY Zenon DEF list_addValue
<1>2. length' = length + 1 /\ currentIndex' = currentIndex
  BY Zenon DEF list_addValue
<1>3. Holds(s, node, length, currentIndex, current, tail)
  BY Zenon DEF List
<1>4. length \in Nat
  BY <1>3, HoldsTypes, Sizes DEF Indices
<1>5. CASE length = 0
  <2>1. LinkFirst(node, node', x, v) /\ current' = x
    BY <1>1, <1>5, Zenon DEF LinkFirst
  <2>2. Holds(Append(s, v), node', 1, 0, x, x) /\ currentIndex = 0
    <3>1. Holds(s, node, 0, currentIndex, current, tail)
      BY <1>3, <1>5, Zenon
    <3> QED
      BY <2>1, <3>1, AddsFirst
  <2>3. length' = 1 /\ currentIndex' = 0 /\ tail' = x
    BY <1>1, <1>2, <1>5, <2>2
  <2> QED
    BY <2>1, <2>2, <2>3, Zenon DEF List
<1>6. CASE length # 0
  <2>1. LinkIn(node, node', x, node[tail].next, tail, v)
    BY <1>1, <1>6, Zenon DEF LinkIn
  <2>2. current' = current /\ tail' = x
    BY <1>1, <1>6, Zenon
  <2>3. length > 0 /\ node[x] = Free
    BY <1>1, <1>4, <1>6
  <2>4. Holds(Append(s, v), node', length + 1, currentIndex, current, x)
    BY ONLY <1>3, <2>1, <2>3, AddsOne, v \in Pointers, x \in Nodes, Zenon
  <2> QED
    BY <1>2, <2>2, <2>4, Zenon DEF List
<1> QED
  BY <1>5, <1>6, Zenon

\* A walk around the list meets every value; the first match is one of them.
LEMMA Matching ==
  ASSUME NEW s, NEW c, Ring(c), Along(c, node, length) = s, node \in Memory, NEW v
  PROVE  /\ DOMAIN s = 1..length
         /\ Matches(v) = {} => \A p \in DOMAIN s : s[p] # v
         /\ Matches(v) # {} => \E p \in 1..length : /\ s[p] = v
                                                   /\ FirstMatch(v)[1] = p - 1
                                                   /\ FirstMatch(v)[2] = c[p]
<1>3. /\ length \in Nat /\ currentIndex \in Nat /\ c \in [1..length -> Nodes]
      /\ length > 0 => currentIndex < length
  BY Zenon DEF Ring, IsRing
<1>4. /\ s \in Seq(Pointers \union {Nil}) /\ Len(s) = length
      /\ \A k \in 1..length : s[k] = node[c[k]].value
  BY <1>3, AlongSeq, Zenon
<1>5. DOMAIN s = 1..length
  BY <1>3, <1>4
<1>7. length > 0 => \A k \in 0..length : RightOf(k) \in 0..(length - 1)
                                        /\ Walk(1)[k] = <<RightOf(k), c[RightOf(k) + 1]>>
  BY WalkRight, Zenon
<1>8. ASSUME NEW k \in 0..(length - 1)
      PROVE  /\ RightOf(k) + 1 \in 1..length
             /\ Walk(1)[k][1] = RightOf(k) /\ Walk(1)[k][2] = c[RightOf(k) + 1]
             /\ node[Walk(1)[k][2]].value = s[RightOf(k) + 1]
  <2>1. length > 0 /\ k \in 0..length
    BY <1>3
  <2>2. RightOf(k) \in 0..(length - 1) /\ Walk(1)[k] = <<RightOf(k), c[RightOf(k) + 1]>>
    BY <1>7, <2>1, Zenon
  <2>3. RightOf(k) + 1 \in 1..length
    BY <1>3, <2>2
  <2>4. Walk(1)[k][1] = RightOf(k) /\ Walk(1)[k][2] = c[RightOf(k) + 1]
    BY <2>2
  <2> QED
    BY <1>4, <2>3, <2>4, Zenon
<1>9. \A k \in 0..(length - 1) : k \in Matches(v) <=> s[RightOf(k) + 1] = v
  BY <1>8, Zenon DEF Matches
<1>10. Matches(v) \subseteq 0..(length - 1)
  BY Zenon DEF Matches
<1>11. CASE Matches(v) = {}
  <2>1. ASSUME NEW p \in 1..length PROVE s[p] # v
    <3> DEFINE k == IF currentIndex < p THEN p - 1 - currentIndex ELSE p - 1 - currentIndex + length
    <3>1. k \in 0..(length - 1) /\ RightOf(k) + 1 = p
      BY <1>3 DEF RightOf
    <3> HIDE DEF k
    <3> QED
      BY <1>9, <1>11, <3>1, Zenon
  <2> QED
    BY <1>5, <1>11, <2>1, Zenon
<1>12. CASE Matches(v) # {}
  <2>1. PICK k : k = First(Matches(v))
    OBVIOUS
  <2>2. k \in Matches(v)
    <3>1. Matches(v) \subseteq Nat
      BY <1>3, <1>10
    <3> QED
      BY <1>12, <2>1, <3>1, FirstIsLeast, Zenon
  <2>3. FirstMatch(v) = Walk(1)[k]
    BY <2>1, Zenon DEF FirstMatch, First
  <2>4. k \in 0..(length - 1) /\ s[RightOf(k) + 1] = v
    BY <1>9, <1>10, <2>2, Zenon
  <2>5. PICK p \in 1..length : p = RightOf(k) + 1
    BY <1>8, <2>4, Zenon
  <2>6. RightOf(k) = p - 1
    <3>1. RightOf(k) \in Int
      BY <1>3, <2>4 DEF RightOf
    <3> QED
      BY <2>5, <3>1
  <2>7. FirstMatch(v)[1] = p - 1 /\ FirstMatch(v)[2] = c[p]
    BY <1>8, <2>3, <2>4, <2>5, <2>6, Zenon
  <2> QED
    BY <1>5, <1>12, <2>4, <2>5, <2>7, Zenon
<1> QED
  BY <1>11, <1>12, Zenon

\* A walk without a match means that the value is not in the list.
LEMMA NoMatch ==
  ASSUME NEW s, List(s), NEW v, Matches(v) = {}
  PROVE  \A p \in DOMAIN s : s[p] # v
<1>1. node \in Memory /\ \E c : Ring(c) /\ Along(c, node, length) = s
  BY Zenon DEF List, Holds, Ring
<1> QED
  BY <1>1, Matching, Zenon

\* list_findIndex and set_addValue move to the first match after the cursor.
LEMMA MatchStep ==
  ASSUME NEW s, List(s), NEW v, MoveToMatch(v), UNCHANGED <<node, tail, length>>
  PROVE  /\ List(s)'
         /\ Matches(v) # {} => \E p \in DOMAIN s : s[p] = v /\ FirstMatch(v)[1] = p - 1
<1>1. Holds(s, node, length, currentIndex, current, tail)
  BY Zenon DEF List
<1>2. PICK c : IsRing(c, node, length, currentIndex, current, tail) /\ Along(c, node, length) = s
  BY <1>1, Zenon DEF Holds
<1>3. CASE Matches(v) = {}
  <2>1. current' = current /\ currentIndex' = currentIndex
    BY <1>3, Zenon DEF MoveToMatch
  <2> QED
    BY <1>1, <1>3, <2>1, Zenon DEF List
<1>4. CASE Matches(v) # {}
  <2>1. node \in Memory /\ Ring(c)
    BY <1>1, <1>2, Zenon DEF Holds, Ring
  <2>2. /\ DOMAIN s = 1..length
        /\ Matches(v) # {} => \E p \in 1..length : /\ s[p] = v
                                                  /\ FirstMatch(v)[1] = p - 1
                                                  /\ FirstMatch(v)[2] = c[p]
    BY <1>2, <2>1, Matching
  <2>3. PICK p \in 1..length : s[p] = v /\ FirstMatch(v)[1] = p - 1 /\ FirstMatch(v)[2] = c[p]
    BY <1>4, <2>2, Zenon
  <2>4. currentIndex' = p - 1 /\ current' = c[p]
    BY <1>4, <2>3, Zenon DEF MoveToMatch
  <2>5. Holds(Along(c, node, length), node, length, p - 1, c[p], tail)
    BY ONLY <1>2, <2>1, p \in 1..length, MovesCursor, Zenon
  <2>6. List(s)'
    BY <1>2, <2>4, <2>5, Zenon DEF List
  <2> QED
    BY <2>2, <2>3, <2>6, Zenon
<1> QED
  BY <1>3, <1>4, Zenon

\* list_getValue and list_setValue
LEMMA AccessStep ==
  ASSUME NEW s, List(s), NEW i \in Indices, NEW stored \in Pointers \union {Nil}, Access(i, stored),
         ~Strays(i), i < length
  PROVE  /\ result' = s[i + 1] /\ hung' = hung
         /\ List([s EXCEPT ![i + 1] = IF stored = Nil THEN s[i + 1] ELSE stored])'
<1>1. Holds(s, node, length, currentIndex, current, tail)
  BY Zenon DEF List
<1>2. PICK c : IsRing(c, node, length, currentIndex, current, tail) /\ Along(c, node, length) = s
  BY <1>1, Zenon DEF Holds
<1>3. length \in Nat /\ c \in [1..length -> Nodes] /\ node \in Memory
  BY <1>1, <1>2, Zenon DEF Holds, IsRing
<1>4. i \in Nat /\ ~ (length <= i) /\ i \in 0..(length - 1) /\ i + 1 \in 1..length /\ (i + 1) - 1 = i
  BY <1>3, Sizes DEF Indices
<1>5. list_moveToIndex(i) = <<i, c[i + 1]>>
  BY <1>2, <1>4, Moves, Zenon DEF Ring
<1>6. /\ currentIndex' = i /\ current' = c[i + 1] /\ tail' = tail /\ length' = length /\ hung' = hung
      /\ result' = node[c[i + 1]].value
      /\ node' = [node EXCEPT ![c[i + 1]].value = IF stored = Nil THEN @ ELSE stored]
  BY <1>4, <1>5 DEF Access, OutOfBounds
<1>7. PICK w : w = IF stored = Nil THEN s[i + 1] ELSE stored
  OBVIOUS
<1>8. s \in Seq(Pointers \union {Nil}) /\ s[i + 1] = node[c[i + 1]].value /\ Len(s) = length
  BY <1>2, <1>3, <1>4, AlongSeq, Zenon
<1>9. w \in Pointers \union {Nil}
  BY <1>3, <1>4, <1>7, <1>8
<1>10. Stores(node, node', c[i + 1], w)
  BY <1>6, <1>7, <1>8, Zenon DEF Stores
<1>11. Holds([Along(c, node, length) EXCEPT ![i + 1] = w], node', length, (i + 1) - 1, c[i + 1], tail)
  BY ONLY <1>2, <1>3, <1>4, <1>9, <1>10, SetsOne, Zenon
<1>12. Holds([s EXCEPT ![i + 1] = w], node', length', currentIndex', current', tail')
  BY <1>2, <1>4, <1>6, <1>11, Zenon
<1> QED
  BY <1>6, <1>7, <1>8, <1>12, Zenon DEF List

\* list_removeValue, several values
LEMMA ListRemoves ==
  ASSUME NEW s, List(s), NEW i \in Indices, list_removeValue(i), ~Strays(i), i < length, length > 1
  PROVE  result' = s[i + 1] /\ hung' = hung /\ List(Without(s, i + 1))'
<1>1. Holds(s, node, length, currentIndex, current, tail)
  BY Zenon DEF List
<1>2. PICK c : IsRing(c, node, length, currentIndex, current, tail) /\ Along(c, node, length) = s
  BY <1>1, Zenon DEF Holds
<1>3. length \in Nat /\ c \in [1..length -> Nodes] /\ node \in Memory
  BY <1>1, <1>2, Zenon DEF Holds, IsRing
<1>4. /\ i \in Nat /\ ~ (length <= i) /\ i \in 0..(length - 1) /\ i + 1 \in 1..length
      /\ (i + 1) - 1 = i /\ length # 1
  BY <1>3, Sizes DEF Indices
<1>5. list_moveToIndex(i) = <<i, c[i + 1]>>
  BY <1>2, <1>4, Moves, Zenon DEF Ring
<1>6. Unlink(i, c[i + 1]) /\ result' = node[c[i + 1]].value /\ length' = length - 1 /\ hung' = hung
  BY <1>4, <1>5 DEF list_removeValue, OutOfBounds
<1>7. /\ LinkOut(node, node', c[i + 1], node[c[i + 1]].next, node[c[i + 1]].previous)
      /\ tail' = IF i + 1 = length THEN node[c[i + 1]].previous ELSE tail
      /\ current' = node[c[i + 1]].next
      /\ currentIndex' = i % (length - 1)
  BY <1>6, Zenon DEF Unlink, LinkOut
<1>8. s[i + 1] = node[c[i + 1]].value
  BY <1>2, <1>3, <1>4, AlongSeq, Zenon
<1>9. Holds(Without(Along(c, node, length), i + 1), node', length - 1, ((i + 1) - 1) % (length - 1),
            node[c[i + 1]].next, IF i + 1 = length THEN node[c[i + 1]].previous ELSE tail)
  BY ONLY <1>2, <1>3, <1>4, <1>7, length > 1, RemovesOne, Zenon
<1>10. Holds(Without(s, i + 1), node', length', currentIndex', current', tail')
  BY <1>2, <1>4, <1>6, <1>7, <1>9, Zenon
<1> QED
  BY <1>6, <1>8, <1>10, Zenon DEF List

\* list_removeValue, the only value
LEMMA RemoveLast ==
  ASSUME NEW s, List(s), NEW i \in Indices, list_removeValue(i), i < length, length = 1
  PROVE  /\ result' = s[i + 1] /\ hung' = hung /\ strayed' = strayed
         /\ List(Without(s, i + 1))'
<1>1. Holds(s, node, length, currentIndex, current, tail)
  BY Zenon DEF List
<1>2. PICK c : IsRing(c, node, length, currentIndex, current, tail) /\ Along(c, node, length) = s
  BY <1>1, Zenon DEF Holds
<1>3. length \in Nat /\ c \in [1..length -> Nodes] /\ node \in Memory
  BY <1>1, <1>2, Zenon DEF Holds, IsRing
<1>4. /\ i = 0 /\ i + 1 = 1 /\ 1 \in 1..length /\ \A k \in 1..length : k = 1
      /\ ~ (length <= i) /\ ~ (length > 1)
  BY <1>3, Sizes DEF Indices
<1>5. current = c[1]
  BY <1>2 DEF IsRing
<1>6. /\ node' = [node EXCEPT ![current] = Free] /\ result' = node[current].value
      /\ current' = Nil /\ tail' = Nil /\ currentIndex' = 0 /\ length' = 0
      /\ hung' = hung /\ strayed' = strayed
  BY <1>4, Zenon DEF list_removeValue, OutOfBounds
<1>7. \A x \in Nodes : x # current => node[x] = Free
  BY <1>2, <1>4, <1>5, Zenon DEF IsRing
<1>8. node' \in Memory /\ \A x \in Nodes : node'[x] = Free
  BY <1>3, <1>6, <1>7, Zenon DEF Memory, Free
<1>9. s \in Seq(Pointers \union {Nil}) /\ Len(s) = 1 /\ s[1] = node[c[1]].value
  <2>1. /\ s \in Seq(Pointers \union {Nil}) /\ Len(s) = length
        /\ \A k \in 1..length : s[k] = node[c[k]].value
    BY ONLY <1>2, <1>3, AlongSeq, Zenon
  <2> QED
    BY <1>4, <2>1, Zenon
<1>10. Without(s, 1) = <<>>
  BY <1>9 DEF Without
<1>11. Holds(<<>>, node', 0, 0, Nil, Nil)
  BY <1>8, HoldsNone, Zenon
<1> QED
  BY <1>4, <1>5, <1>6, <1>9, <1>10, <1>11, Zenon DEF List

\* list_clear
LEMMA ListClears ==
  ASSUME list_clear
  PROVE  List(<<>>)' /\ result' = result /\ hung' = hung /\ strayed' = strayed
<1>1. node' \in Memory /\ \A x \in Nodes : node'[x] = Free
  BY Zenon DEF list_clear, Memory, Free
<1>2. Holds(<<>>, node', 0, 0, Nil, Nil)
  BY <1>1, HoldsNone, Zenon
<1> QED
  BY <1>2, Zenon DEF list_clear, List

-----------------------------------------------------------------------------
(* Every step *)

\* The values met along the chain are those of the list.
LEMMA Mapped == \A s : List(s) => InOrder = s
<1> SUFFICES ASSUME NEW s, List(s) PROVE InOrder = s
  OBVIOUS
<1>1. PICK c : Ring(c) /\ Along(c, node, length) = s
  BY Zenon DEF List, Holds, Ring
<1>2. Chain = c
  BY <1>1, ChainIsRing, Zenon
<1> QED
  BY <1>1, <1>2, Zenon DEF InOrder, Along

\* The same after a step.
LEMMA MappedNext == (\A s : List(s) => InOrder = s)'
BY Mapped, PTL

\* An index that is out of bounds changes nothing.
LEMMA BoundsStep ==
  ASSUME NEW s, List(s), strayed = 0, hung = FALSE, NEW i \in Indices, OutOfBounds(i)
  PROVE  Sound' /\ InOrder' = InOrder /\ ~ (i < Len(InOrder)) /\ result' = Nil
<1>1. List(s)' /\ strayed' = 0 /\ hung' = FALSE /\ result' = Nil /\ length <= i
  BY Zenon DEF OutOfBounds, List
<1>2. InOrder' = s /\ InOrder = s
  BY <1>1, Mapped, MappedNext, Zenon
<1>3. length \in Nat /\ Len(s) = length
  BY HoldsSeq, Zenon DEF List
<1>4. i \in Nat
  BY Sizes DEF Indices
<1>5. ~ (i < Len(s))
  BY <1>1, <1>3, <1>4
<1> QED
  BY <1>1, <1>2, <1>5, Zenon DEF Sound

\* What is known of an index that is accepted.
LEMMA InBounds ==
  ASSUME NEW s, List(s), NEW i \in Indices
  PROVE  /\ s \in Seq(Pointers \union {Nil}) /\ Len(s) = length /\ length \in Nat /\ i \in Nat
         /\ i < length => i \in 0..(length - 1)
<1>1. length \in Nat /\ s \in Seq(Pointers \union {Nil}) /\ Len(s) = length
  BY HoldsSeq, Zenon DEF List
<1>2. i \in Nat
  BY Sizes DEF Indices
<1> QED
  BY <1>1, <1>2

\* A walk that strays does so in a list of six values or more.
LEMMA StraysStep ==
  ASSUME NEW s, List(s), NEW i \in Indices, i < length, Strays(i), Move(i)
  PROVE  Astray'
<1>1. PICK c : Ring(c)
  BY Zenon DEF List, Holds, Ring
<1>2. i \in 0..(length - 1) /\ length \in Nat
  BY InBounds, Zenon
<1>3. length >= 6 /\ 2 ^ SizeBits % length # 0
  BY <1>1, <1>2, StrayLength, Zenon
<1>4. strayed' = length /\ length # 0
  BY <1>2, <1>3 DEF Move
<1> QED
  BY <1>3, <1>4, Zenon DEF Astray

\* list_addValue appends to the sequence.
LEMMA AddImplements ==
  ASSUME NEW s, List(s), strayed = 0, hung = FALSE, NEW v \in Pointers, list_addValue(v)
  PROVE  Sound' /\ Sequence!AddValue(v)
<1>1. List(Append(s, v))'
  BY AddStep, Zenon
<1>2. strayed' = 0 /\ hung' = FALSE /\ result' = result
  BY Zenon DEF list_addValue
<1>3. InOrder' = Append(s, v) /\ InOrder = s
  BY <1>1, Mapped, MappedNext, Zenon
<1> QED
  BY <1>1, <1>2, <1>3, Zenon DEF Sound, Sequence!AddValue

\* list_findIndex answers with an index at which the value is, or with -1.
LEMMA FindImplements ==
  ASSUME NEW s, List(s), strayed = 0, hung = FALSE, NEW v \in Pointers, list_findIndex(v)
  PROVE  Sound' /\ Sequence!FindIndex(v)
<1>1. /\ MoveToMatch(v) /\ UNCHANGED <<node, tail, length>>
      /\ result' = <<IF Matches(v) = {} THEN -1 ELSE FirstMatch(v)[1]>>
      /\ strayed' = 0 /\ hung' = FALSE
  BY Zenon DEF list_findIndex
<1>2. /\ List(s)'
      /\ Matches(v) = {} => \A p \in DOMAIN s : s[p] # v
      /\ Matches(v) # {} => \E p \in DOMAIN s : s[p] = v /\ FirstMatch(v)[1] = p - 1
  BY <1>1, MatchStep, NoMatch, Zenon
<1>3. InOrder' = s /\ InOrder = s
  BY <1>2, Mapped, MappedNext, Zenon
<1>4. /\ IF \E k \in DOMAIN s : s[k] = v
         THEN \E k \in DOMAIN s : s[k] = v /\ result' = <<k - 1>>
         ELSE result' = <<-1>>
  BY <1>1, <1>2, Zenon
<1> QED
  BY <1>1, <1>2, <1>3, <1>4, Zenon DEF Sound, Sequence!FindIndex

\* set_addValue appends a value that is not there and leaves others.
LEMMA SetAddImplements ==
  ASSUME NEW s, List(s), strayed = 0, hung = FALSE, NEW v \in Pointers, set_addValue(v)
  PROVE  Sound' /\ Sequence!SetAddValue(v)
<1>1. InOrder = s
  BY Mapped, Zenon
<1>2. CASE Matches(v) = {} /\ list_addValue(v)
  <2>1. Sound' /\ Sequence!AddValue(v)
    BY <1>2, AddImplements, Zenon
  <2>2. \A p \in DOMAIN s : s[p] # v
    BY <1>2, NoMatch, Zenon
  <2> QED
    BY <1>1, <2>1, <2>2, Zenon DEF Sequence!SetAddValue
<1>3. CASE Matches(v) # {} /\ MoveToMatch(v) /\ UNCHANGED <<node, tail, length, result, hung, strayed>>
  <2>1. UNCHANGED <<node, tail, length>> /\ strayed' = 0 /\ hung' = FALSE /\ result' = result
    BY <1>3, Zenon
  <2>2. /\ List(s)'
        /\ Matches(v) # {} => \E p \in DOMAIN s : s[p] = v /\ FirstMatch(v)[1] = p - 1
    BY <1>3, <2>1, MatchStep, Zenon
  <2>3. InOrder' = s
    BY <2>2, MappedNext, Zenon
  <2> QED
    BY <1>1, <1>3, <2>1, <2>2, <2>3, Zenon DEF Sound, Sequence!SetAddValue, Sequence!vars
<1> QED
  BY <1>2, <1>3, Zenon DEF set_addValue

\* list_getValue and list_setValue read and replace the value of the index.
LEMMA AccessImplements ==
  ASSUME NEW s, List(s), strayed = 0, hung = FALSE, NEW i \in Indices,
         NEW stored \in Pointers \union {Nil}, Access(i, stored)
  PROVE  \/ Astray'
         \/ /\ Sound'
            /\ stored = Nil => Sequence!GetValue(i)
            /\ stored # Nil => Sequence!SetValue(i, stored)
<1>1. CASE OutOfBounds(i)
  <2>1. Sound' /\ InOrder' = InOrder /\ ~ (i < Len(InOrder)) /\ result' = Nil
    BY <1>1, BoundsStep, Zenon
  <2> QED
    BY <2>1, Zenon DEF Sequence!GetValue, Sequence!SetValue, Sequence!InBounds
<1>2. CASE i < length /\ Move(i) /\ Strays(i)
  BY <1>2, StraysStep, Zenon
<1>3. CASE i < length /\ Move(i) /\ ~Strays(i)
  <2>1. /\ result' = s[i + 1] /\ hung' = hung
        /\ List([s EXCEPT ![i + 1] = IF stored = Nil THEN s[i + 1] ELSE stored])'
    BY <1>3, AccessStep, Zenon
  <2>2. strayed' = 0
    BY <1>3, Zenon DEF Move
  <2>3. InOrder = s /\ InOrder' = [s EXCEPT ![i + 1] = IF stored = Nil THEN s[i + 1] ELSE stored]
    BY <2>1, Mapped, MappedNext, Zenon
  <2>4. Sound'
    BY <2>1, <2>2, Zenon DEF Sound
  <2>5. s \in Seq(Pointers \union {Nil}) /\ Len(s) = length /\ length \in Nat /\ i \in 0..(length - 1)
    BY <1>3, InBounds, Zenon
  <2>6. [s EXCEPT ![i + 1] = s[i + 1]] = s
    BY <2>5
  <2>7. i < Len(InOrder)
    BY <1>3, <2>3, <2>5, Zenon
  <2> QED
    BY <2>1, <2>3, <2>4, <2>6, <2>7, Zenon DEF Sequence!GetValue, Sequence!SetValue, Sequence!InBounds
<1> QED
  BY <1>1, <1>2, <1>3, Zenon DEF Access

\* list_removeValue takes out the value of the index.
LEMMA RemoveImplements ==
  ASSUME NEW s, List(s), strayed = 0, hung = FALSE, NEW i \in Indices, list_removeValue(i)
  PROVE  Astray' \/ (Sound' /\ Sequence!RemoveValue(i))
<1>1. CASE OutOfBounds(i)
  <2>1. Sound' /\ InOrder' = InOrder /\ ~ (i < Len(InOrder)) /\ result' = Nil
    BY <1>1, BoundsStep, Zenon
  <2> QED
    BY <2>1, Zenon DEF Sequence!RemoveValue, Sequence!InBounds
<1>2. CASE i < length /\ Move(i) /\ Strays(i)
  BY <1>2, StraysStep, Zenon
<1>3. ASSUME i < length, result' = s[i + 1], hung' = hung, strayed' = 0, List(Without(s, i + 1))'
      PROVE  Sound' /\ Sequence!RemoveValue(i)
  <2>1. InOrder = s /\ InOrder' = Without(s, i + 1)
    BY <1>3, Mapped, MappedNext, Zenon
  <2>2. s \in Seq(Pointers \union {Nil}) /\ Len(s) = length /\ length \in Nat /\ i \in 0..(length - 1)
    BY <1>3, InBounds, Zenon
  <2>3. (i + 1) - 1 = i /\ (i + 1) + 1 = i + 2
    BY <2>2
  <2>4. InOrder' = SubSeq(s, 1, i) \o SubSeq(s, i + 2, Len(s))
    BY <2>1, <2>3, Zenon DEF Without
  <2>5. i < Len(s)
    BY <1>3, <2>2, Zenon
  <2> QED
    BY <1>3, <2>1, <2>4, <2>5, Zenon DEF Sound, Sequence!RemoveValue, Sequence!InBounds
<1>4. CASE i < length /\ length = 1 /\ ~OutOfBounds(i)
  BY <1>3, <1>4, RemoveLast, Zenon
<1>5. CASE i < length /\ length > 1 /\ Move(i) /\ ~Strays(i)
  <2>1. result' = s[i + 1] /\ hung' = hung /\ List(Without(s, i + 1))'
    BY <1>5, ListRemoves, Zenon
  <2>2. strayed' = 0
    BY <1>5, Zenon DEF Move
  <2> QED
    BY <1>3, <1>5, <2>1, <2>2, Zenon
<1> QED
  BY <1>1, <1>2, <1>4, <1>5, Zenon DEF list_removeValue

\* list_clear empties the sequence.
LEMMA ClearImplements ==
  ASSUME strayed = 0, hung = FALSE, list_clear
  PROVE  Sound' /\ Sequence!Clear
<1>1. List(<<>>)' /\ result' = result /\ hung' = hung /\ strayed' = strayed
  BY ListClears, Zenon
<1>2. InOrder' = <<>>
  BY <1>1, MappedNext, Zenon
<1> QED
  BY <1>1, <1>2, Zenon DEF Sound, Sequence!Clear

\* A list that list_create returns holds the empty sequence.
LEMMA InitList == ListInit => Sound /\ Sequence!Init
<1> SUFFICES ASSUME ListInit PROVE Sound /\ Sequence!Init
  OBVIOUS
<1>1. node \in Memory /\ \A x \in Nodes : node[x] = Free
  BY Zenon DEF ListInit, Memory, Free
<1>2. Holds(<<>>, node, 0, 0, Nil, Nil)
  BY <1>1, HoldsNone, Zenon
<1>3. List(<<>>)
  BY <1>2, Zenon DEF ListInit, List
<1>4. InOrder = <<>>
  BY <1>3, Mapped, Zenon
<1> QED
  BY <1>3, <1>4, Zenon DEF ListInit, Sound, Sequence!Init

\* From a sound list, every operation leads to a sound list and is the one of the
\* sequence, or strays.
LEMMA NextSound ==
  ASSUME Sound, ListNext
  PROVE  Astray' \/ (Sound' /\ Sequence!Next)
<1> PICK s : List(s)
  BY Zenon DEF Sound
<1>1. strayed = 0 /\ hung = FALSE
  BY Zenon DEF Sound
<1>2. ASSUME NEW v \in Pointers, list_addValue(v) \/ set_addValue(v) \/ list_findIndex(v)
      PROVE  Sound' /\ Sequence!Next
  <2>1. Sound' /\ (Sequence!AddValue(v) \/ Sequence!SetAddValue(v) \/ Sequence!FindIndex(v))
    BY <1>1, <1>2, AddImplements, SetAddImplements, FindImplements, Zenon
  <2> QED
    BY <2>1, Zenon DEF Sequence!Next
<1>3. ASSUME NEW i \in Indices, list_removeValue(i)
      PROVE  Astray' \/ (Sound' /\ Sequence!Next)
  BY <1>1, <1>3, RemoveImplements, Zenon DEF Sequence!Next
<1>4. ASSUME NEW i \in Indices, list_getValue(i)
      PROVE  Astray' \/ (Sound' /\ Sequence!Next)
  <2>1. Access(i, Nil) /\ Nil \in Pointers \union {Nil}
    BY <1>4, Zenon DEF list_getValue
  <2>2. Astray' \/ (Sound' /\ Sequence!GetValue(i))
    BY <1>1, <2>1, AccessImplements, Zenon
  <2> QED
    BY <2>2, Zenon DEF Sequence!Next
<1>5. ASSUME NEW i \in Indices, NEW v \in Pointers, list_setValue(i, v)
      PROVE  Astray' \/ (Sound' /\ Sequence!Next)
  <2>1. Access(i, v) /\ v \in Pointers \union {Nil} /\ v # Nil
    BY <1>5, ListAssumption, Zenon DEF list_setValue
  <2>2. Astray' \/ (Sound' /\ Sequence!SetValue(i, v))
    BY <1>1, <2>1, AccessImplements, Zenon
  <2> QED
    BY <2>2, Zenon DEF Sequence!Next
<1>6. CASE list_clear
  BY <1>1, <1>6, ClearImplements, Zenon DEF Sequence!Next
<1>7. ~Stuck
  BY <1>1, Zenon DEF Stuck, Running
<1> QED
  BY <1>2, <1>3, <1>4, <1>5, <1>6, <1>7, Zenon DEF ListNext

\* After a walk that strayed nothing more is modelled.
LEMMA NextAstray ==
  ASSUME strayed # 0, ListNext
  PROVE  UNCHANGED listVars
<1>1. ~Running
  BY Zenon DEF Running
<1>2. Stuck
  BY <1>1, Zenon DEF ListNext, list_addValue, set_addValue, list_findIndex, list_removeValue,
                     list_getValue, list_setValue, Access, list_clear
<1> QED
  BY <1>2, Zenon DEF Stuck

\* The invariant is inductive, and every step is one of the sequence or strays.
LEMMA ListInductive ==
  ASSUME ListIInv, [ListNext]_listVars
  PROVE  ListIInv' /\ [strayed' # 0 \/ Sequence!Next]_(Sequence!vars)
<1>1. ASSUME UNCHANGED listVars PROVE ListIInv' /\ UNCHANGED Sequence!vars
  <2>1. /\ node' = node /\ current' = current /\ tail' = tail /\ currentIndex' = currentIndex
        /\ length' = length /\ result' = result /\ hung' = hung /\ strayed' = strayed
    BY <1>1, Zenon DEF listVars
  <2>2. InOrder' = InOrder
    BY <2>1 DEF InOrder, Chain
  <2>3. ListIInv'
    BY <2>1, Zenon DEF ListIInv, Sound, Astray, List
  <2> QED
    BY <2>1, <2>2, <2>3, Zenon DEF Sequence!vars
<1>2. CASE Sound /\ ListNext
  <2>1. Astray' \/ (Sound' /\ Sequence!Next)
    BY <1>2, NextSound, Zenon
  <2> QED
    BY <2>1, Zenon DEF ListIInv, Astray
<1>3. CASE Astray /\ ListNext
  <2>1. UNCHANGED listVars
    BY <1>3, NextAstray, Zenon DEF Astray
  <2> QED
    BY <1>1, <2>1, Zenon
<1> QED
  BY <1>1, <1>2, <1>3, Zenon DEF ListIInv

\* After any calls of list.c the ring is closed in both directions, holds as many
\* nodes as `length` says, ends at the tail, has its cursor at currentIndex, and
\* no call loops forever, unless a walk has passed index 0 to the left, which
\* takes six values and a length that does not divide 2^w (list_moveToIndex).
THEOREM ListWellFormed == ListSpec => []WellFormed
<1>1. ListInit => ListIInv
  BY InitList, Zenon DEF ListIInv
<1>2. ListIInv /\ [ListNext]_listVars => ListIInv'
  BY ListInductive, Zenon
<1>3. ListIInv => WellFormed
  BY RingWell, Zenon
<1> QED
  BY <1>1, <1>2, <1>3, PTL DEF ListSpec

\* Up to such a walk every operation of list.c and set_addValue leaves and
\* returns what the operation of list.h on a sequence does.
THEOREM ListIsSequence == ListSpec => ImplementsSequence
<1>1. ListInit => ListIInv /\ Sequence!Init
  BY InitList, Zenon DEF ListIInv
<1>2. ListIInv /\ [ListNext]_listVars
      => ListIInv' /\ [strayed' # 0 \/ Sequence!Next]_(Sequence!vars)
  BY ListInductive, Zenon
<1> QED
  BY <1>1, <1>2, PTL DEF ListSpec, ImplementsSequence

=============================================================================
