---------------------------- MODULE HashTableProofs ----------------------------
(***************************************************************************)
(* The table owns its keys and behaves as a map, for any texts, any hash   *)
(* function, and any number of key strings.                                *)
(***************************************************************************)
EXTENDS HashTable, FiniteSetTheorems, SequenceTheorems, WellFoundedInduction, TLAPS

Entry == [key : 1..MaxKeys, text : Texts, keyHash : {HashOf[t] : t \in Texts},
          value : Values]

\* What a list of entries is after any calls: no two have the same hash, so
\* the search may begin anywhere, and no two the same key string.
Good(e) ==
    /\ e \in Seq(Entry)
    /\ \A k \in DOMAIN e : e[k].keyHash = HashOf[e[k].text]
    /\ \A j, k \in DOMAIN e : j # k => e[j].key # e[k].key /\ e[j].keyHash # e[k].keyHash

\* Each key string handed over is held by an entry or was freed.
Owned(e, f, n) ==
    /\ f \subseteq 1..n
    /\ \A k \in DOMAIN e : e[k].key \in 1..n /\ e[k].key \notin f
    /\ \A x \in 1..n : x \in f \/ \E k \in DOMAIN e : e[k].key = x

IInv == TypeOK /\ Good(entries) /\ Owned(entries, freed, given)

-----------------------------------------------------------------------------
(* The search *)

\* A set of naturals that is not empty has a minimum, and Min chooses it.
LEMMA MinOf ==
  ASSUME NEW S \in SUBSET Nat, S # {}
  PROVE  Min(S) \in S /\ \A y \in S : Min(S) <= y
<1> DEFINE R == OpToRel(<, Nat)
<1>1. PICK x \in S : \A y \in S : ~ (<<y, x>> \in R)
  BY NatLessThanWellFounded, WFMin, Zenon
<1>2. \A y \in S : ~ (y < x)
  BY <1>1 DEF OpToRel
<1>3. \A y \in S : x <= y
  BY <1>2, SMT
<1>. QED
  BY <1>3, Zenon DEF Min


\* The rounds of a search stay inside the list.
LEMMA Modulo ==
  ASSUME NEW n \in Nat \ {0}, NEW a \in Nat
  PROVE  /\ a % n \in 0..(n - 1)
         /\ a < n => a % n = a
         /\ a < n => (a + n) % n = a
<1>1. a % n \in 0..(n - 1)
  OBVIOUS
<1>2. a < n => a % n = a
  OBVIOUS
<1>3. a < n => (a + n) % n = a
  OBVIOUS
<1>. QED
  BY <1>1, <1>2, <1>3

\* hash_table_findIndex finds the hash if an entry has it, wherever it begins.
LEMMA Finds ==
  ASSUME Len(entries) \in Nat, DOMAIN entries = 1..Len(entries),
         NEW from \in DOMAIN entries \union {1}, NEW hash
  PROVE  LET at == FindIndex(from, hash)
         IN  IF at = 0
             THEN \A k \in DOMAIN entries : entries[k].keyHash # hash
             ELSE at \in DOMAIN entries /\ entries[at].keyHash = hash
<1> DEFINE hits == {k \in DOMAIN entries : entries[Round(from, k)].keyHash = hash}
           n == Len(entries)
<1>1. CASE hits = {}
  <2>1. FindIndex(from, hash) = 0
    BY <1>1 DEF FindIndex
  <2>2. ASSUME NEW i \in DOMAIN entries PROVE \E k \in DOMAIN entries : Round(from, k) = i
    <3>1. i \in 1..n /\ from \in 1..n /\ n \in Nat \ {0}
      OBVIOUS
    <3>2. CASE i >= from
      <4>1. i - from + 1 \in 1..n /\ from + (i - from + 1) - 2 = i - 1
        BY <3>1, <3>2
      <4>2. (i - 1) % n = i - 1
        <5>1. i - 1 \in Nat /\ i - 1 < n
          BY <3>1
        <5>. QED
          BY <3>1, <5>1, Modulo, Zenon
      <4>3. Round(from, i - from + 1) = (i - 1) + 1
        BY <4>1, <4>2, Zenon DEF Round
      <4>4. (i - 1) + 1 = i
        BY <3>1
      <4>. QED
        BY <4>1, <4>3, <4>4, Zenon
    <3>3. CASE i < from
      <4>1. i - from + 1 + n \in 1..n /\ from + (i - from + 1 + n) - 2 = (i - 1) + n
        BY <3>1, <3>3
      <4>2. ((i - 1) + n) % n = i - 1
        <5>1. i - 1 \in Nat /\ i - 1 < n
          BY <3>1
        <5>. QED
          BY <3>1, <5>1, Modulo, Zenon
      <4>3. Round(from, i - from + 1 + n) = (i - 1) + 1
        BY <4>1, <4>2, Zenon DEF Round
      <4>4. (i - 1) + 1 = i
        BY <3>1
      <4>. QED
        BY <4>1, <4>3, <4>4, Zenon
    <3>. QED
      BY <3>1, <3>2, <3>3
  <2>. QED
    BY <1>1, <2>1, <2>2
<1>2. CASE hits # {}
  <2>1. hits \in SUBSET Nat
    OBVIOUS
  <2>2. Min(hits) \in hits
    BY <1>2, <2>1, MinOf, Zenon
  <2>3. PICK k \in 1..n : k = Min(hits) /\ entries[Round(from, k)].keyHash = hash
    BY <2>2, Zenon
  <2>4. from \in 1..n /\ n \in Nat \ {0}
    BY <2>3
  <2>5. from + k - 2 \in Nat
    BY <2>3, <2>4
  <2>6. (from + k - 2) % n \in 0..(n - 1)
    BY <2>4, <2>5, Modulo, Zenon
  <2>7. Round(from, k) \in 1..n
    BY <2>4, <2>6 DEF Round
  <2>8. FindIndex(from, hash) = Round(from, k)
    BY <1>2, <2>3 DEF FindIndex
  <2>. QED
    BY <2>3, <2>7, <2>8
<1>. QED
  BY <1>1, <1>2

-----------------------------------------------------------------------------
(* The three ways in which the list changes *)

\* list_addValue: what an appended entry leaves true
LEMMA Appended ==
  ASSUME NEW e, NEW f, NEW n \in Nat, NEW x \in Entry,
         Good(e), Owned(e, f, n), x.key = n + 1, x.keyHash = HashOf[x.text],
         \A k \in DOMAIN e : e[k].keyHash # x.keyHash
  PROVE  Good(Append(e, x)) /\ Owned(Append(e, x), f, n + 1)
<1> DEFINE g == Append(e, x)
           l == Len(e)
<1>1. l \in Nat /\ DOMAIN e = 1..l
  BY LenProperties DEF Good
<1>2. /\ g \in Seq(Entry) /\ DOMAIN g = 1..(l + 1) /\ g[l + 1] = x
      /\ \A k \in 1..l : g[k] = e[k]
  BY AppendProperties, LenProperties DEF Good
<1> HIDE DEF g, l
<1>3. \A k \in DOMAIN g : k = l + 1 \/ k \in DOMAIN e
  BY <1>1, <1>2
<1>4. \A k \in DOMAIN e : k \in DOMAIN g /\ g[k] = e[k] /\ k # l + 1
  BY <1>1, <1>2
<1>5. \A k \in DOMAIN e : e[k].key # n + 1
  BY DEF Owned
<1>6. Good(g)
  <2>1. \A k \in DOMAIN g : g[k].keyHash = HashOf[g[k].text]
    BY <1>2, <1>3, <1>4 DEF Good
  <2>2. ASSUME NEW j \in DOMAIN g, NEW k \in DOMAIN g, j # k
        PROVE  g[j].key # g[k].key /\ g[j].keyHash # g[k].keyHash
    <3>1. CASE j \in DOMAIN e /\ k \in DOMAIN e
      BY <1>4, <2>2, <3>1 DEF Good
    <3>2. CASE j = l + 1 /\ k \in DOMAIN e
      BY <1>2, <1>4, <1>5, <3>2
    <3>3. CASE k = l + 1 /\ j \in DOMAIN e
      BY <1>2, <1>4, <1>5, <3>3
    <3>. QED
      BY <1>3, <2>2, <3>1, <3>2, <3>3, Zenon
  <2>. QED
    BY <1>2, <2>1, <2>2 DEF Good
<1>7. /\ l + 1 \in DOMAIN g /\ f \subseteq 1..(n + 1) /\ n + 1 \notin f
      /\ \A y \in 1..n : y \in 1..(n + 1)
      /\ \A y \in 1..(n + 1) : y \in 1..n \/ y = n + 1
  BY <1>1, <1>2 DEF Owned
<1>8. n + 1 \in 1..(n + 1)
  OBVIOUS
<1>9. Owned(g, f, n + 1)
  <2>1. \A k \in DOMAIN g : g[k].key \in 1..(n + 1) /\ g[k].key \notin f
    BY <1>2, <1>3, <1>4, <1>7, <1>8 DEF Owned
  <2>2. \A y \in 1..(n + 1) : y \in f \/ \E k \in DOMAIN g : g[k].key = y
    BY <1>2, <1>4, <1>7 DEF Owned
  <2>. QED
    BY <1>7, <2>1, <2>2 DEF Owned
<1>. QED
  BY <1>6, <1>9 DEF g

\* What a new key string and value in an entry leave true, when the old key
\* string is freed
LEMMA Replaced ==
  ASSUME NEW e, NEW f, NEW n \in Nat, NEW x \in Entry, NEW at \in DOMAIN e, NEW g,
         Good(e), Owned(e, f, n), x.key = n + 1, x.keyHash = HashOf[x.text],
         x.keyHash = e[at].keyHash, g = [e EXCEPT ![at] = x]
  PROVE  Good(g) /\ Owned(g, f \union {e[at].key}, n + 1)
<1>1. Len(e) \in Nat /\ DOMAIN e = 1..Len(e) /\ e \in Seq(Entry)
  BY LenProperties DEF Good
<1>2. g \in Seq(Entry) /\ DOMAIN g = DOMAIN e
  BY <1>1, ExceptSeq, Zenon
<1>3. g[at] = x /\ \A k \in DOMAIN e : k # at => g[k] = e[k]
  BY <1>1
<1>4. \A k \in DOMAIN e : e[k].key # n + 1
  BY DEF Owned
<1>5. Good(g)
  <2>1. \A k \in DOMAIN g : g[k].keyHash = HashOf[g[k].text]
    BY <1>2, <1>3, Zenon DEF Good
  <2>2. ASSUME NEW j \in DOMAIN g, NEW k \in DOMAIN g, j # k
        PROVE  g[j].key # g[k].key /\ g[j].keyHash # g[k].keyHash
    <3>1. CASE j # at /\ k # at
      BY <1>2, <1>3, <2>2, <3>1 DEF Good
    <3>2. CASE j = at
      BY <1>2, <1>3, <1>4, <2>2, <3>2 DEF Good
    <3>3. CASE k = at
      BY <1>2, <1>3, <1>4, <2>2, <3>3 DEF Good
    <3>. QED
      BY <3>1, <3>2, <3>3
  <2>. QED
    BY <1>2, <2>1, <2>2 DEF Good
<1>6. /\ f \subseteq 1..(n + 1) /\ n + 1 \notin f /\ n + 1 \in 1..(n + 1)
      /\ e[at].key \in 1..n
      /\ \A y \in 1..n : y \in 1..(n + 1)
      /\ \A y \in 1..(n + 1) : y \in 1..n \/ y = n + 1
  BY DEF Owned
<1>7. Owned(g, f \union {e[at].key}, n + 1)
  <2>1. \A k \in DOMAIN g : g[k].key \in 1..(n + 1) /\ g[k].key \notin f \union {e[at].key}
    <3>1. \A k \in DOMAIN e : k # at => g[k].key = e[k].key /\ e[k].key # e[at].key
      BY <1>3 DEF Good
    <3>2. \A k \in DOMAIN e : e[k].key \in 1..n /\ e[k].key \notin f
      BY DEF Owned
    <3>. QED
      BY <1>2, <1>3, <1>4, <1>6, <3>1, <3>2
  <2>2. ASSUME NEW y \in 1..(n + 1)
        PROVE  y \in f \union {e[at].key} \/ \E k \in DOMAIN g : g[k].key = y
    <3>1. CASE y = n + 1
      BY <1>2, <1>3, <3>1
    <3>2. CASE y \in 1..n
      BY <1>2, <1>3, <3>2 DEF Owned
    <3>. QED
      BY <1>6, <3>1, <3>2
  <2>. QED
    BY <1>6, <2>1, <2>2 DEF Owned
<1>. QED
  BY <1>5, <1>7

\* list_removeValue closes the gap.
LEMMA Removed ==
  ASSUME NEW e \in Seq(Entry), NEW at \in DOMAIN e
  PROVE  /\ RemoveAt(e, at) \in Seq(Entry)
         /\ DOMAIN RemoveAt(e, at) = 1..(Len(e) - 1)
         /\ \A k \in 1..(Len(e) - 1) :
               RemoveAt(e, at)[k] = IF k < at THEN e[k] ELSE e[k + 1]
<1> DEFINE s == SubSeq(e, 1, at - 1)
           t == SubSeq(e, at + 1, Len(e))
<1>1. /\ Len(e) \in Nat /\ DOMAIN e = 1..Len(e) /\ at \in 1..Len(e)
      /\ \A k \in 1..Len(e) : e[k] \in Entry
  BY LenProperties, ElementOfSeq
<1>2. /\ s \in Seq(Entry) /\ Len(s) = at - 1
      /\ \A k \in 1..(at - 1) : s[k] = e[k]
  BY <1>1, SubSeqProperties
<1>3. /\ t \in Seq(Entry) /\ Len(t) = Len(e) - at
      /\ \A k \in 1..(Len(e) - at) : t[k] = e[at + k]
  BY <1>1, SubSeqProperties
<1>4. RemoveAt(e, at) = s \o t
  BY DEF RemoveAt
<1> HIDE DEF s, t
<1>5. /\ s \o t \in Seq(Entry) /\ Len(s \o t) = Len(e) - 1
      /\ \A k \in 1..(Len(e) - 1) :
            (s \o t)[k] = IF k <= at - 1 THEN s[k] ELSE t[k - (at - 1)]
  <2>1. /\ s \o t \in Seq(Entry) /\ Len(s \o t) = Len(s) + Len(t)
        /\ \A k \in 1..(Len(s) + Len(t)) :
              (s \o t)[k] = IF k <= Len(s) THEN s[k] ELSE t[k - Len(s)]
    BY <1>2, <1>3, ConcatProperties, Zenon
  <2>2. Len(s) + Len(t) = Len(e) - 1
    BY <1>1, <1>2, <1>3
  <2>. QED
    BY <1>2, <2>1, <2>2, Zenon
<1>6. ASSUME NEW k \in 1..(Len(e) - 1)
      PROVE  (s \o t)[k] = IF k < at THEN e[k] ELSE e[k + 1]
  <2>1. CASE k < at
    BY <1>1, <1>2, <1>5, <2>1
  <2>2. CASE k >= at
    <3>1. k - (at - 1) \in 1..(Len(e) - at) /\ at + (k - (at - 1)) = k + 1
      BY <1>1, <2>2
    <3>2. (s \o t)[k] = t[k - (at - 1)]
      BY <1>1, <1>5, <2>2
    <3>3. t[k - (at - 1)] = e[k + 1]
      BY <1>3, <3>1
    <3>. QED
      BY <1>1, <2>2, <3>2, <3>3
  <2>3. k < at \/ k >= at
    BY <1>1
  <2>. QED
    BY <2>1, <2>2, <2>3, Zenon
<1>7. DOMAIN (s \o t) = 1..(Len(e) - 1)
  BY <1>5, LenProperties
<1>. QED
  BY <1>4, <1>5, <1>6, <1>7

\* What the removal of an entry leaves true, when its key string is freed
LEMMA RemovedGood ==
  ASSUME NEW e, NEW f, NEW n \in Nat, NEW at \in DOMAIN e, Good(e), Owned(e, f, n)
  PROVE  Good(RemoveAt(e, at)) /\ Owned(RemoveAt(e, at), f \union {e[at].key}, n)
<1> DEFINE g == RemoveAt(e, at)
<1>1. Len(e) \in Nat /\ DOMAIN e = 1..Len(e) /\ at \in 1..Len(e) /\ e \in Seq(Entry)
  BY LenProperties DEF Good
<1>2. /\ g \in Seq(Entry) /\ DOMAIN g = 1..(Len(e) - 1)
      /\ \A k \in DOMAIN g : g[k] = IF k < at THEN e[k] ELSE e[k + 1]
  BY <1>1, Removed, Zenon
<1> HIDE DEF g
\* Where an entry comes from
<1> DEFINE from(k) == IF k < at THEN k ELSE k + 1
<1>3. \A k \in DOMAIN g : from(k) \in DOMAIN e /\ from(k) # at /\ g[k] = e[from(k)]
  BY <1>1, <1>2
<1>4. \A j, k \in DOMAIN g : j # k => from(j) # from(k)
  BY <1>1, <1>2
<1>5. \A i \in DOMAIN e : i # at => \E k \in DOMAIN g : g[k] = e[i]
  <2>. SUFFICES ASSUME NEW i \in DOMAIN e, i # at PROVE \E k \in DOMAIN g : g[k] = e[i]
    OBVIOUS
  <2>1. CASE i < at
    BY <1>1, <1>2, <2>1
  <2>2. CASE i > at
    <3>1. i - 1 \in DOMAIN g /\ ~(i - 1 < at) /\ (i - 1) + 1 = i
      BY <1>1, <1>2, <2>2
    <3>. QED
      BY <1>2, <3>1
  <2>3. i < at \/ i > at
    BY <1>1
  <2>. QED
    BY <2>1, <2>2, <2>3, Zenon
<1> HIDE DEF from
<1>6. Good(g)
  <2>1. \A k \in DOMAIN g : g[k].keyHash = HashOf[g[k].text]
    BY <1>3 DEF Good
  <2>2. \A j, k \in DOMAIN g : j # k => g[j].key # g[k].key /\ g[j].keyHash # g[k].keyHash
    BY <1>3, <1>4 DEF Good
  <2>. QED
    BY <1>2, <2>1, <2>2 DEF Good
<1>7. Owned(g, f \union {e[at].key}, n)
  <2>1. \A k \in DOMAIN g : g[k].key \in 1..n /\ g[k].key \notin f \union {e[at].key}
    BY <1>3 DEF Good, Owned
  <2>2. \A y \in 1..n : y \in f \union {e[at].key} \/ \E k \in DOMAIN g : g[k].key = y
    <3>. TAKE y \in 1..n
    <3>1. CASE y \in f
      BY <3>1
    <3>2. CASE y \notin f
      <4>1. PICK i \in DOMAIN e : e[i].key = y
        BY <3>2 DEF Owned
      <4>. QED
        BY <1>5, <4>1
    <3>. QED
      BY <3>1, <3>2
  <2>. QED
    BY <2>1, <2>2, Zenon DEF Owned
<1>. QED
  BY <1>6, <1>7 DEF g

-----------------------------------------------------------------------------
(* The calls *)

\* The cursor is on an entry, or on the first place of an empty list.
LEMMA Searched ==
  ASSUME IInv, NEW text \in Texts, NEW from \in DOMAIN entries \union {1}
  PROVE  /\ Len(entries) \in Nat /\ DOMAIN entries = 1..Len(entries)
         /\ LET at == FindIndex(from, HashOf[text])
            IN  IF at = 0
                THEN \A k \in DOMAIN entries : entries[k].keyHash # HashOf[text]
                ELSE at \in DOMAIN entries /\ entries[at].keyHash = HashOf[text]
         /\ CursorAfter(from, HashOf[text]) \in DOMAIN entries \union {1}
<1>1. Len(entries) \in Nat /\ DOMAIN entries = 1..Len(entries)
  BY LenProperties DEF IInv, Good
<1> DEFINE at == FindIndex(from, HashOf[text])
<1>2. IF at = 0
      THEN \A k \in DOMAIN entries : entries[k].keyHash # HashOf[text]
      ELSE at \in DOMAIN entries /\ entries[at].keyHash = HashOf[text]
  BY <1>1, Finds, Zenon
<1>. QED
  BY <1>1, <1>2 DEF CursorAfter

\* The type invariant follows from the rest.
LEMMA Typed ==
  ASSUME MaxKeys \in Nat, Good(entries)', Owned(entries, freed, given)', given' \in 0..MaxKeys,
         cursor' \in DOMAIN entries' \union {1}, reply'.value \in Values \union {NULL}
  PROVE  IInv'
<1>1. \A k \in DOMAIN entries' : entries'[k] \in Entry
  BY LenProperties, ElementOfSeq DEF Good
<1>2. freed' \subseteq 1..MaxKeys
  BY DEF Owned
<1>. QED
  BY <1>1, <1>2 DEF IInv, TypeOK, Entry

\* hash_table_setValue takes the new key string over, and frees the one it
\* replaces.
LEMMA SetStep ==
  ASSUME MaxKeys \in Nat, IInv, NEW text \in Texts, NEW v \in Values, SetValue(text, v)
  PROVE  IInv'
<1> DEFINE at == FindIndex(cursor, HashOf[text])
           x == [key |-> given + 1, text |-> text, keyHash |-> HashOf[text], value |-> v]
<1>1. /\ Len(entries) \in Nat /\ DOMAIN entries = 1..Len(entries)
      /\ IF at = 0
         THEN \A k \in DOMAIN entries : entries[k].keyHash # HashOf[text]
         ELSE at \in DOMAIN entries /\ entries[at].keyHash = HashOf[text]
      /\ cursor' \in DOMAIN entries \union {1}
  <2>1. cursor \in DOMAIN entries \union {1}
    BY DEF IInv, TypeOK
  <2>. QED
    BY <2>1, Searched, Zenon DEF SetValue
<1>2. given' = given + 1 /\ given \in Nat /\ given' \in 0..MaxKeys /\ x \in Entry
  BY DEF SetValue, IInv, TypeOK, Entry
<1>3. x.key = given + 1 /\ x.keyHash = HashOf[x.text] /\ x.keyHash = HashOf[text]
  OBVIOUS
<1>4. CASE at = 0
  <2>1. entries' = Append(entries, x) /\ freed' = freed /\ reply'.value = NULL
    BY <1>4 DEF SetValue
  <2> HIDE DEF x
  <2>2. Good(entries') /\ Owned(entries', freed', given')
    BY <1>1, <1>2, <1>3, <1>4, <2>1, Appended, Zenon DEF IInv
  <2>3. cursor' \in DOMAIN entries' \union {1}
    BY <1>1, <1>2, <2>1, AppendProperties, LenProperties DEF IInv, Good
  <2>. QED
    BY <1>2, <2>1, <2>2, <2>3, Typed
<1>5. CASE at # 0
  <2>1. /\ freed' = freed \union {entries[at].key}
        /\ entries' = [entries EXCEPT ![at].value = v, ![at].key = given + 1, ![at].text = text]
        /\ reply'.value = entries[at].value
    BY <1>5 DEF SetValue
  <2>2. entries[at] \in Entry /\ entries[at].keyHash = HashOf[text] /\ at \in DOMAIN entries
    BY <1>1, <1>5, ElementOfSeq DEF IInv, Good
  <2> DEFINE y == [[[entries[at] EXCEPT !.value = v] EXCEPT !.key = given + 1]
                   EXCEPT !.text = text]
  <2>3. /\ y \in Entry /\ y.key = given + 1 /\ y.text = text /\ y.value = v
        /\ y.keyHash = HashOf[text]
    BY <1>2, <2>2, Zenon DEF Entry
  <2>4. entries' = [entries EXCEPT ![at] = y]
    BY <2>1, <2>2, Zenon
  <2> HIDE DEF y
  <2>5. Good(entries') /\ Owned(entries', freed', given')
    <3>1. y.keyHash = HashOf[y.text] /\ y.keyHash = entries[at].keyHash
      BY <2>2, <2>3, Zenon
    <3>2. Good(entries) /\ Owned(entries, freed, given)
      BY DEF IInv
    <3>3. \A g : g = [entries EXCEPT ![at] = y]
             => Good(g) /\ Owned(g, freed \union {entries[at].key}, given + 1)
      BY <1>2, <2>2, <2>3, <3>1, <3>2, Replaced, Zenon
    <3>4. Good(entries') /\ Owned(entries', freed \union {entries[at].key}, given + 1)
      BY <2>4, <3>3, Zenon
    <3>. QED
      BY <1>2, <2>1, <3>4, Zenon
  <2>6. cursor' \in DOMAIN entries' \union {1}
    BY <1>1, <2>4
  <2>7. reply'.value \in Values
    BY <2>1, <2>2 DEF Entry
  <2>. QED
    BY <1>2, <2>5, <2>6, <2>7, Typed
<1>. QED
  BY <1>4, <1>5

\* hash_table_removeValue frees the key string of the entry it removes.
LEMMA RemoveStep ==
  ASSUME MaxKeys \in Nat, IInv, NEW text \in Texts, NEW from \in DOMAIN entries \union {1},
         RemoveFrom(from, text)
  PROVE  IInv'
<1> DEFINE at == FindIndex(from, HashOf[text])
<1>1. /\ Len(entries) \in Nat /\ DOMAIN entries = 1..Len(entries)
      /\ IF at = 0
         THEN \A k \in DOMAIN entries : entries[k].keyHash # HashOf[text]
         ELSE at \in DOMAIN entries /\ entries[at].keyHash = HashOf[text]
  BY Searched, Zenon
<1>2. given' = given /\ given \in Nat /\ given' \in 0..MaxKeys
  BY DEF RemoveFrom, IInv, TypeOK
<1>3. CASE at = 0
  <2>1. entries' = entries /\ freed' = freed /\ cursor' = from /\ reply'.value = NULL
    BY <1>3 DEF RemoveFrom
  <2>. QED
    BY <1>2, <2>1, Typed DEF IInv
<1>4. CASE at # 0
  <2>1. /\ entries' = RemoveAt(entries, at)
        /\ cursor' = IF at = Len(entries) THEN 1 ELSE at
        /\ freed' = freed \union {entries[at].key}
        /\ reply'.value = entries[at].value
    BY <1>4 DEF RemoveFrom
  <2>2. at \in DOMAIN entries /\ entries[at] \in Entry /\ entries \in Seq(Entry)
    BY <1>1, <1>4, ElementOfSeq DEF IInv, Good
  <2>3. Good(entries') /\ Owned(entries', freed', given')
    BY <1>2, <2>1, <2>2, RemovedGood, Zenon DEF IInv
  <2>4. DOMAIN entries' = 1..(Len(entries) - 1)
    BY <2>1, <2>2, Removed, Zenon
  <2>5. cursor' \in DOMAIN entries' \union {1}
    BY <1>1, <2>1, <2>2, <2>4
  <2>6. reply'.value \in Values
    BY <2>1, <2>2 DEF Entry
  <2>. QED
    BY <1>2, <2>3, <2>5, <2>6, Typed
<1>. QED
  BY <1>3, <1>4

\* hash_table_clear frees the key strings of all entries.
LEMMA ClearStep ==
  ASSUME MaxKeys \in Nat, IInv, Clear
  PROVE  IInv'
<1>1. /\ entries' = <<>> /\ cursor' = 1 /\ given' = given /\ reply'.value = NULL
      /\ freed' = freed \union {entries[k].key : k \in DOMAIN entries}
  BY DEF Clear
<1>2. Good(entries')
  BY <1>1, EmptySeq DEF Good
<1>3. Owned(entries', freed', given')
  <2>1. DOMAIN entries' = {}
    BY <1>1
  <2>2. freed' \subseteq 1..given
    BY <1>1, Zenon DEF Owned, IInv
  <2>3. \A x \in 1..given : x \in freed'
    BY <1>1 DEF Owned, IInv
  <2>. QED
    BY <1>1, <2>1, <2>2, <2>3, Zenon DEF Owned
<1>. QED
  BY <1>1, <1>2, <1>3, Typed DEF IInv, TypeOK

\* Every call keeps the invariant.
LEMMA IInvStep == MaxKeys \in Nat /\ IInv /\ [Next]_vars => IInv'
<1>. SUFFICES ASSUME MaxKeys \in Nat, IInv, [Next]_vars PROVE IInv'
  OBVIOUS
<1>0. cursor \in DOMAIN entries \union {1}
  BY DEF IInv, TypeOK
<1>1. ASSUME NEW text \in Texts, NEW v \in Values, SetValue(text, v) PROVE IInv'
  BY <1>1, SetStep
<1>2. ASSUME NEW text \in Texts, RemoveValue(text) PROVE IInv'
  BY <1>0, <1>2, RemoveStep DEF RemoveValue
<1>3. ASSUME NEW text \in Texts, GetValue(text) PROVE IInv'
  <2> DEFINE at == FindIndex(cursor, HashOf[text])
  <2>1. /\ IF at = 0 THEN TRUE ELSE at \in DOMAIN entries
        /\ cursor' \in DOMAIN entries \union {1}
    BY <1>0, <1>3, Searched, Zenon DEF GetValue
  <2>2. /\ reply'.value = IF at = 0 THEN NULL ELSE entries[at].value
        /\ UNCHANGED <<entries, freed, given>>
    BY <1>3 DEF GetValue
  <2>3. reply'.value \in Values \union {NULL}
    BY <2>1, <2>2 DEF IInv, TypeOK
  <2>. QED
    BY <2>1, <2>2, <2>3, Typed DEF IInv, TypeOK
<1>4. ASSUME NEW i \in 1..MaxKeys, GetByIndex(i) PROVE IInv'
  BY <1>4, Typed DEF GetByIndex, IInv, TypeOK
<1>5. CASE RemoveIndexZero
  <2>1. entries[1].text \in Texts
    <3>1. 1 \in DOMAIN entries
      BY <1>5, LenProperties, EmptySeq DEF RemoveIndexZero, IInv, Good
    <3>. QED
      BY <3>1 DEF IInv, TypeOK
  <2>. QED
    BY <1>5, <2>1, RemoveStep DEF RemoveIndexZero
<1>6. CASE Clear
  BY <1>6, ClearStep
<1>7. CASE UNCHANGED vars
  BY <1>7, Typed DEF vars, IInv, TypeOK
<1>. QED
  BY <1>1, <1>2, <1>3, <1>4, <1>5, <1>6, <1>7 DEF Next

\* A new table is empty.
LEMMA IInvInit == MaxKeys \in Nat /\ Init => IInv
BY EmptySeq DEF Init, IInv, TypeOK, Good, Owned

\* Each entry holds a key string of its own.
LEMMA IInvOwns == IInv => OwnsKeys
<1>. SUFFICES ASSUME IInv PROVE OwnsKeys
  OBVIOUS
<1> DEFINE held == {entries[k].key : k \in DOMAIN entries}
           f == [k \in 1..Len(entries) |-> entries[k].key]
<1>1. Len(entries) \in Nat /\ DOMAIN entries = 1..Len(entries)
  BY LenProperties DEF IInv, Good
<1>2. f \in Bijection(1..Len(entries), held)
  <2>1. f \in [1..Len(entries) -> held]
    BY <1>1
  <2>2. \A j, k \in 1..Len(entries) : f[j] = f[k] => j = k
    BY <1>1 DEF IInv, Good
  <2>3. \A x \in held : \E k \in 1..Len(entries) : f[k] = x
    BY <1>1
  <2>. QED
    BY <2>1, <2>2, <2>3, Zenon DEF Bijection, Injection, Surjection, IsInjective
<1>3. IsFiniteSet(1..Len(entries)) /\ Cardinality(1..Len(entries)) = Len(entries)
  <2>1. Cardinality(1..Len(entries)) = IF 1 > Len(entries) THEN 0 ELSE Len(entries) - 1 + 1
    BY <1>1, FS_Interval
  <2>. QED
    BY <1>1, <2>1, FS_Interval
<1> HIDE DEF f, held
<1>4. Cardinality(held) = Len(entries)
  <2>1. ExistsBijection(1..Len(entries), held)
    BY <1>2, Zenon DEF ExistsBijection
  <2>. QED
    BY <1>3, <2>1, FS_Bijection, Zenon
<1>5. held \intersect freed = {} /\ held \union freed = 1..given
  BY Zenon DEF IInv, Owned, held
<1>. QED
  BY <1>4, <1>5 DEF OwnsKeys, IInv, held

\* For any texts, any hash function and any number of calls, the table frees
\* each key string it was given exactly once, and no earlier than it lets go
\* of it (hash_table_setValue, hash_table_removeValue, hash_table_clear).
THEOREM KeysOwned == TableAssumption /\ Spec => []OwnsKeys
<1>1. CASE TableAssumption
  <2>1. MaxKeys \in Nat
    BY <1>1 DEF TableAssumption
  <2>2. Init => IInv
    BY <2>1, IInvInit
  <2>3. IInv /\ [Next]_vars => IInv'
    BY <2>1, IInvStep
  <2>. QED
    BY <2>2, <2>3, IInvOwns, PTL DEF Spec
<1>. QED
  BY <1>1

-----------------------------------------------------------------------------
(* The table as a map *)

\* The value of a text in a list of entries
ValueIn(e, t) ==
    LET at == {k \in DOMAIN e : e[k].text = t}
    IN  IF at = {} THEN NULL ELSE e[CHOOSE k \in at : TRUE].value

\* For a text with a hash of its own, the entry with its hash decides.
LEMMA ValueOf ==
  \A e, t : Good(e) /\ t \in Unique
      => /\ \A k \in DOMAIN e : e[k].keyHash = HashOf[t] => ValueIn(e, t) = e[k].value
         /\ (\A k \in DOMAIN e : e[k].keyHash # HashOf[t]) => ValueIn(e, t) = NULL
<1>. SUFFICES ASSUME NEW e, NEW t, Good(e), t \in Unique
              PROVE  /\ \A k \in DOMAIN e : e[k].keyHash = HashOf[t] => ValueIn(e, t) = e[k].value
                     /\ (\A k \in DOMAIN e : e[k].keyHash # HashOf[t]) => ValueIn(e, t) = NULL
  BY Zenon
<1> DEFINE at == {k \in DOMAIN e : e[k].text = t}
<1>1. \A k \in DOMAIN e : e[k].text \in Texts /\ e[k].keyHash = HashOf[e[k].text]
  <2>1. \A k \in DOMAIN e : e[k] \in Entry
    BY LenProperties, ElementOfSeq DEF Good
  <2>. QED
    BY <2>1 DEF Good, Entry
<1>2. t \in Texts /\ \A s \in Texts : s # t => HashOf[s] # HashOf[t]
  BY DEF Unique
<1>3. \A k \in DOMAIN e : e[k].keyHash = HashOf[t] <=> e[k].text = t
  BY <1>1, <1>2
<1>4. ASSUME NEW k \in DOMAIN e, e[k].keyHash = HashOf[t] PROVE ValueIn(e, t) = e[k].value
  <2>1. at = {k}
    BY <1>3, <1>4 DEF Good
  <2>. QED
    BY <2>1 DEF ValueIn
<1>5. ASSUME \A k \in DOMAIN e : e[k].keyHash # HashOf[t] PROVE ValueIn(e, t) = NULL
  <2>1. at = {}
    BY <1>3, <1>5
  <2>. QED
    BY <2>1 DEF ValueIn
<1>. QED
  BY <1>4, <1>5

\* Contents as a function of the text
LEMMA ContentsAre ==
  /\ \A t \in Unique : Contents[t] = ValueIn(entries, t)
  /\ \A t \in Unique : Contents'[t] = ValueIn(entries', t)
BY DEF Contents, ValueIn

\* Two lists with the same entry for a hash have the same value for its text.
LEMMA SameValue ==
  \A e, g : \A s \in Unique :
     /\ Good(e) /\ Good(g)
     /\ \A k \in DOMAIN e : e[k].keyHash = HashOf[s]
           => \E j \in DOMAIN g : g[j].keyHash = HashOf[s] /\ g[j].value = e[k].value
     /\ \A j \in DOMAIN g : g[j].keyHash = HashOf[s]
           => \E k \in DOMAIN e : e[k].keyHash = HashOf[s]
     => ValueIn(e, s) = ValueIn(g, s)
<1>. SUFFICES
       ASSUME NEW e, NEW g, NEW s \in Unique, Good(e), Good(g),
              \A k \in DOMAIN e : e[k].keyHash = HashOf[s]
                  => \E j \in DOMAIN g : g[j].keyHash = HashOf[s] /\ g[j].value = e[k].value,
              \A j \in DOMAIN g : g[j].keyHash = HashOf[s]
                  => \E k \in DOMAIN e : e[k].keyHash = HashOf[s]
       PROVE  ValueIn(e, s) = ValueIn(g, s)
  BY Zenon
<1>1. CASE \E k \in DOMAIN e : e[k].keyHash = HashOf[s]
  <2>1. PICK k \in DOMAIN e : e[k].keyHash = HashOf[s]
    BY <1>1
  <2>2. PICK j \in DOMAIN g : g[j].keyHash = HashOf[s] /\ g[j].value = e[k].value
    BY <2>1
  <2>3. ValueIn(e, s) = e[k].value /\ ValueIn(g, s) = g[j].value
    BY <2>1, <2>2, ValueOf, Zenon
  <2>. QED
    BY <2>2, <2>3
<1>2. CASE \A k \in DOMAIN e : e[k].keyHash # HashOf[s]
  <2>1. \A j \in DOMAIN g : g[j].keyHash # HashOf[s]
    BY <1>2, Zenon
  <2>. QED
    BY <1>2, <2>1, ValueOf, Zenon
<1>. QED
  BY <1>1, <1>2, Zenon

\* hash_table_setValue as a call of a map
LEMMA SetAnswers ==
  ASSUME NULL \notin Values, IInv, IInv', NEW text \in Texts, NEW v \in Values,
         SetValue(text, v)
  PROVE  AnswersAsMap
<1> DEFINE at == FindIndex(cursor, HashOf[text])
           x == [key |-> given + 1, text |-> text, keyHash |-> HashOf[text], value |-> v]
<1>1. /\ Len(entries) \in Nat /\ DOMAIN entries = 1..Len(entries)
      /\ IF at = 0
         THEN \A k \in DOMAIN entries : entries[k].keyHash # HashOf[text]
         ELSE at \in DOMAIN entries /\ entries[at].keyHash = HashOf[text]
  <2>1. cursor \in DOMAIN entries \union {1}
    BY DEF IInv, TypeOK
  <2>. QED
    BY <2>1, Searched, Zenon
<1>2. Good(entries) /\ Good(entries')
  BY DEF IInv
<1>3. reply'.call = "set" /\ reply'.text = text
  BY DEF SetValue
<1>4. \A s \in Unique \ {text} : HashOf[s] # HashOf[text]
  BY DEF Unique
\* Where the new entry is, and that the others are as they were
<1>5. PICK i \in DOMAIN entries' :
        /\ entries'[i].keyHash = HashOf[text] /\ entries'[i].value = v
        /\ \A k \in DOMAIN entries : k # i => k \in DOMAIN entries' /\ entries'[k] = entries[k]
        /\ \A k \in DOMAIN entries' : k # i => k \in DOMAIN entries
        /\ i \in DOMAIN entries => entries[i].keyHash = HashOf[text]
        /\ reply'.value = ValueIn(entries, text) \/ text \notin Unique
  <2>1. CASE at = 0
    <3>1. entries' = Append(entries, x) /\ reply'.value = NULL
      BY <2>1 DEF SetValue
    <3>2. /\ DOMAIN entries' = 1..(Len(entries) + 1) /\ entries'[Len(entries) + 1] = x
          /\ \A k \in 1..Len(entries) : entries'[k] = entries[k]
      <4>1. entries \in Seq(Entry \union {x}) /\ x \in Entry \union {x}
        <5>1. Entry \subseteq Entry \union {x}
          OBVIOUS
        <5>. QED
          BY <5>1, SeqMonotonic DEF IInv, Good
      <4> HIDE DEF x
      <4>. QED
        BY <3>1, <4>1, AppendProperties, LenProperties
    <3>3. text \in Unique => ValueIn(entries, text) = NULL
      BY <1>1, <1>2, <2>1, ValueOf, Zenon
    <3>4. Len(entries) + 1 \in DOMAIN entries' /\ Len(entries) + 1 \notin DOMAIN entries
      BY <1>1, <3>2
    <3>. QED
      BY <1>1, <3>1, <3>2, <3>3, <3>4
  <2>2. CASE at # 0
    <3>1. /\ entries' = [entries EXCEPT ![at].value = v, ![at].key = given + 1, ![at].text = text]
          /\ reply'.value = entries[at].value
      BY <2>2 DEF SetValue
    <3>2. at \in DOMAIN entries /\ entries[at].keyHash = HashOf[text] /\ entries[at] \in Entry
      BY <1>1, <2>2, ElementOfSeq DEF IInv, Good
    <3>3. text \in Unique => ValueIn(entries, text) = entries[at].value
      BY <1>2, <3>2, ValueOf, Zenon
    <3>4. DOMAIN entries' = DOMAIN entries /\ \A k \in DOMAIN entries : k # at => entries'[k] = entries[k]
      BY <3>1, <3>2
    <3>5. entries'[at].keyHash = HashOf[text] /\ entries'[at].value = v
      BY <3>1, <3>2 DEF Entry
    <3>. QED
      BY <3>1, <3>2, <3>3, <3>4, <3>5
  <2>. QED
    BY <2>1, <2>2
<1>6. ASSUME NEW s \in Unique \ {text} PROVE Contents'[s] = Contents[s]
  <2>1. HashOf[s] # HashOf[text]
    BY <1>4
  <2>2. \A k \in DOMAIN entries : entries[k].keyHash = HashOf[s]
          => \E j \in DOMAIN entries' : entries'[j].keyHash = HashOf[s]
                                        /\ entries'[j].value = entries[k].value
    BY <1>5, <2>1
  <2>3. \A j \in DOMAIN entries' : entries'[j].keyHash = HashOf[s]
          => \E k \in DOMAIN entries : entries[k].keyHash = HashOf[s]
    BY <1>5, <2>1
  <2>4. ValueIn(entries, s) = ValueIn(entries', s)
    BY <1>2, <2>2, <2>3, SameValue, Zenon
  <2>. QED
    BY <2>4, ContentsAre, Zenon
<1>7. ASSUME text \in Unique PROVE reply'.value = Contents[text] /\ Contents'[text] # NULL
  <2>1. ValueIn(entries', text) = v
    BY <1>2, <1>5, <1>7, ValueOf, Zenon
  <2>2. reply'.value = ValueIn(entries, text)
    BY <1>5, <1>7
  <2>3. v # NULL
    OBVIOUS
  <2>. QED
    BY <1>7, <2>1, <2>2, <2>3, ContentsAre, Zenon
<1>. QED
  BY <1>3, <1>6, <1>7 DEF AnswersAsMap

\* hash_table_removeValue as a call of a map
LEMMA RemoveAnswers ==
  ASSUME IInv, IInv', NEW text \in Texts, NEW from \in DOMAIN entries \union {1},
         RemoveFrom(from, text)
  PROVE  AnswersAsMap
<1> DEFINE at == FindIndex(from, HashOf[text])
<1>1. /\ Len(entries) \in Nat /\ DOMAIN entries = 1..Len(entries)
      /\ IF at = 0
         THEN \A k \in DOMAIN entries : entries[k].keyHash # HashOf[text]
         ELSE at \in DOMAIN entries /\ entries[at].keyHash = HashOf[text]
  BY Searched, Zenon
<1>2. Good(entries) /\ Good(entries')
  BY DEF IInv
<1>3. reply'.call = "remove" /\ reply'.text = text
  BY DEF RemoveFrom
<1>4. \A s \in Unique \ {text} : HashOf[s] # HashOf[text]
  BY DEF Unique
<1>5. CASE at = 0
  <2>1. entries' = entries /\ reply'.value = NULL
    BY <1>5 DEF RemoveFrom
  <2>2. text \in Unique => ValueIn(entries, text) = NULL
    BY <1>1, <1>2, <1>5, ValueOf, Zenon
  <2>3. \A s \in Unique : Contents'[s] = Contents[s]
    BY <2>1, ContentsAre, Zenon
  <2>4. text \in Unique => Contents[text] = NULL
    BY <2>2, ContentsAre, Zenon
  <2>. QED
    BY <1>3, <2>1, <2>3, <2>4 DEF AnswersAsMap
<1>6. CASE at # 0
  <2>1. entries' = RemoveAt(entries, at) /\ reply'.value = entries[at].value
    BY <1>6 DEF RemoveFrom
  <2>2. at \in 1..Len(entries) /\ entries[at].keyHash = HashOf[text] /\ entries \in Seq(Entry)
    BY <1>1, <1>6 DEF IInv, Good
  <2>3. /\ DOMAIN entries' = 1..(Len(entries) - 1)
        /\ \A k \in DOMAIN entries' : entries'[k] = IF k < at THEN entries[k] ELSE entries[k + 1]
    BY <1>1, <2>1, <2>2, Removed, Zenon
  <2>4. \A k \in DOMAIN entries' :
           \E i \in DOMAIN entries : i # at /\ entries'[k] = entries[i]
    BY <1>1, <2>2, <2>3
  <2>5. ASSUME NEW i \in DOMAIN entries, i # at
        PROVE  \E k \in DOMAIN entries' : entries'[k] = entries[i]
    <3>1. CASE i < at
      BY <1>1, <2>2, <2>3, <3>1
    <3>2. CASE i > at
      <4>1. i - 1 \in DOMAIN entries' /\ ~(i - 1 < at) /\ (i - 1) + 1 = i
        BY <1>1, <2>2, <2>3, <3>2
      <4>. QED
        BY <2>3, <4>1
    <3>3. i < at \/ i > at
      BY <1>1, <2>2, <2>5
    <3>. QED
      BY <3>1, <3>2, <3>3, Zenon
  <2>6. ASSUME NEW s \in Unique \ {text} PROVE Contents'[s] = Contents[s]
    <3>1. HashOf[s] # HashOf[text]
      BY <1>4
    <3>2. \A k \in DOMAIN entries : entries[k].keyHash = HashOf[s]
            => \E j \in DOMAIN entries' : entries'[j].keyHash = HashOf[s]
                                          /\ entries'[j].value = entries[k].value
      BY <2>2, <2>5, <3>1
    <3>3. \A j \in DOMAIN entries' : entries'[j].keyHash = HashOf[s]
            => \E k \in DOMAIN entries : entries[k].keyHash = HashOf[s]
      BY <2>4
    <3>4. ValueIn(entries, s) = ValueIn(entries', s)
      BY <1>2, <3>2, <3>3, SameValue, Zenon
    <3>. QED
      BY <3>4, ContentsAre, Zenon
  <2>7. ASSUME text \in Unique PROVE reply'.value = Contents[text] /\ Contents'[text] = NULL
    <3>1. ValueIn(entries, text) = entries[at].value
      BY <1>1, <1>2, <1>6, <2>7, ValueOf, Zenon
    <3>2. \A k \in DOMAIN entries' : entries'[k].keyHash # HashOf[text]
      BY <1>1, <2>2, <2>4 DEF IInv, Good
    <3>3. ValueIn(entries', text) = NULL
      BY <1>2, <2>7, <3>2, ValueOf, Zenon
    <3>. QED
      BY <2>1, <2>7, <3>1, <3>3, ContentsAre, Zenon
  <2>. QED
    BY <1>3, <2>6, <2>7 DEF AnswersAsMap
<1>. QED
  BY <1>5, <1>6

\* A call that only reads
LEMMA GetAnswers ==
  ASSUME IInv, IInv', UNCHANGED entries, reply'.call = "get", reply'.text \in Texts,
         \/ /\ reply'.value = NULL
            /\ \A k \in DOMAIN entries : entries[k].keyHash # HashOf[reply'.text]
         \/ \E k \in DOMAIN entries : /\ entries[k].keyHash = HashOf[reply'.text]
                                      /\ entries[k].value = reply'.value
  PROVE  AnswersAsMap
<1>1. Good(entries)
  BY DEF IInv
<1>2. \A s \in Unique : Contents'[s] = Contents[s]
  BY ContentsAre, Zenon
<1>3. reply'.text \in Unique => ValueIn(entries, reply'.text) = reply'.value
  <2>1. CASE \E k \in DOMAIN entries : /\ entries[k].keyHash = HashOf[reply'.text]
                                      /\ entries[k].value = reply'.value
    <3>1. PICK k \in DOMAIN entries : /\ entries[k].keyHash = HashOf[reply'.text]
                                      /\ entries[k].value = reply'.value
      BY <2>1
    <3>2. reply'.text \in Unique => ValueIn(entries, reply'.text) = entries[k].value
      BY <1>1, <3>1, ValueOf, Zenon
    <3>. QED
      BY <3>1, <3>2
  <2>2. CASE /\ reply'.value = NULL
             /\ \A k \in DOMAIN entries : entries[k].keyHash # HashOf[reply'.text]
    <3>1. reply'.text \in Unique => ValueIn(entries, reply'.text) = NULL
      BY <1>1, <2>2, ValueOf, Zenon
    <3>. QED
      BY <2>2, <3>1
  <2>. QED
    BY <2>1, <2>2, Zenon
<1>4. reply'.text \in Unique => Contents[reply'.text] = reply'.value
  BY <1>3, ContentsAre, Zenon
<1>. QED
  BY <1>2, <1>4 DEF AnswersAsMap

\* Every call of the table is one of a map.
LEMMA AnswersStep ==
  TableAssumption /\ IInv /\ [Next]_vars => [AnswersAsMap]_vars
<1>. SUFFICES ASSUME TableAssumption, IInv, Next PROVE AnswersAsMap
  OBVIOUS
<1>1. MaxKeys \in Nat /\ NULL \notin Values /\ NULL \notin Texts
  BY DEF TableAssumption
<1>2. IInv'
  BY <1>1, IInvStep
<1>3. cursor \in DOMAIN entries \union {1}
  BY DEF IInv, TypeOK
<1>4. ASSUME NEW text \in Texts, NEW v \in Values, SetValue(text, v) PROVE AnswersAsMap
  BY <1>1, <1>2, <1>4, SetAnswers
<1>5. ASSUME NEW text \in Texts, RemoveValue(text) PROVE AnswersAsMap
  BY <1>2, <1>3, <1>5, RemoveAnswers DEF RemoveValue
<1>6. ASSUME NEW text \in Texts, GetValue(text) PROVE AnswersAsMap
  <2> DEFINE at == FindIndex(cursor, HashOf[text])
  <2>1. IF at = 0
        THEN \A k \in DOMAIN entries : entries[k].keyHash # HashOf[text]
        ELSE at \in DOMAIN entries /\ entries[at].keyHash = HashOf[text]
    BY <1>3, Searched, Zenon
  <2>2. /\ reply'.call = "get" /\ reply'.text = text /\ UNCHANGED entries
        /\ reply'.value = IF at = 0 THEN NULL ELSE entries[at].value
    BY <1>6 DEF GetValue
  <2> HIDE DEF at
  <2>. QED
    BY <1>2, <2>1, <2>2, GetAnswers
<1>7. ASSUME NEW i \in 1..MaxKeys, GetByIndex(i) PROVE AnswersAsMap
  <2>1. /\ i \in DOMAIN entries /\ reply'.call = "get" /\ UNCHANGED entries
        /\ reply'.text = entries[i].text /\ reply'.value = entries[i].value
    BY <1>7 DEF GetByIndex
  <2>2. entries[i].text \in Texts /\ entries[i].keyHash = HashOf[entries[i].text]
    BY <2>1 DEF IInv, TypeOK, Good
  <2>. QED
    BY <1>2, <2>1, <2>2, GetAnswers
<1>8. CASE RemoveIndexZero
  <2>1. entries[1].text \in Texts
    <3>1. 1 \in DOMAIN entries
      BY <1>8, LenProperties, EmptySeq DEF RemoveIndexZero, IInv, Good
    <3>. QED
      BY <3>1 DEF IInv, TypeOK
  <2>. QED
    BY <1>2, <1>8, <2>1, RemoveAnswers DEF RemoveIndexZero
<1>9. CASE Clear
  BY <1>1, <1>9 DEF Clear, AnswersAsMap, Unique
<1>. QED
  BY <1>4, <1>5, <1>6, <1>7, <1>8, <1>9 DEF Next

\* For any texts, values and hash function: wherever earlier calls left the
\* cursor, and whichever other keys collide, hash_table_setValue, the getters
\* and hash_table_removeValue answer for a key with a hash of its own what a
\* map would.
THEOREM TableIsMap == TableAssumption /\ Spec => BehavesAsMap
<1>1. CASE TableAssumption
  <2>1. MaxKeys \in Nat
    BY <1>1 DEF TableAssumption
  <2>2. Init => IInv
    BY <2>1, IInvInit
  <2>3. IInv /\ [Next]_vars => IInv'
    BY <2>1, IInvStep
  <2>4. IInv /\ [Next]_vars => [AnswersAsMap]_vars
    BY <1>1, AnswersStep
  <2>. QED
    BY <2>2, <2>3, <2>4, PTL DEF Spec, BehavesAsMap
<1>. QED
  BY <1>1

=============================================================================
