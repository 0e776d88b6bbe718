---------------------------- MODULE SecMgmtProofs ----------------------------
(***************************************************************************)
(* Safety of security management for any number of subtasks, profiles,     *)
(* groups, users and requests: a change that was answered is in effect and *)
(* is the one asked for, a list is whole, and the pages of a scan miss no  *)
(* name and repeat none.                                                   *)
(***************************************************************************)
EXTENDS SecMgmt, FiniteSetTheorems, SequenceTheorems, WellFoundedInduction, TLAPS

-----------------------------------------------------------------------------
(***************************************************************************)
(* Names in their order.                                                   *)
(***************************************************************************)
Rising(s) == \A i, j \in DOMAIN s : i < j => s[i] < s[j]

\* A number that is not greater than another is less or the same.
LEMMA LessOrEqual ==
  \A a, b \in Nat : a <= b /\ a # b => a < b
  OBVIOUS

\* Some name of a set of names is the first one.
LEMMA LeastName ==
  ASSUME NEW T, T \subseteq Nat, T # {}
  PROVE  \E m \in T : \A n \in T : m <= n
<1>1. \E m \in T : \A n \in T : ~(<<n, m>> \in OpToRel(<, Nat))
  BY NatLessThanWellFounded, WFMin
<1>2. PICK m \in T : \A n \in T : ~(<<n, m>> \in OpToRel(<, Nat))
  BY <1>1
<1>3. \A n \in T : ~(n < m)
  BY <1>2 DEF OpToRel
<1>4. \A n \in T : m <= n
  BY <1>3
<1> QED BY <1>4

\* A set of names can be listed in their order: without the first one it has
\* one name less, and the first one goes before the others.
LEMMA RisingExists ==
  ASSUME NEW S, S \subseteq Nat, IsFiniteSet(S)
  PROVE  \E s \in [1..Cardinality(S) -> S] : Rising(s)
<1> DEFINE Listable(T) == \E s \in [1..Cardinality(T) -> T] : Rising(s)
           Bad == {n \in Nat : \E T \in SUBSET Nat : IsFiniteSet(T) /\ Cardinality(T) = n /\ ~Listable(T)}
<1>1. SUFFICES ASSUME Bad # {} PROVE FALSE
  <2>1. Cardinality(S) \in Nat
    BY FS_CardinalityType
  <2>2. Listable(S)
    BY <2>1, <1>1
  <2> QED BY <2>2
<1>2. PICK n \in Bad : \A k \in Bad : n <= k
  <2>1. Bad \subseteq Nat
    OBVIOUS
  <2> HIDE DEF Bad
  <2> QED BY <1>1, <2>1, LeastName
<1>3. PICK T \in SUBSET Nat : IsFiniteSet(T) /\ Cardinality(T) = n /\ ~Listable(T)
  BY <1>2
<1>4. n \in Nat
  BY <1>2
<1>5. T # {}
  <2>1. SUFFICES ASSUME T = {} PROVE FALSE
    OBVIOUS
  <2>2. Cardinality(T) = 0
    BY <2>1, FS_EmptySet
  <2>3. [i \in 1..0 |-> i] \in [1..Cardinality(T) -> T] /\ Rising([i \in 1..0 |-> i])
    BY <2>1, <2>2 DEF Rising
  <2> QED BY <2>3, <1>3
<1>6. PICK m \in T : \A k \in T : m <= k
  BY <1>5, LeastName
<1>7. IsFiniteSet(T \ {m}) /\ Cardinality(T \ {m}) = n - 1 /\ n - 1 \in Nat
  BY <1>3, <1>4, <1>5, <1>6, FS_RemoveElement, FS_EmptySet, FS_CardinalityType
<1>8. Listable(T \ {m})
  <2>1. n - 1 \notin Bad
    BY <1>2, <1>4
  <2>2. (T \ {m}) \in SUBSET Nat
    OBVIOUS
  <2> QED BY <2>1, <2>2, <1>7
<1>9. PICK f \in [1..(n - 1) -> T \ {m}] : Rising(f)
  BY <1>7, <1>8
<1>10. PICK g : g = [i \in 1..n |-> IF i = 1 THEN m ELSE f[i - 1]]
  OBVIOUS
<1>11. \A i \in 1..n : i = 1 \/ i - 1 \in 1..(n - 1)
  BY <1>4
<1>12. g \in [1..n -> T]
  BY <1>9, <1>10, <1>11
<1>13. Rising(g)
  <2>1. SUFFICES ASSUME NEW i \in 1..n, NEW j \in 1..n, i < j PROVE g[i] < g[j]
    BY <1>10 DEF Rising
  <2>2. j - 1 \in 1..(n - 1) /\ g[j] = f[j - 1] /\ f[j - 1] \in T \ {m}
    BY <2>1, <1>4, <1>9, <1>10
  <2>3. CASE i = 1
    <3>1. g[i] = m
      BY <2>3, <1>10
    <3>2. m \in Nat /\ f[j - 1] \in Nat /\ m <= f[j - 1] /\ m # f[j - 1]
      BY <2>2, <1>3, <1>6
    <3> QED BY <3>1, <3>2, <2>2
  <2>4. CASE i # 1
    <3>1. i - 1 \in 1..(n - 1) /\ g[i] = f[i - 1] /\ i - 1 < j - 1
      BY <2>1, <2>4, <1>4, <1>10
    <3>2. f[i - 1] < f[j - 1]
      BY <3>1, <2>2, <1>9 DEF Rising
    <3> QED BY <3>1, <3>2, <2>2
  <2> QED BY <2>3, <2>4
<1>14. g \in [1..Cardinality(T) -> T] /\ Rising(g)
  BY <1>3, <1>12, <1>13
<1> QED BY <1>3, <1>14

\* Names in their order are each there once.
LEMMA RisingInjective ==
  ASSUME NEW S, S \subseteq Nat, NEW s \in Seq(S), Rising(s)
  PROVE  IsInjective(s)
<1>1. DOMAIN s = 1..Len(s) /\ Len(s) \in Nat
  BY LenProperties
<1>2. SUFFICES ASSUME NEW i \in DOMAIN s, NEW j \in DOMAIN s, s[i] = s[j] PROVE i = j
  BY DEF IsInjective
<1>3. i \in Int /\ j \in Int /\ s[i] \in Nat /\ s[j] \in Nat
  <2>1. i \in 1..Len(s) /\ j \in 1..Len(s)
    BY <1>1
  <2>2. s[i] \in S /\ s[j] \in S
    BY <2>1, ElementOfSeq
  <2>3. i \in Int /\ j \in Int
    BY <1>1, <2>1
  <2>4. s[i] \in Nat /\ s[j] \in Nat
    BY <2>2
  <2> QED BY <2>3, <2>4
<1>4. ~(i < j) /\ ~(j < i)
  BY <1>2, <1>3 DEF Rising
<1> QED BY <1>3, <1>4

\* The extraction of a set of names has all of them and nothing else, in order.
LEMMA AscendingProperties ==
  ASSUME NEW S, S \subseteq Nat, IsFiniteSet(S)
  PROVE  /\ Ascending(S) \in Seq(S)
         /\ Rising(Ascending(S))
         /\ \A p \in S : \E i \in 1..Len(Ascending(S)) : Ascending(S)[i] = p
<1>1. Cardinality(S) \in Nat
  BY FS_CardinalityType
<1>2. PICK s : s = Ascending(S)
  OBVIOUS
<1>3. s \in [1..Cardinality(S) -> S] /\ Rising(s)
  BY <1>2, RisingExists DEF Ascending, Rising
<1>4. s \in Seq(S) /\ Len(s) = Cardinality(S)
  BY <1>1, <1>3
<1>5. IsInjective(s)
  BY <1>3, <1>4, RisingInjective
<1>6. s \in Injection(1..Cardinality(S), S)
  BY <1>3, <1>5 DEF Injection
<1>7. Cardinality(1..Cardinality(S)) = Cardinality(S) /\ IsFiniteSet(1..Cardinality(S))
  BY <1>1, FS_Interval
<1>8. s \in Surjection(1..Cardinality(S), S)
  BY <1>6, <1>7, FS_Injection
<1>9. \A p \in S : \E i \in 1..Len(s) : s[i] = p
  BY <1>4, <1>8 DEF Surjection
<1> QED BY <1>2, <1>3, <1>4, <1>9

\* The names of a sequence, by their positions.
LEMMA NamesOf ==
  ASSUME NEW S, NEW s \in Seq(S)
  PROVE  /\ ToSet(s) \subseteq S
         /\ \A i \in 1..Len(s) : s[i] \in ToSet(s)
         /\ \A p \in ToSet(s) : \E i \in 1..Len(s) : s[i] = p
<1>1. DOMAIN s = 1..Len(s)
  BY LenProperties
<1>2. ToSet(s) = {s[i] : i \in 1..Len(s)}
  BY <1>1 DEF ToSet
<1>3. \A i \in 1..Len(s) : s[i] \in S
  BY ElementOfSeq
<1> QED BY <1>2, <1>3

\* The first k positions of a sequence in order are in order.
LEMMA RisingPart ==
  ASSUME NEW s \in Seq(Nat), Rising(s), NEW k \in 0..Len(s)
  PROVE  /\ SubSeq(s, 1, k) \in Seq(Nat) /\ Len(SubSeq(s, 1, k)) = k
         /\ \A i \in 1..k : SubSeq(s, 1, k)[i] = s[i]
         /\ Rising(SubSeq(s, 1, k))
         /\ \A p \in ToSet(s) : k >= 1 /\ p <= s[k] => p \in ToSet(SubSeq(s, 1, k))
         /\ \A p \in ToSet(SubSeq(s, 1, k)) : p \in ToSet(s)
<1>1. Len(s) \in Nat /\ DOMAIN s = 1..Len(s) /\ k \in Nat
  BY LenProperties
<1>2. \A i \in 1..k : i \in 1..Len(s)
  BY <1>1
<1>3. \A i \in 1..k : s[i] \in Nat
  BY <1>2, ElementOfSeq
<1>4. PICK q : q = SubSeq(s, 1, k)
  OBVIOUS
<1>5. q \in Seq(Nat) /\ Len(q) = k /\ \A i \in 1..k : q[i] = s[i]
  <2>1. /\ SubSeq(s, 1, k) \in Seq(Nat)
        /\ Len(SubSeq(s, 1, k)) = IF 1 <= k THEN k - 1 + 1 ELSE 0
        /\ \A i \in 1..(k - 1 + 1) : SubSeq(s, 1, k)[i] = s[1 + i - 1]
    BY <1>1, <1>3, SubSeqProperties
  <2> QED BY <2>1, <1>1, <1>4
<1>6. DOMAIN q = 1..k
  BY <1>5, LenProperties
<1>7. Rising(q)
  BY <1>1, <1>2, <1>5, <1>6 DEF Rising
<1>8. ASSUME NEW p \in ToSet(s), k >= 1, p <= s[k] PROVE p \in ToSet(q)
  <2>1. PICK i \in 1..Len(s) : s[i] = p
    BY NamesOf
  <2>2. i <= k
    <3>1. SUFFICES ASSUME i > k PROVE FALSE
      BY <1>1
    <3>2. s[k] < s[i]
      BY <3>1, <1>1, <1>8 DEF Rising
    <3>3. s[k] \in Nat /\ s[i] \in Nat
      BY <1>1, <1>8, ElementOfSeq
    <3> QED BY <3>2, <3>3, <2>1, <1>8
  <2>3. i \in 1..Len(q) /\ q[i] = p
    BY <2>1, <2>2, <1>1, <1>5
  <2> QED BY <2>3, <1>5, NamesOf
<1>9. ASSUME NEW p \in ToSet(q) PROVE p \in ToSet(s)
  <2>1. PICK i \in 1..Len(q) : q[i] = p
    BY <1>5, NamesOf
  <2>2. i \in 1..Len(s) /\ s[i] = p
    BY <2>1, <1>2, <1>5
  <2> QED BY <2>2, NamesOf
<1> QED BY <1>4, <1>5, <1>7, <1>8, <1>9

\* A page of n names is in order, starts where it is asked to, and misses no name
\* up to its last one; if it is not full it misses none behind it either.
LEMMA PageProperties ==
  ASSUME NEW S, S \subseteq Nat, IsFiniteSet(S), NEW start \in Nat, NEW n \in Nat \ {0}
  PROVE  /\ Page(From(start, S), n) \in Seq(Nat)
         /\ Rising(Page(From(start, S), n))
         /\ Len(Page(From(start, S), n)) <= n
         /\ \A p \in ToSet(Page(From(start, S), n)) : p \in S /\ start <= p
         /\ \A p \in S : start <= p
              /\ \/ Len(Page(From(start, S), n)) < n
                 \/ p <= Page(From(start, S), n)[Len(Page(From(start, S), n))]
              => p \in ToSet(Page(From(start, S), n))
<1> DEFINE T == {p \in S : p >= start}
<1>1. T \subseteq Nat /\ IsFiniteSet(T) /\ T \subseteq S
  BY FS_Subset
<1>2. PICK s : s = From(start, S)
  OBVIOUS
<1>3. s \in Seq(T) /\ Rising(s) /\ \A p \in T : \E i \in 1..Len(s) : s[i] = p
  BY <1>1, <1>2, AscendingProperties DEF From
<1>4. s \in Seq(Nat) /\ Len(s) \in Nat
  BY <1>1, <1>3, SeqMonotonic, LenProperties
<1>5. \A p : p \in ToSet(s) <=> p \in T
  <2> HIDE DEF T
  <2>1. ToSet(s) \subseteq T /\ \A i \in 1..Len(s) : s[i] \in ToSet(s)
    BY <1>3, NamesOf
  <2> QED BY <2>1, <1>3
<1>6. PICK k : k = Least(n, Len(s))
  OBVIOUS
<1>7. k \in 0..Len(s) /\ k <= n /\ (k < n => k = Len(s)) /\ (k = 0 => Len(s) = 0)
  BY <1>4, <1>6 DEF Least
<1>8. PICK q : q = Page(From(start, S), n)
  OBVIOUS
<1>9. q = SubSeq(s, 1, k)
  BY <1>2, <1>6, <1>8 DEF Page
<1>10. /\ q \in Seq(Nat) /\ Len(q) = k /\ Rising(q)
       /\ \A i \in 1..k : q[i] = s[i]
       /\ \A p \in ToSet(s) : k >= 1 /\ p <= s[k] => p \in ToSet(q)
       /\ \A p \in ToSet(q) : p \in ToSet(s)
  BY <1>3, <1>4, <1>7, <1>9, RisingPart
<1>11. \A p \in ToSet(q) : p \in S /\ start <= p
  BY <1>1, <1>5, <1>10
<1>12. ASSUME NEW p \in S, start <= p, Len(q) < n \/ p <= q[Len(q)] PROVE p \in ToSet(q)
  <2>1. p \in ToSet(s)
    BY <1>5, <1>12
  <2>2. PICK i \in 1..Len(s) : s[i] = p
    BY <2>1, <1>4, NamesOf
  <2>3. k >= 1 /\ k \in 1..k
    BY <2>2, <1>4, <1>7
  <2>4. CASE Len(q) < n
    <3>1. q = s
      BY <2>4, <1>4, <1>7, <1>9, <1>10, SubSeqFull
    <3> QED BY <3>1, <2>1
  <2>5. CASE p <= q[Len(q)]
    BY <2>1, <2>3, <2>5, <1>10
  <2> QED BY <2>4, <2>5, <1>12
<1> QED BY <1>7, <1>8, <1>10, <1>11, <1>12

\* Names in order, followed by names in order that are all greater.
LEMMA RisingJoin ==
  ASSUME NEW f \in Seq(Nat), NEW g \in Seq(Nat), Rising(f), Rising(g),
         \A p \in ToSet(f), q \in ToSet(g) : p < q
  PROVE  /\ f \o g \in Seq(Nat)
         /\ Rising(f \o g)
         /\ \A p : p \in ToSet(f \o g) <=> p \in ToSet(f) \/ p \in ToSet(g)
<1>1. /\ Len(f) \in Nat /\ DOMAIN f = 1..Len(f)
      /\ Len(g) \in Nat /\ DOMAIN g = 1..Len(g)
  BY LenProperties
<1>2. PICK h : h = f \o g
  OBVIOUS
<1>3. /\ h \in Seq(Nat) /\ Len(h) = Len(f) + Len(g)
      /\ \A i \in 1..(Len(f) + Len(g)) : h[i] = IF i <= Len(f) THEN f[i] ELSE g[i - Len(f)]
  BY <1>2, ConcatProperties
<1>4. \A i \in 1..Len(h) : \/ i \in 1..Len(f) /\ h[i] = f[i]
                           \/ i > Len(f) /\ i - Len(f) \in 1..Len(g) /\ h[i] = g[i - Len(f)]
  BY <1>1, <1>3
<1>5. \A i \in 1..Len(f) : i \in 1..Len(h) /\ h[i] = f[i]
  BY <1>1, <1>3
<1>6. ASSUME NEW i \in 1..Len(g) PROVE i + Len(f) \in 1..Len(h) /\ h[i + Len(f)] = g[i]
  <2>1. PICK k : k = i + Len(f)
    OBVIOUS
  <2>2. k \in 1..(Len(f) + Len(g)) /\ ~(k <= Len(f)) /\ k - Len(f) = i
    BY <2>1, <1>1
  <2>3. h[k] = g[k - Len(f)]
    BY <2>2, <1>3
  <2> QED BY <2>1, <2>2, <2>3, <1>3
<1>7. DOMAIN h = 1..Len(h) /\ Len(h) \in Nat
  BY <1>3, LenProperties
<1>8. Rising(h)
  <2>1. SUFFICES ASSUME NEW i \in 1..Len(h), NEW j \in 1..Len(h), i < j PROVE h[i] < h[j]
    BY <1>7 DEF Rising
  <2>2. CASE j \in 1..Len(f) /\ h[j] = f[j]
    <3>1. i \in 1..Len(f) /\ h[i] = f[i]
      BY <2>1, <2>2, <1>1, <1>5, <1>7
    <3> QED BY <3>1, <2>1, <2>2, <1>1 DEF Rising
  <2>3. CASE j > Len(f) /\ j - Len(f) \in 1..Len(g) /\ h[j] = g[j - Len(f)]
    <3>1. CASE i \in 1..Len(f) /\ h[i] = f[i]
      <4>1. f[i] \in ToSet(f) /\ g[j - Len(f)] \in ToSet(g)
        BY <3>1, <2>3, NamesOf
      <4> QED BY <4>1, <3>1, <2>3
    <3>2. CASE i > Len(f) /\ i - Len(f) \in 1..Len(g) /\ h[i] = g[i - Len(f)]
      <4>1. i - Len(f) < j - Len(f)
        BY <2>1, <1>1, <1>7
      <4> QED BY <4>1, <3>2, <2>3, <1>1 DEF Rising
    <3> QED BY <3>1, <3>2, <1>4
  <2> QED BY <2>2, <2>3, <1>4
<1>9. ASSUME NEW p PROVE p \in ToSet(h) <=> p \in ToSet(f) \/ p \in ToSet(g)
  <2>1. ASSUME p \in ToSet(h) PROVE p \in ToSet(f) \/ p \in ToSet(g)
    <3>1. PICK i \in 1..Len(h) : h[i] = p
      BY <2>1, <1>3, NamesOf
    <3> QED BY <3>1, <1>4, NamesOf
  <2>2. ASSUME p \in ToSet(f) PROVE p \in ToSet(h)
    <3>1. PICK i \in 1..Len(f) : f[i] = p
      BY <2>2, NamesOf
    <3> QED BY <3>1, <1>3, <1>5, NamesOf
  <2>3. ASSUME p \in ToSet(g) PROVE p \in ToSet(h)
    <3>1. PICK i \in 1..Len(g) : g[i] = p
      BY <2>3, NamesOf
    <3>2. i + Len(f) \in 1..Len(h) /\ h[i + Len(f)] = p
      BY <3>1, <1>6
    <3> QED BY <3>2, <1>3, NamesOf
  <2> QED BY <2>1, <2>2, <2>3
<1> QED BY <1>2, <1>3, <1>8, <1>9

\* The rows that are shown of a page, and those a client has not got yet (Paged).
RowsOf(page) == IF Len(page) > Count THEN Front(page) ELSE page
NewsOf(rows, start) == IF rows # <<>> /\ Head(rows) = start THEN Tail(rows) ELSE rows

\* A client that asks on from the last name it has does not take it twice.
LEMMA NewsProperties ==
  ASSUME NEW rows \in Seq(Nat), Rising(rows), NEW start \in Nat,
         \A p \in ToSet(rows) : start <= p,
         NEW news, news = NewsOf(rows, start)
  PROVE  /\ news \in Seq(Nat) /\ Rising(news)
         /\ \A p : p \in ToSet(news) <=> p \in ToSet(rows) /\ p # start
<1>1. Len(rows) \in Nat /\ DOMAIN rows = 1..Len(rows)
  BY LenProperties
<1>2. CASE rows = <<>>
  <2>1. \A p : p \notin ToSet(rows)
    BY <1>2 DEF ToSet
  <2>2. news = rows
    BY <1>2 DEF NewsOf
  <2> QED BY <2>1, <2>2
<1>3. CASE rows # <<>> /\ Head(rows) # start
  <2>1. news = rows
    BY <1>3 DEF NewsOf
  <2>2. Len(rows) \in Nat \ {0} /\ Head(rows) = rows[1]
    BY <1>3, EmptySeq
  <2>3. ASSUME NEW p \in ToSet(rows) PROVE p # start
    <3>1. PICK i \in 1..Len(rows) : rows[i] = p
      BY NamesOf
    <3>2. rows[1] \in ToSet(rows) /\ rows[1] \in Nat /\ rows[i] \in Nat
      BY <2>2, NamesOf, ElementOfSeq
    <3>3. start < rows[1]
      BY <3>2, <2>2, <1>3
    <3>4. rows[1] <= rows[i]
      BY <3>2, <2>2, <1>1 DEF Rising
    <3> QED BY <3>1, <3>2, <3>3, <3>4
  <2> QED BY <2>1, <2>3
<1>4. CASE rows # <<>> /\ Head(rows) = start
  <2>1. Len(rows) \in Nat \ {0} /\ rows[1] = start
    BY <1>4, EmptySeq
  <2>2. /\ news \in Seq(Nat) /\ Len(news) = Len(rows) - 1
        /\ \A i \in 1..Len(news) : news[i] = rows[i + 1]
    <3>1. news = Tail(rows)
      BY <1>4 DEF NewsOf
    <3> QED BY <3>1, <1>4, HeadTailProperties
  <2>3. DOMAIN news = 1..Len(news) /\ Len(news) \in Nat
    BY <2>2, LenProperties
  <2>4. \A i \in 1..Len(news) : i + 1 \in 1..Len(rows)
    BY <2>1, <2>2
  <2>5. Rising(news)
    <3>1. SUFFICES ASSUME NEW i \in 1..Len(news), NEW j \in 1..Len(news), i < j
                   PROVE  news[i] < news[j]
      BY <2>3 DEF Rising
    <3>2. i + 1 \in 1..Len(rows) /\ j + 1 \in 1..Len(rows) /\ i + 1 < j + 1
      BY <3>1, <2>3, <2>4
    <3>3. rows[i + 1] < rows[j + 1]
      BY <3>2, <1>1 DEF Rising
    <3>4. news[i] = rows[i + 1] /\ news[j] = rows[j + 1]
      BY <3>1, <2>2
    <3> QED BY <3>3, <3>4
  <2>8. \A p \in ToSet(news) : \E i \in 1..Len(news) : news[i] = p
    BY <2>2, NamesOf
  <2>6. ASSUME NEW p \in ToSet(news) PROVE p \in ToSet(rows) /\ p # start
    <3>1. PICK i \in 1..Len(news) : news[i] = p
      BY <2>8
    <3>2. i + 1 \in 1..Len(rows) /\ 1 < i + 1 /\ 1 \in 1..Len(rows)
      BY <3>1, <2>1, <2>3, <2>4
    <3>5. rows[i + 1] = p
      BY <3>1, <2>2
    <3>3. rows[1] < rows[i + 1]
      BY <3>2, <1>1 DEF Rising
    <3>4. p \in ToSet(rows)
      BY <3>2, <3>5, NamesOf
    <3> QED BY <3>5, <3>3, <3>4, <2>1
  <2>7. ASSUME NEW p \in ToSet(rows), p # start PROVE p \in ToSet(news)
    <3>1. PICK i \in 1..Len(rows) : rows[i] = p
      BY NamesOf
    <3>2. PICK j : j = i - 1
      OBVIOUS
    <3>3. j \in 1..Len(news) /\ j + 1 = i
      BY <3>1, <3>2, <2>1, <2>2, <2>7
    <3>4. news[j] = p
      BY <3>1, <3>3, <2>2
    <3> QED BY <3>3, <3>4, <2>2, NamesOf
  <2> QED BY <2>2, <2>5, <2>6, <2>7
<1> QED BY <1>2, <1>3, <1>4

\* What a client has found when it asks for the names from start on: the names up
\* to start that were there all the time, and none behind it.
Caught(found, start, stay) ==
  /\ found \in Seq(Nat) /\ Rising(found)
  /\ \A p \in ToSet(found) : p <= start
  /\ \A p \in stay : p <= start => p \in ToSet(found)

\* What it has found in the end.
Complete(found, stay) == found \in Seq(Nat) /\ Rising(found) /\ stay \subseteq ToSet(found)

\* Rows in order from start on, with every name up to the last one if there are
\* more, and with every name if not.
RowsFrom(S, start, more, rows) ==
  /\ rows \in Seq(Nat) /\ Rising(rows)
  /\ \A p \in ToSet(rows) : p \in S /\ start <= p
  /\ more => rows # <<>> /\ Last(rows) \in ToSet(rows) /\ \A p \in ToSet(rows) : p <= Last(rows)
  /\ \A p \in S : start <= p /\ (more => p <= Last(rows)) => p \in ToSet(rows)

\* The rows that are shown of a page with one name more than asked for.
LEMMA ShownRows ==
  ASSUME NEW S, S \subseteq Nat, IsFiniteSet(S), NEW start \in Nat,
         NEW page, page = Page(From(start, S), Count + 1),
         NEW rows, rows = RowsOf(page)
  PROVE  RowsFrom(S, start, Len(page) > Count, rows)
<1>1. Count \in Nat \ {0, 1} /\ Count + 1 \in Nat \ {0}
  BY SecMgmtAssumption
<1>2. /\ page \in Seq(Nat) /\ Rising(page) /\ Len(page) <= Count + 1
      /\ \A p \in ToSet(page) : p \in S /\ start <= p
      /\ \A p \in S : start <= p /\ (Len(page) < Count + 1 \/ p <= page[Len(page)]) => p \in ToSet(page)
  BY <1>1, PageProperties
<1>3. Len(page) \in Nat /\ DOMAIN page = 1..Len(page)
  BY <1>2, LenProperties
<1>4. CASE ~(Len(page) > Count)
  <2>1. Len(page) < Count + 1 /\ rows = page
    BY <1>1, <1>3, <1>4 DEF RowsOf
  <2> QED BY <2>1, <1>2, <1>4 DEF RowsFrom
<1>5. CASE Len(page) > Count
  <2>1. PICK k : k = Len(page) - 1
    OBVIOUS
  <2>2. k \in 0..Len(page) /\ k >= 1 /\ k \in 1..Len(page) /\ k < Len(page) /\ k \in Nat
    BY <2>1, <1>1, <1>3, <1>5
  <2>3. rows = SubSeq(page, 1, k)
    BY <2>1, <1>5 DEF Front, RowsOf
  <2>4. /\ rows \in Seq(Nat) /\ Len(rows) = k /\ Rising(rows)
        /\ \A i \in 1..k : rows[i] = page[i]
        /\ \A p \in ToSet(page) : k >= 1 /\ p <= page[k] => p \in ToSet(rows)
        /\ \A p \in ToSet(rows) : p \in ToSet(page)
    BY <2>2, <2>3, <1>2, RisingPart
  <2>5. Last(rows) = page[k] /\ k \in 1..k /\ Last(rows) = rows[k]
    BY <2>2, <2>4 DEF Last
  <2>6. rows # <<>>
    BY <2>2, <2>4
  <2>7. Last(rows) \in ToSet(rows)
    BY <2>4, <2>5, NamesOf
  <2>8. ASSUME NEW p \in ToSet(rows) PROVE p <= Last(rows)
    <3>1. PICK i \in 1..k : rows[i] = p
      BY <2>4, NamesOf
    <3>2. DOMAIN rows = 1..k
      BY <2>4, LenProperties
    <3>3. i = k \/ rows[i] < rows[k]
      BY <3>1, <3>2, <2>2, <2>4 DEF Rising
    <3>4. rows[i] \in Nat /\ rows[k] \in Nat
      BY <3>1, <2>4, <2>5, ElementOfSeq
    <3> QED BY <3>1, <3>3, <3>4, <2>5
  <2>9. ASSUME NEW p \in S, start <= p, p <= Last(rows) PROVE p \in ToSet(rows)
    <3>1. page[k] < page[Len(page)]
      BY <2>2, <1>2, <1>3 DEF Rising
    <3>2. page[k] \in Nat /\ page[Len(page)] \in Nat /\ p \in Nat
      BY <2>2, <1>2, <1>3, ElementOfSeq
    <3>3. p <= page[k] /\ p <= page[Len(page)]
      BY <3>1, <3>2, <2>5, <2>9
    <3>4. p \in ToSet(page)
      BY <3>3, <2>9, <1>2
    <3> QED BY <3>3, <3>4, <2>2, <2>4
  <2> QED BY <2>4, <2>6, <2>7, <2>8, <2>9, <1>2, <1>5 DEF RowsFrom
<1> QED BY <1>4, <1>5

\* A page leaves the client with the names up to where the next one starts, the
\* last page with all of them.
LEMMA PagedCaught ==
  ASSUME NEW S, S \subseteq Nat \ {None}, IsFiniteSet(S), NEW start \in Nat,
         NEW stay, stay \subseteq S, NEW found, Caught(found, start, stay),
         NEW page, page = Page(From(start, S), Count + 1),
         NEW rows, rows = RowsOf(page),
         NEW news, news = NewsOf(rows, start)
  PROVE  /\ found \o news \in Seq(Nat)
         /\ Len(page) > Count => Last(rows) \in Nat /\ Caught(found \o news, Last(rows), stay)
         /\ ~(Len(page) > Count) => Complete(found \o news, stay)
<1>1. /\ rows \in Seq(Nat) /\ Rising(rows)
      /\ \A p \in ToSet(rows) : p \in S /\ start <= p
      /\ Len(page) > Count => rows # <<>> /\ Last(rows) \in ToSet(rows) /\ \A p \in ToSet(rows) : p <= Last(rows)
      /\ \A p \in S : start <= p /\ (Len(page) > Count => p <= Last(rows)) => p \in ToSet(rows)
  <2>1. S \subseteq Nat
    OBVIOUS
  <2>2. RowsFrom(S, start, Len(page) > Count, rows)
    BY <2>1, ShownRows
  <2> QED BY <2>2 DEF RowsFrom
<1>2. /\ news \in Seq(Nat) /\ Rising(news)
      /\ \A p : p \in ToSet(news) <=> p \in ToSet(rows) /\ p # start
  BY <1>1, NewsProperties
<1>3. /\ found \in Seq(Nat) /\ Rising(found)
      /\ \A p \in ToSet(found) : p <= start
      /\ \A p \in stay : p <= start => p \in ToSet(found)
  BY DEF Caught
<1>4. ToSet(found) \subseteq Nat
  BY <1>3, NamesOf
<1>5. \A p \in ToSet(found), q \in ToSet(news) : p < q
  <2>1. \A q \in ToSet(news) : q \in Nat /\ start < q
    <3>1. SUFFICES ASSUME NEW q \in ToSet(news) PROVE q \in Nat /\ start < q
      OBVIOUS
    <3>2. q \in ToSet(rows) /\ q # start
      BY <1>2
    <3>3. q \in Nat /\ start <= q
      BY <3>2, <1>1
    <3> QED BY <3>2, <3>3
  <2> QED BY <2>1, <1>3, <1>4
<1>6. PICK h : h = found \o news
  OBVIOUS
<1>7. /\ h \in Seq(Nat) /\ Rising(h)
      /\ \A p : p \in ToSet(h) <=> p \in ToSet(found) \/ p \in ToSet(news)
  BY <1>2, <1>3, <1>5, <1>6, RisingJoin
<1>8. ASSUME NEW p \in stay, Len(page) > Count => p <= Last(rows) PROVE p \in ToSet(h)
  <2>1. p \in Nat /\ p \in S
    OBVIOUS
  <2>2. CASE p <= start
    BY <2>2, <1>3, <1>7
  <2>3. CASE ~(p <= start)
    <3>1. start <= p /\ p # start
      BY <2>1, <2>3
    <3>2. p \in ToSet(rows)
      BY <3>1, <2>1, <1>1, <1>8
    <3> QED BY <3>1, <3>2, <1>2, <1>7
  <2> QED BY <2>2, <2>3
<1>9. ASSUME Len(page) > Count PROVE Last(rows) \in Nat /\ Caught(h, Last(rows), stay)
  <2>1. Last(rows) \in ToSet(rows) /\ \A p \in ToSet(rows) : p <= Last(rows)
    BY <1>1, <1>9
  <2>2. Last(rows) \in Nat /\ start <= Last(rows)
    BY <2>1, <1>1
  <2>3. ASSUME NEW p \in ToSet(h) PROVE p <= Last(rows)
    <3>1. CASE p \in ToSet(found)
      BY <3>1, <2>2, <1>3, <1>4
    <3>2. CASE p \in ToSet(news)
      BY <3>2, <2>1, <1>2
    <3> QED BY <3>1, <3>2, <1>7
  <2> QED BY <2>2, <2>3, <1>7, <1>8 DEF Caught
<1>10. ASSUME ~(Len(page) > Count) PROVE Complete(h, stay)
  BY <1>7, <1>8, <1>10 DEF Complete
<1> QED BY <1>6, <1>7, <1>9, <1>10

\* What a report has found when it extracts from start on: the profiles before
\* start that have the prefix and were there all the time.
Reached(found, start, stay) ==
  /\ found \in Seq(Nat) /\ Rising(found)
  /\ \A p \in ToSet(found) : p < start
  /\ \A p \in stay : p < start => p \in ToSet(found)

\* The entries of a page that a report looks at (getProfilesByPrefix).
ExaminedOf(page) == IF Len(page) = PageSize THEN Front(page) ELSE page

\* A full page leaves a report with the profiles before the one that starts the
\* next page, a page that is not full with all of them.
LEMMA ScanReached ==
  ASSUME NEW S, S \subseteq Nat, IsFiniteSet(S), NEW start \in Nat,
         NEW stay, stay \subseteq S \cap Prefixed, NEW found, Reached(found, start, stay),
         NEW page, page = Page(From(start, S), PageSize),
         NEW kept, kept = Matching(ExaminedOf(page))
  PROVE  /\ found \o kept \in Seq(Nat)
         /\ Len(page) = PageSize => Last(page) \in Nat /\ Reached(found \o kept, Last(page), stay)
         /\ Len(page) # PageSize => Complete(found \o kept, stay)
<1>1. PageSize \in Nat \ {0, 1} /\ Prefixed \subseteq Nat
  BY SecMgmtAssumption
<1>2. /\ page \in Seq(Nat) /\ Rising(page) /\ Len(page) <= PageSize
      /\ \A p \in ToSet(page) : p \in S /\ start <= p
      /\ \A p \in S : start <= p /\ (Len(page) < PageSize \/ p <= page[Len(page)]) => p \in ToSet(page)
  BY <1>1, PageProperties
<1>3. Len(page) \in Nat /\ DOMAIN page = 1..Len(page)
  BY <1>2, LenProperties
<1>4. PICK rows : rows = ExaminedOf(page)
  OBVIOUS
<1>5. /\ rows \in Seq(Nat)
      /\ \A p \in ToSet(rows) : p \in S /\ start <= p
      /\ Len(page) = PageSize => Last(page) \in Nat /\ start <= Last(page) /\ \A p \in ToSet(rows) : p < Last(page)
      /\ \A p \in S : start <= p /\ (Len(page) = PageSize => p < Last(page)) => p \in ToSet(rows)
  <2>1. CASE Len(page) # PageSize
    <3>1. Len(page) < PageSize /\ rows = page
      <4>1. Len(page) < PageSize
        <5>1. Len(page) <= PageSize
          BY <1>2
        <5>2. Len(page) \in Nat /\ PageSize \in Nat
          BY <1>1, <1>3
        <5> QED BY <5>1, <5>2, <2>1, LessOrEqual, Zenon
      <4>2. rows = page
        BY <2>1, <1>4 DEF ExaminedOf
      <4> QED BY <4>1, <4>2
    <3> QED BY <3>1, <2>1, <1>2
  <2>2. CASE Len(page) = PageSize
    <3>1. PICK k : k = Len(page) - 1
      OBVIOUS
    <3>2. k \in 0..Len(page) /\ k >= 1 /\ k \in 1..Len(page) /\ k < Len(page) /\ k \in Nat /\ Len(page) \in 1..Len(page) /\ k + 1 = Len(page)
      BY <3>1, <2>2, <1>1, <1>3
    <3>3. rows = SubSeq(page, 1, k) /\ Last(page) = page[Len(page)]
      BY <3>1, <2>2, <1>4 DEF Front, Last, ExaminedOf
    <3>4. /\ rows \in Seq(Nat) /\ Len(rows) = k /\ Rising(rows)
          /\ \A i \in 1..k : rows[i] = page[i]
          /\ \A p \in ToSet(rows) : p \in ToSet(page)
      BY <3>2, <3>3, <1>2, RisingPart
    <3>5. Last(page) \in Nat /\ start <= Last(page)
      BY <3>2, <3>3, <1>2, NamesOf, ElementOfSeq
    <3>6. ASSUME NEW p \in ToSet(rows) PROVE p < Last(page)
      <4>1. PICK i \in 1..k : rows[i] = p
        BY <3>4, NamesOf
      <4>2. i \in 1..Len(page) /\ page[i] = p /\ i < Len(page)
        BY <4>1, <3>2, <3>4
      <4> QED BY <4>2, <3>2, <3>3, <1>2, <1>3 DEF Rising
    <3>7. ASSUME NEW p \in S, start <= p, p < Last(page) PROVE p \in ToSet(rows)
      <4>1. p \in Nat /\ p <= page[Len(page)] /\ p # page[Len(page)]
        BY <3>3, <3>5, <3>7
      <4>2. PICK i \in 1..Len(page) : page[i] = p
        BY <4>1, <3>7, <1>2, NamesOf
      <4>3. i \in 1..Len(rows) /\ rows[i] = p
        BY <4>1, <4>2, <3>2, <3>4
      <4> QED BY <4>3, <3>4, NamesOf
    <3> QED BY <3>4, <3>5, <3>6, <3>7, <2>2, <1>2
  <2> QED BY <2>1, <2>2
<1>6. PICK K : K = ToSet(rows) \cap Prefixed
  OBVIOUS
<1>7. K \subseteq Nat /\ K \subseteq S /\ IsFiniteSet(K)
  BY <1>1, <1>5, <1>6, FS_Subset
<1>8. kept = Ascending(K)
  BY <1>4, <1>6 DEF Matching
<1>9. /\ kept \in Seq(K) /\ Rising(kept)
      /\ \A p \in K : \E i \in 1..Len(kept) : kept[i] = p
  BY <1>7, <1>8, AscendingProperties
<1>10. kept \in Seq(Nat)
  BY <1>7, <1>9, SeqMonotonic
<1>11. \A p : p \in ToSet(kept) <=> p \in K
  <2>1. ToSet(kept) \subseteq K /\ \A i \in 1..Len(kept) : kept[i] \in ToSet(kept)
    BY <1>9, NamesOf
  <2> QED BY <2>1, <1>9
<1>12. /\ found \in Seq(Nat) /\ Rising(found)
       /\ \A p \in ToSet(found) : p < start
       /\ \A p \in stay : p < start => p \in ToSet(found)
  BY DEF Reached
<1>13. ToSet(found) \subseteq Nat
  BY <1>12, NamesOf
<1>14. \A p \in ToSet(found), q \in ToSet(kept) : p < q
  <2>1. \A q \in ToSet(kept) : q \in Nat /\ start <= q
    BY <1>5, <1>6, <1>7, <1>11
  <2> QED BY <2>1, <1>12, <1>13
<1>15. PICK h : h = found \o kept
  OBVIOUS
<1>16. /\ h \in Seq(Nat) /\ Rising(h)
       /\ \A p : p \in ToSet(h) <=> p \in ToSet(found) \/ p \in ToSet(kept)
  BY <1>9, <1>10, <1>12, <1>14, <1>15, RisingJoin
<1>17. ASSUME NEW p \in stay, Len(page) = PageSize => p < Last(page) PROVE p \in ToSet(h)
  <2>1. p \in Nat /\ p \in S /\ p \in Prefixed
    OBVIOUS
  <2>2. CASE p < start
    BY <2>2, <1>12, <1>16
  <2>3. CASE ~(p < start)
    <3>1. start <= p
      BY <2>1, <2>3
    <3>2. p \in ToSet(rows)
      BY <3>1, <2>1, <1>5, <1>17
    <3> QED BY <3>2, <2>1, <1>6, <1>11, <1>16
  <2> QED BY <2>2, <2>3
<1>18. ASSUME Len(page) = PageSize PROVE Last(page) \in Nat /\ Reached(h, Last(page), stay)
  <2>1. Last(page) \in Nat /\ start <= Last(page)
    BY <1>5, <1>18
  <2>2. ASSUME NEW p \in ToSet(h) PROVE p < Last(page)
    <3>1. CASE p \in ToSet(found)
      BY <3>1, <2>1, <1>12, <1>13
    <3>2. CASE p \in ToSet(kept)
      BY <3>2, <1>5, <1>6, <1>11, <1>18
    <3> QED BY <3>1, <3>2, <1>16
  <2> QED BY <2>1, <2>2, <1>16, <1>17 DEF Reached
<1>19. ASSUME Len(page) # PageSize PROVE Complete(h, stay)
  BY <1>16, <1>17, <1>19 DEF Complete
<1> QED BY <1>15, <1>16, <1>18, <1>19

-----------------------------------------------------------------------------
(***************************************************************************)
(* What is true of a subtask at each of its steps, for a security manager  *)
(* m, a database of resources e with access lists a, and a copy rc of it.  *)
(***************************************************************************)
Changes == {"define", "delete", "give", "revoke"}
Access  == {"READ", "ALTER", "ALL", "USE", "JOIN"}

IsTask(s) ==
  s = [step |-> s.step, req |-> s.req, status |-> s.status, cap |-> s.cap, tries |-> s.tries,
       rows |-> s.rows, junk |-> s.junk, start |-> s.start, found |-> s.found, more |-> s.more, late |-> s.late,
       whole |-> s.whole, grown |-> s.grown, stay |-> s.stay, contested |-> s.contested]

\* The request of a step has passed the tests that the step relies on.
RequestOK(s, m) ==
  /\ s.req \in Requests \cup {NoRequest}
  /\ s.step \in {"change", "refresh", "permitted", "revokeFirst", "owner"} => s.req.kind \in Changes
  /\ s.req.kind \in Changes =>
       /\ s.req \in Requests /\ s.req.res \in Resources /\ s.req.class = "default"
       /\ s.req.kind \in {"give", "revoke"} => s.req.user \in Users
       /\ s.req.kind = "give" => s.req.access # "none"
  /\ s.step \in {"permitted", "revokeFirst"} => m = "TSS" /\ s.req.kind = "give" /\ s.req.res \in Profiles
  /\ s.step = "revokeFirst" => ~s.req.dryRun /\ s.req.res \in Supported
  /\ s.step = "owner" => s.req.kind = "delete"
  /\ s.step = "list" => s.req.kind = "list"
  /\ s.step \in {"members", "scan"} => s.req.kind = "access" /\ s.req.res \in Resources
  /\ s.step = "page" \/ s.more => s.req.kind = "page"

\* The names that the pages of a request show.
NamesFor(r, e) == IF r.mgmt = "classes" THEN e \cap Profiles ELSE IF r.mgmt = "groups" THEN e \cap Groups ELSE Users

\* How far the pages of a request, or a report, have come.
ScanOK(s, m, e) ==
  /\ s.step = "members" => s.found = <<>> /\ s.stay = {}
  /\ m = "RACF" /\ s.step = "scan" =>
       s.start \in Nat /\ Reached(s.found, s.start, s.stay) /\ s.stay \subseteq e \cap Prefixed
  /\ m = "RACF" /\ s.req.kind = "access" /\ s.step = "done" => Complete(s.found, s.stay)
  /\ (m = "RACF" \/ (s.req.mgmt = "groups" /\ ~s.late)) /\ s.req.kind = "page" =>
       /\ s.step = "page" \/ s.more =>
            s.start \in Nat /\ Caught(s.found, s.start, s.stay) /\ s.stay \subseteq NamesFor(s.req, e)
       /\ s.step = "done" /\ ~s.more => Complete(s.found, s.stay)

ListEntries(l) == UNION {{<<u, Shown(x)>> : x \in l[u]} : u \in Users}

\* RACF: the buffer for the second round is large enough unless the list grew.
RowsOK(s, m, a) ==
  m = "RACF" =>
    /\ s.step \in {"list", "members"} => s.cap \in Nat /\ ~s.junk
    /\ s.step = "members" /\ s.tries # 0 /\ ~s.grown => Cardinality(ListEntries(a[s.req.res])) <= s.cap
    /\ (s.step = "scan" \/ (s.step = "done" /\ s.req.kind \in {"list", "access"})) /\ ~s.grown =>
         ~s.junk /\ s.rows = s.whole

StoredIn(m, x) == IF m = "TSS" THEN CASE x = "ALTER" -> "ALL" [] x = "JOIN" -> "USE" [] OTHER -> x ELSE x
EffectIn(m, r, e, a) ==
  CASE r.kind = "define" -> r.res \in e
    [] r.kind = "delete" -> r.res \notin e
    [] r.kind = "give"   -> r.res \in e /\ a[r.res][r.user] = {StoredIn(m, r.access)}
    [] r.kind = "revoke" -> a[r.res][r.user] = {}

Succeeded(s) == s.step = "done" /\ s.req.kind \in Changes /\ s.status \in {201, 204}

\* A change is in the database before the copy is made again, and a permission
\* of Top Secret has none beside it.
ChangeOK(s, m, auto, e, a, rc) ==
  /\ (s.step = "refresh" \/ Succeeded(s)) /\ ~s.contested => EffectIn(m, s.req, e, a)
  /\ Succeeded(s) /\ ~s.contested /\ m = "RACF" /\ auto /\ s.req.mgmt = "classes" => EffectIn(m, s.req, rc[1], rc[2])
  /\ m = "TSS" /\ s.step = "change" /\ s.req.kind = "give" /\ s.req.res \in Profiles /\ ~s.req.dryRun /\ ~s.contested =>
       a[s.req.res][s.req.user] = {}

TaskOK(s, m, auto, e, a, rc) ==
  IsTask(s) /\ RequestOK(s, m) /\ ScanOK(s, m, e) /\ RowsOK(s, m, a) /\ ChangeOK(s, m, auto, e, a, rc)

\* The inductive invariant.
Inv ==
  /\ DOMAIN task = Tasks /\ esm \in {"RACF", "TSS"}
  /\ exists \subseteq Resources /\ acl \in [Resources -> Lists]
  /\ \A t \in Tasks : TaskOK(task[t], esm, autoRefresh, exists, acl, raclist)

\* A subtask without a request, and one whose request failed.
LEMMA IdleOK ==
  ASSUME NEW m, NEW auto, NEW e, NEW a, NEW rc
  PROVE  TaskOK(Idle, m, auto, e, a, rc) /\ TaskOK(Failed, m, auto, e, a, rc)
<1>1. PICK s : s = Idle
  OBVIOUS
<1>2. PICK n : n = Failed
  OBVIOUS
<1>3. /\ IsTask(s) /\ s.req = NoRequest /\ s.step = "idle" /\ ~s.more
  BY <1>1 DEF Idle, IsTask
<1>4. /\ IsTask(n) /\ n.req = NoRequest /\ n.step = "done" /\ ~n.more
  BY <1>2 DEF Failed, Idle, IsTask
<1>5. NoRequest.kind = "none" /\ NoRequest.mgmt = "none"
  BY DEF NoRequest
<1>6. "none" \notin Changes
  BY DEF Changes
<1>7. RequestOK(s, m) /\ RequestOK(n, m)
  BY <1>3, <1>4, <1>5, <1>6 DEF RequestOK
<1>8. ScanOK(s, m, e) /\ ScanOK(n, m, e)
  BY <1>3, <1>4, <1>5 DEF ScanOK
<1>9. RowsOK(s, m, a) /\ RowsOK(n, m, a)
  BY <1>3, <1>4, <1>5 DEF RowsOK
<1>10. ChangeOK(s, m, auto, e, a, rc) /\ ChangeOK(n, m, auto, e, a, rc)
  BY <1>3, <1>4, <1>5, <1>6 DEF ChangeOK, Succeeded
<1> QED BY <1>1, <1>2, <1>3, <1>4, <1>7, <1>8, <1>9, <1>10 DEF TaskOK

\* A step of one subtask that leaves the database and RACF's copy alone.
LEMMA TaskStep ==
  ASSUME Inv, NEW t \in Tasks, NEW n, task' = [task EXCEPT ![t] = n],
         TaskOK(n, esm, autoRefresh, exists, acl, raclist), UNCHANGED <<config, db, raclist>>
  PROVE  Inv'
<1>1. esm' = esm /\ autoRefresh' = autoRefresh /\ exists' = exists /\ acl' = acl /\ raclist' = raclist
  BY DEF config, db
<1>2. DOMAIN task = Tasks
  BY DEF Inv
<1>3. DOMAIN task' = Tasks /\ task'[t] = n /\ \A o \in Tasks : o # t => task'[o] = task[o]
  BY <1>2
<1>4. \A o \in Tasks : TaskOK(task[o], esm, autoRefresh, exists, acl, raclist)
  BY DEF Inv
<1>5. ASSUME NEW o \in Tasks PROVE TaskOK(task'[o], esm', autoRefresh', exists', acl', raclist')
  <2>1. CASE o = t
    BY <2>1, <1>1, <1>3
  <2>2. CASE o # t
    BY <2>2, <1>1, <1>3, <1>4
  <2> QED BY <2>1, <2>2
<1>6. exists' \subseteq Resources /\ acl' \in [Resources -> Lists] /\ esm' \in {"RACF", "TSS"}
  BY <1>1 DEF Inv
<1> QED BY <1>3, <1>5, <1>6 DEF Inv

\* What is known of the task that takes a step.
LEMMA TaskFacts ==
  ASSUME Inv, NEW t \in Tasks
  PROVE  /\ IsTask(task[t]) /\ RequestOK(task[t], esm) /\ ScanOK(task[t], esm, exists)
         /\ RowsOK(task[t], esm, acl) /\ ChangeOK(task[t], esm, autoRefresh, exists, acl, raclist)
  BY DEF Inv, TaskOK

\* A call that fails ends the request.
LEMMA ErrorKeepsInv ==
  ASSUME Inv, NEW t \in Tasks, respondWithZISError(t)
  PROVE  Inv'
<1>1. task' = [task EXCEPT ![t] = Failed] /\ UNCHANGED <<config, db, raclist>>
  BY DEF respondWithZISError
<1> QED BY <1>1, IdleOK, TaskStep

\* What clients may ask for.
LEMMA RequestFacts ==
  ASSUME NEW r \in Requests
  PROVE  /\ r.mgmt \in {"classes", "groups", "users", "access"}
         /\ r.kind \in {"define", "delete", "give", "revoke", "list", "page", "access"}
         /\ r.res \in Resources \cup {None} /\ r.user \in Users \cup {NoUser}
         /\ r.access \in {"READ", "ALTER", "USE", "JOIN", "none"} /\ r.dryRun \in BOOLEAN
         /\ r.class \in {"default", "other"} /\ r.body \in {"good", "bad"}
         /\ r.res \in {None} \cup IF r.mgmt = "classes" THEN Profiles ELSE Groups
         /\ r.kind = "access" <=> r.mgmt = "access"
         /\ r.mgmt = "users" => r.kind = "page"
         /\ r.mgmt # "classes" => r.class = "default"
         /\ r.kind = "give" /\ r.body = "good" => r.access # "none"
<1>1. r \in [mgmt : {"classes", "groups", "users", "access"},
             kind : {"define", "delete", "give", "revoke", "list", "page", "access"},
             res : Resources \cup {None}, user : Users \cup {NoUser},
             access : {"READ", "ALTER", "USE", "JOIN", "none"},
             class : {"default", "other"}, body : {"good", "bad"}, dryRun : BOOLEAN]
  BY RequestsAssumption
<1>2. /\ r.res \in {None} \cup IF r.mgmt = "classes" THEN Profiles ELSE Groups
      /\ r.kind = "access" <=> r.mgmt = "access"
      /\ r.mgmt = "users" => r.kind = "page"
      /\ r.mgmt # "classes" => r.class = "default"
      /\ r.kind = "give" /\ r.body = "good" => r.access # "none"
  BY RequestsAssumption
<1> QED BY <1>1, <1>2

\* A request that goes on has passed every test.
LEMMA CheckedStep ==
  ASSUME NEW tests, NEW step
  PROVE  \/ Checked(tests, step).step = "done"
         \/ Checked(tests, step).step = step /\ \A i \in DOMAIN tests : ~tests[i][1]
<1>1. CASE {i \in DOMAIN tests : tests[i][1]} = {}
  <2>1. Checked(tests, step) = [step |-> step, status |-> 0]
    BY <1>1 DEF Checked
  <2>2. Checked(tests, step).step = step
    BY <2>1
  <2> QED BY <2>2, <1>1
<1>2. CASE {i \in DOMAIN tests : tests[i][1]} # {}
  <2>1. Checked(tests, step).step = "done"
    BY <1>2 DEF Checked
  <2> QED BY <2>1
<1> QED BY <1>1, <1>2

\* The same for one, two, three and four tests.
LEMMA CheckedOne ==
  ASSUME NEW step, NEW t1, Checked(<<t1>>, step).step # "done"
  PROVE  Checked(<<t1>>, step).step = step /\ ~t1[1]
<1>1. PICK tests : tests = <<t1>>
  OBVIOUS
<1>2. 1 \in DOMAIN tests /\ tests[1] = t1
  BY <1>1
<1> QED BY <1>1, <1>2, CheckedStep

\* Two tests.
LEMMA CheckedTwo ==
  ASSUME NEW step, NEW t1, NEW t2, Checked(<<t1, t2>>, step).step # "done"
  PROVE  Checked(<<t1, t2>>, step).step = step /\ ~t1[1] /\ ~t2[1]
<1>1. PICK tests : tests = <<t1, t2>>
  OBVIOUS
<1>2. 1 \in DOMAIN tests /\ tests[1] = t1 /\ 2 \in DOMAIN tests /\ tests[2] = t2
  BY <1>1
<1> QED BY <1>1, <1>2, CheckedStep

\* Three tests.
LEMMA CheckedThree ==
  ASSUME NEW step, NEW t1, NEW t2, NEW t3, Checked(<<t1, t2, t3>>, step).step # "done"
  PROVE  Checked(<<t1, t2, t3>>, step).step = step /\ ~t1[1] /\ ~t2[1] /\ ~t3[1]
<1>1. PICK tests : tests = <<t1, t2, t3>>
  OBVIOUS
<1>2. /\ 1 \in DOMAIN tests /\ tests[1] = t1 /\ 2 \in DOMAIN tests /\ tests[2] = t2
      /\ 3 \in DOMAIN tests /\ tests[3] = t3
  BY <1>1
<1> QED BY <1>1, <1>2, CheckedStep

\* Four tests.
LEMMA CheckedFour ==
  ASSUME NEW step, NEW t1, NEW t2, NEW t3, NEW t4, Checked(<<t1, t2, t3, t4>>, step).step # "done"
  PROVE  Checked(<<t1, t2, t3, t4>>, step).step = step /\ ~t1[1] /\ ~t2[1] /\ ~t3[1] /\ ~t4[1]
<1>1. PICK tests : tests = <<t1, t2, t3, t4>>
  OBVIOUS
<1>2. /\ 1 \in DOMAIN tests /\ tests[1] = t1 /\ 2 \in DOMAIN tests /\ tests[2] = t2
      /\ 3 \in DOMAIN tests /\ tests[3] = t3 /\ 4 \in DOMAIN tests /\ tests[4] = t4
  BY <1>1
<1> QED BY <1>1, <1>2, CheckedStep

\* What a request that passes a test is like.
LEMMA TestsPassed ==
  ASSUME NEW r
  PROVE  /\ ~Forbidden(r)[1] => r.class = "default"
         /\ ~NoName(r)[1] => r.res # None
         /\ ~NoEntry(r)[1] => r.user # NoUser
         /\ ~BadBody(r)[1] => r.body # "bad"
<1>1. ~Forbidden(r)[1] => r.class = "default"
  BY DEF Forbidden
<1>2. ~NoName(r)[1] => r.res # None
  BY DEF NoName
<1>3. ~NoEntry(r)[1] => r.user # NoUser
  BY DEF NoEntry
<1>4. ~BadBody(r)[1] => r.body # "bad"
  BY DEF BadBody
<1> QED BY <1>1, <1>2, <1>3, <1>4

\* The first call of a request, as Serve finds it.
FirstCall(r) ==
  CASE r.mgmt = "classes" -> serveClassManagement(r)
    [] r.mgmt = "groups"  -> serveGroupManagement(r)
    [] r.mgmt = "users"   -> serveUserProfile(r)
    [] r.mgmt = "access"  -> serveAccessInfo(r)

\* What a request has passed when its first call is step.
Passed(r, m, step) ==
  /\ step \in {"change", "permitted", "owner", "list", "members", "page"}
  /\ step \in {"change", "permitted", "owner"} =>
       /\ r.kind \in Changes /\ r.res \in Resources /\ r.class = "default"
       /\ r.kind \in {"give", "revoke"} => r.user \in Users
       /\ r.kind = "give" => r.access # "none"
  /\ step = "permitted" => m = "TSS" /\ r.kind = "give" /\ r.res \in Profiles
  /\ step = "change" /\ m = "TSS" /\ r.kind = "give" => r.res \notin Profiles
  /\ step = "owner" => r.kind = "delete"
  /\ step = "list" => r.kind = "list"
  /\ step = "members" => r.kind = "access" /\ r.res \in Resources
  /\ step = "page" => r.kind = "page"

\* A request for the profiles of the class (serveClassManagement).
LEMMA ClassPassed ==
  ASSUME NEW r \in Requests, r.mgmt = "classes", serveClassManagement(r).step # "done", esm \in {"RACF", "TSS"}
  PROVE  Passed(r, esm, serveClassManagement(r).step)
<1> DEFINE f == serveClassManagement(r)
<1>0. /\ r.kind \in {"define", "delete", "give", "revoke", "list", "page"}
      /\ r.res # None => r.res \in Profiles /\ r.res \in Resources
      /\ r.user # NoUser => r.user \in Users
      /\ r.kind = "give" /\ r.body # "bad" => r.access # "none"
  BY RequestFacts DEF Resources
<1>1. CASE r.kind = "page"
  <2>1. f = respondToProfileGET(r)
    BY <1>1 DEF serveClassManagement
  <2>2. f.step = "page"
    BY <2>1, CheckedThree, TestsPassed DEF respondToProfileGET
  <2> QED BY <2>2, <1>1 DEF Passed
<1>2. CASE r.kind = "define"
  <2>1. f = respondToProfilePOST(r)
    BY <1>2 DEF serveClassManagement
  <2>2. f.step = "change" /\ r.class = "default" /\ r.res # None
    BY <2>1, CheckedTwo, TestsPassed DEF respondToProfilePOST
  <2> QED BY <2>2, <1>0, <1>2 DEF Passed, Changes
<1>3. CASE r.kind = "delete"
  <2>1. f = respondToProfileDELETE(r)
    BY <1>3 DEF serveClassManagement
  <2>2. f.step = OwnerFirst(r) /\ r.class = "default" /\ r.res # None
    BY <2>1, CheckedTwo, TestsPassed DEF respondToProfileDELETE
  <2>3. f.step \in {"change", "owner"}
    BY <2>2 DEF OwnerFirst
  <2> QED BY <2>2, <2>3, <1>0, <1>3 DEF Passed, Changes
<1>4. CASE r.kind = "give"
  <2>1. f = respondToProfileAccessListPUT(r)
    BY <1>4 DEF serveClassManagement
  <2>2. f.step = PermitFirst(r) /\ r.class = "default" /\ r.res # None /\ r.user # NoUser /\ r.body # "bad"
    BY <2>1, CheckedFour, TestsPassed DEF respondToProfileAccessListPUT
  <2>3. (f.step = "change" /\ esm # "TSS") \/ (f.step = "permitted" /\ esm = "TSS")
    BY <2>2 DEF PermitFirst
  <2> QED BY <2>2, <2>3, <1>0, <1>4 DEF Passed, Changes
<1>5. CASE r.kind = "list"
  <2>1. f = respondToProfileAccessListGET(r)
    BY <1>5 DEF serveClassManagement
  <2>2. f.step = "list"
    BY <2>1, CheckedTwo, TestsPassed DEF respondToProfileAccessListGET
  <2> QED BY <2>2, <1>5 DEF Passed
<1>6. CASE r.kind = "revoke"
  <2>1. f = respondToProfileAccessListDELETE(r)
    BY <1>6 DEF serveClassManagement
  <2>2. f.step = "change" /\ r.class = "default" /\ r.res # None /\ r.user # NoUser
    BY <2>1, CheckedThree, TestsPassed DEF respondToProfileAccessListDELETE
  <2> QED BY <2>2, <1>0, <1>6 DEF Passed, Changes
<1> QED BY <1>0, <1>1, <1>2, <1>3, <1>4, <1>5, <1>6

\* A request for groups (serveGroupManagement).
LEMMA GroupPassed ==
  ASSUME NEW r \in Requests, r.mgmt = "groups", serveGroupManagement(r).step # "done"
  PROVE  Passed(r, esm, serveGroupManagement(r).step)
<1> DEFINE f == serveGroupManagement(r)
<1>0. /\ r.kind \in {"define", "delete", "give", "revoke", "list", "page"}
      /\ r.res # None => r.res \in Resources /\ r.res \notin Profiles
      /\ r.user # NoUser => r.user \in Users
      /\ r.kind = "give" /\ r.body # "bad" => r.access # "none"
      /\ r.class = "default"
  BY RequestFacts, SecMgmtAssumption DEF Resources
<1>1. CASE r.kind = "page"
  <2>1. f = respondToGroupGET(r)
    BY <1>1 DEF serveGroupManagement
  <2>2. f.step = "page"
    BY <2>1, CheckedOne, TestsPassed DEF respondToGroupGET
  <2> QED BY <2>2, <1>1 DEF Passed
<1>2. CASE r.kind = "define"
  <2>1. f = respondToGroupPOST(r)
    BY <1>2 DEF serveGroupManagement
  <2>2. f.step = "change" /\ r.res # None
    BY <2>1, CheckedTwo, TestsPassed DEF respondToGroupPOST
  <2> QED BY <2>2, <1>0, <1>2 DEF Passed, Changes
<1>3. CASE r.kind = "delete"
  <2>1. f = respondToGroupDELETE(r)
    BY <1>3 DEF serveGroupManagement
  <2>2. f.step = "change" /\ r.res # None
    BY <2>1, CheckedOne, TestsPassed DEF respondToGroupDELETE
  <2> QED BY <2>2, <1>0, <1>3 DEF Passed, Changes
<1>4. CASE r.kind = "give"
  <2>1. f = respondToGroupAccessListPUT(r)
    BY <1>4 DEF serveGroupManagement
  <2>2. f.step = "change" /\ r.res # None /\ r.user # NoUser /\ r.body # "bad"
    BY <2>1, CheckedThree, TestsPassed DEF respondToGroupAccessListPUT
  <2> QED BY <2>2, <1>0, <1>4 DEF Passed, Changes
<1>5. CASE r.kind = "list"
  <2>1. f = respondToGroupAccessListGET(r)
    BY <1>5 DEF serveGroupManagement
  <2>2. f.step = "list"
    BY <2>1, CheckedOne, TestsPassed DEF respondToGroupAccessListGET
  <2> QED BY <2>2, <1>5 DEF Passed
<1>6. CASE r.kind = "revoke"
  <2>1. f = respondToGroupAccessListDELETE(r)
    BY <1>6 DEF serveGroupManagement
  <2>2. f.step = "change" /\ r.res # None /\ r.user # NoUser
    BY <2>1, CheckedTwo, TestsPassed DEF respondToGroupAccessListDELETE
  <2> QED BY <2>2, <1>0, <1>6 DEF Passed, Changes
<1> QED BY <1>0, <1>1, <1>2, <1>3, <1>4, <1>5, <1>6

\* Any request.
LEMMA RequestPassed ==
  ASSUME NEW r \in Requests, FirstCall(r).step # "done", esm \in {"RACF", "TSS"}
  PROVE  Passed(r, esm, FirstCall(r).step)
<1>0. r.mgmt \in {"classes", "groups", "users", "access"}
  BY RequestFacts
<1>1. CASE r.mgmt = "classes"
  <2>1. FirstCall(r) = serveClassManagement(r)
    BY <1>1 DEF FirstCall
  <2> QED BY <2>1, <1>1, ClassPassed
<1>2. CASE r.mgmt = "groups"
  <2>1. FirstCall(r) = serveGroupManagement(r)
    BY <1>2 DEF FirstCall
  <2> QED BY <2>1, <1>2, GroupPassed
<1>3. CASE r.mgmt = "users"
  <2>1. FirstCall(r) = serveUserProfile(r)
    BY <1>3 DEF FirstCall
  <2>2. FirstCall(r).step = "page" /\ r.kind = "page"
    BY <2>1, <1>3, CheckedOne, TestsPassed, RequestFacts DEF serveUserProfile
  <2> QED BY <2>2 DEF Passed
<1>4. CASE r.mgmt = "access"
  <2>1. FirstCall(r) = serveAccessInfo(r)
    BY <1>4 DEF FirstCall
  <2>2. FirstCall(r).step = "members" /\ r.res # None
    BY <2>1, CheckedOne, TestsPassed DEF serveAccessInfo
  <2>3. r.kind = "access" /\ r.res \in Resources
    BY <2>2, <1>4, RequestFacts
  <2> QED BY <2>2, <2>3 DEF Passed
<1> QED BY <1>0, <1>1, <1>2, <1>3, <1>4

\* A sequence without names is in order and has nothing.
LEMMA EmptyFound ==
  /\ <<>> \in Seq(Nat) /\ Rising(<<>>) /\ ToSet(<<>>) = {}
  /\ \A stay : Complete(<<>>, stay) <=> stay = {}
<1>1. <<>> \in Seq(Nat)
  OBVIOUS
<1>2. DOMAIN <<>> = {}
  BY <1>1, LenProperties
<1>3. Rising(<<>>) /\ ToSet(<<>>) = {}
  BY <1>2 DEF Rising, ToSet
<1> QED BY <1>1, <1>3 DEF Complete

\* A subtask that begins a request (Serve).
Begun(step, status, stay, req, cap) ==
  [Idle EXCEPT !.step = step, !.status = status, !.stay = stay, !.req = req, !.cap = cap]

\* What a subtask has found when it begins.
LEMMA BegunOK ==
  ASSUME NEW r \in Requests, NEW step, NEW status, NEW stay, NEW req, NEW cap,
         NEW m \in {"RACF", "TSS"}, NEW auto, NEW e, e \subseteq Resources, NEW a, NEW rc,
         step = "done" => req = NoRequest,
         step # "done" => req = r /\ Passed(r, m, step) /\ cap \in Nat,
         stay = IF step = "page" THEN NamesFor(r, e) ELSE {}
  PROVE  TaskOK(Begun(step, status, stay, req, cap), m, auto, e, a, rc)
<1>0. PICK n : n = Begun(step, status, stay, req, cap)
  OBVIOUS
<1>1. /\ n.step = step /\ n.req = req /\ n.stay = stay /\ n.cap = cap /\ n.status = status
      /\ n.tries = 0 /\ n.rows = {} /\ n.junk = FALSE /\ n.start = 0 /\ n.found = <<>>
      /\ n.more = FALSE /\ n.whole = {} /\ n.grown = FALSE /\ n.contested = FALSE
  BY <1>0 DEF Idle, Begun
<1>2. IsTask(n)
  BY <1>0 DEF Idle, IsTask, Begun
<1>3. NoRequest.kind = "none" /\ NoRequest.mgmt = "none" /\ "none" \notin Changes
  BY DEF NoRequest, Changes
<1>4. step # "done" => step \in {"change", "permitted", "owner", "list", "members", "page"}
  BY DEF Passed
<1>5. RequestOK(n, m)
  <2>1. CASE step = "done"
    BY <2>1, <1>1, <1>3 DEF RequestOK
  <2>2. CASE step # "done"
    <3>1. n.req = r /\ n.req \in Requests
      BY <2>2, <1>1
    <3>2. r.kind \in Changes => step \in {"change", "permitted", "owner"}
      BY <2>2 DEF Passed, Changes
    <3> QED BY <3>1, <3>2, <2>2, <1>1, <1>4 DEF RequestOK, Passed
  <2> QED BY <2>1, <2>2
<1>6. ScanOK(n, m, e)
  <2>1. CASE step = "done"
    BY <2>1, <1>1, <1>3 DEF ScanOK
  <2>2. CASE step = "page"
    <3>1. \A p \in NamesFor(r, e) : p \in Nat \ {0}
      BY SecMgmtAssumption DEF NamesFor, None, NoUser
    <3>2. Caught(<<>>, 0, stay)
      BY <3>1, <2>2, EmptyFound DEF Caught
    <3>3. n.start \in Nat /\ Caught(n.found, n.start, n.stay) /\ n.stay \subseteq NamesFor(n.req, e)
      BY <3>2, <2>2, <1>1
    <3> QED BY <3>3, <2>2, <1>1 DEF ScanOK
  <2>3. CASE step # "done" /\ step # "page"
    BY <2>3, <1>1, <1>4 DEF ScanOK
  <2> QED BY <2>1, <2>2, <2>3
<1>7. RowsOK(n, m, a)
  BY <1>1, <1>3, <1>4 DEF RowsOK
<1>8. ChangeOK(n, m, auto, e, a, rc)
  <2>1. ~Succeeded(n) /\ n.step # "refresh"
    BY <1>1, <1>3, <1>4 DEF Succeeded
  <2>2. ~(m = "TSS" /\ n.step = "change" /\ n.req.kind = "give" /\ n.req.res \in Profiles)
    BY <1>1, <1>4 DEF Passed
  <2> QED BY <2>1, <2>2 DEF ChangeOK
<1> QED BY <1>0, <1>2, <1>5, <1>6, <1>7, <1>8 DEF TaskOK

\* A request is begun with everything the later steps rely on.
LEMMA ServeKeepsInv ==
  ASSUME Inv, NEW t \in Tasks, Serve(t)
  PROVE  Inv'
<1>1. UNCHANGED <<config, db, raclist>>
  BY DEF Serve
<1>2. PICK r \in Requests :
        task' = [task EXCEPT ![t] = [Idle EXCEPT !.step = FirstCall(r).step, !.status = FirstCall(r).status,
                  !.stay = IF FirstCall(r).step = "page" THEN Listed(r) ELSE {},
                  !.req = IF FirstCall(r).step = "done" THEN NoRequest ELSE r,
                  !.cap = IF FirstCall(r).step = "done" THEN 0 ELSE DefaultSize]]
  BY DEF Serve, FirstCall
<1>3. PICK f : f = FirstCall(r)
  OBVIOUS
<1>4. PICK stay : stay = IF f.step = "page" THEN Listed(r) ELSE {}
  OBVIOUS
<1>5. PICK req : req = IF f.step = "done" THEN NoRequest ELSE r
  OBVIOUS
<1>6. PICK cap : cap = IF f.step = "done" THEN 0 ELSE DefaultSize
  OBVIOUS
<1>7. PICK n : n = Begun(f.step, f.status, stay, req, cap)
  OBVIOUS
<1>8. task' = [task EXCEPT ![t] = n]
  BY <1>2, <1>3, <1>4, <1>5, <1>6, <1>7, Zenon DEF Begun
<1>9. esm \in {"RACF", "TSS"} /\ exists \subseteq Resources
  BY DEF Inv
<1>10. f.step # "done" => Passed(r, esm, f.step)
  BY <1>3, <1>9, RequestPassed
<1>11. stay = IF f.step = "page" THEN NamesFor(r, exists) ELSE {}
  <2>1. CASE f.step = "page"
    <3>1. r.kind = "page"
      BY <2>1, <1>10 DEF Passed
    <3>2. r.mgmt \in {"classes", "groups", "users"}
      BY <3>1, RequestFacts
    <3>3. Listed(r) = NamesFor(r, exists)
      BY <3>2 DEF Listed, NamesFor
    <3> QED BY <3>3, <2>1, <1>4
  <2>2. CASE f.step # "page"
    BY <2>2, <1>4
  <2> QED BY <2>1, <2>2
<1>12. f.step # "done" => cap \in Nat
  BY <1>6, SecMgmtAssumption
<1>13. TaskOK(n, esm, autoRefresh, exists, acl, raclist)
  <2>1. /\ f.step = "done" => req = NoRequest
        /\ f.step # "done" => req = r
    BY <1>5
  <2> QED BY <2>1, <1>7, <1>9, <1>10, <1>11, <1>12, BegunOK
<1> QED BY <1>1, <1>8, <1>13, TaskStep

\* A list is finite, and a list with less in it has no more entries.
LEMMA ListEntriesFinite ==
  ASSUME NEW l \in Lists
  PROVE  IsFiniteSet(ListEntries(l)) /\ ListEntries(l) \subseteq Users \X Access
<1>1. IsFiniteSet(Access)
  <2>1. IsFiniteSet({"READ"})
    BY FS_Singleton
  <2>2. IsFiniteSet({"READ"} \cup {"ALTER"})
    BY <2>1, FS_AddElement
  <2>3. IsFiniteSet(({"READ"} \cup {"ALTER"}) \cup {"ALL"})
    BY <2>2, FS_AddElement
  <2>4. IsFiniteSet((({"READ"} \cup {"ALTER"}) \cup {"ALL"}) \cup {"USE"})
    BY <2>3, FS_AddElement
  <2>5. IsFiniteSet(((({"READ"} \cup {"ALTER"}) \cup {"ALL"}) \cup {"USE"}) \cup {"JOIN"})
    BY <2>4, FS_AddElement
  <2>6. Access = ((({"READ"} \cup {"ALTER"}) \cup {"ALL"}) \cup {"USE"}) \cup {"JOIN"}
    BY DEF Access
  <2> QED BY <2>5, <2>6
<1>2. IsFiniteSet(Users \X Access)
  BY <1>1, SecMgmtAssumption, FS_Product
<1>3. \A u \in Users : l[u] \subseteq Access
  BY DEF Lists, Access
<1>4. \A x \in Access : Shown(x) \in Access
  BY DEF Shown, Access
<1>5. ListEntries(l) \subseteq Users \X Access
  BY <1>3, <1>4 DEF ListEntries
<1> QED BY <1>2, <1>5, FS_Subset

\* Taking accesses away leaves no more entries.
LEMMA ListEntriesLess ==
  ASSUME NEW l \in Lists, NEW k \in Lists, \A u \in Users : k[u] \subseteq l[u]
  PROVE  /\ Cardinality(ListEntries(k)) \in Nat /\ Cardinality(ListEntries(l)) \in Nat
         /\ Cardinality(ListEntries(k)) <= Cardinality(ListEntries(l))
<1>1. ListEntries(k) \subseteq ListEntries(l)
  BY DEF ListEntries
<1>2. IsFiniteSet(ListEntries(k)) /\ IsFiniteSet(ListEntries(l))
  BY ListEntriesFinite
<1>3. Cardinality(ListEntries(k)) \in Nat /\ Cardinality(ListEntries(l)) \in Nat
  BY <1>2, FS_CardinalityType
<1> QED BY <1>1, <1>2, <1>3, FS_Subset

\* A change of one resource, from the resources e and their lists a to f and b.
Shift(res, gives, deletes, e, a, f, b) ==
  /\ f \subseteq Resources /\ b \in [Resources -> Lists]
  /\ \A q \in Resources : q # res => b[q] = a[q] /\ (q \in f <=> q \in e)
  /\ ~deletes => e \subseteq f
  /\ ~gives => \A u \in Users : b[res][u] \subseteq a[res][u]

\* What the ghosts of another subtask learn of it (Changed, handleRevokeAccess).
Noticed(n, s, res, gives, deletes) ==
  /\ IsTask(n) /\ n.step = s.step /\ n.req = s.req /\ n.status = s.status /\ n.cap = s.cap
  /\ n.tries = s.tries /\ n.rows = s.rows /\ n.junk = s.junk /\ n.start = s.start
  /\ n.found = s.found /\ n.more = s.more /\ n.late = s.late /\ n.whole = s.whole
  /\ ~n.contested => ~s.contested /\ s.req.res # res
  /\ ~n.grown => ~s.grown /\ ~(gives /\ s.req.res = res)
  /\ n.stay = IF deletes THEN s.stay \ {res} ELSE s.stay

\* Whether a change is in effect is a matter of its resource only.
LEMMA EffectLocal ==
  ASSUME NEW m, NEW r, r.kind \in Changes, NEW e, NEW a, NEW f, NEW b,
         b[r.res] = a[r.res], r.res \in f <=> r.res \in e, EffectIn(m, r, e, a)
  PROVE  EffectIn(m, r, f, b)
<1>1. CASE r.kind = "define"
  BY <1>1 DEF EffectIn
<1>2. CASE r.kind = "delete"
  BY <1>2 DEF EffectIn
<1>3. CASE r.kind = "give"
  <2>1. r.res \in e /\ a[r.res][r.user] = {StoredIn(m, r.access)}
    BY <1>3 DEF EffectIn
  <2>2. r.res \in f /\ b[r.res][r.user] = {StoredIn(m, r.access)}
    BY <2>1
  <2> QED BY <2>2, <1>3 DEF EffectIn
<1>4. CASE r.kind = "revoke"
  BY <1>4 DEF EffectIn
<1> QED BY <1>1, <1>2, <1>3, <1>4 DEF Changes

\* What is true of the other subtasks stays so when one changes a resource.
LEMMA OtherOK ==
  ASSUME NEW m, NEW auto, NEW e, e \subseteq Resources, NEW a, a \in [Resources -> Lists], NEW rc,
         NEW f, NEW b, NEW res \in Resources, NEW gives, NEW deletes, Shift(res, gives, deletes, e, a, f, b),
         NEW s, TaskOK(s, m, auto, e, a, rc), NEW n, Noticed(n, s, res, gives, deletes)
  PROVE  TaskOK(n, m, auto, f, b, rc)
<1>0. RequestOK(s, m) /\ ScanOK(s, m, e) /\ RowsOK(s, m, a) /\ ChangeOK(s, m, auto, e, a, rc)
  BY DEF TaskOK
<1>1. IsTask(n)
  BY DEF Noticed
<1>2. RequestOK(n, m)
  BY <1>0 DEF RequestOK, Noticed
<1>3. n.stay \subseteq s.stay /\ \A p \in n.stay : p \in e => p \in f
  BY DEF Noticed, Shift
<1>4. ScanOK(n, m, f)
  <2>1. /\ n.step = s.step /\ n.req = s.req /\ n.found = s.found /\ n.start = s.start /\ n.more = s.more
        /\ n.late = s.late
    BY DEF Noticed
  <2>2. \A x, y : /\ Reached(x, y, s.stay) => Reached(x, y, n.stay)
                  /\ Caught(x, y, s.stay) => Caught(x, y, n.stay)
                  /\ Complete(x, s.stay) => Complete(x, n.stay)
    BY <1>3 DEF Reached, Caught, Complete
  <2>3. s.stay \subseteq e \cap Prefixed => n.stay \subseteq f \cap Prefixed
    BY <1>3
  <2>4. s.stay \subseteq NamesFor(s.req, e) => n.stay \subseteq NamesFor(s.req, f)
    BY <1>3 DEF NamesFor
  <2>5. s.stay = {} => n.stay = {}
    BY <1>3
  <2> QED BY <2>1, <2>2, <2>3, <2>4, <2>5, <1>0 DEF ScanOK
<1>5. RowsOK(n, m, b)
  <2>1. /\ n.step = s.step /\ n.req = s.req /\ n.cap = s.cap /\ n.junk = s.junk /\ n.tries = s.tries
        /\ n.rows = s.rows /\ n.whole = s.whole /\ (~n.grown => ~s.grown)
    BY DEF Noticed
  <2>2. ASSUME m = "RACF", n.step = "members", n.tries # 0, ~n.grown
        PROVE  Cardinality(ListEntries(b[n.req.res])) <= n.cap
    <3>1. s.req.res \in Resources
      BY <2>1, <2>2, <1>0 DEF RequestOK
    <3>2. Cardinality(ListEntries(a[s.req.res])) <= s.cap /\ s.cap \in Nat
      BY <2>1, <2>2, <1>0 DEF RowsOK
    <3>3. CASE s.req.res # res
      <4>1. b[s.req.res] = a[s.req.res]
        BY <3>1, <3>3 DEF Shift
      <4> QED BY <4>1, <3>2, <2>1
    <3>4. CASE s.req.res = res
      <4>1. ~gives
        BY <3>4, <2>2 DEF Noticed
      <4>2. \A u \in Users : b[res][u] \subseteq a[res][u]
        BY <4>1 DEF Shift
      <4>3. a[res] \in Lists /\ b[res] \in Lists
        BY DEF Shift
      <4>4. /\ Cardinality(ListEntries(b[res])) \in Nat /\ Cardinality(ListEntries(a[res])) \in Nat
            /\ Cardinality(ListEntries(b[res])) <= Cardinality(ListEntries(a[res]))
        BY <4>2, <4>3, ListEntriesLess
      <4>5. Cardinality(ListEntries(a[res])) <= n.cap /\ n.cap \in Nat /\ n.req.res = res
        BY <3>2, <3>4, <2>1
      <4> QED BY <4>4, <4>5
    <3> QED BY <3>3, <3>4
  <2> QED BY <2>1, <2>2, <1>0 DEF RowsOK
<1>6. ChangeOK(n, m, auto, f, b, rc)
  <2>1. n.step = s.step /\ n.req = s.req /\ n.status = s.status /\ (Succeeded(n) <=> Succeeded(s))
    BY DEF Noticed, Succeeded
  <2>2. ASSUME ~n.contested, n.req.kind \in Changes
        PROVE  /\ ~s.contested /\ b[n.req.res] = a[n.req.res] /\ (n.req.res \in f <=> n.req.res \in e)
               /\ EffectIn(m, n.req, e, a) => EffectIn(m, n.req, f, b)
    <3>1. ~s.contested /\ n.req.res # res
      BY <2>1, <2>2 DEF Noticed
    <3>2. n.req.res \in Resources
      BY <2>1, <2>2, <1>0 DEF RequestOK
    <3>3. b[n.req.res] = a[n.req.res] /\ (n.req.res \in f <=> n.req.res \in e)
      BY <3>1, <3>2 DEF Shift
    <3>4. EffectIn(m, n.req, e, a) => EffectIn(m, n.req, f, b)
      BY <3>3, <2>2, EffectLocal
    <3> QED BY <3>1, <3>3, <3>4
  <2>3. n.step \in {"refresh", "change"} \/ Succeeded(n) => n.req.kind \in Changes
    BY <1>2 DEF RequestOK, Succeeded
  <2> QED BY <2>1, <2>2, <2>3, <1>0 DEF ChangeOK
<1> QED BY <1>1, <1>2, <1>4, <1>5, <1>6 DEF TaskOK

\* A list is changed in the lists of all resources.
LEMMA ListSet ==
  ASSUME NEW a \in [Resources -> Lists], NEW res \in Resources, NEW l \in Lists,
         NEW b, b = [a EXCEPT ![res] = l]
  PROVE  /\ b \in [Resources -> Lists] /\ b[res] = l
         /\ \A q \in Resources : q # res => b[q] = a[q]
  OBVIOUS

\* The list of a resource that nobody has access to.
LEMMA NobodyList ==
  Nobody \in Lists /\ \A u \in Users : Nobody[u] = {}
  BY DEF Nobody, Lists

\* The access that is stored for a request is one a list may have.
LEMMA StoredAccess ==
  ASSUME NEW r \in Requests, r.kind = "give", r.access # "none"
  PROVE  Stored(r.access) \in Access /\ Stored(r.access) = StoredIn(esm, r.access)
<1>1. r.access \in {"READ", "ALTER", "USE", "JOIN"}
  BY RequestFacts
<1>2. PICK x : x = r.access
  OBVIOUS
<1>3. x \in {"READ", "ALTER", "USE", "JOIN"}
  BY <1>1, <1>2
<1>4. Stored(x) \in Access
  BY <1>3 DEF Stored, Access
<1>5. Stored(x) = StoredIn(esm, x)
  BY DEF Stored, StoredIn
<1> QED BY <1>2, <1>4, <1>5

\* A command that the security manager carries out changes the resource of the
\* request only, and to what the request asks for.
LEMMA AppliedShift ==
  ASSUME exists \subseteq Resources, acl \in [Resources -> Lists],
         NEW r \in Requests, r.kind \in Changes, r.res \in Resources,
         r.kind \in {"give", "revoke"} => r.user \in Users, r.kind = "give" => r.access # "none",
         Possible(r), Applied(r)
  PROVE  /\ Shift(r.res, r.kind = "give", r.kind = "delete", exists, acl, exists', acl')
         /\ ~(esm = "TSS" /\ r.kind = "give" /\ r.res \in Profiles) \/ acl[r.res][r.user] = {}
              => EffectIn(esm, r, exists', acl')
         /\ r.kind \in {"give", "revoke"} =>
              \A u \in Users : acl'[r.res][u] = acl[r.res][u] \/ (u = r.user /\ acl'[r.res][u] \in {{}, Given(r)})
<1>1. CASE r.kind = "define"
  <2>1. exists' = exists \cup {r.res} /\ acl' = [acl EXCEPT ![r.res] = Nobody]
    BY <1>1 DEF Applied
  <2>2. /\ acl' \in [Resources -> Lists] /\ acl'[r.res] = Nobody
        /\ \A q \in Resources : q # r.res => acl'[q] = acl[q]
    BY <2>1, ListSet, NobodyList
  <2>3. Shift(r.res, r.kind = "give", r.kind = "delete", exists, acl, exists', acl')
    <3>1. exists' \subseteq Resources /\ exists \subseteq exists' /\ \A q \in Resources : q # r.res => (q \in exists' <=> q \in exists)
      BY <2>1
    <3>2. \A u \in Users : acl'[r.res][u] \subseteq acl[r.res][u]
      BY <2>2, NobodyList
    <3> QED BY <3>1, <3>2, <2>2 DEF Shift
  <2>4. EffectIn(esm, r, exists', acl')
    BY <2>1, <1>1 DEF EffectIn
  <2> QED BY <2>3, <2>4, <1>1
<1>2. CASE r.kind = "delete"
  <2>1. exists' = exists \ {r.res} /\ acl' = [acl EXCEPT ![r.res] = Nobody]
    BY <1>2 DEF Applied
  <2>2. /\ acl' \in [Resources -> Lists] /\ acl'[r.res] = Nobody
        /\ \A q \in Resources : q # r.res => acl'[q] = acl[q]
    BY <2>1, ListSet, NobodyList
  <2>3. Shift(r.res, r.kind = "give", r.kind = "delete", exists, acl, exists', acl')
    <3>1. exists' \subseteq Resources /\ \A q \in Resources : q # r.res => (q \in exists' <=> q \in exists)
      BY <2>1
    <3>2. \A u \in Users : acl'[r.res][u] \subseteq acl[r.res][u]
      BY <2>2, NobodyList
    <3> QED BY <3>1, <3>2, <2>2, <1>2 DEF Shift
  <2>4. EffectIn(esm, r, exists', acl')
    BY <2>1, <1>2 DEF EffectIn
  <2> QED BY <2>3, <2>4, <1>2
<1>3. CASE r.kind = "give"
  <2>0. r.user \in Users /\ r.access # "none" /\ r.res \in exists
    BY <1>3 DEF Possible
  <2>1. exists' = exists /\ acl' = [acl EXCEPT ![r.res][r.user] = Given(r)]
    BY <1>3 DEF Applied
  <2>2. acl[r.res][r.user] \in SUBSET Access
    BY <2>0 DEF Lists, Access
  <2>3. Given(r) \in SUBSET Access
    BY <2>0, <2>2, <1>3, StoredAccess DEF Given
  <2>4. PICK v : v = Given(r)
    OBVIOUS
  <2>5. /\ acl' \in [Resources -> Lists] /\ acl'[r.res][r.user] = Given(r)
        /\ \A u \in Users : u # r.user => acl'[r.res][u] = acl[r.res][u]
        /\ \A q \in Resources : q # r.res => acl'[q] = acl[q]
    <3>1. v \in SUBSET Access /\ acl' = [acl EXCEPT ![r.res][r.user] = v]
      BY <2>1, <2>3, <2>4
    <3>2. acl \in [Resources -> [Users -> SUBSET Access]]
      BY DEF Lists, Access
    <3>3. /\ acl' \in [Resources -> [Users -> SUBSET Access]] /\ acl'[r.res][r.user] = v
          /\ \A u \in Users : u # r.user => acl'[r.res][u] = acl[r.res][u]
          /\ \A q \in Resources : q # r.res => acl'[q] = acl[q]
      BY <3>1, <3>2, <2>0
    <3> QED BY <3>3, <2>4 DEF Lists, Access
  <2>6. Shift(r.res, r.kind = "give", r.kind = "delete", exists, acl, exists', acl')
    BY <2>1, <2>5, <1>3 DEF Shift
  <2>7. ASSUME ~(esm = "TSS" /\ r.kind = "give" /\ r.res \in Profiles) \/ acl[r.res][r.user] = {}
        PROVE  EffectIn(esm, r, exists', acl')
    <3>1. Given(r) = {Stored(r.access)}
      BY <2>7, <1>3 DEF Given
    <3>2. r.res \in exists' /\ acl'[r.res][r.user] = {StoredIn(esm, r.access)}
      BY <3>1, <2>0, <2>1, <2>5, <1>3, StoredAccess
    <3> QED BY <3>2, <1>3 DEF EffectIn
  <2> QED BY <2>5, <2>6, <2>7
<1>4. CASE r.kind = "revoke"
  <2>0. r.user \in Users
    BY <1>4
  <2>1. exists' = exists /\ acl' = [acl EXCEPT ![r.res][r.user] = {}]
    BY <1>4 DEF Applied, Revoked
  <2>2. /\ acl' \in [Resources -> Lists] /\ acl'[r.res][r.user] = {}
        /\ \A u \in Users : u # r.user => acl'[r.res][u] = acl[r.res][u]
        /\ \A q \in Resources : q # r.res => acl'[q] = acl[q]
    <3>1. acl \in [Resources -> [Users -> SUBSET Access]]
      BY DEF Lists, Access
    <3>2. /\ acl' \in [Resources -> [Users -> SUBSET Access]] /\ acl'[r.res][r.user] = {}
          /\ \A u \in Users : u # r.user => acl'[r.res][u] = acl[r.res][u]
          /\ \A q \in Resources : q # r.res => acl'[q] = acl[q]
      BY <3>1, <2>0, <2>1
    <3> QED BY <3>2 DEF Lists, Access
  <2>3. \A u \in Users : acl'[r.res][u] \subseteq acl[r.res][u]
    BY <2>2
  <2>4. Shift(r.res, r.kind = "give", r.kind = "delete", exists, acl, exists', acl')
    BY <2>1, <2>2, <2>3 DEF Shift
  <2>5. EffectIn(esm, r, exists', acl')
    BY <2>2, <1>4 DEF EffectIn
  <2> QED BY <2>2, <2>4, <2>5
<1> QED BY <1>1, <1>2, <1>3, <1>4 DEF Changes

\* A step of one subtask that changes a resource.
LEMMA ShiftKeepsInv ==
  ASSUME Inv, NEW t \in Tasks, NEW res \in Resources, NEW gives, NEW deletes,
         Shift(res, gives, deletes, exists, acl, exists', acl'), UNCHANGED <<config, raclist>>,
         DOMAIN task' = Tasks, \A o \in Tasks : o # t => Noticed(task'[o], task[o], res, gives, deletes),
         TaskOK(task'[t], esm, autoRefresh, exists', acl', raclist)
  PROVE  Inv'
<1>1. esm' = esm /\ autoRefresh' = autoRefresh /\ raclist' = raclist
  BY DEF config
<1>2. exists \subseteq Resources /\ acl \in [Resources -> Lists] /\ esm \in {"RACF", "TSS"}
  BY DEF Inv
<1>3. exists' \subseteq Resources /\ acl' \in [Resources -> Lists]
  BY DEF Shift
<1>4. ASSUME NEW o \in Tasks PROVE TaskOK(task'[o], esm', autoRefresh', exists', acl', raclist')
  <2>1. CASE o = t
    BY <2>1, <1>1
  <2>2. CASE o # t
    <3>1. TaskOK(task[o], esm, autoRefresh, exists, acl, raclist)
      BY DEF Inv
    <3>2. Noticed(task'[o], task[o], res, gives, deletes)
      BY <2>2
    <3>3. TaskOK(task'[o], esm, autoRefresh, exists', acl', raclist)
      BY <3>1, <3>2, <1>2, OtherOK
    <3> QED BY <3>3, <1>1
  <2> QED BY <2>1, <2>2
<1> QED BY <1>1, <1>2, <1>3, <1>4 DEF Inv

\* The subtask whose change was carried out.
LEMMA SelfChanged ==
  ASSUME NEW m, NEW auto, NEW e, NEW a, NEW rc, NEW f, NEW b,
         NEW s, IsTask(s), RequestOK(s, m), s.step = "change",
         NEW step \in {"refresh", "done"}, NEW status, NEW contested,
         ~contested => EffectIn(m, s.req, f, b),
         ~(step = "done" /\ m = "RACF" /\ s.req.mgmt = "classes") \/ status = 200,
         NEW n, n = [s EXCEPT !.step = step, !.status = status, !.contested = contested]
  PROVE  TaskOK(n, m, auto, f, b, rc)
<1>1. IsTask(n) /\ n.step = step /\ n.status = status /\ n.contested = contested /\ n.req = s.req /\ n.more = s.more
  BY DEF IsTask
<1>2. s.req.kind \in Changes
  BY DEF RequestOK
<1>3. s.req.kind \notin {"page", "access", "list"}
  BY <1>2 DEF Changes
<1>4. RequestOK(n, m)
  BY <1>1, <1>2 DEF RequestOK
<1>5. ScanOK(n, m, f)
  BY <1>1, <1>3 DEF ScanOK
<1>6. RowsOK(n, m, b)
  BY <1>1, <1>3 DEF RowsOK
<1>7. ChangeOK(n, m, auto, f, b, rc)
  <2>1. n.step # "change"
    BY <1>1
  <2>2. Succeeded(n) => ~(m = "RACF" /\ n.req.mgmt = "classes")
    BY <1>1 DEF Succeeded
  <2>3. ~n.contested => EffectIn(m, n.req, f, b)
    BY <1>1
  <2> QED BY <2>1, <2>2, <2>3 DEF ChangeOK
<1> QED BY <1>1, <1>4, <1>5, <1>6, <1>7 DEF TaskOK

\* A dry run is answered without a change.
LEMMA SelfAnswered ==
  ASSUME NEW m, NEW auto, NEW e, NEW a, NEW rc,
         NEW s, IsTask(s), RequestOK(s, m), s.step = "change",
         NEW n, n = [s EXCEPT !.step = "done", !.status = 200]
  PROVE  TaskOK(n, m, auto, e, a, rc)
<1>1. IsTask(n) /\ n.step = "done" /\ n.status = 200 /\ n.req = s.req /\ n.more = s.more
  BY DEF IsTask
<1>2. s.req.kind \in Changes
  BY DEF RequestOK
<1>3. s.req.kind \notin {"page", "access", "list"}
  BY <1>2 DEF Changes
<1>4. RequestOK(n, m)
  BY <1>1, <1>2 DEF RequestOK
<1>5. ScanOK(n, m, e)
  BY <1>1, <1>3 DEF ScanOK
<1>6. RowsOK(n, m, a)
  BY <1>1, <1>3 DEF RowsOK
<1>7. ChangeOK(n, m, auto, e, a, rc)
  <2>1. n.step # "change" /\ n.step # "refresh" /\ ~Succeeded(n)
    BY <1>1 DEF Succeeded
  <2> QED BY <2>1 DEF ChangeOK
<1> QED BY <1>1, <1>4, <1>5, <1>6, <1>7 DEF TaskOK

\* What other subtasks learn of a change (Changed).
LEMMA ChangedNoticed ==
  ASSUME NEW s, IsTask(s), NEW res, NEW gives, NEW deletes, NEW c, NEW g, NEW stay,
         c <=> s.contested \/ s.req.res = res, g <=> s.grown \/ (gives /\ s.req.res = res),
         stay = IF deletes THEN s.stay \ {res} ELSE s.stay,
         NEW n, n = [s EXCEPT !.contested = c, !.grown = g, !.stay = stay]
  PROVE  Noticed(n, s, res, gives, deletes)
<1>1. IsTask(n) /\ n.step = s.step /\ n.req = s.req /\ n.status = s.status /\ n.cap = s.cap
  BY DEF IsTask
<1>2. /\ n.tries = s.tries /\ n.rows = s.rows /\ n.junk = s.junk /\ n.start = s.start
      /\ n.found = s.found /\ n.more = s.more /\ n.late = s.late /\ n.whole = s.whole
  BY DEF IsTask
<1>3. n.contested = c /\ n.grown = g /\ n.stay = stay
  BY DEF IsTask
<1>4. (~n.contested => ~s.contested /\ s.req.res # res) /\ (~n.grown => ~s.grown /\ ~(gives /\ s.req.res = res))
  BY <1>3, Zenon
<1> QED BY <1>1, <1>2, <1>3, <1>4 DEF Noticed

\* A subtask that has responded.
Over(s, status) == [s EXCEPT !.step = "done", !.status = status]

\* A response sets the step of a subtask and then its status.
LEMMA Responded ==
  ASSUME NEW t \in Tasks, DOMAIN task = Tasks, NEW y, Respond(t, y)
  PROVE  task' = [task EXCEPT ![t] = Over(task[t], y)]
<1>0. PICK x : x = "done"
  OBVIOUS
<1>1. PICK u : u = [task EXCEPT ![t] = [task[t] EXCEPT !.step = x]]
  OBVIOUS
<1>2. DOMAIN u = Tasks /\ u[t] = [task[t] EXCEPT !.step = x] /\ \A o \in Tasks : o # t => u[o] = task[o]
  BY <1>1
<1>3. task' = [u EXCEPT ![t] = [u[t] EXCEPT !.status = y]]
  BY <1>0, <1>1, Zenon DEF Respond
<1>4. PICK n : n = [task[t] EXCEPT !.step = x, !.status = y]
  OBVIOUS
<1>5. [u[t] EXCEPT !.status = y] = n
  BY <1>2, <1>4, Zenon
<1>6. task' = [u EXCEPT ![t] = n]
  BY <1>3, <1>5
<1>7. task' = [task EXCEPT ![t] = n]
  BY <1>6, <1>1
<1>8. n = Over(task[t], y)
  BY <1>0, <1>4, Zenon DEF Over
<1> QED BY <1>7, <1>8

\* A command, carried out or only shown, for the services that end with step.
LEMMA CommandKeepsInv ==
  ASSUME Inv, NEW t \in Tasks, task[t].step = "change", NEW step \in {"refresh", "done"},
         executeAdminCommand(t, step), UNCHANGED <<config, raclist>>,
         ~(step = "done" /\ esm = "RACF" /\ task[t].req.mgmt = "classes")
  PROVE  Inv'
<1>0. PICK s : s = task[t]
  OBVIOUS
<1>1. IsTask(s) /\ RequestOK(s, esm) /\ ChangeOK(s, esm, autoRefresh, exists, acl, raclist) /\ s.step = "change"
  BY <1>0, TaskFacts
<1>2. PICK r : r = s.req
  OBVIOUS
<1>3. /\ r.kind \in Changes /\ r \in Requests /\ r.res \in Resources
      /\ r.kind \in {"give", "revoke"} => r.user \in Users
      /\ r.kind = "give" => r.access # "none"
  BY <1>1, <1>2 DEF RequestOK
<1>4. DOMAIN task = Tasks /\ exists \subseteq Resources /\ acl \in [Resources -> Lists]
  BY DEF Inv
<1>5. CASE r.dryRun
  <2>1. Respond(t, OkStatus(r)) /\ UNCHANGED db
    BY <1>0, <1>2, <1>5 DEF executeAdminCommand, Req
  <2>2. OkStatus(r) = 200
    BY <1>5 DEF OkStatus
  <2>3. Respond(t, 200)
    BY <2>1, <2>2
  <2>4. task' = [task EXCEPT ![t] = Over(s, 200)]
    BY <2>3, <1>0, <1>4, Responded
  <2>5. TaskOK(Over(s, 200), esm, autoRefresh, exists, acl, raclist)
    <3>1. PICK n : n = [s EXCEPT !.step = "done", !.status = 200]
      OBVIOUS
    <3>2. TaskOK(n, esm, autoRefresh, exists, acl, raclist)
      BY <3>1, <1>1, SelfAnswered
    <3> QED BY <3>1, <3>2 DEF Over
  <2> QED BY <2>1, <2>4, <2>5, TaskStep
<1>6. CASE ~r.dryRun
  <2>1. Possible(r) /\ Applied(r) /\ Changed(t, step, IF step = "done" THEN OkStatus(r) ELSE 0)
    BY <1>0, <1>2, <1>6 DEF executeAdminCommand, Req
  <2>2. /\ Shift(r.res, r.kind = "give", r.kind = "delete", exists, acl, exists', acl')
        /\ ~(esm = "TSS" /\ r.kind = "give" /\ r.res \in Profiles) \/ acl[r.res][r.user] = {}
             => EffectIn(esm, r, exists', acl')
    BY <2>1, <1>3, <1>4, AppliedShift
  <2>3. PICK status : status = IF step = "done" THEN OkStatus(r) ELSE 0
    OBVIOUS
  <2>4. task' = [o \in Tasks |->
          IF o = t THEN [s EXCEPT !.step = step, !.status = status,
                           !.contested = s.contested /\ esm = "TSS" /\ r.kind = "give" /\ r.res \in Profiles]
          ELSE [task[o] EXCEPT !.contested = task[o].contested \/ task[o].req.res = r.res,
                               !.grown = task[o].grown \/ (r.kind = "give" /\ task[o].req.res = r.res),
                               !.stay = IF r.kind = "delete" THEN task[o].stay \ {r.res} ELSE task[o].stay]]
    BY <2>1, <2>3, <1>0, <1>2, Zenon DEF Changed, Req
  <2>5. PICK c : c = (s.contested /\ esm = "TSS" /\ r.kind = "give" /\ r.res \in Profiles)
    OBVIOUS
  <2>6. PICK n : n = [s EXCEPT !.step = step, !.status = status, !.contested = c]
    OBVIOUS
  <2>7. DOMAIN task' = Tasks /\ task'[t] = n
    BY <2>4, <2>5, <2>6, Zenon
  <2>8. TaskOK(n, esm, autoRefresh, exists', acl', raclist)
    <3>1. ~c => EffectIn(esm, r, exists', acl')
      <4>1. ASSUME ~c PROVE ~(esm = "TSS" /\ r.kind = "give" /\ r.res \in Profiles) \/ acl[r.res][r.user] = {}
        <5>1. ~s.contested \/ ~(esm = "TSS" /\ r.kind = "give" /\ r.res \in Profiles)
          BY <4>1, <2>5, Zenon
        <5> QED BY <5>1, <1>1, <1>2, <1>6 DEF ChangeOK
      <4> QED BY <4>1, <2>2
    <3>2. ~(step = "done" /\ esm = "RACF" /\ s.req.mgmt = "classes")
      BY <1>0
    <3> QED BY <3>1, <3>2, <2>6, <1>1, <1>2, SelfChanged
  <2>9. ASSUME NEW o \in Tasks, o # t
        PROVE  Noticed(task'[o], task[o], r.res, r.kind = "give", r.kind = "delete")
    <3>1. PICK v : v = task[o]
      OBVIOUS
    <3>2. PICK x : x = (v.contested \/ v.req.res = r.res)
      OBVIOUS
    <3>3. PICK g : g = (v.grown \/ (r.kind = "give" /\ v.req.res = r.res))
      OBVIOUS
    <3>4. PICK stay : stay = IF r.kind = "delete" THEN v.stay \ {r.res} ELSE v.stay
      OBVIOUS
    <3>5. PICK w : w = [v EXCEPT !.contested = x, !.grown = g, !.stay = stay]
      OBVIOUS
    <3>6. task'[o] = w
      BY <3>1, <3>2, <3>3, <3>4, <3>5, <2>4, <2>9, Zenon
    <3>7. IsTask(v)
      BY <3>1, TaskFacts
    <3>8. (x <=> v.contested \/ v.req.res = r.res) /\ (g <=> v.grown \/ (r.kind = "give" /\ v.req.res = r.res))
      BY <3>2, <3>3, Zenon
    <3>9. Noticed(w, v, r.res, r.kind = "give", r.kind = "delete")
      BY <3>4, <3>5, <3>7, <3>8, ChangedNoticed
    <3> QED BY <3>1, <3>6, <3>9
  <2> QED BY <2>2, <2>7, <2>8, <2>9, <1>3, ShiftKeepsInv
<1> QED BY <1>5, <1>6

\* Changes of profiles and groups.
LEMMA ChangeKeepsInv ==
  ASSUME Inv, NEW t \in Tasks, handleProfileFunction(t) \/ handleGroupAdminFunction(t)
  PROVE  Inv'
<1>1. CASE handleProfileFunction(t)
  <2>1. task[t].step = "change" /\ task[t].req.mgmt = "classes"
    BY <1>1 DEF handleProfileFunction, At, Req
  <2>2. \/ esm = "RACF" /\ executeAdminCommand(t, "refresh") /\ UNCHANGED <<config, raclist>>
        \/ esm = "TSS" /\ executeAdminCommand(t, "done") /\ UNCHANGED <<config, raclist>>
    BY <1>1, Zenon DEF handleProfileFunction, zisGenresProfileAdminServiceFunctionRACF, zisGenresProfileAdminServiceFunctionTSS
  <2>3. CASE esm = "RACF" /\ executeAdminCommand(t, "refresh") /\ UNCHANGED <<config, raclist>>
    BY <2>1, <2>3, CommandKeepsInv
  <2>4. CASE esm = "TSS" /\ executeAdminCommand(t, "done") /\ UNCHANGED <<config, raclist>>
    BY <2>1, <2>4, CommandKeepsInv
  <2> QED BY <2>2, <2>3, <2>4
<1>2. CASE handleGroupAdminFunction(t)
  <2>1. task[t].step = "change" /\ task[t].req.mgmt = "groups"
    BY <1>2 DEF handleGroupAdminFunction, At, Req
  <2>2. executeAdminCommand(t, "done") /\ UNCHANGED <<config, raclist>>
    BY <1>2, Zenon DEF handleGroupAdminFunction, zisGroupAdminServiceFunctionRACF, zisGroupAdminServiceFunctionTSS
  <2> QED BY <2>1, <2>2, CommandKeepsInv
<1> QED BY <1>1, <1>2

\* RACF's copy is made again: it is then the database.
LEMMA RefreshedOK ==
  ASSUME NEW m, NEW auto, NEW e, NEW a, NEW rc, NEW s, TaskOK(s, m, auto, e, a, rc),
         NEW new, auto => new = <<e, a>>
  PROVE  TaskOK(s, m, auto, e, a, new)
<1>1. ChangeOK(s, m, auto, e, a, rc)
  BY DEF TaskOK
<1>2. auto => new[1] = e /\ new[2] = a
  OBVIOUS
<1>3. ChangeOK(s, m, auto, e, a, new)
  <2>1. ASSUME Succeeded(s), ~s.contested, m = "RACF", auto, s.req.mgmt = "classes"
        PROVE  EffectIn(m, s.req, new[1], new[2])
    <3>1. EffectIn(m, s.req, e, a)
      BY <2>1, <1>1 DEF ChangeOK
    <3> QED BY <3>1, <2>1, <1>2
  <2> QED BY <2>1, <1>1 DEF ChangeOK
<1> QED BY <1>3 DEF TaskOK

\* The answer after the copy was made again.
LEMMA RefreshAnswered ==
  ASSUME NEW m, NEW auto, NEW e, NEW a, NEW rc, NEW s, TaskOK(s, m, auto, e, a, rc), s.step = "refresh",
         auto => rc[1] = e /\ rc[2] = a,
         NEW status, NEW n, n = [s EXCEPT !.step = "done", !.status = status]
  PROVE  TaskOK(n, m, auto, e, a, rc)
<1>0. IsTask(s) /\ RequestOK(s, m) /\ ChangeOK(s, m, auto, e, a, rc)
  BY DEF TaskOK
<1>1. IsTask(n) /\ n.step = "done" /\ n.req = s.req /\ n.more = s.more /\ n.contested = s.contested
  BY <1>0 DEF IsTask
<1>2. s.req.kind \in Changes
  BY <1>0 DEF RequestOK
<1>3. s.req.kind \notin {"page", "access", "list"}
  BY <1>2 DEF Changes
<1>4. RequestOK(n, m)
  BY <1>0, <1>1, <1>2 DEF RequestOK
<1>5. ScanOK(n, m, e)
  BY <1>1, <1>3 DEF ScanOK
<1>6. RowsOK(n, m, a)
  BY <1>1, <1>3 DEF RowsOK
<1>7. ChangeOK(n, m, auto, e, a, rc)
  <2>1. ~n.contested => EffectIn(m, n.req, e, a)
    BY <1>0, <1>1 DEF ChangeOK
  <2>2. ASSUME ~n.contested, auto PROVE EffectIn(m, n.req, rc[1], rc[2])
    BY <2>1, <2>2
  <2> QED BY <2>1, <2>2, <1>1 DEF ChangeOK
<1> QED BY <1>1, <1>4, <1>5, <1>6, <1>7 DEF TaskOK

\* The refresh after a change.
LEMMA RefreshKeepsInv ==
  ASSUME Inv, NEW t \in Tasks, performRefreshIfNeeded(t)
  PROVE  Inv'
<1>1. /\ task[t].step = "refresh" /\ Respond(t, OkStatus(task[t].req))
      /\ esm' = esm /\ autoRefresh' = autoRefresh /\ exists' = exists /\ acl' = acl
      /\ raclist' = IF autoRefresh THEN <<exists, acl>> ELSE raclist
  BY DEF performRefreshIfNeeded, At, Req, config, db
<1>2. /\ DOMAIN task = Tasks /\ exists \subseteq Resources /\ acl \in [Resources -> Lists] /\ esm \in {"RACF", "TSS"}
      /\ \A o \in Tasks : TaskOK(task[o], esm, autoRefresh, exists, acl, raclist)
  BY DEF Inv
<1>3. PICK status : status = OkStatus(task[t].req)
  OBVIOUS
<1>4. PICK n : n = Over(task[t], status)
  OBVIOUS
<1>5. task' = [task EXCEPT ![t] = n]
  <2>1. Respond(t, status)
    BY <1>1, <1>3
  <2>2. task' = [task EXCEPT ![t] = Over(task[t], status)]
    BY <2>1, <1>2, Responded
  <2> QED BY <2>2, <1>4
<1>6. DOMAIN task' = Tasks /\ task'[t] = n /\ \A o \in Tasks : o # t => task'[o] = task[o]
  BY <1>2, <1>5
<1>7. PICK new : new = IF autoRefresh THEN <<exists, acl>> ELSE raclist
  OBVIOUS
<1>8. autoRefresh => new = <<exists, acl>>
  BY <1>7
<1>9. \A o \in Tasks : TaskOK(task[o], esm, autoRefresh, exists, acl, new)
  BY <1>2, <1>8, RefreshedOK
<1>10. TaskOK(n, esm, autoRefresh, exists, acl, new)
  <2>1. autoRefresh => new[1] = exists /\ new[2] = acl
    BY <1>8
  <2>2. n = [task[t] EXCEPT !.step = "done", !.status = status]
    BY <1>4 DEF Over
  <2>3. TaskOK(task[t], esm, autoRefresh, exists, acl, new) /\ task[t].step = "refresh"
    BY <1>1, <1>9
  <2> QED BY <2>1, <2>2, <2>3, RefreshAnswered
<1>11. ASSUME NEW o \in Tasks PROVE TaskOK(task'[o], esm', autoRefresh', exists', acl', raclist')
  <2>1. raclist' = new
    BY <1>1, <1>7
  <2>2. TaskOK(task'[o], esm, autoRefresh, exists, acl, new)
    BY <1>6, <1>9, <1>10
  <2> QED BY <2>1, <2>2, <1>1
<1> QED BY <1>1, <1>2, <1>6, <1>11 DEF Inv

\* A subtask goes on to another call of the same change.
Moved(n, s, step) == IsTask(n) /\ n.step = step /\ n.req = s.req /\ n.more = s.more

\* What is true of a change that goes on.
LEMMA MovedOK ==
  ASSUME NEW m, NEW auto, NEW e, NEW a, NEW rc, NEW s, RequestOK(s, m),
         s.step \in {"permitted", "revokeFirst", "owner"}, NEW step \in {"change", "revokeFirst"},
         step = "revokeFirst" => s.step = "permitted" /\ ~s.req.dryRun /\ s.req.res \in Supported,
         NEW n, Moved(n, s, step),
         m = "TSS" /\ step = "change" /\ s.req.kind = "give" /\ s.req.res \in Profiles /\ ~s.req.dryRun /\ ~n.contested
           => a[s.req.res][s.req.user] = {}
  PROVE  TaskOK(n, m, auto, e, a, rc)
<1>1. IsTask(n) /\ n.step = step /\ n.req = s.req /\ n.more = s.more
  BY DEF Moved
<1>2. s.req.kind \in Changes
  BY DEF RequestOK
<1>3. s.req.kind \notin {"page", "access", "list"}
  BY <1>2 DEF Changes
<1>4. RequestOK(n, m)
  BY <1>1, <1>2 DEF RequestOK
<1>5. ScanOK(n, m, e)
  BY <1>1, <1>3 DEF ScanOK
<1>6. RowsOK(n, m, a)
  BY <1>1, <1>3 DEF RowsOK
<1>7. ChangeOK(n, m, auto, e, a, rc)
  BY <1>1 DEF ChangeOK, Succeeded
<1> QED BY <1>1, <1>4, <1>5, <1>6, <1>7 DEF TaskOK

\* Top Secret looks at the user's permissions.
LEMMA PermittedKeepsInv ==
  ASSUME Inv, NEW t \in Tasks, isUserAlreadyPermitted(t)
  PROVE  Inv'
<1>0. PICK s : s = task[t]
  OBVIOUS
<1>1. IsTask(s) /\ RequestOK(s, esm)
  BY <1>0, TaskFacts
<1>2. PICK r : r = s.req
  OBVIOUS
<1>3. PICK step : step = IF r.dryRun \/ acl[r.res][r.user] = {} THEN "change" ELSE "revokeFirst"
  OBVIOUS
<1>4. /\ s.step = "permitted" /\ r.res \in Supported
      /\ task' = [task EXCEPT ![t].step = step, ![t].contested = FALSE]
      /\ UNCHANGED <<config, db, raclist>>
  BY <1>0, <1>2, <1>3, Zenon DEF isUserAlreadyPermitted, At, Req, validateGenresParmList
<1>5. PICK u : u = [task EXCEPT ![t] = [task[t] EXCEPT !.step = step]]
  OBVIOUS
<1>6. DOMAIN task = Tasks
  BY DEF Inv
<1>7. DOMAIN u = Tasks /\ u[t] = [s EXCEPT !.step = step] /\ \A o \in Tasks : o # t => u[o] = task[o]
  BY <1>0, <1>5, <1>6
<1>8. task' = [u EXCEPT ![t] = [u[t] EXCEPT !.contested = FALSE]]
  BY <1>4, <1>5, Zenon
<1>9. PICK k : k = [s EXCEPT !.step = step]
  OBVIOUS
<1>10. PICK n : n = [k EXCEPT !.contested = FALSE]
  OBVIOUS
<1>11. task' = [task EXCEPT ![t] = n]
  <2>1. task' = [u EXCEPT ![t] = n]
    BY <1>7, <1>8, <1>9, <1>10
  <2> QED BY <2>1, <1>5
<1>12. Moved(n, s, step)
  <2>1. IsTask(k) /\ k.step = step /\ k.req = s.req /\ k.more = s.more
    BY <1>1, <1>9 DEF IsTask
  <2> QED BY <2>1, <1>10 DEF IsTask, Moved
<1>13. TaskOK(n, esm, autoRefresh, exists, acl, raclist)
  <2>1. CASE r.dryRun \/ acl[r.res][r.user] = {}
    <3>1. step = "change"
      BY <2>1, <1>3
    <3> QED BY <3>1, <2>1, <1>1, <1>2, <1>4, <1>12, MovedOK
  <2>2. CASE ~(r.dryRun \/ acl[r.res][r.user] = {})
    <3>1. step = "revokeFirst" /\ ~s.req.dryRun
      BY <2>2, <1>2, <1>3
    <3> QED BY <3>1, <1>1, <1>2, <1>4, <1>12, MovedOK
  <2> QED BY <2>1, <2>2
<1> QED BY <1>4, <1>11, <1>13, TaskStep

\* Top Secret looks for the owner of a profile.
LEMMA OwnerKeepsInv ==
  ASSUME Inv, NEW t \in Tasks, getGenresProfileOwner(t)
  PROVE  Inv'
<1>0. PICK s : s = task[t]
  OBVIOUS
<1>1. IsTask(s) /\ RequestOK(s, esm)
  BY <1>0, TaskFacts
<1>2. PICK n : n = [s EXCEPT !.step = "change"]
  OBVIOUS
<1>3. s.step = "owner" /\ task' = [task EXCEPT ![t] = n] /\ UNCHANGED <<config, db, raclist>>
  BY <1>0, <1>2, Zenon DEF getGenresProfileOwner, At, Goes
<1>4. Moved(n, s, "change")
  BY <1>1, <1>2 DEF IsTask, Moved
<1>5. s.req.kind # "give"
  BY <1>1, <1>3 DEF RequestOK
<1>6. TaskOK(n, esm, autoRefresh, exists, acl, raclist)
  BY <1>1, <1>3, <1>4, <1>5, MovedOK
<1> QED BY <1>3, <1>6, TaskStep

\* What other subtasks learn of a revocation (handleRevokeAccess).
LEMMA RevokedNoticed ==
  ASSUME NEW s, IsTask(s), NEW res, NEW c, c <=> s.contested \/ s.req.res = res,
         NEW n, n = [s EXCEPT !.contested = c]
  PROVE  Noticed(n, s, res, FALSE, FALSE)
<1>1. IsTask(n) /\ n.step = s.step /\ n.req = s.req /\ n.status = s.status /\ n.cap = s.cap
  BY DEF IsTask
<1>2. /\ n.tries = s.tries /\ n.rows = s.rows /\ n.junk = s.junk /\ n.start = s.start
      /\ n.found = s.found /\ n.more = s.more /\ n.late = s.late /\ n.whole = s.whole
  BY DEF IsTask
<1>3. n.contested = c /\ n.grown = s.grown /\ n.stay = s.stay
  BY DEF IsTask
<1>4. (~n.contested => ~s.contested /\ s.req.res # res) /\ (~n.grown => ~s.grown)
  BY <1>3, Zenon
<1> QED BY <1>1, <1>2, <1>3, <1>4 DEF Noticed

\* The revocation of one user's access is a change of one resource.
LEMMA RevokedShift ==
  ASSUME exists \subseteq Resources, acl \in [Resources -> Lists], NEW r, r.res \in Resources, r.user \in Users, Revoked(r)
  PROVE  /\ Shift(r.res, FALSE, FALSE, exists, acl, exists', acl') /\ acl'[r.res][r.user] = {}
         /\ \A u \in Users : u # r.user => acl'[r.res][u] = acl[r.res][u]
<1>1. exists' = exists /\ acl' = [acl EXCEPT ![r.res][r.user] = {}]
  BY DEF Revoked
<1>2. acl \in [Resources -> [Users -> SUBSET Access]]
  BY DEF Lists, Access
<1>3. /\ acl' \in [Resources -> [Users -> SUBSET Access]] /\ acl'[r.res][r.user] = {}
      /\ \A u \in Users : u # r.user => acl'[r.res][u] = acl[r.res][u]
      /\ \A q \in Resources : q # r.res => acl'[q] = acl[q]
  BY <1>1, <1>2
<1>4. acl' \in [Resources -> Lists]
  BY <1>3 DEF Lists, Access
<1>5. \A u \in Users : acl'[r.res][u] \subseteq acl[r.res][u]
  BY <1>3
<1> QED BY <1>1, <1>3, <1>4, <1>5 DEF Shift

\* Top Secret revokes an earlier permission before it gives the new one.
LEMMA RevokeFirstKeepsInv ==
  ASSUME Inv, NEW t \in Tasks, handleRevokeAccess(t)
  PROVE  Inv'
<1>0. PICK s : s = task[t]
  OBVIOUS
<1>1. IsTask(s) /\ RequestOK(s, esm)
  BY <1>0, TaskFacts
<1>2. PICK r : r = s.req
  OBVIOUS
<1>3. /\ s.step = "revokeFirst" /\ Revoked(r) /\ UNCHANGED <<config, raclist>>
      /\ task' = [o \in Tasks |-> IF o = t THEN [s EXCEPT !.step = "change"]
                                  ELSE [task[o] EXCEPT !.contested = task[o].contested \/ task[o].req.res = r.res]]
  BY <1>0, <1>2, Zenon DEF handleRevokeAccess, At, Req
<1>4. r.res \in Resources /\ r.user \in Users /\ r.kind = "give"
  BY <1>1, <1>2, <1>3 DEF RequestOK, Changes
<1>5. exists \subseteq Resources /\ acl \in [Resources -> Lists]
  BY DEF Inv
<1>6. Shift(r.res, FALSE, FALSE, exists, acl, exists', acl') /\ acl'[r.res][r.user] = {}
  BY <1>3, <1>4, <1>5, RevokedShift
<1>7. PICK n : n = [s EXCEPT !.step = "change"]
  OBVIOUS
<1>8. DOMAIN task' = Tasks /\ task'[t] = n
  BY <1>3, <1>7, Zenon
<1>9. Moved(n, s, "change")
  BY <1>1, <1>7 DEF IsTask, Moved
<1>10. TaskOK(n, esm, autoRefresh, exists', acl', raclist)
  BY <1>1, <1>2, <1>3, <1>6, <1>9, MovedOK
<1>11. ASSUME NEW o \in Tasks, o # t PROVE Noticed(task'[o], task[o], r.res, FALSE, FALSE)
  <2>1. PICK v : v = task[o]
    OBVIOUS
  <2>2. PICK c : c = (v.contested \/ v.req.res = r.res)
    OBVIOUS
  <2>3. PICK w : w = [v EXCEPT !.contested = c]
    OBVIOUS
  <2>4. task'[o] = w
    BY <2>1, <2>2, <2>3, <1>3, <1>11, Zenon
  <2>5. IsTask(v)
    BY <2>1, TaskFacts
  <2>6. c <=> v.contested \/ v.req.res = r.res
    BY <2>2, Zenon
  <2>7. Noticed(w, v, r.res, FALSE, FALSE)
    BY <2>3, <2>5, <2>6, RevokedNoticed
  <2> QED BY <2>1, <2>4, <2>7
<1> QED BY <1>3, <1>4, <1>6, <1>8, <1>10, <1>11, ShiftKeepsInv

\* The client asks for the next page.
LEMMA NextPageKeepsInv ==
  ASSUME Inv, NEW t \in Tasks, NextPage(t)
  PROVE  Inv'
<1>0. PICK s : s = task[t]
  OBVIOUS
<1>1. IsTask(s) /\ RequestOK(s, esm) /\ ScanOK(s, esm, exists)
  BY <1>0, TaskFacts
<1>2. /\ s.step = "done" /\ s.more /\ UNCHANGED <<config, db, raclist>>
      /\ task' = [task EXCEPT ![t].step = "page", ![t].more = FALSE]
  BY <1>0, Zenon DEF NextPage, At
<1>3. DOMAIN task = Tasks
  BY DEF Inv
<1>4. PICK u : u = [task EXCEPT ![t] = [task[t] EXCEPT !.step = "page"]]
  OBVIOUS
<1>5. PICK k : k = [s EXCEPT !.step = "page"]
  OBVIOUS
<1>6. PICK n : n = [k EXCEPT !.more = FALSE]
  OBVIOUS
<1>7. DOMAIN u = Tasks /\ u[t] = k /\ \A o \in Tasks : o # t => u[o] = task[o]
  BY <1>0, <1>3, <1>4, <1>5
<1>8. task' = [u EXCEPT ![t] = [u[t] EXCEPT !.more = FALSE]]
  BY <1>2, <1>4, Zenon
<1>9. task' = [task EXCEPT ![t] = n]
  <2>1. task' = [u EXCEPT ![t] = n]
    BY <1>6, <1>7, <1>8
  <2> QED BY <2>1, <1>4
<1>10. /\ IsTask(k) /\ k.step = "page" /\ k.req = s.req /\ k.found = s.found /\ k.start = s.start /\ k.stay = s.stay
       /\ k.late = s.late
  BY <1>1, <1>5 DEF IsTask
<1>11. /\ IsTask(n) /\ n.step = "page" /\ n.req = s.req /\ n.found = s.found /\ n.start = s.start /\ n.stay = s.stay
       /\ ~n.more /\ n.late = s.late
  BY <1>6, <1>10 DEF IsTask
<1>12. s.req.kind = "page" /\ s.req.kind \notin Changes
  BY <1>1, <1>2 DEF RequestOK, Changes
<1>13. RequestOK(n, esm)
  BY <1>1, <1>11, <1>12 DEF RequestOK
<1>14. ScanOK(n, esm, exists)
  BY <1>1, <1>2, <1>11, <1>12 DEF ScanOK
<1>15. RowsOK(n, esm, acl)
  BY <1>11 DEF RowsOK
<1>16. ChangeOK(n, esm, autoRefresh, exists, acl, raclist)
  BY <1>11 DEF ChangeOK, Succeeded
<1>17. TaskOK(n, esm, autoRefresh, exists, acl, raclist)
  BY <1>11, <1>13, <1>14, <1>15, <1>16 DEF TaskOK
<1> QED BY <1>2, <1>9, <1>17, TaskStep

-----------------------------------------------------------------------------
\* RACF gives the whole list or says how long it is.
LEMMA RacfExtract ==
  ASSUME Inv, esm = "RACF", NEW res, Extractable(res), NEW cap \in Nat
  PROVE  /\ res \in Resources /\ Entries(res) = ListEntries(acl[res])
         /\ Cardinality(Entries(res)) \in Nat /\ IsFiniteSet(Entries(res))
         /\ Cardinality(Entries(res)) <= cap =>
              Extract(res, cap).short = 0 /\ Extract(res, cap).taken = Cardinality(Entries(res))
         /\ ~(Cardinality(Entries(res)) <= cap) =>
              Extract(res, cap).short = Cardinality(Entries(res)) /\ Cardinality(Entries(res)) > 0
<1>1. res \in Resources /\ acl[res] \in Lists
  BY DEF Inv, Extractable
<1>2. Entries(res) = ListEntries(acl[res])
  BY DEF Entries, ListEntries
<1>3. IsFiniteSet(Entries(res))
  BY <1>1, <1>2, ListEntriesFinite
<1>4. Cardinality(Entries(res)) \in Nat
  BY <1>3, FS_CardinalityType
<1>5. PICK n : n = Cardinality(Entries(res))
  OBVIOUS
<1>6. Extract(res, cap) = IF n <= cap THEN [taken |-> n, short |-> 0] ELSE [taken |-> 0, short |-> n]
  BY <1>5 DEF Extract, zisExtractGenresAccessList, zisExtractGroupAccessList,
              zisGenresAccessListServiceFunctionRACF, zisGroupAccessListServiceFunctionRACF
<1>7. n \in Nat
  BY <1>4, <1>5
<1>8. CASE n <= cap
  <2>1. Extract(res, cap).short = 0 /\ Extract(res, cap).taken = n
    BY <1>6, <1>8
  <2> QED BY <2>1, <1>1, <1>2, <1>3, <1>5, <1>7, <1>8
<1>9. CASE ~(n <= cap)
  <2>1. Extract(res, cap).short = n /\ n > 0
    BY <1>6, <1>7, <1>9
  <2> QED BY <2>1, <1>1, <1>2, <1>3, <1>5, <1>7, <1>9
<1> QED BY <1>8, <1>9

\* As many entries as the list has are the list.
LEMMA WholeList ==
  ASSUME NEW T, IsFiniteSet(T), NEW rows, rows \subseteq T, Cardinality(rows) = Cardinality(T)
  PROVE  rows = T
  BY FS_Subset

\* A subtask that answers with a list.
Filled(s, rows, whole) == [s EXCEPT !.step = "done", !.status = 200, !.rows = rows, !.whole = whole]

\* A list that is answered is whole (RACF), whatever else the subtask keeps.
LEMMA ListAnswered ==
  ASSUME NEW m, NEW auto, NEW e, NEW a, NEW rc,
         NEW s, IsTask(s), RequestOK(s, m), RowsOK(s, m, a), s.step = "list",
         NEW rows, NEW whole, m = "RACF" => rows = whole
  PROVE  TaskOK(Filled(s, rows, whole), m, auto, e, a, rc)
<1>0. PICK n : n = Filled(s, rows, whole)
  OBVIOUS
<1>1. /\ IsTask(n) /\ n.step = "done" /\ n.req = s.req /\ n.rows = rows /\ n.whole = whole /\ n.junk = s.junk
      /\ n.more = s.more /\ n.status = 200
  BY <1>0 DEF IsTask, Filled
<1>2. s.req.kind = "list" /\ s.req.kind \notin Changes
  BY DEF RequestOK, Changes
<1>3. RequestOK(n, m)
  BY <1>1, <1>2 DEF RequestOK
<1>4. ScanOK(n, m, e)
  BY <1>1, <1>2 DEF ScanOK
<1>5. RowsOK(n, m, a)
  BY <1>1 DEF RowsOK
<1>6. ChangeOK(n, m, auto, e, a, rc)
  BY <1>1 DEF ChangeOK, Succeeded
<1> QED BY <1>0, <1>1, <1>3, <1>4, <1>5, <1>6 DEF TaskOK

\* The second round of a list has a new buffer.
LEMMA ListAgain ==
  ASSUME NEW m, NEW auto, NEW e, NEW a, NEW rc,
         NEW s, IsTask(s), RequestOK(s, m), RowsOK(s, m, a), s.step = "list",
         NEW cap, m = "RACF" => cap \in Nat,
         NEW n, n = [s EXCEPT !.cap = cap, !.tries = 1]
  PROVE  TaskOK(n, m, auto, e, a, rc)
<1>1. /\ IsTask(n) /\ n.step = "list" /\ n.req = s.req /\ n.junk = s.junk /\ n.more = s.more /\ n.cap = cap
  BY DEF IsTask
<1>2. s.req.kind = "list" /\ s.req.kind \notin Changes
  BY DEF RequestOK, Changes
<1>3. RequestOK(n, m)
  BY <1>1, <1>2 DEF RequestOK
<1>4. ScanOK(n, m, e)
  BY <1>1, <1>2 DEF ScanOK
<1>5. RowsOK(n, m, a)
  BY <1>1 DEF RowsOK
<1>6. ChangeOK(n, m, auto, e, a, rc)
  BY <1>1 DEF ChangeOK, Succeeded
<1> QED BY <1>1, <1>3, <1>4, <1>5, <1>6 DEF TaskOK

\* What a subtask keeps after a round of a list (AccessListGET).
AfterRound(s, x, rows, whole) ==
  CASE x.short = 0 -> [s EXCEPT !.step = "done", !.status = 200, !.rows = rows, !.whole = whole]
    [] x.short > MaxSize \/ s.tries = 1 -> Failed
    [] OTHER -> [s EXCEPT !.cap = x.short, !.tries = 1]

\* A round of a list.
LEMMA ListKeepsInv ==
  ASSUME Inv, NEW t \in Tasks, AccessListGET(t)
  PROVE  Inv'
<1>0. PICK s : s = task[t]
  OBVIOUS
<1>1. IsTask(s) /\ RequestOK(s, esm) /\ RowsOK(s, esm, acl)
  BY <1>0, TaskFacts
<1>2. PICK res : res = s.req.res
  OBVIOUS
<1>3. PICK x : x = Extract(res, s.cap)
  OBVIOUS
<1>4. PICK whole : whole = Entries(res)
  OBVIOUS
<1>5. /\ s.step = "list" /\ Extractable(res) /\ UNCHANGED <<config, db, raclist>>
      /\ \E rows \in SUBSET whole :
           Cardinality(rows) = x.taken /\ task' = [task EXCEPT ![t] = AfterRound(s, x, rows, whole)]
  <2>1. /\ At(t, "list") /\ Extractable(Req(t).res) /\ UNCHANGED <<config, db, raclist>>
        /\ \E rows \in SUBSET Entries(Req(t).res) :
             /\ Cardinality(rows) = Extract(Req(t).res, task[t].cap).taken
             /\ task' = [task EXCEPT ![t] = AfterRound(task[t], Extract(Req(t).res, task[t].cap), rows, Entries(Req(t).res))]
    BY Zenon DEF AccessListGET, AfterRound
  <2>2. Req(t).res = res /\ Entries(Req(t).res) = whole /\ Extract(Req(t).res, task[t].cap) = x
    BY <1>0, <1>2, <1>3, <1>4, Zenon DEF Req
  <2> QED BY <2>1, <2>2, <1>0 DEF At
<1>6. PICK rows \in SUBSET whole :
        Cardinality(rows) = x.taken /\ task' = [task EXCEPT ![t] = AfterRound(s, x, rows, whole)]
  BY <1>5
<1>7. PICK k : k = Filled(s, rows, whole)
  OBVIOUS
<1>8. PICK again : again = [s EXCEPT !.cap = x.short, !.tries = 1]
  OBVIOUS
<1>9. \/ x.short = 0 /\ task' = [task EXCEPT ![t] = k]
      \/ task' = [task EXCEPT ![t] = Failed]
      \/ x.short # 0 /\ task' = [task EXCEPT ![t] = again]
  <2>1. task' = [task EXCEPT ![t] = CASE x.short = 0 -> k [] x.short > MaxSize \/ s.tries = 1 -> Failed [] OTHER -> again]
    BY <1>6, <1>7, <1>8, Zenon DEF AfterRound, Filled
  <2>2. CASE x.short = 0
    <3>1. (CASE x.short = 0 -> k [] x.short > MaxSize \/ s.tries = 1 -> Failed [] OTHER -> again) \in {k, Failed}
      BY <2>2
    <3> QED BY <3>1, <2>1, <2>2
  <2>3. CASE x.short # 0
    <3>1. (CASE x.short = 0 -> k [] x.short > MaxSize \/ s.tries = 1 -> Failed [] OTHER -> again) \in {Failed, again}
      BY <2>3
    <3> QED BY <3>1, <2>1, <2>3
  <2> QED BY <2>2, <2>3
<1>10. CASE task' = [task EXCEPT ![t] = Failed]
  BY <1>5, <1>10, IdleOK, TaskStep
<1>11. CASE x.short = 0 /\ task' = [task EXCEPT ![t] = k]
  <2>1. ASSUME esm = "RACF" PROVE rows = whole
    <3>1. s.cap \in Nat
      BY <2>1, <1>1, <1>5 DEF RowsOK
    <3>2. IsFiniteSet(whole) /\ x.taken = Cardinality(whole)
      BY <3>1, <2>1, <1>3, <1>4, <1>5, <1>11, RacfExtract
    <3> QED BY <3>2, <1>6, WholeList
  <2>2. TaskOK(k, esm, autoRefresh, exists, acl, raclist)
    <3>1. s.step = "list"
      BY <1>5
    <3> QED BY <3>1, <2>1, <1>1, <1>7, ListAnswered
  <2> QED BY <2>2, <1>5, <1>11, TaskStep
<1>12. CASE x.short # 0 /\ task' = [task EXCEPT ![t] = again]
  <2>1. ASSUME esm = "RACF" PROVE x.short \in Nat
    <3>1. s.cap \in Nat
      BY <2>1, <1>1, <1>5 DEF RowsOK
    <3> QED BY <3>1, <2>1, <1>3, <1>5, RacfExtract
  <2>2. TaskOK(again, esm, autoRefresh, exists, acl, raclist)
    <3>1. s.step = "list"
      BY <1>5
    <3> QED BY <3>1, <2>1, <1>1, <1>8, ListAgain
  <2> QED BY <2>2, <1>5, <1>12, TaskStep
<1> QED BY <1>9, <1>10, <1>11, <1>12

\* The second round for the members of a group has a buffer of the size found.
LEMMA MembersAgain ==
  ASSUME NEW m, NEW auto, NEW e, NEW a, NEW rc,
         NEW s, IsTask(s), RequestOK(s, m), ScanOK(s, m, e), RowsOK(s, m, a), s.step = "members",
         NEW cap, m = "RACF" => cap \in Nat /\ Cardinality(ListEntries(a[s.req.res])) <= cap,
         NEW n, n = [s EXCEPT !.tries = 1, !.cap = cap]
  PROVE  TaskOK(n, m, auto, e, a, rc)
<1>1. /\ IsTask(n) /\ n.step = "members" /\ n.req = s.req /\ n.junk = s.junk /\ n.more = s.more /\ n.cap = cap
      /\ n.found = s.found /\ n.stay = s.stay
  BY DEF IsTask
<1>2. s.req.kind = "access" /\ s.req.kind \notin Changes
  BY DEF RequestOK, Changes
<1>3. RequestOK(n, m)
  BY <1>1, <1>2 DEF RequestOK
<1>4. ScanOK(n, m, e)
  BY <1>1, <1>2 DEF ScanOK
<1>5. RowsOK(n, m, a)
  BY <1>1 DEF RowsOK
<1>6. ChangeOK(n, m, auto, e, a, rc)
  BY <1>1 DEF ChangeOK, Succeeded
<1> QED BY <1>1, <1>3, <1>4, <1>5, <1>6 DEF TaskOK

\* The prefix comes before every name that has it.
LEMMA PrefixFirst ==
  PrefixStart \in Nat /\ \A p \in Prefixed : PrefixStart <= p
<1>1. Prefixed \subseteq Nat /\ Prefixed # {}
  BY SecMgmtAssumption
<1>2. \E p \in Prefixed : \A q \in Prefixed : p <= q
  BY <1>1, LeastName
<1>3. PrefixStart \in Prefixed /\ \A q \in Prefixed : PrefixStart <= q
  BY <1>2 DEF PrefixStart
<1> QED BY <1>1, <1>3

\* Before the first page there is nothing to have.
LEMMA ReachedStart ==
  ASSUME NEW e
  PROVE  Reached(<<>>, PrefixStart, e \cap Prefixed)
<1>1. \A p \in e \cap Prefixed : ~(p < PrefixStart)
  <2>1. SUFFICES ASSUME NEW p \in Prefixed PROVE ~(p < PrefixStart)
    OBVIOUS
  <2>2. p \in Nat
    BY SecMgmtAssumption
  <2> QED BY <2>2, PrefixFirst
<1> QED BY <1>1, EmptyFound DEF Reached

\* The members are known: the report has nobody to look for, or the scan begins.
LEMMA MembersKnown ==
  ASSUME NEW m, NEW auto, NEW a, NEW rc,
         NEW s, IsTask(s), RequestOK(s, m), ScanOK(s, m, exists), s.step = "members",
         NEW rows, NEW junk, NEW hit, NEW whole, m = "RACF" /\ ~s.grown => ~junk /\ rows = whole
  PROVE  TaskOK(AfterMembers(s, rows, junk, hit, whole), m, auto, exists, a, rc)
<1>1. PICK asked : asked = Asked(s.req, rows)
  OBVIOUS
<1>2. PICK all : all = Asked(s.req, whole)
  OBVIOUS
<1>3. PICK k : k = [s EXCEPT !.rows = asked, !.junk = junk, !.whole = all, !.tries = 2]
  OBVIOUS
<1>4. /\ IsTask(k) /\ k.req = s.req /\ k.rows = asked /\ k.whole = all /\ k.junk = junk /\ k.more = s.more
      /\ k.grown = s.grown /\ k.found = s.found /\ k.stay = s.stay
  BY <1>3 DEF IsTask
<1>5. s.req.kind = "access" /\ s.req.kind \notin Changes /\ s.req.res \in Resources
  BY DEF RequestOK, Changes
<1>6. s.found = <<>> /\ s.stay = {}
  BY DEF ScanOK
<1>7. m = "RACF" /\ ~s.grown => ~junk /\ asked = all
  BY <1>1, <1>2
<1>8. PICK n : n = AfterMembers(s, rows, junk, hit, whole)
  OBVIOUS
<1>9. \/ n = [k EXCEPT !.step = "done", !.status = 200]
      \/ n = [k EXCEPT !.step = "scan", !.start = PrefixStart, !.stay = exists \cap Prefixed]
  BY <1>1, <1>2, <1>3, <1>8, Zenon DEF AfterMembers
<1>10. CASE n = [k EXCEPT !.step = "done", !.status = 200]
  <2>1. /\ IsTask(n) /\ n.step = "done" /\ n.status = 200 /\ n.req = s.req /\ n.rows = asked /\ n.whole = all /\ n.junk = junk
        /\ n.more = s.more /\ n.grown = s.grown /\ n.found = s.found /\ n.stay = s.stay
    BY <1>4, <1>10 DEF IsTask
  <2>2. RequestOK(n, m)
    BY <2>1, <1>5 DEF RequestOK
  <2>3. ScanOK(n, m, exists)
    <3>1. Complete(n.found, n.stay)
      BY <2>1, <1>6, EmptyFound
    <3> QED BY <3>1, <2>1, <1>5 DEF ScanOK
  <2>4. RowsOK(n, m, a)
    BY <2>1, <1>7 DEF RowsOK
  <2>5. ChangeOK(n, m, auto, exists, a, rc)
    BY <2>1, <1>5 DEF ChangeOK, Succeeded
  <2> QED BY <2>1, <2>2, <2>3, <2>4, <2>5, <1>8 DEF TaskOK
<1>11. CASE n = [k EXCEPT !.step = "scan", !.start = PrefixStart, !.stay = exists \cap Prefixed]
  <2>1. /\ IsTask(n) /\ n.step = "scan" /\ n.req = s.req /\ n.rows = asked /\ n.whole = all /\ n.junk = junk
        /\ n.more = s.more /\ n.grown = s.grown /\ n.found = s.found /\ n.stay = exists \cap Prefixed /\ n.start = PrefixStart
    BY <1>4, <1>11 DEF IsTask
  <2>2. RequestOK(n, m)
    BY <2>1, <1>5 DEF RequestOK
  <2>3. ScanOK(n, m, exists)
    <3>1. Reached(n.found, n.start, n.stay) /\ n.start \in Nat /\ n.stay \subseteq exists \cap Prefixed
      BY <2>1, <1>6, ReachedStart, PrefixFirst
    <3> QED BY <3>1, <2>1, <1>5 DEF ScanOK
  <2>4. RowsOK(n, m, a)
    BY <2>1, <1>7 DEF RowsOK
  <2>5. ChangeOK(n, m, auto, exists, a, rc)
    BY <2>1, <1>5 DEF ChangeOK, Succeeded
  <2> QED BY <2>1, <2>2, <2>3, <2>4, <2>5, <1>8 DEF TaskOK
<1> QED BY <1>9, <1>10, <1>11

\* What a subtask keeps after a round for the members (getAccessListByGroup).
AfterTry(s, x, rows, hit, whole) ==
  CASE x.short > MaxSize -> Failed
    [] x.short <= MaxSize /\ s.tries = 0 -> [s EXCEPT !.tries = 1, !.cap = IF x.short > 0 THEN x.short ELSE s.cap]
    [] OTHER -> AfterMembers(s, rows, x.short > 0, hit, whole)

\* A round for the members of a group.
LEMMA MembersKeepsInv ==
  ASSUME Inv, NEW t \in Tasks, getAccessListByGroup(t)
  PROVE  Inv'
<1>0. PICK s : s = task[t]
  OBVIOUS
<1>1. IsTask(s) /\ RequestOK(s, esm) /\ ScanOK(s, esm, exists) /\ RowsOK(s, esm, acl)
  BY <1>0, TaskFacts
<1>2. PICK res : res = s.req.res
  OBVIOUS
<1>3. PICK x : x = Extract(res, s.cap)
  OBVIOUS
<1>4. PICK whole : whole = Entries(res)
  OBVIOUS
<1>5. /\ s.step = "members" /\ Extractable(res) /\ UNCHANGED <<config, db, raclist>>
      /\ \E rows \in SUBSET whole, hit \in BOOLEAN :
           Cardinality(rows) = x.taken /\ task' = [task EXCEPT ![t] = AfterTry(s, x, rows, hit, whole)]
  <2>1. /\ At(t, "members") /\ Extractable(Req(t).res) /\ UNCHANGED <<config, db, raclist>>
        /\ \E rows \in SUBSET Entries(Req(t).res), hit \in BOOLEAN :
             /\ Cardinality(rows) = Extract(Req(t).res, task[t].cap).taken
             /\ task' = [task EXCEPT ![t] =
                           AfterTry(task[t], Extract(Req(t).res, task[t].cap), rows, hit, Entries(Req(t).res))]
    BY Zenon DEF getAccessListByGroup, AfterTry
  <2>2. Req(t).res = res /\ Entries(Req(t).res) = whole /\ Extract(Req(t).res, task[t].cap) = x
    BY <1>0, <1>2, <1>3, <1>4, Zenon DEF Req
  <2> QED BY <2>1, <2>2, <1>0 DEF At
<1>6. PICK rows \in SUBSET whole, hit \in BOOLEAN :
        Cardinality(rows) = x.taken /\ task' = [task EXCEPT ![t] = AfterTry(s, x, rows, hit, whole)]
  BY <1>5
<1>7. PICK cap : cap = IF x.short > 0 THEN x.short ELSE s.cap
  OBVIOUS
<1>8. PICK again : again = [s EXCEPT !.tries = 1, !.cap = cap]
  OBVIOUS
<1>9. PICK junk : junk = (x.short > 0)
  OBVIOUS
<1>10. PICK n : n = AfterMembers(s, rows, junk, hit, whole)
  OBVIOUS
<1>11. PICK after : after = AfterTry(s, x, rows, hit, whole)
  OBVIOUS
<1>12. \/ after = Failed
       \/ after = again
       \/ after = n /\ ~(x.short > MaxSize) /\ ~(x.short <= MaxSize /\ s.tries = 0)
  <2>1. after = CASE x.short > MaxSize -> Failed [] x.short <= MaxSize /\ s.tries = 0 -> again [] OTHER -> n
    BY <1>7, <1>8, <1>9, <1>10, <1>11, Zenon DEF AfterTry
  <2> QED BY <2>1
<1>13. task' = [task EXCEPT ![t] = after]
  BY <1>6, <1>11
<1>14. ASSUME esm = "RACF"
       PROVE  /\ s.cap \in Nat /\ res \in Resources /\ whole = ListEntries(acl[res]) /\ IsFiniteSet(whole)
              /\ Cardinality(whole) \in Nat
              /\ Cardinality(whole) <= s.cap => x.short = 0 /\ x.taken = Cardinality(whole)
              /\ ~(Cardinality(whole) <= s.cap) => x.short = Cardinality(whole) /\ Cardinality(whole) > 0
  <2>1. s.cap \in Nat
    BY <1>1, <1>5, <1>14 DEF RowsOK
  <2> QED BY <2>1, <1>3, <1>4, <1>5, <1>14, RacfExtract
<1>15. CASE after = Failed
  BY <1>5, <1>13, <1>15, IdleOK, TaskStep
<1>16. CASE after = again
  <2>1. ASSUME esm = "RACF" PROVE cap \in Nat /\ Cardinality(ListEntries(acl[res])) <= cap
    <3>1. CASE Cardinality(whole) <= s.cap
      <4>1. x.short = 0
        BY <3>1, <2>1, <1>14
      <4>2. cap = s.cap
        BY <4>1, <1>7
      <4> QED BY <4>2, <3>1, <2>1, <1>14
    <3>2. CASE ~(Cardinality(whole) <= s.cap)
      <4>1. x.short = Cardinality(whole) /\ x.short > 0
        BY <3>2, <2>1, <1>14
      <4>2. cap = Cardinality(whole)
        BY <4>1, <1>7
      <4> QED BY <4>2, <2>1, <1>14
    <3> QED BY <3>1, <3>2
  <2>2. TaskOK(again, esm, autoRefresh, exists, acl, raclist)
    BY <2>1, <1>1, <1>2, <1>5, <1>8, MembersAgain
  <2> QED BY <2>2, <1>5, <1>13, <1>16, TaskStep
<1>17. CASE after = n /\ ~(x.short > MaxSize) /\ ~(x.short <= MaxSize /\ s.tries = 0)
  <2>1. ASSUME esm = "RACF", ~s.grown PROVE ~junk /\ rows = whole
    <3>1. s.tries # 0
      <4>1. x.short \in Nat /\ MaxSize \in Nat
        BY <2>1, <1>14, SecMgmtAssumption
      <4>2. x.short <= MaxSize
        BY <4>1, <1>17
      <4> QED BY <4>2, <1>17
    <3>2. Cardinality(whole) <= s.cap
      BY <3>1, <2>1, <1>1, <1>2, <1>5, <1>14 DEF RowsOK
    <3>3. x.short = 0 /\ x.taken = Cardinality(whole) /\ IsFiniteSet(whole)
      BY <3>2, <2>1, <1>14
    <3>4. ~junk
      <4>1. ~(x.short > 0)
        BY <3>3
      <4> QED BY <4>1, <1>9, Zenon
    <3>5. rows = whole
      BY <3>3, <1>6, WholeList
    <3> QED BY <3>4, <3>5
  <2>2. TaskOK(n, esm, autoRefresh, exists, acl, raclist)
    BY <2>1, <1>1, <1>5, <1>10, MembersKnown
  <2> QED BY <2>2, <1>5, <1>13, <1>17, TaskStep
<1> QED BY <1>12, <1>15, <1>16, <1>17

-----------------------------------------------------------------------------
\* The names that a page is taken from.
LEMMA NamesForProperties ==
  ASSUME NEW r, NEW e
  PROVE  NamesFor(r, e) \subseteq Nat \ {None} /\ IsFiniteSet(NamesFor(r, e))
<1>1. /\ Profiles \subseteq Nat \ {None} /\ Groups \subseteq Nat \ {None} /\ Users \subseteq Nat \ {None}
      /\ IsFiniteSet(Profiles) /\ IsFiniteSet(Groups) /\ IsFiniteSet(Users)
  BY SecMgmtAssumption DEF None, NoUser
<1>2. IsFiniteSet(e \cap Profiles) /\ IsFiniteSet(e \cap Groups)
  BY <1>1, FS_Subset
<1> QED BY <1>1, <1>2 DEF NamesFor

\* A page leaves the client with what ScanOK says.
LEMMA PagedOK ==
  ASSUME NEW m, NEW auto, NEW e, NEW a, NEW rc,
         NEW s, IsTask(s), RequestOK(s, m), ScanOK(s, m, e), s.step = "page", NEW page, NEW late,
         m = "RACF" \/ (s.req.mgmt = "groups" /\ ~late) => page = Page(From(s.start, NamesFor(s.req, e)), Count + 1)
  PROVE  TaskOK(Paged(s, page, late), m, auto, e, a, rc)
<1>1. PICK more : more = (Len(page) > Count)
  OBVIOUS
<1>2. PICK rows : rows = RowsOf(page)
  OBVIOUS
<1>3. PICK news : news = NewsOf(rows, s.start)
  OBVIOUS
<1>4. PICK h : h = s.found \o news
  OBVIOUS
<1>5. PICK st : st = IF Len(page) > Count THEN Last(rows) ELSE None
  OBVIOUS
<1>l. PICK l : l = (s.late \/ late)
  OBVIOUS
<1>6. PICK n : n = [s EXCEPT !.step = "done", !.status = 200, !.more = more, !.found = h, !.late = l, !.start = st]
  OBVIOUS
<1>7. n = Paged(s, page, late)
  <2>1. Paged(s, page, late) =
          [s EXCEPT !.step = "done", !.status = 200, !.more = (Len(page) > Count),
                    !.found = s.found \o NewsOf(RowsOf(page), s.start), !.late = (s.late \/ late),
                    !.start = IF Len(page) > Count THEN Last(RowsOf(page)) ELSE None]
    BY Zenon DEF Paged, RowsOf, NewsOf
  <2>2. s.found \o NewsOf(RowsOf(page), s.start) = h
    BY <1>2, <1>3, <1>4
  <2>3. (IF Len(page) > Count THEN Last(RowsOf(page)) ELSE None) = st
    BY <1>2, <1>5
  <2> QED BY <2>1, <2>2, <2>3, <1>1, <1>6, <1>l, Zenon
<1>8. /\ IsTask(n) /\ n.step = "done" /\ n.status = 200 /\ n.req = s.req /\ n.more = more /\ n.found = h /\ n.start = st
      /\ n.stay = s.stay /\ n.late = l
  BY <1>6 DEF IsTask
<1>9. s.req.kind = "page" /\ s.req.kind \notin Changes
  BY DEF RequestOK, Changes
<1>10. RequestOK(n, m)
  BY <1>8, <1>9 DEF RequestOK
<1>11. (n.more => Len(page) > Count) /\ (~n.more => ~(Len(page) > Count))
  BY <1>1, <1>8, Zenon
<1>p. ~n.late => ~s.late /\ ~late
  BY <1>8, <1>l, Zenon
<1>12. ASSUME m = "RACF" \/ (s.req.mgmt = "groups" /\ ~n.late)
       PROVE  /\ Len(page) > Count => st \in Nat /\ Caught(h, st, s.stay)
              /\ ~(Len(page) > Count) => Complete(h, s.stay)
              /\ s.stay \subseteq NamesFor(s.req, e)
  <2>1. PICK S : S = NamesFor(s.req, e)
    OBVIOUS
  <2>2. S \subseteq Nat \ {None} /\ IsFiniteSet(S)
    BY <2>1, NamesForProperties
  <2>3. s.start \in Nat /\ Caught(s.found, s.start, s.stay) /\ s.stay \subseteq S
    BY <2>1, <1>9, <1>12, <1>p DEF ScanOK
  <2>4. page = Page(From(s.start, S), Count + 1)
    BY <2>1, <1>12, <1>p
  <2>5. /\ Len(page) > Count => Last(rows) \in Nat /\ Caught(h, Last(rows), s.stay)
        /\ ~(Len(page) > Count) => Complete(h, s.stay)
    BY <2>2, <2>3, <2>4, <1>2, <1>3, <1>4, PagedCaught
  <2> QED BY <2>1, <2>3, <2>5, <1>5
<1>13. ScanOK(n, m, e)
  BY <1>8, <1>9, <1>11, <1>12 DEF ScanOK
<1>14. RowsOK(n, m, a)
  BY <1>8, <1>9 DEF RowsOK
<1>15. ChangeOK(n, m, auto, e, a, rc)
  BY <1>8 DEF ChangeOK, Succeeded
<1>16. TaskOK(n, m, auto, e, a, rc)
  BY <1>8, <1>10, <1>13, <1>14, <1>15 DEF TaskOK
<1> QED BY <1>7, <1>16

\* A page of profiles.
LEMMA ProfilesKeepsInv ==
  ASSUME Inv, NEW t \in Tasks, zisExtractGenresProfiles(t)
  PROVE  Inv'
<1>0. PICK s : s = task[t]
  OBVIOUS
<1>1. IsTask(s) /\ RequestOK(s, esm) /\ ScanOK(s, esm, exists)
  BY <1>0, TaskFacts
<1>2. PICK page : page = IF esm = "RACF" THEN zisGenresProfilesServiceFunctionRACF(s.start, Count + 1)
                         ELSE zisGenresProfilesServiceFunctionTSS(s.start, Count + 1, FALSE)
  OBVIOUS
<1>3. /\ s.step = "page" /\ s.req.mgmt = "classes" /\ UNCHANGED <<config, db, raclist>>
      /\ task' = [task EXCEPT ![t] = Paged(s, page, FALSE)]
  BY <1>0, <1>2, Zenon DEF zisExtractGenresProfiles, At, Req, respondWithGenresProfiles
<1>4. esm = "RACF" => page = Page(From(s.start, NamesFor(s.req, exists)), Count + 1)
  <2>1. NamesFor(s.req, exists) = exists \cap Profiles
    BY <1>3 DEF NamesFor
  <2> QED BY <2>1, <1>2 DEF zisGenresProfilesServiceFunctionRACF
<1>5. s.req.mgmt # "groups"
  BY <1>3
<1>6. TaskOK(Paged(s, page, FALSE), esm, autoRefresh, exists, acl, raclist)
  BY <1>1, <1>3, <1>4, <1>5, PagedOK
<1> QED BY <1>3, <1>6, TaskStep

\* A page of users.
LEMMA UsersKeepsInv ==
  ASSUME Inv, NEW t \in Tasks, zisExtractUserProfiles(t)
  PROVE  Inv'
<1>0. PICK s : s = task[t]
  OBVIOUS
<1>1. IsTask(s) /\ RequestOK(s, esm) /\ ScanOK(s, esm, exists)
  BY <1>0, TaskFacts
<1>2. s.step = "page" /\ s.req.mgmt = "users" /\ UNCHANGED <<config, db, raclist>>
  BY <1>0, Zenon DEF zisExtractUserProfiles, At, Req
<1>3. PICK x \in IF esm = "RACF" THEN {InOrder(zisUserProfilesServiceFunctionRACF(s.start, Count + 1))}
               ELSE zisUserProfilesServiceFunctionTSS(s.start, Count + 1) :
        task' = [task EXCEPT ![t] = Paged(s, x.page, x.late)]
  BY <1>0, Zenon DEF zisExtractUserProfiles, respondWithUserProfiles
<1>4. esm = "RACF" => x.page = Page(From(s.start, NamesFor(s.req, exists)), Count + 1)
  <2>1. NamesFor(s.req, exists) = Users
    BY <1>2 DEF NamesFor
  <2>2. esm = "RACF" => x.page = zisUserProfilesServiceFunctionRACF(s.start, Count + 1)
    BY <1>3 DEF InOrder
  <2> QED BY <2>1, <2>2 DEF zisUserProfilesServiceFunctionRACF
<1>5. s.req.mgmt # "groups"
  BY <1>2
<1>6. TaskOK(Paged(s, x.page, x.late), esm, autoRefresh, exists, acl, raclist)
  BY <1>1, <1>2, <1>4, <1>5, PagedOK
<1> QED BY <1>2, <1>3, <1>6, TaskStep

\* Top Secret: a page of groups that is not empty starts where it was asked to
\* unless the start was in a later block.
LEMMA GroupPage ==
  ASSUME NEW start, NEW S, NEW x \in findLineOfStart(start, S, Count + 1), x.page # <<>>, ~x.late
  PROVE  x.page = Page(From(start, S), Count + 1)
<1>0. PICK page : page = Page(findStartProfile(start, S), Count + 1)
  OBVIOUS
<1>3. x = InOrder(page)
  <2>1. PICK P : P = UNION {Skipped(Ascending(S), i, Count + 1) :
                       i \in {k \in DOMAIN Ascending(S) : k > 1 /\ Ascending(S)[k] = start}}
    OBVIOUS
  <2>2. x \in {InOrder(page)} \cup [page : P, late : {TRUE}]
    BY <1>0, <2>1, Zenon DEF findLineOfStart
  <2>3. x \notin [page : P, late : {TRUE}]
    OBVIOUS
  <2> QED BY <2>2, <2>3
<1>4. x.page = page /\ page # <<>>
  BY <1>3 DEF InOrder
<1>1. CASE start \in S \cup {None}
  BY <1>0, <1>1, <1>4 DEF findStartProfile
<1>2. CASE start \notin S \cup {None}
  <2>1. findStartProfile(start, S) = <<>>
    BY <1>2 DEF findStartProfile
  <2>2. Count + 1 \in Nat /\ Count + 1 > 0
    BY SecMgmtAssumption
  <2>3. PICK q : q = SubSeq(<<>>, 1, 0)
    OBVIOUS
  <2>4. Least(Count + 1, Len(<<>>)) = 0
    BY <2>2 DEF Least
  <2>5. page = SubSeq(<<>>, 1, 0)
    BY <1>0, <2>1, <2>4 DEF Page
  <2>6. SubSeq(<<>>, 1, 0) = <<>>
    BY SMT
  <2> QED BY <1>4, <2>5, <2>6
<1> QED BY <1>1, <1>2

\* A page of groups.
LEMMA GroupsKeepsInv ==
  ASSUME Inv, NEW t \in Tasks, zisExtractGroupProfiles(t)
  PROVE  Inv'
<1>0. PICK s : s = task[t]
  OBVIOUS
<1>1. IsTask(s) /\ RequestOK(s, esm) /\ ScanOK(s, esm, exists)
  BY <1>0, TaskFacts
<1>2. s.step = "page" /\ s.req.mgmt = "groups" /\ UNCHANGED <<config, db, raclist>>
  BY <1>0, Zenon DEF zisExtractGroupProfiles, At, Req
<1>3. PICK x \in IF esm = "RACF" THEN {InOrder(zisGroupProfilesServiceFunctionRACF(s.start, Count + 1))}
               ELSE zisGroupProfilesServiceFunctionTSS(s.start, Count + 1) :
        task' = [task EXCEPT ![t] = Paged(s, x.page, x.late)]
  BY <1>0, Zenon DEF zisExtractGroupProfiles, respondWithGroupProfiles
<1>4. ASSUME esm = "RACF" \/ ~x.late
      PROVE  x.page = Page(From(s.start, NamesFor(s.req, exists)), Count + 1)
  <2>1. NamesFor(s.req, exists) = exists \cap Groups
    BY <1>2 DEF NamesFor
  <2>2. CASE esm = "RACF"
    <3>1. x.page = zisGroupProfilesServiceFunctionRACF(s.start, Count + 1)
      BY <2>2, <1>3 DEF InOrder
    <3> QED BY <3>1, <2>1 DEF zisGroupProfilesServiceFunctionRACF
  <2>3. CASE esm # "RACF"
    <3>1. x \in zisGroupProfilesServiceFunctionTSS(s.start, Count + 1)
      BY <2>3, <1>3
    <3>2. x \in findLineOfStart(s.start, exists \cap Groups, Count + 1) /\ x.page # <<>>
      BY <3>1 DEF zisGroupProfilesServiceFunctionTSS, groupProfilesHandler
    <3> QED BY <3>2, <2>1, <2>3, <1>4, GroupPage
  <2> QED BY <2>2, <2>3
<1>5. TaskOK(Paged(s, x.page, x.late), esm, autoRefresh, exists, acl, raclist)
  BY <1>1, <1>2, <1>4, PagedOK
<1> QED BY <1>2, <1>3, <1>5, TaskStep

\* What a report has after a page (getProfilesByPrefix).
AfterScan(s, page, h) ==
  IF Len(page) = PageSize THEN [s EXCEPT !.found = h, !.start = Last(page), !.tries = 3]
  ELSE [s EXCEPT !.found = h, !.step = "done", !.status = 200]

\* A page leaves a report with what ScanOK says.
LEMMA ScannedOK ==
  ASSUME NEW m, NEW auto, NEW e, NEW a, NEW rc,
         NEW s, IsTask(s), RequestOK(s, m), ScanOK(s, m, e), RowsOK(s, m, a), s.step = "scan",
         NEW page, m = "RACF" => page = Page(From(s.start, e \cap Profiles), PageSize),
         NEW h, h = s.found \o Matching(ExaminedOf(page))
  PROVE  TaskOK(AfterScan(s, page, h), m, auto, e, a, rc)
<1>1. PICK n : n = AfterScan(s, page, h)
  OBVIOUS
<1>2. s.req.kind = "access" /\ s.req.kind \notin Changes /\ s.req.res \in Resources
  BY DEF RequestOK, Changes
<1>3. ASSUME m = "RACF"
      PROVE  /\ Len(page) = PageSize => Last(page) \in Nat /\ Reached(h, Last(page), s.stay)
             /\ Len(page) # PageSize => Complete(h, s.stay)
             /\ s.stay \subseteq e \cap Prefixed
  <2>1. PICK S : S = e \cap Profiles
    OBVIOUS
  <2>2. S \subseteq Nat /\ IsFiniteSet(S) /\ Prefixed \subseteq Profiles
    BY <2>1, SecMgmtAssumption, FS_Subset
  <2>3. s.start \in Nat /\ Reached(s.found, s.start, s.stay) /\ s.stay \subseteq e \cap Prefixed
    BY <1>3 DEF ScanOK
  <2>4. s.stay \subseteq S \cap Prefixed
    BY <2>1, <2>2, <2>3
  <2>5. PICK kept : kept = Matching(ExaminedOf(page))
    OBVIOUS
  <2>6. page = Page(From(s.start, S), PageSize)
    BY <2>1, <1>3
  <2>7. /\ Len(page) = PageSize => Last(page) \in Nat /\ Reached(s.found \o kept, Last(page), s.stay)
        /\ Len(page) # PageSize => Complete(s.found \o kept, s.stay)
    BY <2>2, <2>3, <2>4, <2>5, <2>6, ScanReached
  <2> QED BY <2>3, <2>5, <2>7
<1>4. CASE Len(page) = PageSize
  <2>1. n = [s EXCEPT !.found = h, !.start = Last(page), !.tries = 3]
    BY <1>1, <1>4, Zenon DEF AfterScan
  <2>2. /\ IsTask(n) /\ n.step = "scan" /\ n.req = s.req /\ n.found = h /\ n.start = Last(page) /\ n.stay = s.stay
        /\ n.rows = s.rows /\ n.whole = s.whole /\ n.junk = s.junk /\ n.more = s.more /\ n.grown = s.grown
    BY <2>1 DEF IsTask
  <2>3. RequestOK(n, m)
    BY <2>2, <1>2 DEF RequestOK
  <2>4. ScanOK(n, m, e)
    BY <2>2, <1>2, <1>3, <1>4 DEF ScanOK
  <2>5. RowsOK(n, m, a)
    BY <2>2 DEF RowsOK
  <2>6. ChangeOK(n, m, auto, e, a, rc)
    BY <2>2 DEF ChangeOK, Succeeded
  <2> QED BY <2>2, <2>3, <2>4, <2>5, <2>6, <1>1 DEF TaskOK
<1>5. CASE Len(page) # PageSize
  <2>1. n = [s EXCEPT !.found = h, !.step = "done", !.status = 200]
    BY <1>1, <1>5, Zenon DEF AfterScan
  <2>2. /\ IsTask(n) /\ n.step = "done" /\ n.status = 200 /\ n.req = s.req /\ n.found = h /\ n.stay = s.stay
        /\ n.rows = s.rows /\ n.whole = s.whole /\ n.junk = s.junk /\ n.more = s.more /\ n.grown = s.grown
    BY <2>1 DEF IsTask
  <2>3. RequestOK(n, m)
    BY <2>2, <1>2 DEF RequestOK
  <2>4. ScanOK(n, m, e)
    BY <2>2, <1>2, <1>3, <1>5 DEF ScanOK
  <2>5. RowsOK(n, m, a)
    BY <2>2 DEF RowsOK
  <2>6. ChangeOK(n, m, auto, e, a, rc)
    BY <2>2, <1>2 DEF ChangeOK, Succeeded
  <2> QED BY <2>2, <2>3, <2>4, <2>5, <2>6, <1>1 DEF TaskOK
<1> QED BY <1>4, <1>5

\* A page of a report.
LEMMA ScanKeepsInv ==
  ASSUME Inv, NEW t \in Tasks, getProfilesByPrefix(t)
  PROVE  Inv'
<1>0. PICK s : s = task[t]
  OBVIOUS
<1>1. IsTask(s) /\ RequestOK(s, esm) /\ ScanOK(s, esm, exists) /\ RowsOK(s, esm, acl)
  BY <1>0, TaskFacts
<1>2. PICK page : page = Extracted(s)
  OBVIOUS
<1>3. PICK h : h = s.found \o Matching(ExaminedOf(page))
  OBVIOUS
<1>4. s.step = "scan" /\ UNCHANGED <<config, db, raclist>> /\ task' = [task EXCEPT ![t] = AfterScan(s, page, h)]
  BY <1>0, <1>2, <1>3, Zenon DEF getProfilesByPrefix, At, AfterScan, ExaminedOf
<1>5. esm = "RACF" => page = Page(From(s.start, exists \cap Profiles), PageSize)
  BY <1>2 DEF Extracted, zisGenresProfilesServiceFunctionRACF
<1>6. TaskOK(AfterScan(s, page, h), esm, autoRefresh, exists, acl, raclist)
  BY <1>1, <1>3, <1>4, <1>5, ScannedOK
<1> QED BY <1>4, <1>6, TaskStep

-----------------------------------------------------------------------------
\* The subtasks start without requests.
LEMMA InitInv ==
  Init => Inv
<1> SUFFICES ASSUME Init PROVE Inv
  OBVIOUS
<1>2. esm \in {"RACF", "TSS"} /\ task = [t \in Tasks |-> Idle]
  BY SecMgmtAssumption DEF Init
<1>3. exists \subseteq Resources /\ acl \in [Resources -> Lists]
  BY DatabasesAssumption DEF Init
<1>4. \A t \in Tasks : TaskOK(task[t], esm, autoRefresh, exists, acl, raclist)
  BY <1>2, IdleOK
<1> QED BY <1>2, <1>3, <1>4 DEF Inv

\* Every step keeps the invariant.
LEMMA NextInv ==
  Inv /\ [Next]_vars => Inv'
<1> SUFFICES ASSUME Inv, [Next]_vars PROVE Inv'
  OBVIOUS
<1>2. CASE UNCHANGED vars
  BY <1>2 DEF vars, config, db, Inv
<1>3. CASE Next
  <2>1. PICK t \in Tasks : Serve(t) \/ NextPage(t) \/ Step(t)
    BY <1>3 DEF Next
  <2>2. CASE Serve(t)
    BY <2>2, ServeKeepsInv
  <2>3. CASE NextPage(t)
    BY <2>3, NextPageKeepsInv
  <2>4. CASE Step(t)
    <3>1. CASE respondWithZISError(t)
      BY <3>1, ErrorKeepsInv
    <3>2. CASE performRefreshIfNeeded(t)
      BY <3>2, RefreshKeepsInv
    <3>3. CASE handleProfileFunction(t) \/ handleGroupAdminFunction(t)
      BY <3>3, ChangeKeepsInv
    <3>4. CASE isUserAlreadyPermitted(t)
      BY <3>4, PermittedKeepsInv
    <3>5. CASE handleRevokeAccess(t)
      BY <3>5, RevokeFirstKeepsInv
    <3>6. CASE getGenresProfileOwner(t)
      BY <3>6, OwnerKeepsInv
    <3>7. CASE AccessListGET(t)
      BY <3>7, ListKeepsInv
    <3>8. CASE getAccessListByGroup(t)
      BY <3>8, MembersKeepsInv
    <3>9. CASE getProfilesByPrefix(t)
      BY <3>9, ScanKeepsInv
    <3>10. CASE zisExtractGenresProfiles(t)
      BY <3>10, ProfilesKeepsInv
    <3>11. CASE zisExtractGroupProfiles(t)
      BY <3>11, GroupsKeepsInv
    <3>12. CASE zisExtractUserProfiles(t)
      BY <3>12, UsersKeepsInv
    <3> QED BY <3>1, <3>2, <3>3, <3>4, <3>5, <3>6, <3>7, <3>8, <3>9, <3>10, <3>11, <3>12, <2>4, Zenon DEF Step
  <2> QED BY <2>1, <2>2, <2>3, <2>4
<1> QED BY <1>2, <1>3

\* The invariant holds in every state.
THEOREM SecMgmtInvariant ==
  Spec => []Inv
<1> QED BY InitInv, NextInv, PTL DEF Spec

-----------------------------------------------------------------------------
\* What the property calls an effect is what the invariant calls one.
LEMMA EffectSame ==
  ASSUME NEW r, r.kind \in Changes, NEW e, NEW a, EffectIn(esm, r, e, a)
  PROVE  Effect(r, e, a)
<1>1. Stored(r.access) = StoredIn(esm, r.access)
  BY DEF Stored, StoredIn
<1>2. CASE r.kind = "define"
  BY <1>2 DEF Effect, EffectIn
<1>3. CASE r.kind = "delete"
  BY <1>3 DEF Effect, EffectIn
<1>4. CASE r.kind = "give"
  <2>1. r.res \in e /\ a[r.res][r.user] = {StoredIn(esm, r.access)}
    BY <1>4 DEF EffectIn
  <2>2. r.res \in e /\ a[r.res][r.user] = {Stored(r.access)}
    BY <2>1, <1>1
  <2> QED BY <2>2, <1>4 DEF Effect
<1>5. CASE r.kind = "revoke"
  BY <1>5 DEF Effect, EffectIn
<1> QED BY <1>2, <1>3, <1>4, <1>5 DEF Changes

\* A change that was answered with success is in effect, in the database and with
\* automatic refresh where RACF checks access, unless another request changed the
\* same resource since (performRefreshIfNeeded; revocation first in Top Secret).
THEOREM SecMgmtChangeEffective ==
  Spec => []ChangeEffective
<1>1. Inv => ChangeEffective
  <2>1. SUFFICES ASSUME Inv, NEW t \in Tasks, Done(t), ~task[t].contested
                 PROVE  /\ Effect(Req(t), exists, acl)
                        /\ esm = "RACF" /\ autoRefresh /\ Req(t).mgmt = "classes"
                             => Effect(Req(t), raclist[1], raclist[2])
    BY DEF ChangeEffective
  <2>2. PICK s : s = task[t]
    OBVIOUS
  <2>3. s.step = "done" /\ s.req.kind \in Changes /\ s.status \in {201, 204}
    BY <2>1, <2>2 DEF Done, Answered, At, Req, Changes
  <2>4. Succeeded(s) /\ ~s.contested
    BY <2>1, <2>2, <2>3 DEF Succeeded
  <2>5. ChangeOK(s, esm, autoRefresh, exists, acl, raclist)
    BY <2>1, <2>2, TaskFacts
  <2>6. /\ EffectIn(esm, s.req, exists, acl)
        /\ esm = "RACF" /\ autoRefresh /\ s.req.mgmt = "classes" => EffectIn(esm, s.req, raclist[1], raclist[2])
    BY <2>4, <2>5 DEF ChangeOK
  <2>7. Effect(s.req, exists, acl)
    BY <2>3, <2>6, EffectSame
  <2>8. esm = "RACF" /\ autoRefresh /\ s.req.mgmt = "classes" => Effect(s.req, raclist[1], raclist[2])
    BY <2>3, <2>6, EffectSame
  <2>9. Req(t) = s.req
    BY <2>2 DEF Req
  <2> QED BY <2>7, <2>8, <2>9
<1> QED BY <1>1, SecMgmtInvariant, PTL

\* Reports are the requests about access.
LEMMA ReportKind ==
  ASSUME NEW r \in Requests \cup {NoRequest}, r.mgmt = "access"
  PROVE  r.kind = "access"
<1>1. r # NoRequest
  BY DEF NoRequest
<1> QED BY <1>1, RequestFacts

\* RACF: a list, or the users of a report, that is answered with success is the
\* list as it was extracted last, unless it grew meanwhile (AccessListGET,
\* getAccessListByGroupOrFail).
THEOREM SecMgmtRowsWhole ==
  Spec => []RowsWhole
<1>1. Inv => RowsWhole
  <2>1. SUFFICES ASSUME Inv, NEW t \in Tasks, esm = "RACF", At(t, "done"), task[t].status = 200,
                        Answered(t, {"list"}) \/ Req(t).mgmt = "access", ~task[t].grown
                 PROVE  ~task[t].junk /\ task[t].rows = task[t].whole
    BY DEF RowsWhole
  <2>2. PICK s : s = task[t]
    OBVIOUS
  <2>3. RequestOK(s, esm) /\ RowsOK(s, esm, acl)
    BY <2>1, <2>2, TaskFacts
  <2>4. s.step = "done" /\ ~s.grown
    BY <2>1, <2>2 DEF At
  <2>5. s.req.kind \in {"list", "access"}
    <3>1. CASE Answered(t, {"list"})
      BY <3>1, <2>2 DEF Answered, Req
    <3>2. CASE Req(t).mgmt = "access"
      <4>1. s.req \in Requests \cup {NoRequest} /\ s.req.mgmt = "access"
        BY <3>2, <2>2, <2>3 DEF RequestOK, Req
      <4> QED BY <4>1, ReportKind
    <3> QED BY <3>1, <3>2, <2>1
  <2>6. ~s.junk /\ s.rows = s.whole
    BY <2>1, <2>3, <2>4, <2>5 DEF RowsOK
  <2> QED BY <2>2, <2>6
<1> QED BY <1>1, SecMgmtInvariant, PTL

\* RACF: a report has every profile with the prefix that was defined all the time,
\* and the pages of names every name that was there all the time, none twice,
\* whatever others define and delete between two pages.  Top Secret: so have the
\* pages of groups if the start of each was in the first block of the output
\* (getProfilesByPrefixOrFail, respondWithGenresProfiles and the others).
THEOREM SecMgmtScanComplete ==
  Spec => []ScanComplete
<1>1. Inv => ScanComplete
  <2>1. SUFFICES ASSUME Inv, NEW t \in Tasks, At(t, "done"), task[t].status = 200, ~task[t].more,
                        \/ esm = "RACF" /\ (Req(t).mgmt = "access" \/ Req(t).kind = "page")
                        \/ Req(t).mgmt = "groups" /\ Req(t).kind = "page" /\ ~task[t].late
                 PROVE  task[t].stay \subseteq ToSet(task[t].found) /\ IsInjective(task[t].found)
    BY Zenon DEF ScanComplete
  <2>2. PICK s : s = task[t]
    OBVIOUS
  <2>3. RequestOK(s, esm) /\ ScanOK(s, esm, exists)
    BY <2>1, <2>2, TaskFacts
  <2>4. s.step = "done" /\ ~s.more
    BY <2>1, <2>2 DEF At
  <2>5. Complete(s.found, s.stay)
    <3>1. CASE esm = "RACF" /\ Req(t).mgmt = "access"
      <4>1. s.req \in Requests \cup {NoRequest} /\ s.req.mgmt = "access"
        BY <3>1, <2>2, <2>3 DEF RequestOK, Req
      <4>2. s.req.kind = "access"
        BY <4>1, ReportKind
      <4> QED BY <4>2, <3>1, <2>3, <2>4 DEF ScanOK
    <3>2. CASE (esm = "RACF" \/ (Req(t).mgmt = "groups" /\ ~task[t].late)) /\ Req(t).kind = "page"
      <4>1. (esm = "RACF" \/ (s.req.mgmt = "groups" /\ ~s.late)) /\ s.req.kind = "page"
        BY <3>2, <2>2 DEF Req
      <4> QED BY <4>1, <2>3, <2>4 DEF ScanOK
    <3> QED BY <3>1, <3>2, <2>1
  <2>6. s.found \in Seq(Nat) /\ Rising(s.found) /\ s.stay \subseteq ToSet(s.found)
    BY <2>5 DEF Complete
  <2>7. IsInjective(s.found)
    BY <2>6, RisingInjective
  <2> QED BY <2>2, <2>6, <2>7
<1> QED BY <1>1, SecMgmtInvariant, PTL

\* The step that ChangeAsAsked allows.
AsAsked ==
  \A res \in Resources :
     \/ acl'[res] = acl[res] /\ (res \in exists' <=> res \in exists)
     \/ \E t \in Tasks : LET r == Req(t) IN
          /\ task'[t] # task[t] /\ task[t].step \in {"change", "revokeFirst"}
          /\ r.res = res /\ ~r.dryRun /\ res \in Supported /\ r.class = "default"
          /\ r.kind \in {"give", "revoke"} =>
               \A u \in Users : acl'[res][u] = acl[res][u] \/ (u = r.user /\ acl'[res][u] \in {{}, Given(r)})

\* A step that leaves the database alone.
LEMMA NothingChanged ==
  ASSUME UNCHANGED db
  PROVE  AsAsked
  BY DEF db, AsAsked

\* A change of the resource that a subtask asks for.
LEMMA OneChanged ==
  ASSUME NEW t \in Tasks, task'[t].step # task[t].step, task[t].step \in {"change", "revokeFirst"},
         NEW r, r = task[t].req, ~r.dryRun, r.res \in Supported, r.class = "default",
         NEW gives, NEW deletes, Shift(r.res, gives, deletes, exists, acl, exists', acl'),
         r.kind \in {"give", "revoke"} =>
           \A u \in Users : acl'[r.res][u] = acl[r.res][u] \/ (u = r.user /\ acl'[r.res][u] \in {{}, Given(r)})
  PROVE  AsAsked
<1>1. SUFFICES ASSUME NEW res \in Resources, ~(acl'[res] = acl[res] /\ (res \in exists' <=> res \in exists))
               PROVE  \E o \in Tasks :
                        /\ task'[o] # task[o] /\ task[o].step \in {"change", "revokeFirst"}
                        /\ Req(o).res = res /\ ~Req(o).dryRun /\ res \in Supported /\ Req(o).class = "default"
                        /\ Req(o).kind \in {"give", "revoke"} =>
                             \A u \in Users : acl'[res][u] = acl[res][u]
                                                \/ (u = Req(o).user /\ acl'[res][u] \in {{}, Given(Req(o))})
  BY DEF AsAsked
<1>2. res = r.res
  BY <1>1 DEF Shift
<1>3. Req(t) = r
  BY DEF Req
<1>4. task'[t] # task[t]
  OBVIOUS
<1> QED BY <1>2, <1>3, <1>4

\* A command of a service changes what its request asks for.
LEMMA CommandAsAsked ==
  ASSUME Inv, NEW t \in Tasks, task[t].step = "change", NEW step \in {"refresh", "done"},
         executeAdminCommand(t, step), Req(t).res \in Supported
  PROVE  AsAsked
<1>0. PICK s : s = task[t]
  OBVIOUS
<1>1. RequestOK(s, esm) /\ s.step = "change"
  BY <1>0, TaskFacts
<1>2. PICK r : r = s.req
  OBVIOUS
<1>3. /\ r.kind \in Changes /\ r \in Requests /\ r.res \in Resources /\ r.class = "default"
      /\ r.kind \in {"give", "revoke"} => r.user \in Users
      /\ r.kind = "give" => r.access # "none"
  BY <1>1, <1>2 DEF RequestOK
<1>4. exists \subseteq Resources /\ acl \in [Resources -> Lists]
  BY DEF Inv
<1>5. CASE r.dryRun
  <2>1. UNCHANGED db
    BY <1>0, <1>2, <1>5 DEF executeAdminCommand, Req
  <2> QED BY <2>1, NothingChanged
<1>6. CASE ~r.dryRun
  <2>1. Possible(r) /\ Applied(r) /\ Changed(t, step, IF step = "done" THEN OkStatus(r) ELSE 0)
    BY <1>0, <1>2, <1>6 DEF executeAdminCommand, Req
  <2>2. /\ Shift(r.res, r.kind = "give", r.kind = "delete", exists, acl, exists', acl')
        /\ r.kind \in {"give", "revoke"} =>
             \A u \in Users : acl'[r.res][u] = acl[r.res][u] \/ (u = r.user /\ acl'[r.res][u] \in {{}, Given(r)})
    BY <2>1, <1>3, <1>4, AppliedShift
  <2>3. PICK status : status = IF step = "done" THEN OkStatus(r) ELSE 0
    OBVIOUS
  <2>4. task'[t].step = step
    <3>1. PICK c : c = (s.contested /\ esm = "TSS" /\ r.kind = "give" /\ r.res \in Profiles)
      OBVIOUS
    <3>2. task'[t] = [s EXCEPT !.step = step, !.status = status, !.contested = c]
      BY <3>1, <2>1, <2>3, <1>0, <1>2, Zenon DEF Changed, Req
    <3>3. IsTask(s)
      BY <1>0, TaskFacts
    <3> QED BY <3>2, <3>3 DEF IsTask
  <2>5. task'[t].step # task[t].step
    BY <2>4
  <2>6. r = task[t].req /\ r.res \in Supported
    BY <1>0, <1>2 DEF Req
  <2> QED BY <2>2, <2>5, <2>6, <1>3, <1>6, OneChanged
<1> QED BY <1>5, <1>6

\* A revocation before a permission.
LEMMA RevokeAsAsked ==
  ASSUME Inv, NEW t \in Tasks, handleRevokeAccess(t)
  PROVE  AsAsked
<1>0. PICK s : s = task[t]
  OBVIOUS
<1>1. IsTask(s) /\ RequestOK(s, esm)
  BY <1>0, TaskFacts
<1>2. PICK r : r = s.req
  OBVIOUS
<1>3. /\ s.step = "revokeFirst" /\ Revoked(r)
      /\ task'[t] = [s EXCEPT !.step = "change"]
  BY <1>0, <1>2, Zenon DEF handleRevokeAccess, At, Req
<1>4. /\ r.res \in Resources /\ r.user \in Users /\ r.kind = "give" /\ ~r.dryRun /\ r.res \in Supported
      /\ r.class = "default"
  BY <1>1, <1>2, <1>3 DEF RequestOK, Changes
<1>5. exists \subseteq Resources /\ acl \in [Resources -> Lists]
  BY DEF Inv
<1>6. /\ Shift(r.res, FALSE, FALSE, exists, acl, exists', acl') /\ acl'[r.res][r.user] = {}
      /\ \A u \in Users : u # r.user => acl'[r.res][u] = acl[r.res][u]
  BY <1>3, <1>4, <1>5, RevokedShift
<1>7. task'[t].step # task[t].step
  BY <1>0, <1>1, <1>3 DEF IsTask
<1>8. r = task[t].req /\ task[t].step = "revokeFirst"
  BY <1>0, <1>2, <1>3
<1>9. \A u \in Users : acl'[r.res][u] = acl[r.res][u] \/ (u = r.user /\ acl'[r.res][u] \in {{}, Given(r)})
  BY <1>6
<1> QED BY <1>4, <1>6, <1>7, <1>8, <1>9, OneChanged

\* Every step changes only what a request asks for.
LEMMA NextAsAsked ==
  Inv /\ [Next]_vars => [AsAsked]_vars
<1> SUFFICES ASSUME Inv, Next PROVE AsAsked
  BY Zenon
<1>1. PICK t \in Tasks : Serve(t) \/ NextPage(t) \/ Step(t)
  BY DEF Next
<1>2. CASE Serve(t)
  BY <1>2, NothingChanged DEF Serve
<1>3. CASE NextPage(t)
  BY <1>3, NothingChanged DEF NextPage
<1>4. CASE Step(t)
  <2>1. CASE respondWithZISError(t)
    BY <2>1, NothingChanged DEF respondWithZISError
  <2>2. CASE performRefreshIfNeeded(t)
    BY <2>2, NothingChanged DEF performRefreshIfNeeded
  <2>3. CASE handleProfileFunction(t)
    <3>1. task[t].step = "change"
      BY <2>3 DEF handleProfileFunction, At
    <3>2. Req(t).res \in Supported /\ (executeAdminCommand(t, "refresh") \/ executeAdminCommand(t, "done"))
      BY <2>3, Zenon DEF handleProfileFunction, zisGenresProfileAdminServiceFunctionRACF,
                         zisGenresProfileAdminServiceFunctionTSS, validateGenresParmList
    <3> QED BY <3>1, <3>2, CommandAsAsked
  <2>4. CASE handleGroupAdminFunction(t)
    <3>1. task[t].step = "change"
      BY <2>4 DEF handleGroupAdminFunction, At
    <3>2. Req(t).res \in Supported /\ executeAdminCommand(t, "done")
      BY <2>4, Zenon DEF handleGroupAdminFunction, zisGroupAdminServiceFunctionRACF,
                         zisGroupAdminServiceFunctionTSS, validateGroupParmList
    <3> QED BY <3>1, <3>2, CommandAsAsked
  <2>5. CASE isUserAlreadyPermitted(t)
    <3>1. UNCHANGED db
      BY <2>5, Zenon DEF isUserAlreadyPermitted
    <3> QED BY <3>1, NothingChanged
  <2>6. CASE handleRevokeAccess(t)
    BY <2>6, RevokeAsAsked
  <2>7. CASE getGenresProfileOwner(t)
    BY <2>7, NothingChanged DEF getGenresProfileOwner
  <2>8. CASE AccessListGET(t)
    <3>1. UNCHANGED db
      BY <2>8, Zenon DEF AccessListGET
    <3> QED BY <3>1, NothingChanged
  <2>9. CASE getAccessListByGroup(t)
    <3>1. UNCHANGED db
      BY <2>9, Zenon DEF getAccessListByGroup
    <3> QED BY <3>1, NothingChanged
  <2>10. CASE getProfilesByPrefix(t)
    <3>1. UNCHANGED db
      BY <2>10, Zenon DEF getProfilesByPrefix
    <3> QED BY <3>1, NothingChanged
  <2>11. CASE zisExtractGenresProfiles(t) \/ zisExtractGroupProfiles(t) \/ zisExtractUserProfiles(t)
    <3>1. UNCHANGED db
      BY <2>11, Zenon DEF zisExtractGenresProfiles, zisExtractGroupProfiles, zisExtractUserProfiles
    <3> QED BY <3>1, NothingChanged
  <2> QED BY <2>1, <2>2, <2>3, <2>4, <2>5, <2>6, <2>7, <2>8, <2>9, <2>10, <2>11, <1>4, Zenon DEF Step
<1> QED BY <1>1, <1>2, <1>3, <1>4

\* The database changes only for a request that is not a dry run, was not refused
\* and is for a supported product, only in its resource, and a user's entry only
\* to what is asked or to nothing (executeAdminCommand, handleRevokeAccess).
THEOREM SecMgmtChangeAsAsked ==
  Spec => ChangeAsAsked
<1> QED BY SecMgmtInvariant, NextAsAsked, PTL DEF Spec, ChangeAsAsked, AsAsked

=============================================================================
