--------------------------- MODULE LogReadsProofs ----------------------------
(***************************************************************************)
(* Proofs about LogReads, for any apps, levels, filters, sizes and bounds: *)
(* the types, what the Log Explorer's table holds and what its pages owe   *)
(* the operator, that the tail of a file is its last lines, and that the   *)
(* charts and the days agree with the counts.                              *)
(***************************************************************************)
EXTENDS LogReads, SequenceTheorems, FiniteSetTheorems, WellFoundedInduction,
        TLAPS

-----------------------------------------------------------------------------
(* The inductive invariant *)

\* What the files hold now.
Entries == UNION {Elements(file[a]) : a \in App}

\* An entry is known by its id, and was written before now.
Written ==
  /\ \A e \in Entries : e.id <= written /\ e.ts <= now
  /\ \A e, f \in Entries : e.id = f.id => e = f

\* The newest request is about the present filters, and only the table's own
\* button asks for a page that is not the first.
Asking ==
  /\ \A r \in pending :
       /\ r.newest => r = Asked(filter, since, r.before, r.append)
       /\ ~r.append => r.before = Forever
       /\ r.append => ~r.search
  /\ ~mixed => \A r \in pending : r.newest /\ pending = {r}

\* The table is of the present filters: no other answer is on its way.
Current == ~mixed /\ \A r \in pending : r.append

\* It holds what they let in, in the order of the pages; the cursor is before
\* all of it, and after all that is still owed.
Fits ==
  \A i \in DOMAIN rows : /\ Lets(filter.apps, rows[i].app)
                         /\ Lets(filter.levels, rows[i].level)
                         /\ rows[i].ts >= since /\ rows[i].ts < filter.until
                         /\ nextBefore # Forever => rows[i].ts >= nextBefore
Ordered == \A i, j \in DOMAIN rows : i < j => Newer(rows[i], rows[j])
Owed == \A e \in due : nextBefore # Forever /\ e.ts < nextBefore

Table ==
  Current => /\ Fits
             /\ ~filter.search => Ordered
             /\ Owed
             /\ \A r \in pending : nextBefore # Forever /\ r.before = nextBefore

IInv ==
  /\ TypeOK
  /\ Written
  /\ Asking
  /\ Table

-----------------------------------------------------------------------------
(* The order of the entries *)

\* Sets in which an entry is known by its id.
Known(S) == S \subseteq Entry /\ \A e, f \in S : e.id = f.id => e = f

\* Of two entries, one is newer, and newer than what the other is newer than.
LEMMA NewerIs ==
  ASSUME NEW S, Known(S)
  PROVE  /\ \A e \in S : ~Newer(e, e)
         /\ \A e, f \in S : e = f \/ Newer(e, f) \/ Newer(f, e)
         /\ \A e, f, g \in S : Newer(e, f) /\ Newer(f, g) => Newer(e, g)
         /\ \A e, f \in S : Newer(e, f) => e.ts >= f.ts
<1>1. \A e \in S : e.ts \in Nat /\ e.app \in Nat /\ e.id \in Nat
  <2>1. \A e \in S : e \in Entry
    BY DEF Known
  <2>2. \A e \in Entry : e.ts \in 0..MaxTime /\ e.app \in App
                          /\ e.id \in 1..MaxEntries
    BY DEF Entry
  <2>3. App \subseteq Nat /\ MaxTime \in Nat /\ MaxEntries \in Nat
    BY ConstantsAssumption
  <2>4. 0..MaxTime \subseteq Nat /\ 1..MaxEntries \subseteq Nat
    BY <2>3
  <2> QED BY <2>1, <2>2, <2>3, <2>4
<1>2. \A e, f \in S : e.id = f.id => e = f
  BY DEF Known
<1>3. ASSUME NEW e \in S, NEW f \in S
      PROVE  e = f \/ Newer(e, f) \/ Newer(f, e)
  BY <1>1, <1>2 DEF Newer
<1>4. ASSUME NEW e \in S, NEW f \in S, NEW g \in S, Newer(e, f), Newer(f, g)
      PROVE  Newer(e, g)
  BY <1>1, <1>4 DEF Newer
<1>5. ASSUME NEW e \in S, NEW f \in S, Newer(e, f) PROVE e.ts >= f.ts
  BY <1>1, <1>5 DEF Newer
<1>6. \A e \in S : ~Newer(e, e)
  BY <1>1 DEF Newer
<1> QED BY <1>3, <1>4, <1>5, <1>6

\* There are no more entries known by their ids than ids.
LEMMA KnownIsFinite ==
  ASSUME NEW S, Known(S)
  PROVE  IsFiniteSet(S) /\ Cardinality(S) \in Nat
<1> DEFINE g == [e \in S |-> e.id]
<1>1. IsFiniteSet(1..MaxEntries)
  BY ConstantsAssumption, FS_Interval
<1>2. \A e \in S : e.id \in 1..MaxEntries
  BY DEF Known, Entry
<1>3. g \in [S -> 1..MaxEntries]
  BY <1>2
<1>4. \A e, f \in S : g[e] = g[f] => e = f
  BY DEF Known
<1> HIDE DEF g
<1>5. g \in Injection(S, 1..MaxEntries)
  BY <1>3, <1>4 DEF Injection, IsInjective
<1>6. IsFiniteSet(S)
  BY <1>1, <1>5, FS_Injection
<1> QED BY <1>6, FS_CardinalityType

\* The entries that are newer than one.
Before(e, S) == {f \in S : Newer(f, e)}
Place(e, S) == Cardinality(Before(e, S))

LEMMA Places ==
  ASSUME NEW S, Known(S)
  PROVE  /\ \A e \in S : /\ Place(e, S) \in Nat
                         /\ Place(e, S) + 1 \in 1..Cardinality(S)
         /\ \A e, f \in S : Newer(e, f) => Place(e, S) < Place(f, S)
<1>1. IsFiniteSet(S) /\ Cardinality(S) \in Nat
  BY KnownIsFinite
<1>2. ASSUME NEW e \in S
      PROVE  IsFiniteSet(Before(e, S)) /\ Place(e, S) \in Nat
  <2>1. Before(e, S) \in SUBSET S
    BY DEF Before
  <2> QED BY <1>1, <2>1, FS_Subset, FS_CardinalityType DEF Place
<1>3. ASSUME NEW e \in S PROVE Place(e, S) < Cardinality(S)
  <2>1. Before(e, S) \in SUBSET S /\ e \notin Before(e, S)
    BY NewerIs DEF Before
  <2>2. Place(e, S) <= Cardinality(S) /\ Place(e, S) # Cardinality(S)
    BY <1>1, <2>1, FS_Subset DEF Place
  <2> QED BY <1>1, <1>2, <2>2
<1>4. ASSUME NEW e \in S, NEW f \in S, Newer(e, f)
      PROVE  Place(e, S) < Place(f, S)
  <2>1. Before(e, S) \in SUBSET Before(f, S)
    BY <1>4, NewerIs DEF Before
  <2>2. e \in Before(f, S) /\ e \notin Before(e, S)
    BY <1>4, NewerIs DEF Before
  <2>3. Place(e, S) <= Place(f, S) /\ Place(e, S) # Place(f, S)
    BY <1>2, <2>1, <2>2, FS_Subset DEF Place
  <2> QED BY <1>2, <2>3
<1>5. ASSUME NEW e \in S PROVE Place(e, S) + 1 \in 1..Cardinality(S)
  BY <1>1, <1>2, <1>3
<1> QED BY <1>2, <1>4, <1>5

\* Sorting: every entry once, newer ones first.
LEMMA SortedIs ==
  ASSUME NEW S, Known(S)
  PROVE  /\ Sorted(S) \in Seq(S)
         /\ Len(Sorted(S)) = Cardinality(S)
         /\ \A e \in S : \E k \in 1..Cardinality(S) : Sorted(S)[k] = e
         /\ \A i, j \in 1..Cardinality(S) :
              i < j => Newer(Sorted(S)[i], Sorted(S)[j])
<1> DEFINE c == Cardinality(S)
           q == Sorted(S)
           g == [e \in S |-> Place(e, S) + 1]
<1>1. IsFiniteSet(S) /\ c \in Nat
  BY KnownIsFinite
<1>2. \A e, f \in S : Place(e, S) = Place(f, S) => e = f
  <2>1. \A e \in S : Place(e, S) \in Int
    BY Places
  <2> QED BY <2>1, Places, NewerIs
<1>3. \A k \in 1..c : \E e \in S : Place(e, S) = k - 1
  <2>1. g \in [S -> 1..c]
    BY Places
  <2>2. \A e, f \in S : g[e] = g[f] => e = f
    <3>1. \A e \in S : Place(e, S) \in Int
      BY Places
    <3> QED BY <1>2, <3>1
  <2>3. \A e \in S : g[e] = Place(e, S) + 1 /\ Place(e, S) \in Int
    BY Places
  <2> HIDE DEF g
  <2>4. g \in Injection(S, 1..c)
    BY <2>1, <2>2 DEF Injection, IsInjective
  <2>5. IsFiniteSet(1..c) /\ Cardinality(1..c) = c
    BY <1>1, FS_Interval
  <2>6. g \in Surjection(S, 1..c)
    BY <2>4, <2>5, FS_Injection
  <2>7. \A k \in 1..c : \E e \in S : g[e] = k
    BY <2>6 DEF Surjection
  <2> QED BY <2>3, <2>7
<1>4. q = [k \in 1..c |-> CHOOSE e \in S : Place(e, S) = k - 1]
  BY DEF Sorted, Place, Before
<1> HIDE DEF c, q, g
<1>5. \A k \in 1..c : q[k] \in S /\ Place(q[k], S) = k - 1
  BY <1>3, <1>4
<1>6. q \in Seq(S) /\ Len(q) = c
  <2>1. q \in [1..c -> S]
    BY <1>4, <1>5
  <2> QED BY <1>1, <2>1
<1>7. ASSUME NEW e \in S PROVE \E k \in 1..c : q[k] = e
  <2>1. Place(e, S) + 1 \in 1..c
    BY Places DEF c
  <2>2. q[Place(e, S) + 1] \in S /\ Place(q[Place(e, S) + 1], S) = Place(e, S)
    <3>1. Place(e, S) \in Int
      BY Places
    <3> QED BY <1>5, <2>1, <3>1
  <2> QED BY <1>2, <2>1, <2>2
<1>8. ASSUME NEW i \in 1..c, NEW j \in 1..c, i < j
      PROVE  Newer(q[i], q[j])
  <2>1. /\ q[i] \in S /\ Place(q[i], S) = i - 1
        /\ q[j] \in S /\ Place(q[j], S) = j - 1
    BY <1>5
  <2>2. ~(Place(q[j], S) < Place(q[i], S)) /\ Place(q[i], S) # Place(q[j], S)
    BY <1>8, <2>1
  <2> QED BY <2>1, <2>2, Places, NewerIs
<1> QED BY <1>6, <1>7, <1>8 DEF c, q

\* A page: the newest entries; the cursor is the time of the last one, when
\* there are more, and what is not shown is no newer.
LEMMA PageIs ==
  ASSUME NEW S, Known(S)
  PROVE  /\ Page(S) \in Seq(Entry)
         /\ Elements(Page(S)) \subseteq S
         /\ \A i, j \in DOMAIN Page(S) :
              i < j => Newer(Page(S)[i], Page(S)[j])
         /\ NextBefore(S) \in 0..Forever
         /\ NextBefore(S) = Forever => S \subseteq Elements(Page(S))
         /\ NextBefore(S) # Forever =>
              /\ \E e \in S : e.ts = NextBefore(S)
              /\ \A i \in DOMAIN Page(S) : Page(S)[i].ts >= NextBefore(S)
              /\ \A e \in S \ Elements(Page(S)) : e.ts <= NextBefore(S)
<1> DEFINE c == Cardinality(S)
           q == Sorted(S)
           m == IF c > PageSize THEN PageSize ELSE c
           p == Page(S)
<1>1. /\ c \in Nat
      /\ q \in Seq(S) /\ Len(q) = c
      /\ \A k \in 1..c : q[k] \in S
      /\ \A e \in S : \E k \in 1..c : q[k] = e
      /\ \A i, j \in 1..c : i < j => Newer(q[i], q[j])
  BY SortedIs, KnownIsFinite, ElementOfSeq
<1>2. p = SubSeq(q, 1, IF Len(q) > PageSize THEN PageSize ELSE Len(q))
  BY DEF Page
<1>3. NextBefore(S) = IF c > PageSize THEN p[PageSize].ts ELSE Forever
  BY DEF NextBefore
<1>4. PageSize \in Nat /\ PageSize > 0 /\ MaxTime \in Nat
  BY ConstantsAssumption
<1> HIDE DEF c, q, p
<1>5. m \in Nat /\ m <= c
  BY <1>1, <1>4
<1>6. p = SubSeq(q, 1, m)
  BY <1>1, <1>2
<1>7. c > PageSize => m = PageSize
  OBVIOUS
<1>8. ~(c > PageSize) => m = c
  OBVIOUS
<1> HIDE DEF m
<1>9. p \in Seq(S) /\ Len(p) = m /\ DOMAIN p = 1..m
      /\ \A i \in 1..m : p[i] = q[i]
  <2>1. \A i \in 1..m : q[i] \in S
    BY <1>1, <1>5
  <2>2. /\ p \in Seq(S)
        /\ Len(p) = IF 1 <= m THEN m - 1 + 1 ELSE 0
        /\ \A i \in 1..m - 1 + 1 : p[i] = q[1 + i - 1]
    BY <1>5, <1>6, <2>1, SubSeqProperties
  <2>3. Len(p) = m
    BY <1>5, <2>2
  <2>4. m - 1 + 1 = m /\ \A i \in 1..m : 1 + i - 1 = i
    BY <1>5
  <2>5. DOMAIN p = 1..m
    BY <2>2, <2>3, LenProperties
  <2> QED BY <2>2, <2>3, <2>4, <2>5
<1>10. S \subseteq Entry
  BY DEF Known
<1>11. p \in Seq(Entry)
  BY <1>9, <1>10, SeqMonotonic
<1>12. Elements(p) \subseteq S
  BY <1>1, <1>5, <1>9 DEF Elements
<1>13. \A i, j \in DOMAIN p : i < j => Newer(p[i], p[j])
  BY <1>1, <1>5, <1>9
<1>14. CASE ~(c > PageSize)
  <2>1. S \subseteq Elements(p)
    BY <1>1, <1>8, <1>9, <1>14 DEF Elements
  <2>2. NextBefore(S) = Forever /\ Forever \in 0..Forever
    BY <1>3, <1>4, <1>14 DEF Forever
  <2> QED BY <1>11, <1>12, <1>13, <2>1, <2>2 DEF p
<1>15. CASE c > PageSize
  <2>1. PageSize \in 1..m /\ PageSize \in 1..c
    BY <1>4, <1>5, <1>7, <1>15
  <2>2. NextBefore(S) = q[PageSize].ts /\ q[PageSize] \in S
    BY <1>1, <1>3, <1>9, <1>15, <2>1
  <2>3. NextBefore(S) \in 0..MaxTime
    BY <1>10, <2>2 DEF Entry
  <2>4. NextBefore(S) \in 0..Forever /\ NextBefore(S) # Forever
    BY <1>4, <2>3 DEF Forever
  <2>5. \A e \in S : e.ts \in Nat
    BY <1>10 DEF Entry
  <2>6. ASSUME NEW i \in DOMAIN p PROVE p[i].ts >= NextBefore(S)
    <3>1. i \in 1..c /\ i <= PageSize /\ p[i] = q[i]
      <4>1. m = PageSize
        BY <1>7, <1>15
      <4>2. i \in 1..m /\ p[i] = q[i]
        BY <1>9
      <4> QED BY <1>1, <1>5, <4>1, <4>2
    <3>2. i = PageSize \/ i < PageSize
      BY <1>4, <3>1
    <3> QED BY <1>1, <2>1, <2>2, <2>5, <3>1, <3>2, NewerIs
  <2>7. ASSUME NEW e \in S \ Elements(p) PROVE e.ts <= NextBefore(S)
    <3>1. PICK k \in 1..c : q[k] = e
      BY <1>1
    <3>2. k \notin 1..m
      BY <1>9, <2>7, <3>1 DEF Elements
    <3>3. PageSize < k
      BY <1>4, <1>7, <1>15, <3>1, <3>2
    <3>4. Newer(q[PageSize], q[k])
      BY <1>1, <2>1, <3>3
    <3> QED BY <2>2, <2>5, <3>1, <3>4, NewerIs
  <2> QED BY <1>11, <1>12, <1>13, <2>2, <2>4, <2>6, <2>7 DEF p
<1> QED BY <1>14, <1>15

-----------------------------------------------------------------------------
(* The tail of a file *)

\* A set of natural numbers has a least member.
LEMMA LeastNatural ==
  ASSUME NEW S \in SUBSET Nat, S # {}
  PROVE  \E n \in S : \A m \in S : n <= m
<1> DEFINE R == {ss \in Nat \X Nat : ss[1] < ss[2]}
<1>1. \A x, y \in Nat : <<x, y>> \in R <=> x < y
  OBVIOUS
<1>2. IsWellFoundedOn(R, Nat)
  BY NatLessThanWellFounded DEF OpToRel
<1> HIDE DEF R
<1>3. PICK x \in S : \A y \in S : ~ (<<y, x>> \in R)
  BY <1>2, WFMin
<1>4. ASSUME NEW m \in S PROVE x <= m
  <2>1. ~ (<<m, x>> \in R)
    BY <1>3
  <2>2. m \in Nat /\ x \in Nat
    OBVIOUS
  <2>3. ~ (m < x)
    BY <2>1, <2>2, <1>1
  <2> QED BY <2>2, <2>3
<1> QED BY <1>4

\* Where lines end, by the recurrence.
IsEnds(g, w, m) ==
  g = [i \in 0..m |-> IF i = 0 THEN 0 ELSE g[i - 1] + w[i]]

\* There are such ends, and they are natural numbers.
LEMMA EndsExist ==
  ASSUME NEW m \in Nat, NEW w \in [1..m -> Nat]
  PROVE  /\ \E g : IsEnds(g, w, m)
         /\ \A g : IsEnds(g, w, m) => g \in [0..m -> Nat]
<1> DEFINE Q(k) == \E g \in [0..k -> Nat] :
             \A i \in 0..k : g[i] = IF i = 0 THEN 0 ELSE g[i - 1] + w[i]
<1>1. \A k \in 0..m : Q(k)
  <2> DEFINE T == {k \in 0..m : ~Q(k)}
  <2>1. SUFFICES ASSUME T # {} PROVE FALSE
    OBVIOUS
  <2>2. T \in SUBSET Nat
    OBVIOUS
  <2>3. \A k \in 0..m : k \in T <=> ~Q(k)
    OBVIOUS
  <2>4. T \subseteq 0..m
    OBVIOUS
  <2> HIDE DEF T
  <2>5. PICK k \in T : \A j \in T : k <= j
    BY <2>1, <2>2, LeastNatural
  <2>6. k \in 0..m /\ ~Q(k)
    BY <2>3, <2>4
  <2>7. k # 0
    <3>1. Q(0)
      <4> DEFINE g == [i \in 0..0 |-> 0]
      <4>1. /\ g \in [0..0 -> Nat]
            /\ \A i \in 0..0 : g[i] = IF i = 0 THEN 0 ELSE g[i - 1] + w[i]
        OBVIOUS
      <4> QED BY <4>1
    <3> QED BY <2>6, <3>1
  <2>8. k - 1 \in 0..m /\ k \in 1..m /\ ~(k <= k - 1)
    BY <2>6, <2>7
  <2>9. Q(k - 1)
    BY <2>3, <2>5, <2>8
  <2>10. PICK g \in [0..k - 1 -> Nat] :
           \A i \in 0..k - 1 : g[i] = IF i = 0 THEN 0 ELSE g[i - 1] + w[i]
    BY <2>9
  <2> DEFINE h == [i \in 0..k |-> IF i = k THEN g[k - 1] + w[k] ELSE g[i]]
  <2>11. k - 1 \in 0..k - 1 /\ g[k - 1] \in Nat /\ w[k] \in Nat
    BY <2>8, <2>10
  <2>12. \A i \in 0..k : i # k => i \in 0..k - 1 /\ g[i] \in Nat
    BY <2>8, <2>10
  <2>13. h \in [0..k -> Nat]
    BY <2>11, <2>12
  <2>14. ASSUME NEW i \in 0..k
         PROVE  h[i] = IF i = 0 THEN 0 ELSE h[i - 1] + w[i]
    <3>1. CASE i = k
      <4>1. i # 0 /\ i - 1 \in 0..k /\ i - 1 # k /\ i - 1 = k - 1
        BY <2>8, <3>1
      <4>2. h[i] = g[k - 1] + w[k] /\ h[i - 1] = g[k - 1]
        BY <3>1, <4>1
      <4> QED BY <3>1, <4>1, <4>2
    <3>2. CASE i # k
      <4>1. h[i] = g[i] /\ i \in 0..k - 1
        BY <2>12, <3>2
      <4>2. CASE i = 0
        BY <2>10, <4>1, <4>2
      <4>3. CASE i # 0
        <5>1. i - 1 \in 0..k /\ i - 1 # k
          BY <2>8, <3>2, <4>3
        <5>2. h[i - 1] = g[i - 1]
          BY <5>1
        <5> QED BY <2>10, <4>1, <4>3, <5>2
      <4> QED BY <4>2, <4>3
    <3> QED BY <3>1, <3>2
  <2> HIDE DEF h
  <2>15. Q(k)
    BY <2>13, <2>14
  <2> QED BY <2>6, <2>15
<1>2. PICK g \in [0..m -> Nat] :
        \A i \in 0..m : g[i] = IF i = 0 THEN 0 ELSE g[i - 1] + w[i]
  <2>1. m \in 0..m
    OBVIOUS
  <2>2. Q(m)
    BY <1>1, <2>1
  <2> QED BY <2>2
<1>3. IsEnds(g, w, m)
  BY <1>2 DEF IsEnds
<1>4. ASSUME NEW e, IsEnds(e, w, m) PROVE e = g
  <2> DEFINE T == {i \in 0..m : e[i] # g[i]}
  <2>1. /\ e = [i \in 0..m |-> e[i]]
        /\ \A i \in 0..m : e[i] = IF i = 0 THEN 0 ELSE e[i - 1] + w[i]
    BY <1>4 DEF IsEnds
  <2>2. T = {}
    <3>1. SUFFICES ASSUME T # {} PROVE FALSE
      OBVIOUS
    <3>2. T \in SUBSET Nat /\ T \subseteq 0..m
      OBVIOUS
    <3>3. \A i \in 0..m : i \in T <=> e[i] # g[i]
      OBVIOUS
    <3> HIDE DEF T
    <3>4. PICK k \in T : \A j \in T : k <= j
      BY <3>1, <3>2, LeastNatural
    <3>5. k \in 0..m /\ e[k] # g[k]
      BY <3>2, <3>3
    <3>6. k # 0
      BY <1>2, <2>1, <3>5
    <3>7. k - 1 \in 0..m /\ ~(k <= k - 1)
      BY <3>5, <3>6
    <3>8. e[k - 1] = g[k - 1]
      BY <3>3, <3>4, <3>7
    <3> QED BY <1>2, <2>1, <3>5, <3>6, <3>8
  <2>3. \A i \in 0..m : e[i] = g[i]
    BY <2>2
  <2>4. g = [i \in 0..m |-> g[i]]
    OBVIOUS
  <2> QED BY <2>1, <2>3, <2>4
<1> QED BY <1>2, <1>3, <1>4

\* Every line of a file ends after its beginning.
LEMMA EndsAre ==
  ASSUME NEW f \in Seq(Entry)
  PROVE  /\ Ends(f) \in [0..Len(f) -> Nat]
         /\ \A i \in 1..Len(f) : Ends(f)[i] > 0
         /\ Ends(f)[0] = 0
<1> DEFINE m == Len(f)
           w == [i \in 1..m |-> LineBytes[f[i].level]]
<1>1. m \in Nat /\ \A i \in 1..m : f[i] \in Entry
  BY LenProperties, ElementOfSeq
<1>2. \A i \in 1..m : LineBytes[f[i].level] \in Nat \ {0}
  BY <1>1, ConstantsAssumption DEF Entry
<1>3. w \in [1..m -> Nat] /\ \A i \in 1..m : w[i] > 0
  BY <1>2
<1>4. Ends(f) = CHOOSE g : IsEnds(g, w, m)
  <2>1. \A g : IsEnds(g, w, m) <=>
          g = [i \in 0..m |-> IF i = 0 THEN 0
                              ELSE g[i - 1] + LineBytes[f[i].level]]
    <3>1. \A i \in 0..m : i # 0 => w[i] = LineBytes[f[i].level]
      <4>1. \A i \in 0..m : i # 0 => i \in 1..m
        BY <1>1
      <4> QED BY <4>1
    <3> HIDE DEF w, m
    <3>2. ASSUME NEW g
          PROVE  [i \in 0..m |-> IF i = 0 THEN 0 ELSE g[i - 1] + w[i]]
                   = [i \in 0..m |-> IF i = 0 THEN 0
                                     ELSE g[i - 1] + LineBytes[f[i].level]]
      BY <3>1
    <3> QED BY <3>2 DEF IsEnds
  <2> QED BY <2>1 DEF Ends
<1> HIDE DEF w, m
<1>5. IsEnds(Ends(f), w, m) /\ Ends(f) \in [0..m -> Nat]
  BY <1>1, <1>3, <1>4, EndsExist
<1>6. ASSUME NEW i \in 1..m PROVE Ends(f)[i] > 0
  <2>1. i \in 0..m /\ i # 0 /\ i - 1 \in 0..m
    BY <1>1
  <2>2. Ends(f)[i] = Ends(f)[i - 1] + w[i]
    BY <1>5, <2>1 DEF IsEnds
  <2>3. Ends(f)[i - 1] \in Nat /\ w[i] \in Nat /\ w[i] > 0
    BY <1>3, <1>5, <2>1
  <2> QED BY <2>2, <2>3
<1>7. Ends(f)[0] = 0
  <2>1. 0 \in 0..m
    BY <1>1
  <2> QED BY <1>5, <2>1 DEF IsEnds
<1> QED BY <1>5, <1>6, <1>7 DEF m

\* The last lines of the last lines.
LEMMA LastLinesAre ==
  ASSUME NEW X, NEW f \in Seq(X), NEW n \in Nat
  PROVE  /\ LastLines(f, n) \in Seq(X)
         /\ Len(LastLines(f, n)) = IF Len(f) > n THEN n ELSE Len(f)
         /\ \A i \in 1..Len(LastLines(f, n)) :
              LastLines(f, n)[i] = f[Len(f) - Len(LastLines(f, n)) + i]
<1> DEFINE m == Len(f)
           a == IF m > n THEN m - n + 1 ELSE 1
           q == LastLines(f, n)
<1>1. m \in Nat /\ \A i \in 1..m : f[i] \in X
  BY LenProperties, ElementOfSeq
<1>2. q = SubSeq(f, a, m)
  BY DEF LastLines
<1> HIDE DEF m, q
<1>3. /\ a \in Nat /\ 1 <= a /\ a <= m + 1
      /\ m - a + 1 = IF m > n THEN n ELSE m
  BY <1>1
<1> HIDE DEF a
<1>4. \A i \in a..m : f[i] \in X
  BY <1>1, <1>3
<1>5. /\ q \in Seq(X)
      /\ Len(q) = IF a <= m THEN m - a + 1 ELSE 0
      /\ \A i \in 1..m - a + 1 : q[i] = f[a + i - 1]
  BY <1>1, <1>2, <1>3, <1>4, SubSeqProperties
<1>6. Len(q) = m - a + 1
  BY <1>1, <1>3, <1>5
<1>7. ASSUME NEW i \in 1..Len(q) PROVE q[i] = f[m - Len(q) + i]
  <2>1. i \in 1..m - a + 1 /\ a + i - 1 = m - Len(q) + i
    BY <1>1, <1>3, <1>6
  <2>2. q[i] = f[a + i - 1]
    BY <1>5, <2>1
  <2> QED BY <2>1, <2>2
<1> QED BY <1>3, <1>5, <1>6, <1>7 DEF m, q

\* The lines that are read back are the last lines, whole, wherever the chunks
\* begin, when one newline more than lines is sought.
LEMMA TailIs ==
  ASSUME NEW f \in Seq(Entry), NEW n \in Nat
  PROVE  TailLines(f, n) = LastLines(f, n)
<1> DEFINE m == Len(f)
           end == Ends(f)
           size == end[m]
           Stops(k) == Seek(size, k) = 0 \/ Newlines(end, Seek(size, k)) >= n + 1
           least == CHOOSE k \in 1..size + 1 :
                      Stops(k) /\ \A j \in 1..k - 1 : ~Stops(j)
           pos == Seek(size, least)
           lines == LastLines(f, Newlines(end, pos))
           rest == IF pos > 0 THEN Tail(lines) ELSE lines
<1>1. /\ m \in Nat /\ size \in Nat
      /\ end \in [0..m -> Nat] /\ end[0] = 0
      /\ \A i \in 1..m : end[i] > 0
  BY LenProperties, EndsAre
<1>2. TailLines(f, n) = LastLines(rest, n)
  BY DEF TailLines, ReadBack
<1> HIDE DEF m, end, size
<1>3. ASSUME NEW k \in Nat PROVE Seek(size, k) \in Nat
  <2> DEFINE x == k * Chunk
  <2>1. Chunk \in Nat
    BY ConstantsAssumption
  <2>2. x \in Nat
    BY <2>1
  <2>3. Seek(size, k) = IF x < size THEN size - x ELSE 0
    BY DEF Seek
  <2> HIDE DEF x
  <2> QED BY <1>1, <2>2, <2>3
<1>4. pos \in Nat /\ (pos = 0 \/ Newlines(end, pos) >= n + 1)
  <2>1. Stops(size + 1)
    <3>1. Chunk \in Nat /\ Chunk >= 1
      BY ConstantsAssumption
    <3>2. ~((size + 1) * Chunk < size)
      BY <1>1, <3>1
    <3> QED BY <3>2 DEF Seek
  <2> DEFINE T == {k \in 1..size + 1 : Stops(k)}
  <2>2. size + 1 \in T
    BY <1>1, <2>1
  <2>3. T \in SUBSET Nat /\ \A k : k \in T <=> k \in 1..size + 1 /\ Stops(k)
    OBVIOUS
  <2> HIDE DEF T
  <2>4. PICK k \in T : \A j \in T : k <= j
    BY <2>2, <2>3, LeastNatural
  <2>5. \E i \in 1..size + 1 : Stops(i) /\ \A j \in 1..i - 1 : ~Stops(j)
    <3>1. k \in 1..size + 1 /\ Stops(k)
      BY <2>3
    <3>2. ASSUME NEW j \in 1..k - 1 PROVE ~Stops(j)
      <4>1. j \in 1..size + 1 /\ ~(k <= j)
        BY <1>1, <3>1
      <4> QED BY <2>3, <2>4, <4>1
    <3> QED BY <3>1, <3>2
  <2> HIDE DEF Stops
  <2>6. least \in 1..size + 1 /\ Stops(least)
    BY <2>5
  <2>7. least \in Nat
    BY <1>1, <2>6
  <2> HIDE DEF least
  <2> QED BY <1>3, <2>6, <2>7 DEF Stops
<1>5. Newlines(end, pos) \in Nat /\ Newlines(end, pos) <= m
      /\ (pos = 0 => Newlines(end, pos) = m)
  <2> DEFINE A == {i \in DOMAIN end : end[i] > pos}
  <2>1. A \in SUBSET (1..m)
    <3>1. \A i \in 0..m : end[i] > pos => i \in 1..m
      BY <1>1, <1>4
    <3> QED BY <1>1, <3>1
  <2>2. IsFiniteSet(1..m) /\ Cardinality(1..m) = m
    BY <1>1, FS_Interval
  <2>3. Newlines(end, pos) = Cardinality(A)
    BY DEF Newlines
  <2>4. pos = 0 => A = 1..m
    <3>1. \A i \in 1..m : i \in DOMAIN end /\ end[i] > 0
      BY <1>1
    <3> QED BY <2>1, <3>1
  <2> HIDE DEF A
  <2>5. IsFiniteSet(A) /\ Cardinality(A) <= m
    BY <2>1, <2>2, FS_Subset
  <2> QED BY <2>2, <2>3, <2>4, <2>5, FS_CardinalityType
<1> HIDE DEF pos
<1> DEFINE c == Newlines(end, pos)
<1>6. /\ lines \in Seq(Entry) /\ Len(lines) = c
      /\ \A i \in 1..c : lines[i] = f[m - c + i]
  <2>1. c \in Nat /\ c <= m /\ m = Len(f)
    BY <1>5 DEF m
  <2> HIDE DEF c
  <2>2. /\ LastLines(f, c) \in Seq(Entry)
        /\ Len(LastLines(f, c)) = IF Len(f) > c THEN c ELSE Len(f)
        /\ \A i \in 1..Len(LastLines(f, c)) :
             LastLines(f, c)[i] = f[Len(f) - Len(LastLines(f, c)) + i]
    BY <2>1, LastLinesAre
  <2>3. Len(LastLines(f, c)) = c
    BY <1>1, <2>1, <2>2
  <2> QED BY <2>1, <2>2, <2>3 DEF c
<1>7. c \in Nat /\ c <= m /\ (pos = 0 => c = m)
      /\ (pos = 0 \/ c >= n + 1)
  BY <1>4, <1>5
<1> HIDE DEF c, lines
<1>8. \E d \in Nat : /\ rest \in Seq(Entry) /\ Len(rest) = d
                     /\ d <= m /\ (d = m \/ d >= n)
                     /\ \A i \in 1..d : rest[i] = f[m - d + i]
  <2>1. CASE pos = 0
    <3>1. rest = lines /\ c = m
      BY <1>7, <2>1
    <3> QED BY <1>6, <1>7, <3>1
  <2>2. CASE pos # 0
    <3>1. pos > 0 /\ c >= n + 1
      BY <1>4, <1>7, <2>2
    <3>2. rest = Tail(lines) /\ lines # <<>>
      BY <1>6, <1>7, <3>1, EmptySeq
    <3>3. /\ Tail(lines) \in Seq(Entry)
          /\ Len(Tail(lines)) = c - 1
          /\ \A i \in 1..c - 1 : Tail(lines)[i] = lines[i + 1]
      BY <1>6, <3>2, HeadTailProperties
    <3>4. \A i \in 1..c - 1 : Tail(lines)[i] = f[m - (c - 1) + i]
      <4>1. \A i \in 1..c - 1 : /\ i + 1 \in 1..c
                                /\ m - c + (i + 1) = m - (c - 1) + i
        BY <1>1, <1>7
      <4> QED BY <1>6, <3>3, <4>1
    <3>5. c - 1 \in Nat /\ c - 1 <= m /\ c - 1 >= n
      BY <1>1, <1>7, <3>1
    <3> QED BY <3>2, <3>3, <3>4, <3>5
  <2> QED BY <2>1, <2>2
<1>9. PICK d \in Nat : /\ rest \in Seq(Entry) /\ Len(rest) = d
                      /\ d <= m /\ (d = m \/ d >= n)
                      /\ \A i \in 1..d : rest[i] = f[m - d + i]
  BY <1>8
<1> HIDE DEF rest
<1> DEFINE r == LastLines(rest, n)
           s == LastLines(f, n)
           k == IF m > n THEN n ELSE m
<1>10. /\ r \in Seq(Entry) /\ Len(r) = (IF d > n THEN n ELSE d)
       /\ \A i \in 1..Len(r) : r[i] = rest[d - Len(r) + i]
  BY <1>9, LastLinesAre
<1>11. /\ s \in Seq(Entry) /\ Len(s) = k
       /\ \A i \in 1..k : s[i] = f[m - k + i]
  <2>1. m = Len(f)
    BY DEF m
  <2>2. /\ s \in Seq(Entry) /\ Len(s) = (IF Len(f) > n THEN n ELSE Len(f))
        /\ \A i \in 1..Len(s) : s[i] = f[Len(f) - Len(s) + i]
    BY LastLinesAre
  <2>3. Len(s) = k
    BY <2>1, <2>2
  <2> HIDE DEF s, k
  <2> QED BY <2>1, <2>2, <2>3
<1>12. (IF d > n THEN n ELSE d) = k /\ k \in Nat /\ k <= d
  BY <1>1, <1>9
<1> HIDE DEF r, s, k
<1>13. ASSUME NEW i \in 1..k PROVE r[i] = s[i]
  <2>1. d - k + i \in 1..d /\ m - d + (d - k + i) = m - k + i
    BY <1>1, <1>12
  <2>2. r[i] = rest[d - k + i]
    BY <1>10, <1>12
  <2>3. rest[d - k + i] = f[m - d + (d - k + i)]
    BY <1>9, <2>1
  <2> QED BY <1>11, <2>1, <2>2, <2>3
<1>14. r = s
  BY <1>10, <1>11, <1>12, <1>13, SeqEqual
<1> QED BY <1>2, <1>14 DEF r, s

-----------------------------------------------------------------------------
(* The apps and their files *)

\* What a file holds is known, and so is every part of it.
LEMMA EntriesAre ==
  ASSUME TypeOK, Written
  PROVE  /\ Known(Entries)
         /\ \A S \in SUBSET Entries : Known(S)
         /\ \A a \in App : \A i \in DOMAIN file[a] : file[a][i] \in Entries
<1>1. \A a \in App : file[a] \in Seq(Entry)
  BY DEF TypeOK
<1>2. \A a \in App : \A i \in DOMAIN file[a] : file[a][i] \in Entry
  BY <1>1, LenProperties, ElementOfSeq
<1>3. Entries \subseteq Entry
  BY <1>2 DEF Entries, Elements
<1>4. \A a \in App : \A i \in DOMAIN file[a] : file[a][i] \in Entries
  BY DEF Entries, Elements
<1> QED BY <1>3, <1>4 DEF Known, Written

\* What is read of a file is in it, as many lines as are asked for at most.
LEMMA ReadIs ==
  ASSUME TypeOK, Written, NEW a \in App
  PROVE  /\ ReadRecent(a) \subseteq Entries
         /\ IsFiniteSet(ReadRecent(a)) /\ Cardinality(ReadRecent(a)) <= TailDefault
<1> DEFINE s == LastLines(file[a], TailDefault)
<1>1. file[a] \in Seq(Entry) /\ TailDefault \in Nat
  BY ConstantsAssumption DEF TypeOK
<1>2. TailLines(file[a], TailDefault) = s
  BY <1>1, TailIs
<1>3. /\ s \in Seq(Entry)
      /\ Len(s) = IF Len(file[a]) > TailDefault THEN TailDefault
                  ELSE Len(file[a])
      /\ \A i \in 1..Len(s) : s[i] = file[a][Len(file[a]) - Len(s) + i]
  BY <1>1, LastLinesAre
<1>4. /\ Len(file[a]) \in Nat /\ DOMAIN file[a] = 1..Len(file[a])
      /\ Len(s) \in Nat /\ DOMAIN s = 1..Len(s)
  BY <1>1, <1>3, LenProperties
<1> HIDE DEF s
<1>5. Len(s) <= TailDefault /\ Len(s) <= Len(file[a])
  BY <1>1, <1>3, <1>4
<1>6. \A i \in 1..Len(s) : s[i] \in Entries
  <2>1. \A i \in 1..Len(s) : Len(file[a]) - Len(s) + i \in DOMAIN file[a]
    BY <1>4, <1>5
  <2> QED BY <1>3, <2>1, EntriesAre
<1>7. Elements(s) \subseteq Entries
  BY <1>4, <1>6 DEF Elements
<1>8. IsFiniteSet(Elements(s)) /\ Cardinality(Elements(s)) <= Len(s)
  <2>1. s \in Surjection(1..Len(s), Elements(s))
    <3>1. s \in [1..Len(s) -> Elements(s)]
      BY <1>3, <1>4, LenProperties DEF Elements
    <3>2. \A e \in Elements(s) : \E i \in 1..Len(s) : s[i] = e
      BY <1>4 DEF Elements
    <3> QED BY <3>1, <3>2 DEF Surjection
  <2>2. IsFiniteSet(1..Len(s)) /\ Cardinality(1..Len(s)) = Len(s)
    <3> DEFINE m == Len(s)
    <3>1. m \in Nat
      BY <1>4
    <3> HIDE DEF m
    <3>2. /\ IsFiniteSet(1..m)
          /\ Cardinality(1..m) = IF 1 > m THEN 0 ELSE m - 1 + 1
      BY <3>1, FS_Interval
    <3>3. IsFiniteSet(1..m) /\ Cardinality(1..m) = m
      BY <3>1, <3>2
    <3> QED BY <3>3 DEF m
  <2> QED BY <2>1, <2>2, FS_Surjection
<1>9. ReadRecent(a) = Elements(s)
  BY <1>2 DEF ReadRecent
<1>10. Cardinality(Elements(s)) \in Nat
  BY <1>8, FS_CardinalityType
<1> QED BY <1>1, <1>4, <1>5, <1>7, <1>8, <1>9, <1>10

\* A request gets entries that it lets in; with no cursor, all of those.
LEMMA CollectedIs ==
  ASSUME TypeOK, Written, NEW r \in Request
  PROVE  /\ Known(Collected(r))
         /\ \A e \in Collected(r) :
              /\ e \in Entry
              /\ Lets(r.apps, e.app) /\ Lets(r.levels, e.level)
              /\ e.ts >= r.since /\ e.ts < r.until /\ e.ts < r.before
         /\ Collected([r EXCEPT !.before = Forever]) \subseteq Entry
         /\ \A e \in Collected([r EXCEPT !.before = Forever]) :
              e.ts < r.before => e \in Collected(r)
<1> DEFINE q == [r EXCEPT !.before = Forever]
<1>1. Collected(r) \in SUBSET Entries /\ Collected(q) \in SUBSET Entries
  <2>1. \A a \in App : ReadRecent(a) \subseteq Entries
    BY ReadIs
  <2> QED BY <2>1 DEF Collected
<1>2. Known(Collected(r)) /\ Known(Collected(q))
  BY <1>1, EntriesAre
<1>3. Collected(r) \subseteq Entry /\ Collected(q) \subseteq Entry
  BY <1>2 DEF Known
<1>4. /\ q.apps = r.apps /\ q.levels = r.levels
      /\ q.since = r.since /\ q.until = r.until
  BY DEF Request
<1> HIDE DEF q
<1>5. \A e \in Collected(r) :
        /\ Lets(r.apps, e.app) /\ Lets(r.levels, e.level)
        /\ e.ts >= r.since /\ e.ts < r.until /\ e.ts < r.before
  BY DEF Collected
<1>6. \A e \in Collected(q) : e.ts < r.before => e \in Collected(r)
  BY <1>4 DEF Collected
<1> QED BY <1>2, <1>3, <1>5, <1>6 DEF q

\* The part of the invariant that the apps' steps change.
LogsOK ==
  /\ now \in 0..MaxTime /\ written \in 0..MaxEntries
  /\ rolls \in 0..MaxRolls
  /\ file \in [App -> Seq(Entry)]
  /\ Written

\* Entries come with new ids and leave with a roll; what the operator has asked
\* for and been shown does not change.
LEMMA AppsKeep ==
  ASSUME IInv,
         \/ \E a \in App, level \in Level : Write(a, level)
         \/ \E a \in App : Roll(a)
         \/ Tick
  PROVE  IInv'
<1>1. TypeOK /\ Written /\ Asking /\ Table
  BY DEF IInv
<1>2. /\ now \in 0..MaxTime /\ written \in 0..MaxEntries /\ rolls \in 0..MaxRolls
      /\ MaxTime \in Nat /\ MaxEntries \in Nat /\ MaxRolls \in Nat
      /\ file \in [App -> Seq(Entry)]
  BY <1>1, ConstantsAssumption DEF TypeOK
<1>3. UNCHANGED <<screen, pending, history>>
  BY DEF Write, Roll, Tick
<1>4. LogsOK'
  <2>1. ASSUME NEW a \in App, NEW level \in Level, Write(a, level)
        PROVE  LogsOK'
    <3> DEFINE new == [id |-> written + 1, app |-> a, level |-> level,
                       ts |-> now]
    <3>1. /\ written < MaxEntries /\ written' = written + 1
          /\ file' = [file EXCEPT ![a] = Append(file[a], new)]
          /\ now' = now /\ rolls' = rolls
      BY <2>1 DEF Write
    <3>2. new \in Entry /\ new.id = written + 1 /\ new.ts = now
      BY <1>2, <3>1 DEF Entry
    <3> HIDE DEF new
    <3>3. file[a] \in Seq(Entry) /\ Append(file[a], new) \in Seq(Entry)
      BY <1>2, <3>2, AppendProperties
    <3>4. file' \in [App -> Seq(Entry)]
      BY <1>2, <3>1, <3>3
    <3>5. Entries' \subseteq Entries \cup {new}
      <4>1. ASSUME NEW e \in Entries' PROVE e \in Entries \cup {new}
        <5>1. PICK b \in App : \E j \in DOMAIN file'[b] : e = file'[b][j]
          BY DEF Entries, Elements
        <5>0. PICK i \in DOMAIN file'[b] : e = file'[b][i]
          BY <5>1
        <5>2. CASE b = a
          <6>1. file'[b] = Append(file[a], new)
            BY <1>2, <3>1, <5>2
          <6>2. /\ DOMAIN Append(file[a], new) = 1..Len(file[a]) + 1
                /\ DOMAIN file[a] = 1..Len(file[a]) /\ Len(file[a]) \in Nat
                /\ Append(file[a], new)[Len(file[a]) + 1] = new
                /\ \A k \in 1..Len(file[a]) :
                     Append(file[a], new)[k] = file[a][k]
            BY <3>2, <3>3, AppendProperties, LenProperties
          <6>3. i = Len(file[a]) + 1 \/ i \in DOMAIN file[a]
            BY <5>0, <6>1, <6>2
          <6> QED BY <1>1, <5>0, <6>1, <6>2, <6>3, EntriesAre
        <5>3. CASE b # a
          <6>1. file'[b] = file[b]
            BY <1>2, <3>1, <5>3
          <6> QED BY <1>1, <5>0, <6>1, EntriesAre
        <5> QED BY <5>2, <5>3
      <4> QED BY <4>1
    <3>6. Written'
      <4>1. \A e \in Entries : e.id \in Nat /\ e.id <= written /\ e.ts <= now
        <5>1. \A e \in Entries : e \in Entry
          BY <1>1, EntriesAre DEF Known
        <5>2. \A e \in Entries : e.id \in 1..MaxEntries
          BY <5>1 DEF Entry
        <5> QED BY <1>1, <1>2, <5>2 DEF Written
      <4>2. \A e, f \in Entries : e.id = f.id => e = f
        BY <1>1 DEF Written
      <4>3. \A e \in Entries' : e.id <= written' /\ e.ts <= now'
        BY <1>2, <3>1, <3>2, <3>5, <4>1
      <4>4. \A e, f \in Entries' : e.id = f.id => e = f
        <5>1. \A e \in Entries : e.id # new.id
          BY <1>2, <3>2, <4>1
        <5> QED BY <3>5, <4>2, <5>1
      <4> QED BY <4>3, <4>4 DEF Written
    <3> QED BY <1>2, <3>1, <3>4, <3>6 DEF LogsOK
  <2>2. ASSUME NEW a \in App, Roll(a)
        PROVE  LogsOK'
    <3>1. /\ rolls < MaxRolls /\ rolls' = rolls + 1
          /\ file' = [file EXCEPT ![a] = <<>>]
          /\ now' = now /\ written' = written
      BY <2>2 DEF Roll
    <3>2. file' \in [App -> Seq(Entry)]
      <4>1. <<>> \in Seq(Entry)
        OBVIOUS
      <4> QED BY <1>2, <3>1, <4>1
    <3>3. Entries' \subseteq Entries
      <4>1. ASSUME NEW e \in Entries' PROVE e \in Entries
        <5>1. PICK b \in App : \E j \in DOMAIN file'[b] : e = file'[b][j]
          BY DEF Entries, Elements
        <5>0. PICK i \in DOMAIN file'[b] : e = file'[b][i]
          BY <5>1
        <5>2. b # a
          BY <1>2, <3>1, <5>0
        <5>3. file'[b] = file[b]
          BY <1>2, <3>1, <5>2
        <5> QED BY <1>1, <5>0, <5>3, EntriesAre
      <4> QED BY <4>1
    <3>4. Written'
      BY <1>1, <3>1, <3>3 DEF Written
    <3> QED BY <1>2, <3>1, <3>2, <3>4 DEF LogsOK
  <2>3. ASSUME Tick
        PROVE  LogsOK'
    <3>1. /\ now' > now /\ now' \in 0..MaxTime
          /\ UNCHANGED <<written, file, rolls>>
      BY <2>3, ConstantsAssumption DEF Tick
    <3>2. Entries' = Entries
      BY <3>1 DEF Entries
    <3>3. \A e \in Entries : e.ts \in Nat
      <4>1. \A e \in Entries : e \in Entry
        BY <1>1, EntriesAre DEF Known
      <4> QED BY <1>2, <4>1 DEF Entry
    <3>4. Written'
      BY <1>1, <1>2, <3>1, <3>2, <3>3 DEF Written
    <3> QED BY <1>2, <3>1, <3>4 DEF LogsOK
  <2> QED BY <2>1, <2>2, <2>3
<1>5. TypeOK'
  BY <1>1, <1>3, <1>4 DEF TypeOK, LogsOK, screen, history
<1>6. Asking' /\ Table'
  BY <1>1, <1>3 DEF Asking, Table, Current, Fits, Ordered, Owed, screen, history
<1> QED BY <1>4, <1>5, <1>6 DEF IInv, LogsOK

-----------------------------------------------------------------------------
(* The Log Explorer asks *)

\* A step of the Log Explorer leaves the files, and so what is known of them.
LEMMA LogsStay ==
  ASSUME IInv, UNCHANGED logs
  PROVE  LogsOK'
<1>1. Entries' = Entries
  BY DEF Entries, logs
<1> QED BY <1>1 DEF IInv, TypeOK, Written, LogsOK, logs

\* A question about filters is one that may be asked.
LEMMA AskedIs ==
  ASSUME NEW f \in Filters, NEW lower \in 0..MaxTime, NEW cursor \in 0..Forever,
         NEW append \in BOOLEAN
  PROVE  /\ Asked(f, lower, cursor, append) \in Request
         /\ Asked(f, lower, cursor, append).newest
         /\ Asked(f, lower, cursor, append).apps = f.apps
         /\ Asked(f, lower, cursor, append).levels = f.levels
         /\ Asked(f, lower, cursor, append).since = lower
         /\ Asked(f, lower, cursor, append).until = f.until
         /\ Asked(f, lower, cursor, append).before = cursor
         /\ Asked(f, lower, cursor, append).append = append
         /\ Asked(f, lower, cursor, append).search = f.search
<1>1. /\ f.apps \in SUBSET App /\ f.levels \in SUBSET Level
      /\ f.until \in 0..Forever
      /\ f.search \in BOOLEAN
  BY ConstantsAssumption
<1> QED BY <1>1 DEF Asked, Request

\* Asking: what was asked before is the newest no more; the answers do not mix
\* only when nothing else is on its way.
LEMMA FetchIs ==
  ASSUME IInv,
         NEW f \in Filters, NEW lower \in 0..MaxTime, NEW cursor \in 0..Forever,
         NEW append \in BOOLEAN,
         Fetch(f, lower, cursor, append), filter' = f, since' = lower,
         ~append => cursor = Forever, append => ~f.search
  PROVE  /\ pending' \subseteq Request /\ loading' \in BOOLEAN
         /\ mixed' \in BOOLEAN
         /\ Asking'
         /\ Asked(f, lower, cursor, append) \in pending'
         /\ ~mixed' => /\ ~mixed /\ pending = {}
                       /\ pending' = {Asked(f, lower, cursor, append)}
<1> DEFINE new == Asked(f, lower, cursor, append)
           Late(r) == [r EXCEPT !.newest = FALSE]
<1>1. /\ pending' = {Late(r) : r \in pending} \cup {new}
      /\ loading' = TRUE /\ mixed' = (mixed \/ pending # {})
  BY DEF Fetch
<1>2. /\ new \in Request /\ new.newest /\ new.before = cursor
      /\ new.append = append /\ new.search = f.search
      /\ new = Asked(f, lower, new.before, new.append)
  BY AskedIs
<1>3. pending \subseteq Request /\ mixed \in BOOLEAN /\ Asking
  BY DEF IInv, TypeOK
<1>4. \A r \in Request :
        /\ Late(r) \in Request /\ Late(r).newest = FALSE
        /\ Late(r).before = r.before /\ Late(r).append = r.append
        /\ Late(r).search = r.search
  BY DEF Request
<1> HIDE DEF new, Late
<1>5. pending' \subseteq Request
  BY <1>1, <1>2, <1>3, <1>4
<1>6. \A r \in pending :
        (~r.append => r.before = Forever) /\ (r.append => ~r.search)
  BY <1>3 DEF Asking
<1>7. ASSUME NEW r \in pending'
      PROVE  /\ r.newest => r = Asked(filter', since', r.before, r.append)
             /\ ~r.append => r.before = Forever
             /\ r.append => ~r.search
  <2>1. CASE r = new
    BY <1>2, <2>1
  <2>2. CASE \E q \in pending : r = Late(q)
    <3>1. PICK q \in pending : r = Late(q)
      BY <2>2
    <3>2. q \in Request
      BY <1>3
    <3> QED BY <1>4, <1>6, <3>1, <3>2
  <2> QED BY <1>1, <2>1, <2>2
<1>8. ~mixed' => ~mixed /\ pending = {} /\ pending' = {new}
  BY <1>1
<1>9. Asking'
  <2>1. ~mixed' => \A r \in pending' : r.newest /\ pending' = {r}
    BY <1>2, <1>8
  <2> QED BY <1>7, <2>1 DEF Asking
<1> QED BY <1>1, <1>3, <1>5, <1>8, <1>9 DEF new

LEMMA ResolveIs ==
  ASSUME TypeOK, NEW f \in Filters
  PROVE  Resolve(f) \in 0..MaxTime
<1>1. now \in 0..MaxTime /\ f.span \in Nat /\ MaxTime \in Nat
  BY ConstantsAssumption DEF TypeOK
<1> QED BY <1>1 DEF Resolve

\* Other filters, or the same ones anew: the table is not the answer until the
\* first page has come.
LEMMA FirstPageKeeps ==
  ASSUME IInv, (\E f \in Filters : ChangeFilter(f)) \/ Refresh
  PROVE  IInv'
<1>1. TypeOK
  BY DEF IInv
<1>2. PICK f \in Filters, lower \in 0..MaxTime :
        /\ filter' = f /\ since' = lower
        /\ Fetch(f, lower, Forever, FALSE)
        /\ UNCHANGED <<logs, rows, nextBefore, due>>
  <2>1. ASSUME NEW f \in Filters, ChangeFilter(f)
        PROVE  /\ filter' = f /\ since' \in {since, Resolve(f)}
               /\ Fetch(f, since', Forever, FALSE)
               /\ UNCHANGED <<logs, rows, nextBefore, due>>
    BY <2>1 DEF ChangeFilter
  <2>2. ASSUME Refresh
        PROVE  /\ filter \in Filters /\ since \in 0..MaxTime
               /\ filter' = filter /\ since' = since
               /\ Fetch(filter, since, Forever, FALSE)
               /\ UNCHANGED <<logs, rows, nextBefore, due>>
    BY <1>1, <2>2 DEF Refresh, TypeOK
  <2>3. \A f \in Filters : Resolve(f) \in 0..MaxTime
    BY <1>1, ResolveIs
  <2>4. CASE \E f \in Filters : ChangeFilter(f)
    <3>1. PICK f \in Filters : ChangeFilter(f)
      BY <2>4
    <3>2. since' \in 0..MaxTime
      BY <1>1, <2>1, <2>3, <3>1 DEF TypeOK
    <3> QED BY <2>1, <3>1, <3>2
  <2>5. CASE Refresh
    BY <2>2, <2>5
  <2> QED BY <2>4, <2>5
<1>3. Forever \in 0..Forever
  BY ConstantsAssumption DEF Forever
<1>4. /\ pending' \subseteq Request /\ loading' \in BOOLEAN /\ mixed' \in BOOLEAN
      /\ Asking' /\ Asked(f, lower, Forever, FALSE) \in pending'
  BY <1>2, <1>3, FetchIs
<1>5. ~Current'
  <2>1. Asked(f, lower, Forever, FALSE).append = FALSE
    BY <1>3, AskedIs
  <2> QED BY <1>4, <2>1 DEF Current
<1>6. LogsOK'
  BY <1>2, LogsStay
<1>7. TypeOK'
  BY <1>1, <1>2, <1>4, <1>6 DEF TypeOK, LogsOK
<1> QED BY <1>4, <1>5, <1>6, <1>7 DEF IInv, Table, LogsOK

\* The next page is asked for at the cursor.
LEMMA NextPageKeeps ==
  ASSUME IInv, LoadMore
  PROVE  IInv'
<1>1. TypeOK /\ Table
  BY DEF IInv
<1>2. /\ ~filter.search /\ nextBefore # Forever
      /\ filter' = filter /\ since' = since
      /\ Fetch(filter, since, nextBefore, TRUE)
      /\ UNCHANGED <<logs, rows, nextBefore, due>>
  BY DEF LoadMore, HasMore
<1>3. filter \in Filters /\ since \in 0..MaxTime /\ nextBefore \in 0..Forever
  BY <1>1 DEF TypeOK
<1> DEFINE new == Asked(filter, since, nextBefore, TRUE)
<1>4. /\ pending' \subseteq Request /\ loading' \in BOOLEAN /\ mixed' \in BOOLEAN
      /\ Asking'
      /\ ~mixed' => ~mixed /\ pending = {} /\ pending' = {new}
  BY <1>2, <1>3, FetchIs
<1>5. new.before = nextBefore
  BY <1>3, AskedIs
<1> HIDE DEF new
<1>6. Table'
  <2>1. SUFFICES ASSUME Current'
                 PROVE  /\ Fits' /\ (~filter.search => Ordered)' /\ Owed'
                        /\ \A r \in pending' : /\ nextBefore' # Forever
                                               /\ r.before = nextBefore'
    BY DEF Table
  <2>2. ~mixed /\ pending = {} /\ pending' = {new}
    BY <1>4, <2>1 DEF Current
  <2>3. Fits /\ (~filter.search => Ordered) /\ Owed
    BY <1>1, <2>2 DEF Table, Current
  <2>4. Fits' /\ (~filter.search => Ordered)' /\ Owed'
    BY <1>2, <2>3 DEF Fits, Ordered, Owed
  <2> QED BY <1>2, <1>5, <2>2, <2>4
<1>7. LogsOK'
  BY <1>2, LogsStay
<1>8. TypeOK'
  BY <1>1, <1>2, <1>4, <1>7 DEF TypeOK, LogsOK
<1> QED BY <1>4, <1>6, <1>7, <1>8 DEF IInv, LogsOK

-----------------------------------------------------------------------------
(* The Log Explorer is answered *)

\* The next page comes after the rows that are there.
LEMMA JoinIs ==
  ASSUME NEW s \in Seq(Entry), NEW t \in Seq(Entry)
  PROVE  /\ s \o t \in Seq(Entry)
         /\ \A i \in DOMAIN (s \o t) :
              \/ i \in DOMAIN s /\ (s \o t)[i] = s[i]
              \/ \E k \in DOMAIN t : i = Len(s) + k /\ (s \o t)[i] = t[k]
         /\ DOMAIN s = 1..Len(s) /\ Len(s) \in Nat /\ DOMAIN t \subseteq Nat \ {0}
<1>1. /\ s \o t \in Seq(Entry)
      /\ Len(s \o t) = Len(s) + Len(t)
      /\ \A i \in 1..Len(s) + Len(t) :
           (s \o t)[i] = IF i <= Len(s) THEN s[i] ELSE t[i - Len(s)]
  BY ConcatProperties
<1>2. /\ Len(s) \in Nat /\ DOMAIN s = 1..Len(s)
      /\ Len(t) \in Nat /\ DOMAIN t = 1..Len(t)
  BY LenProperties
<1>3. DOMAIN (s \o t) = 1..Len(s) + Len(t)
  BY <1>1, LenProperties
<1>4. ASSUME NEW i \in DOMAIN (s \o t)
      PROVE  \/ i \in DOMAIN s /\ (s \o t)[i] = s[i]
             \/ \E k \in DOMAIN t : i = Len(s) + k /\ (s \o t)[i] = t[k]
  <2>1. CASE i <= Len(s)
    BY <1>1, <1>2, <1>3, <2>1
  <2>2. CASE ~(i <= Len(s))
    <3>1. /\ i - Len(s) \in DOMAIN t /\ i = Len(s) + (i - Len(s))
          /\ (s \o t)[i] = t[i - Len(s)]
      BY <1>1, <1>2, <1>3, <2>2
    <3> QED BY <3>1
  <2> QED BY <2>1, <2>2
<1> QED BY <1>1, <1>2, <1>4

\* When an answer leaves the table to one question, it was the answer to the
\* newest request, and the only one on its way.
LEMMA DeliverIs ==
  ASSUME IInv, NEW r \in pending, NEW page \in Seq(Entry),
         NEW next \in 0..Forever, Deliver(r, page, next)
  PROVE  /\ pending' \subseteq Request /\ loading' \in BOOLEAN
         /\ mixed' \in BOOLEAN
         /\ rows' \in Seq(Entry) /\ nextBefore' \in 0..Forever
         /\ Asking'
         /\ r \in Request
         /\ ~mixed' => /\ pending' = {} /\ pending = {r}
                       /\ r = Asked(filter, since, r.before, r.append)
                       /\ mixed => ~r.append
         /\ ~mixed' /\ r.append => Current
<1>1. /\ pending \subseteq Request /\ mixed \in BOOLEAN /\ rows \in Seq(Entry)
      /\ Asking
  BY DEF IInv, TypeOK
<1>2. /\ r \in Request /\ r.newest \in BOOLEAN /\ r.append \in BOOLEAN
  BY <1>1 DEF Request
<1>3. /\ pending' = pending \ {r} /\ loading' = FALSE /\ nextBefore' = next
      /\ rows' = IF r.append THEN rows \o page ELSE page
      /\ mixed' = (mixed /\ ~(r.newest /\ ~r.append /\ pending = {r}))
      /\ filter' = filter /\ since' = since
  BY DEF Deliver
<1>4. rows' \in Seq(Entry)
  BY <1>1, <1>3, JoinIs
<1>5. ~mixed' => /\ pending = {r} /\ r.newest /\ (mixed => ~r.append)
  BY <1>1, <1>3 DEF Asking
<1>6. r.newest => r = Asked(filter, since, r.before, r.append)
  BY <1>1 DEF Asking
<1>7. ~mixed' => pending' = {}
  BY <1>3, <1>5
<1>8. Asking'
  <2>1. \A q \in pending' : q \in pending
    BY <1>3
  <2> QED BY <1>1, <1>3, <1>7, <2>1 DEF Asking
<1>9. ~mixed' /\ r.append => Current
  BY <1>5 DEF Current
<1>10. mixed' \in BOOLEAN
  BY <1>3
<1> QED BY <1>1, <1>2, <1>3, <1>4, <1>5, <1>6, <1>7, <1>8, <1>9, <1>10

\* A page of the tails: after the rows that are there, when it is not the
\* first; what it does not show and does not owe is older or of the time at
\* which it ends.
LEMMA LogsAnswerKeeps ==
  ASSUME IInv, NEW r \in pending, LogsAnswer(r)
  PROVE  IInv'
<1> DEFINE found == Collected(r)
           there == Collected([r EXCEPT !.before = Forever])
           next == NextBefore(found)
           page == Page(found)
<1>1. /\ ~r.search /\ Deliver(r, page, next)
      /\ due' = {e \in IF r.append THEN due \cap there ELSE there :
                   ~mixed' /\ e \notin Elements(page) /\ e.ts # next}
  BY DEF LogsAnswer
<1>2. TypeOK /\ Written /\ Asking /\ Table
  BY DEF IInv
<1>3. r \in Request
  BY <1>2 DEF TypeOK
<1>4. /\ Known(found)
      /\ \A e \in found : /\ e \in Entry
                          /\ Lets(r.apps, e.app) /\ Lets(r.levels, e.level)
                          /\ e.ts >= r.since /\ e.ts < r.until
                          /\ e.ts < r.before
      /\ there \subseteq Entry
      /\ \A e \in there : e.ts < r.before => e \in found
  BY <1>2, <1>3, CollectedIs
<1> HIDE DEF found, there
<1>5. /\ page \in Seq(Entry)
      /\ Elements(page) \subseteq found
      /\ \A i, j \in DOMAIN page : i < j => Newer(page[i], page[j])
      /\ next \in 0..Forever
      /\ next = Forever => found \subseteq Elements(page)
      /\ next # Forever =>
           /\ \E e \in found : e.ts = next
           /\ \A i \in DOMAIN page : page[i].ts >= next
           /\ \A e \in found \ Elements(page) : e.ts <= next
  BY <1>4, PageIs
<1> HIDE DEF next, page
<1>6. /\ pending' \subseteq Request /\ loading' \in BOOLEAN /\ mixed' \in BOOLEAN
      /\ rows' \in Seq(Entry) /\ nextBefore' \in 0..Forever
      /\ Asking'
      /\ ~mixed' => /\ pending' = {} /\ pending = {r}
                    /\ r = Asked(filter, since, r.before, r.append)
      /\ ~mixed' /\ r.append => Current
  BY <1>1, <1>5, DeliverIs
<1>7. /\ rows' = IF r.append THEN rows \o page ELSE page
      /\ nextBefore' = next
      /\ filter' = filter /\ since' = since /\ UNCHANGED logs
  BY <1>1 DEF Deliver
<1>8. LogsOK'
  BY <1>7, LogsStay
<1>9. due' \subseteq Entry
  BY <1>1, <1>2, <1>4 DEF TypeOK
<1>10. TypeOK'
  BY <1>2, <1>6, <1>7, <1>8, <1>9 DEF TypeOK, LogsOK
<1>11. \A i \in DOMAIN page : page[i] \in found
  BY <1>5 DEF Elements
<1>12. Table'
  <2>1. SUFFICES ASSUME Current'
                 PROVE  Fits' /\ Ordered' /\ Owed' /\ pending' = {}
    BY DEF Table
  <2>2. /\ ~mixed' /\ pending' = {} /\ pending = {r}
        /\ r = Asked(filter, since, r.before, r.append)
    BY <1>6, <2>1 DEF Current
  <2>3. /\ filter \in Filters /\ since \in 0..MaxTime
        /\ r.before \in 0..Forever /\ r.append \in BOOLEAN
    BY <1>2, <1>3 DEF TypeOK, Request
  <2>4. /\ r.apps = filter.apps /\ r.levels = filter.levels
        /\ r.since = since /\ r.until = filter.until
        /\ r.search = filter.search
    BY <2>2, <2>3, AskedIs
  <2>5. \A i \in DOMAIN page :
          /\ Lets(filter.apps, page[i].app) /\ Lets(filter.levels, page[i].level)
          /\ page[i].ts >= since
          /\ page[i].ts < filter.until /\ page[i].ts < r.before
          /\ page[i] \in Entry
    BY <1>4, <1>11, <2>4
  <2>6. /\ \A e \in Entry : e.ts \in 0..MaxTime /\ e.app \in Nat /\ e.id \in Nat
        /\ MaxTime \in Nat /\ Forever = MaxTime + 1
    <3>1. App \subseteq Nat /\ MaxTime \in Nat /\ MaxEntries \in Nat
      BY ConstantsAssumption
    <3>2. \A e \in Entry : e.ts \in 0..MaxTime /\ e.app \in App
                           /\ e.id \in 1..MaxEntries
      BY DEF Entry
    <3>3. 1..MaxEntries \subseteq Nat
      BY <3>1
    <3> QED BY <3>1, <3>2, <3>3 DEF Forever
  <2>7. CASE ~r.append
    <3>1. rows' = page /\ r.before = Forever
      BY <1>2, <1>7, <2>7 DEF Asking
    <3>2. Fits'
      BY <1>5, <1>7, <2>5, <3>1 DEF Fits
    <3>3. Ordered'
      BY <1>5, <3>1 DEF Ordered
    <3>4. ASSUME NEW e \in due' PROVE next # Forever /\ e.ts < next
      <4>1. e \in there /\ e \notin Elements(page) /\ e.ts # next /\ e \in Entry
        BY <1>1, <1>4, <2>7, <3>4
      <4>2. e \in found
        BY <1>4, <2>6, <3>1, <4>1
      <4> QED BY <1>5, <2>6, <4>1, <4>2
    <3>5. Owed'
      BY <1>7, <3>4 DEF Owed
    <3> QED BY <2>2, <3>2, <3>3, <3>5
  <2>8. CASE r.append
    <3>1. /\ Current /\ Fits /\ Ordered /\ Owed
          /\ nextBefore # Forever /\ r.before = nextBefore
      BY <1>1, <1>2, <1>6, <2>2, <2>4, <2>8 DEF Table
    <3>2. nextBefore \in 0..Forever /\ rows \in Seq(Entry)
      BY <1>2 DEF TypeOK
    <3>3. rows' = rows \o page
      BY <1>7, <2>8
    <3>4. /\ \A i \in DOMAIN (rows \o page) :
               \/ i \in DOMAIN rows /\ (rows \o page)[i] = rows[i]
               \/ \E k \in DOMAIN page :
                    i = Len(rows) + k /\ (rows \o page)[i] = page[k]
          /\ DOMAIN rows = 1..Len(rows) /\ Len(rows) \in Nat
          /\ DOMAIN page \subseteq Nat \ {0}
      BY <1>5, <3>2, JoinIs
    <3>5. next # Forever => next \in Int /\ next < nextBefore
      BY <1>4, <1>5, <2>6, <3>1, <3>2
    <3>6. \A i \in DOMAIN rows :
            /\ Lets(filter.apps, rows[i].app)
            /\ Lets(filter.levels, rows[i].level)
            /\ rows[i].ts >= since /\ rows[i].ts < filter.until
            /\ rows[i].ts >= nextBefore
            /\ rows[i] \in Entry
      <4>1. \A i \in DOMAIN rows : rows[i] \in Entry
        BY <3>2, <3>4, ElementOfSeq
      <4> QED BY <3>1, <4>1 DEF Fits
    <3>7. Fits'
      <4>1. ASSUME NEW i \in DOMAIN (rows \o page)
            PROVE  /\ Lets(filter.apps, (rows \o page)[i].app)
                   /\ Lets(filter.levels, (rows \o page)[i].level)
                   /\ (rows \o page)[i].ts >= since
                   /\ (rows \o page)[i].ts < filter.until
                   /\ next # Forever => (rows \o page)[i].ts >= next
        <5>1. CASE i \in DOMAIN rows /\ (rows \o page)[i] = rows[i]
          <6>1. next # Forever => rows[i].ts >= next
            BY <2>6, <3>2, <3>5, <3>6, <5>1
          <6> QED BY <3>6, <5>1, <6>1
        <5>2. CASE \E k \in DOMAIN page : (rows \o page)[i] = page[k]
          BY <1>5, <2>5, <5>2
        <5> QED BY <3>4, <5>1, <5>2
      <4> QED BY <1>7, <3>3, <4>1 DEF Fits
    <3>8. Ordered'
      <4>1. ASSUME NEW i \in DOMAIN (rows \o page),
                   NEW j \in DOMAIN (rows \o page), i < j
            PROVE  Newer((rows \o page)[i], (rows \o page)[j])
        <5>1. CASE i \in DOMAIN rows /\ j \in DOMAIN rows
          <6>1. (rows \o page)[i] = rows[i] /\ (rows \o page)[j] = rows[j]
            BY <3>4, <5>1
          <6> QED BY <3>1, <4>1, <5>1, <6>1 DEF Ordered
        <5>2. CASE i \in DOMAIN rows /\ j \notin DOMAIN rows
          <6>1. (rows \o page)[i] = rows[i]
            BY <3>4, <5>2
          <6>2. PICK k \in DOMAIN page : (rows \o page)[j] = page[k]
            BY <3>4, <5>2
          <6>3. rows[i].ts \in Int /\ page[k].ts \in Int /\ nextBefore \in Int
            BY <2>5, <2>6, <3>2, <3>6, <5>2
          <6>4. rows[i].ts > page[k].ts
            BY <2>5, <3>1, <3>6, <5>2, <6>3
          <6> QED BY <6>1, <6>2, <6>4 DEF Newer
        <5>3. CASE i \notin DOMAIN rows
          <6>1. PICK k \in DOMAIN page :
                  i = Len(rows) + k /\ (rows \o page)[i] = page[k]
            BY <3>4, <5>3
          <6>2. j \notin DOMAIN rows
            BY <3>4, <4>1, <6>1
          <6>3. PICK l \in DOMAIN page :
                  j = Len(rows) + l /\ (rows \o page)[j] = page[l]
            BY <3>4, <6>2
          <6>4. k < l
            BY <3>4, <4>1, <6>1, <6>3
          <6> QED BY <1>5, <6>1, <6>3, <6>4
        <5> QED BY <5>1, <5>2, <5>3
      <4> QED BY <3>3, <4>1 DEF Ordered
    <3>9. ASSUME NEW e \in due' PROVE next # Forever /\ e.ts < next
      <4>1. /\ e \in due /\ e \in there /\ e \notin Elements(page)
            /\ e.ts # next /\ e \in Entry
        BY <1>1, <1>4, <2>8, <3>9
      <4>2. e \in found
        BY <1>4, <3>1, <4>1 DEF Owed
      <4> QED BY <1>5, <2>6, <4>1, <4>2
    <3>10. Owed'
      BY <1>7, <3>9 DEF Owed
    <3> QED BY <2>2, <3>7, <3>8, <3>10
  <2> QED BY <2>3, <2>7, <2>8
<1> QED BY <1>6, <1>8, <1>10, <1>12 DEF IInv, LogsOK

\* The entries nearest to a question: they fit, in whatever order.
LEMMA SearchAnswerKeeps ==
  ASSUME IInv, NEW r \in pending, SearchAnswer(r)
  PROVE  IInv'
<1>1. TypeOK /\ Written /\ Asking /\ Table
  BY DEF IInv
<1>2. r \in Request /\ r.search /\ ~r.append /\ due' = {}
  BY <1>1 DEF SearchAnswer, TypeOK, Asking
<1>3. PICK n \in 0..TopK : \E hits \in [1..n -> {e \in Embedded : Matches(e, r)}] :
        Deliver(r, hits, Forever)
  BY DEF SearchAnswer
<1>4. PICK hits \in [1..n -> {e \in Embedded : Matches(e, r)}] :
        Deliver(r, hits, Forever)
  BY <1>3
<1>5. Embedded \subseteq Entry
  <2>1. Entries \subseteq Entry
    BY <1>1, EntriesAre DEF Known
  <2> QED BY <2>1 DEF Embedded, Entries
<1>6. \A i \in 1..n : /\ hits[i] \in Entry
                      /\ Lets(r.apps, hits[i].app)
                      /\ Lets(r.levels, hits[i].level)
                      /\ hits[i].ts >= r.since /\ hits[i].ts < r.until
  BY <1>4, <1>5 DEF Matches
<1>7. hits \in Seq(Entry) /\ DOMAIN hits = 1..n
  <2>1. n \in Nat
    BY <1>3, ConstantsAssumption
  <2>2. hits \in [1..n -> Entry]
    BY <1>4, <1>6
  <2> QED BY <2>1, <2>2
<1>8. Forever \in 0..Forever
  BY ConstantsAssumption DEF Forever
<1>9. /\ pending' \subseteq Request /\ loading' \in BOOLEAN /\ mixed' \in BOOLEAN
      /\ rows' \in Seq(Entry) /\ nextBefore' \in 0..Forever
      /\ Asking'
      /\ ~mixed' => /\ pending' = {}
                    /\ r = Asked(filter, since, r.before, r.append)
  BY <1>4, <1>7, <1>8, DeliverIs
<1>10. /\ rows' = hits /\ nextBefore' = Forever
       /\ filter' = filter /\ since' = since /\ UNCHANGED logs
  BY <1>2, <1>4 DEF Deliver
<1>11. LogsOK'
  BY <1>10, LogsStay
<1>12. TypeOK'
  BY <1>1, <1>2, <1>9, <1>10, <1>11 DEF TypeOK, LogsOK
<1>13. Table'
  <2>1. SUFFICES ASSUME Current'
                 PROVE  Fits' /\ filter'.search /\ Owed' /\ pending' = {}
    BY DEF Table
  <2>2. pending' = {} /\ r = Asked(filter, since, r.before, r.append)
    BY <1>9, <2>1 DEF Current
  <2>3. /\ filter \in Filters /\ since \in 0..MaxTime
        /\ r.before \in 0..Forever /\ r.append \in BOOLEAN
    BY <1>1, <1>2 DEF TypeOK, Request
  <2>4. /\ r.apps = filter.apps /\ r.levels = filter.levels
        /\ r.since = since /\ r.until = filter.until
        /\ r.search = filter.search
    BY <2>2, <2>3, AskedIs
  <2>5. Fits'
    BY <1>6, <1>7, <1>10, <2>4 DEF Fits
  <2> QED BY <1>2, <1>10, <2>2, <2>4, <2>5 DEF Owed
<1> QED BY <1>9, <1>11, <1>12, <1>13 DEF IInv, LogsOK

\* After a first page that did not come, the table is of other filters.
LEMMA FetchFailsKeeps ==
  ASSUME IInv, NEW r \in pending, FetchFails(r)
  PROVE  IInv'
<1>1. TypeOK /\ Asking /\ Table
  BY DEF IInv
<1>2. /\ pending' = pending \ {r} /\ loading' = FALSE
      /\ mixed' = (mixed \/ ~r.append)
      /\ UNCHANGED <<logs, filter, since, rows, nextBefore, due>>
  BY DEF FetchFails
<1>3. ~mixed' => ~mixed /\ r.append /\ pending = {r} /\ pending' = {}
  BY <1>1, <1>2 DEF Asking
<1>4. Asking'
  BY <1>1, <1>2, <1>3 DEF Asking
<1>5. Table'
  <2>1. SUFFICES ASSUME Current'
                 PROVE  /\ Fits' /\ (~filter.search => Ordered)' /\ Owed'
                        /\ pending' = {}
    BY DEF Table
  <2>2. Current /\ pending' = {}
    BY <1>3, <2>1 DEF Current
  <2>3. Fits /\ (~filter.search => Ordered) /\ Owed
    BY <1>1, <2>2 DEF Table
  <2>4. Fits' /\ (~filter.search => Ordered)' /\ Owed'
    BY <1>2, <2>3 DEF Fits, Ordered, Owed
  <2> QED BY <2>2, <2>4
<1>6. LogsOK'
  BY <1>2, LogsStay
<1>7. TypeOK'
  <2>1. pending' \subseteq Request /\ loading' \in BOOLEAN /\ mixed' \in BOOLEAN
    BY <1>1, <1>2 DEF TypeOK
  <2> QED BY <1>1, <1>2, <1>6, <2>1 DEF TypeOK, LogsOK
<1> QED BY <1>4, <1>5, <1>6, <1>7 DEF IInv, LogsOK

-----------------------------------------------------------------------------
(* The theorems *)

LEMMA InitOK == Init => IInv
<1> SUFFICES ASSUME Init PROVE IInv
  OBVIOUS
<1>1. /\ now = 0 /\ written = 0 /\ rolls = 0
      /\ file = [a \in App |-> << >>]
      /\ filter \in Filters /\ since = 0
      /\ rows = << >> /\ nextBefore = Forever /\ loading = TRUE
      /\ pending = {Asked(filter, since, Forever, FALSE)}
      /\ due = {} /\ mixed = FALSE
  BY DEF Init
<1>2. /\ 0 \in 0..MaxTime /\ 0 \in 0..MaxEntries /\ 0 \in 0..MaxRolls
      /\ Forever \in 0..Forever
  BY ConstantsAssumption DEF Forever
<1> DEFINE new == Asked(filter, since, Forever, FALSE)
<1>3. /\ new \in Request /\ new.newest /\ new.before = Forever
      /\ new.append = FALSE
      /\ new = Asked(filter, since, new.before, new.append)
  BY <1>1, <1>2, AskedIs
<1> HIDE DEF new
<1>4. pending = {new}
  BY <1>1 DEF new
<1>5. TypeOK
  <2>1. << >> \in Seq(Entry)
    OBVIOUS
  <2>2. file \in [App -> Seq(Entry)]
    BY <1>1, <2>1
  <2> QED BY <1>1, <1>2, <1>3, <1>4, <2>1, <2>2 DEF TypeOK
<1>6. Written
  <2>1. Entries = {}
    BY <1>1 DEF Entries, Elements
  <2> QED BY <2>1 DEF Written
<1>7. Asking
  BY <1>3, <1>4 DEF Asking
<1>8. Table
  BY <1>3, <1>4 DEF Table, Current
<1> QED BY <1>5, <1>6, <1>7, <1>8 DEF IInv

LEMMA NextOK == IInv /\ [Next]_vars => IInv'
<1> SUFFICES ASSUME IInv, [Next]_vars PROVE IInv'
  OBVIOUS
<1>1. CASE \E a \in App, level \in Level : Write(a, level)
  BY <1>1, AppsKeep
<1>2. CASE \E a \in App : Roll(a)
  BY <1>2, AppsKeep
<1>3. CASE Tick
  BY <1>3, AppsKeep
<1>4. CASE (\E f \in Filters : ChangeFilter(f)) \/ Refresh
  BY <1>4, FirstPageKeeps
<1>5. CASE LoadMore
  BY <1>5, NextPageKeeps
<1>6. CASE \E r \in pending : LogsAnswer(r)
  BY <1>6, LogsAnswerKeeps
<1>7. CASE \E r \in pending : SearchAnswer(r)
  BY <1>7, SearchAnswerKeeps
<1>8. CASE \E r \in pending : FetchFails(r)
  BY <1>8, FetchFailsKeeps
<1>9. CASE UNCHANGED vars
  <2>1. Entries' = Entries
    BY <1>9 DEF Entries, vars, logs
  <2> QED BY <1>9, <2>1 DEF IInv, TypeOK, Written, Asking, Table, Current, Fits,
                            Ordered, Owed, vars, logs, screen, history
<1> QED BY <1>1, <1>2, <1>3, <1>4, <1>5, <1>6, <1>7, <1>8, <1>9 DEF Next

\* The inductive invariant of the readers and of the Log Explorer.
THEOREM Invariance == Spec => []IInv
BY InitOK, NextOK, PTL DEF Spec

\* The state keeps its types: the requests, the rows and the cursor, in
\* particular, are what the routes take and return.
THEOREM TypesHold == Spec => []TypeOK
<1>1. IInv => TypeOK
  BY DEF IInv
<1> QED BY <1>1, Invariance, PTL

\* The table holds what the filters let in, newest first and none twice,
\* whatever the apps write and roll between its pages (logs.py,
\* LogExplorer.tsx); except when answers were overtaken or did not come.
THEOREM TableIsAnswered == Spec => []TableAnswersTheFilter
<1>1. IInv => TableAnswersTheFilter
  <2> SUFFICES ASSUME IInv, pending = {} /\ ~mixed
               PROVE  Fits /\ (~filter.search => Ordered)
    BY DEF TableAnswersTheFilter, Fits, Ordered
  <2>1. Current
    BY DEF Current
  <2> QED BY <2>1 DEF IInv, Table
<1> QED BY <1>1, Invariance, PTL

\* The pages leave nothing out of what was there for the first one, is still
\* in the tails, and is not of the very time at which a page ended (the cursor
\* of logs.py is exclusive).
THEOREM NothingIsOwed == Spec => []NothingIsSkipped
<1>1. IInv => NothingIsSkipped
  <2> SUFFICES ASSUME IInv, pending = {}, ~mixed, nextBefore = Forever
               PROVE  due = {}
    BY DEF NothingIsSkipped
  <2>1. Current
    BY DEF Current
  <2> QED BY <2>1 DEF IInv, Table, Owed
<1> QED BY <1>1, Invariance, PTL

\* Wherever the chunks of tail_lines cut a file, and however long its lines
\* are, the tail is the last lines, whole.
THEOREM TailsAreWhole == Spec => []TailIsTheEnd
<1>1. TypeOK => TailIsTheEnd
  <2> SUFFICES ASSUME TypeOK, NEW a \in App, NEW n \in 0..TailDefault
               PROVE  TailLines(file[a], n) = LastLines(file[a], n)
    BY DEF TailIsTheEnd
  <2>1. file[a] \in Seq(Entry) /\ n \in Nat
    BY ConstantsAssumption DEF TypeOK
  <2> QED BY <2>1, TailIs
<1> QED BY <1>1, TypesHold, PTL

=============================================================================
