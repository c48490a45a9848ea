-------------------------- MODULE LogSeriesProofs ---------------------------
(***************************************************************************)
(* Proofs about the series that LogReads counts: the chart under a status  *)
(* card shows what the card counts, and the days of the corpus are whole   *)
(* days that leave nothing out; for any bucket, window and day.            *)
(***************************************************************************)
EXTENDS LogReadsProofs, FunctionTheorems

-----------------------------------------------------------------------------
(* Division and counting *)

\* The larger of two factors makes the larger product.
LEMMA ProductGrows ==
  ASSUME NEW d \in Nat, NEW a \in Int, NEW b \in Int, a <= b
  PROVE  d * a <= d * b
<1>1. b - a >= 0 /\ d >= 0
  OBVIOUS
<1>2. d * (b - a) >= 0
  BY <1>1
<1>3. d * (b - a) = d * b - d * a
  OBVIOUS
<1>4. d * a \in Int /\ d * b \in Int
  OBVIOUS
<1> QED BY <1>2, <1>3, <1>4

\* The part that a number is in.
LEMMA PartIs ==
  ASSUME NEW d \in Nat \ {0}, NEW a \in Nat
  PROVE  /\ a \div d \in Nat
         /\ d * (a \div d) <= a /\ a < d * (a \div d) + d
         /\ a % d \in 0..d - 1
<1>1. a % d \in 0..d - 1
  OBVIOUS
<1>2. a \div d \in Nat
  OBVIOUS
<1>3. d * (a \div d) <= a /\ a < d * (a \div d) + d
  OBVIOUS
<1> QED BY <1>1, <1>2, <1>3

\* A later number is in no earlier part.
LEMMA PartsGrow ==
  ASSUME NEW d \in Nat \ {0}, NEW a \in Nat, NEW b \in Nat, a <= b
  PROVE  a \div d <= b \div d
<1> DEFINE p == a \div d
           q == b \div d
           x == d * p
           y == d * q
           z == d * (q + 1)
<1>1. /\ p \in Nat /\ q \in Nat
      /\ x <= a /\ b < y + d
  BY PartIs
<1>2. z = y + d
  BY <1>1
<1>3. q + 1 <= p => z <= x
  BY <1>1, ProductGrows
<1>4. x \in Int /\ y \in Int /\ z \in Int
  BY <1>1
<1> HIDE DEF x, y, z
<1>5. ~(q + 1 <= p)
  BY <1>1, <1>2, <1>3, <1>4
<1> QED BY <1>1, <1>5

\* A set that is dealt out to n columns, each drawn as high as the number of
\* its elements, is drawn once.
LEMMA ColumnsAre ==
  ASSUME NEW S, IsFiniteSet(S), NEW n \in Nat, NEW m \in Nat,
         NEW k \in [S -> 1..n], NEW c,
         \A i \in 1..n : c[i] = Cardinality({e \in S : k[e] = i}),
         Cardinality(S) <= m
  PROVE  LET D == {b \in (1..n) \X (1..m) : b[2] <= c[b[1]]}
         IN IsFiniteSet(D) /\ Cardinality(D) = Cardinality(S)
<1> DEFINE D == {b \in (1..n) \X (1..m) : b[2] <= c[b[1]]}
           Column(i) == {e \in S : k[e] = i}
           h(i) == CHOOSE g : g \in Bijection(1..c[i], Column(i))
           f == [b \in D |-> h(b[1])[b[2]]]
<1>1. ASSUME NEW i \in 1..n
      PROVE  c[i] \in Nat /\ c[i] <= m /\ h(i) \in Bijection(1..c[i], Column(i))
  <2>1. Column(i) \in SUBSET S /\ c[i] = Cardinality(Column(i))
    OBVIOUS
  <2> HIDE DEF Column
  <2>2. /\ IsFiniteSet(Column(i))
        /\ Cardinality(Column(i)) <= Cardinality(S)
    BY <2>1, FS_Subset
  <2>3. Cardinality(S) \in Nat /\ Cardinality(Column(i)) \in Nat
    BY <2>2, FS_CardinalityType
  <2>4. ExistsBijection(1..Cardinality(Column(i)), Column(i))
    BY <2>2, FS_CardinalityType
  <2>5. \E g : g \in Bijection(1..c[i], Column(i))
    BY <2>1, <2>4 DEF ExistsBijection
  <2> QED BY <2>1, <2>2, <2>3, <2>5
<1>2. ASSUME NEW i \in 1..n
      PROVE  /\ \A j \in 1..c[i] : h(i)[j] \in Column(i)
             /\ \A j, l \in 1..c[i] : h(i)[j] = h(i)[l] => j = l
             /\ \A e \in Column(i) : \E j \in 1..c[i] : h(i)[j] = e
  <2> HIDE DEF h, Column
  <2> QED BY <1>1, Zenon DEF Bijection, Injection, Surjection, IsInjective
<1>3. \A i \in 1..n : \A e \in Column(i) : e \in S /\ k[e] = i
  OBVIOUS
<1>4. \A e \in S : k[e] \in 1..n /\ e \in Column(k[e])
  OBVIOUS
<1> HIDE DEF h, Column
<1>5. ASSUME NEW b \in D
      PROVE  b = <<b[1], b[2]>> /\ b[1] \in 1..n /\ b[2] \in 1..c[b[1]]
  <2>1. b \in (1..n) \X (1..m) /\ b[2] <= c[b[1]]
    OBVIOUS
  <2>2. b = <<b[1], b[2]>> /\ b[1] \in 1..n /\ b[2] \in 1..m
    BY <2>1
  <2> QED BY <1>1, <2>1, <2>2
<1>6. ASSUME NEW i \in 1..n, NEW j \in 1..c[i] PROVE <<i, j>> \in D
  BY <1>1
<1> HIDE DEF D
<1>7. f \in [D -> S]
  BY <1>2, <1>3, <1>5
<1>8. ASSUME NEW a \in D, NEW b \in D, f[a] = f[b] PROVE a = b
  <2>1. h(a[1])[a[2]] = h(b[1])[b[2]]
    BY <1>8
  <2>2. a[1] = b[1]
    <3>1. /\ h(a[1])[a[2]] \in Column(a[1])
          /\ h(b[1])[b[2]] \in Column(b[1])
      BY <1>2, <1>5
    <3> QED BY <1>3, <1>5, <2>1, <3>1
  <2>3. a[2] = b[2]
    BY <1>2, <1>5, <2>1, <2>2
  <2> QED BY <1>5, <2>2, <2>3
<1>9. ASSUME NEW e \in S PROVE \E b \in D : f[b] = e
  <2>1. PICK j \in 1..c[k[e]] : h(k[e])[j] = e
    BY <1>2, <1>4
  <2>2. <<k[e], j>> \in D
    BY <1>4, <1>6
  <2>3. f[<<k[e], j>>] = e
    BY <2>1, <2>2
  <2> QED BY <2>2, <2>3
<1> HIDE DEF f
<1>10. f \in Bijection(D, S)
  BY <1>7, <1>8, <1>9 DEF Bijection, Injection, Surjection, IsInjective
<1>11. IsFiniteSet(D) /\ Cardinality(D) = Cardinality(S)
  <2>1. ExistsBijection(D, S)
    BY <1>10 DEF ExistsBijection
  <2>2. ExistsBijection(S, D)
    BY <2>1, Fun_ExistsBijSymmetric
  <2> QED BY <2>2, FS_Bijection
<1> QED BY <1>11 DEF D

-----------------------------------------------------------------------------
(* The chart under a card *)

\* The grid ends after now, and no further than one bucket.
LEMMA GridIs ==
  ASSUME TypeOK
  PROVE  /\ HistoryEnd \in Nat
         /\ now < HistoryEnd /\ HistoryEnd <= now + BucketSize
<1>1. now \in Nat /\ BucketSize \in Nat \ {0}
  BY ConstantsAssumption DEF TypeOK
<1>2. now % BucketSize \in 0..BucketSize - 1
  BY <1>1, PartIs
<1> DEFINE m == now % BucketSize
<1>3. m <= now
  <2> DEFINE x == BucketSize * (now \div BucketSize)
  <2>1. x <= now /\ x \in Nat
    BY <1>1, PartIs
  <2>2. now = x + m
    BY <1>1
  <2>3. m \in Nat
    BY <1>1, <1>2
  <2> HIDE DEF x, m
  <2> QED BY <1>1, <2>1, <2>2, <2>3
<1>4. HistoryEnd = (now - m) + BucketSize
  BY DEF HistoryEnd
<1> HIDE DEF m
<1> QED BY <1>1, <1>2, <1>3, <1>4 DEF m

\* An entry of the chart's time is in one of its buckets.
LEMMA BucketIs ==
  ASSUME NEW x \in Nat, x < Hour
  PROVE  (x \div BucketSize) + 1 \in 1..Buckets
<1>1. /\ Buckets \in Nat \ {0} /\ BucketSize \in Nat \ {0}
      /\ Hour = Buckets * BucketSize
  BY ConstantsAssumption
<1> DEFINE q == x \div BucketSize
           y == BucketSize * q
           z == BucketSize * Buckets
<1>2. q \in Nat /\ y <= x /\ y \in Nat
  BY <1>1, PartIs
<1>3. z = Hour /\ z \in Nat
  BY <1>1
<1>4. Buckets <= q => z <= y
  BY <1>1, <1>2, ProductGrows
<1> HIDE DEF y, z
<1>5. ~(Buckets <= q)
  BY <1>2, <1>3, <1>4
<1> QED BY <1>1, <1>2, <1>5

LEMMA ChartAgrees ==
  ASSUME TypeOK, Written
  PROVE  ChartAgreesWithCard
<1> SUFFICES
      ASSUME NEW a \in App, NEW level \in Counted
      PROVE  LET entries == ReadRecent(a)
                 chart == History(entries, level)
                 shown == {b \in (1..Buckets) \X (1..TailDefault) :
                             b[2] <= chart[b[1]]}
                 older == {e \in entries :
                             /\ e.level = level /\ e.ts >= now - Hour
                             /\ e.ts < HistoryEnd - Hour}
             IN Cardinality(shown) + Cardinality(older)
                  = CountInWindow(entries, level, Hour)
  BY DEF ChartAgreesWithCard
<1> DEFINE entries == ReadRecent(a)
           chart == History(entries, level)
           shown == {b \in (1..Buckets) \X (1..TailDefault) :
                       b[2] <= chart[b[1]]}
           start == HistoryEnd - Hour
           older == {e \in entries :
                       /\ e.level = level /\ e.ts >= now - Hour
                       /\ e.ts < start}
           inside == {e \in entries : /\ e.level = level
                                      /\ e.ts >= start /\ e.ts < HistoryEnd}
           window == {e \in entries : e.ts >= now - Hour /\ e.level = level}
           k == [e \in inside |-> ((e.ts - start) \div BucketSize) + 1]
<1>1. /\ now \in Nat /\ HistoryEnd \in Nat /\ Hour \in Nat /\ start \in Int
      /\ Hour = Buckets * BucketSize /\ start = HistoryEnd - Hour
      /\ Buckets \in Nat \ {0} /\ BucketSize \in Nat \ {0} /\ TailDefault \in Nat
  <2>1. /\ Hour \in Nat /\ Buckets \in Nat \ {0} /\ BucketSize \in Nat \ {0}
        /\ TailDefault \in Nat /\ Hour = Buckets * BucketSize
    BY ConstantsAssumption
  <2>2. now \in Nat /\ HistoryEnd \in Nat
    <3>1. MaxTime \in Nat
      BY ConstantsAssumption
    <3>2. now \in 0..MaxTime
      BY DEF TypeOK
    <3> QED BY <3>1, <3>2, GridIs
  <2> QED BY <2>1, <2>2
<1>2. /\ IsFiniteSet(entries) /\ Cardinality(entries) <= TailDefault
      /\ entries \subseteq Entries
  BY ReadIs
<1>3. \A e \in entries : e.ts \in Nat /\ e.ts <= now
  <2>1. \A e \in Entries : e \in Entry /\ e.ts <= now
    BY EntriesAre DEF Known, Written
  <2> QED BY <1>2, <2>1, ConstantsAssumption DEF Entry
<1>4. chart = [i \in 1..Buckets |->
                 Cardinality({e \in inside :
                                (e.ts - start) \div BucketSize = i - 1})]
  <2>1. HistoryEnd - Buckets * BucketSize = start
    BY <1>1
  <2> QED BY <2>1 DEF History
<1>5. window = inside \cup older /\ inside \cap older = {}
  <2>1. now < HistoryEnd /\ HistoryEnd <= now + BucketSize
    BY GridIs
  <2>2. start > now - Hour
    BY <1>1, <2>1
  <2> HIDE DEF entries, start
  <2>3. \A e \in entries : e.ts < HistoryEnd
    BY <1>1, <1>3, <2>1
  <2>4. \A e \in entries : e.ts >= start => e.ts >= now - Hour
    BY <1>1, <1>3, <2>2
  <2>5. \A e \in entries : e.ts >= start <=> ~(e.ts < start)
    BY <1>1, <1>3
  <2> QED BY <2>3, <2>4, <2>5
<1> HIDE DEF entries
<1>6. inside \in SUBSET entries /\ older \in SUBSET entries
  OBVIOUS
<1>7. \A e \in inside : e.ts - start \in Nat /\ e.ts - start < Hour
  <2> HIDE DEF start
  <2> QED BY <1>1, <1>3
<1> HIDE DEF start, older, inside, window, chart
<1>8. k \in [inside -> 1..Buckets]
  BY <1>7, BucketIs
<1>9. ASSUME NEW i \in 1..Buckets
      PROVE  chart[i] = Cardinality({e \in inside : k[e] = i})
  <2>1. \A e \in inside : (e.ts - start) \div BucketSize \in Int
    BY <1>1, <1>7, PartIs
  <2>2. \A e \in inside :
          (e.ts - start) \div BucketSize = i - 1 <=> k[e] = i
    BY <2>1
  <2>3. {e \in inside : (e.ts - start) \div BucketSize = i - 1}
          = {e \in inside : k[e] = i}
    BY <2>2
  <2> QED BY <1>4, <2>3
<1>10. /\ IsFiniteSet(inside) /\ Cardinality(inside) <= Cardinality(entries)
       /\ IsFiniteSet(older)
  BY <1>2, <1>6, FS_Subset
<1>11. /\ Cardinality(inside) \in Nat /\ Cardinality(older) \in Nat
       /\ Cardinality(entries) \in Nat
  BY <1>2, <1>10, FS_CardinalityType
<1>12. Cardinality(inside) <= TailDefault
  BY <1>1, <1>2, <1>10, <1>11
<1> HIDE DEF k
<1>13. Cardinality(shown) = Cardinality(inside)
  BY <1>1, <1>8, <1>9, <1>10, <1>12, ColumnsAre
<1>14. Cardinality(window) = Cardinality(inside) + Cardinality(older)
  <2>1. Cardinality(inside \cup older)
          = Cardinality(inside) + Cardinality(older)
              - Cardinality(inside \cap older)
    BY <1>10, FS_Union
  <2>2. Cardinality(inside \cap older) = 0
    BY <1>5, FS_EmptySet
  <2> QED BY <1>5, <1>11, <2>1, <2>2
<1>15. CountInWindow(entries, level, Hour) = Cardinality(window)
  BY DEF CountInWindow, window
<1>16. Cardinality(shown) + Cardinality(older)
         = CountInWindow(entries, level, Hour)
  BY <1>13, <1>14, <1>15
<1> QED BY <1>16 DEF shown, chart, older, start, entries

-----------------------------------------------------------------------------
(* The days of the corpus *)

LEMMA CorpusIs ==
  ASSUME TypeOK, Written
  PROVE  \A e \in Embedded : e.ts \in Nat /\ e.ts <= now
<1>1. \A e \in Entries : e \in Entry /\ e.ts <= now
  BY EntriesAre DEF Known, Written
<1>2. Embedded \subseteq Entries
  BY DEF Embedded, Entries
<1>3. 0..MaxTime \subseteq Nat
  BY ConstantsAssumption
<1> QED BY <1>1, <1>2, <1>3 DEF Entry

\* A day of the default window does not begin before the window does.
LEMMA WholeDays ==
  ASSUME NEW t \in Nat, NEW n \in Nat, NEW i \in 1..DefaultDays,
         t \div Day = (n \div Day) - DefaultDays + i
  PROVE  t >= n - DefaultDays * Day
<1> DEFINE q == t \div Day
           p == n \div Day
           w == (p - DefaultDays) + 1
           x == Day * q
           y == Day * p
           z == Day * w
           l == DefaultDays * Day
<1>1. Day \in Nat \ {0} /\ DefaultDays \in Nat \ {0}
  BY ConstantsAssumption
<1>2. q \in Nat /\ p \in Nat /\ x <= t /\ n < y + Day
  BY <1>1, PartIs
<1>3. w <= q /\ w \in Int
  BY <1>1, <1>2
<1>4. z <= x
  BY <1>1, <1>2, <1>3, ProductGrows
<1>5. z = (y - l) + Day
  <2>1. Day * ((p - DefaultDays) + 1) = (Day * p - Day * DefaultDays) + Day
    BY <1>1, <1>2
  <2>2. Day * DefaultDays = DefaultDays * Day
    BY <1>1
  <2> QED BY <2>1, <2>2
<1>6. x \in Int /\ y \in Int /\ z \in Int /\ l \in Int
  BY <1>1, <1>2
<1> HIDE DEF x, y, z
<1>7. t >= n - l
  <2> HIDE DEF l
  <2> QED BY <1>1, <1>2, <1>4, <1>5, <1>6
<1> QED BY <1>7

LEMMA DaysAgree ==
  ASSUME TypeOK, Written
  PROVE  DaysAddUp
<1> DEFINE corpus == Embedded
<1>1. now \in Nat /\ Day \in Nat \ {0} /\ DefaultDays \in Nat \ {0}
      /\ MaxDays \in Nat \ {0} /\ Forever \in Nat /\ Forever > now
  <2>1. /\ Day \in Nat \ {0} /\ DefaultDays \in Nat \ {0}
        /\ MaxDays \in Nat \ {0} /\ MaxTime \in Nat
    BY ConstantsAssumption
  <2>2. now \in 0..MaxTime
    BY DEF TypeOK
  <2> QED BY <2>1, <2>2 DEF Forever
<1>2. \A e \in corpus : e.ts \in Nat /\ e.ts <= now
  BY CorpusIs
<1> HIDE DEF corpus
<1>3. ASSUME NEW i \in 1..DefaultDays
      PROVE  LET default == ByDayDefault(corpus)
             IN default[i].count = DayCount(corpus, default[i].day)
  <2> DEFINE d == (now \div Day) - DefaultDays + i
             inside == {e \in corpus : InDefaultWindow(e)}
  <2>1. /\ ByDayDefault(corpus)[i].day = d
        /\ ByDayDefault(corpus)[i].count = DayCount(inside, d)
    BY DEF ByDayDefault
  <2>2. \A e \in corpus : e.ts \div Day = d => InDefaultWindow(e)
    BY <1>1, <1>2, WholeDays DEF InDefaultWindow
  <2> HIDE DEF d
  <2>3. {e \in inside : e.ts \div Day = d} = {e \in corpus : e.ts \div Day = d}
    BY <2>2
  <2>4. DayCount(inside, d) = DayCount(corpus, d)
    BY <2>3 DEF DayCount
  <2> QED BY <2>1, <2>4
<1>4. ASSUME NEW from \in 0..now, NEW to \in 0..Forever, from < to,
             LastDay(to) - (from \div Day) < MaxDays
      PROVE  LET days == ByDay(corpus, from, to)
                 inside == {e \in corpus : e.ts >= from /\ e.ts < to}
             IN \A e \in inside :
                  \E i \in DOMAIN days : days[i].day = e.ts \div Day
  <2> DEFINE days == ByDay(corpus, from, to)
             inside == {e \in corpus : e.ts >= from /\ e.ts < to}
             first == from \div Day
             last == LastDay(to)
             n == last - first + 1
  <2>1. from \in Nat /\ from <= now /\ first \in Nat /\ last \in Nat
        /\ to \in Nat
    BY <1>1, PartIs DEF LastDay
  <2>2. n \in Int /\ n <= MaxDays
    BY <1>1, <1>4, <2>1
  <2>3. from # Ever /\ ~(to <= from)
    BY <1>1, <1>4, <2>1 DEF Ever
  <2>5. days = [i \in 1..n |-> [day |-> first + i - 1,
                                count |-> DayCount(inside, first + i - 1)]]
    <3>1. days = [i \in 1..(IF n > MaxDays THEN MaxDays ELSE n) |->
                    [day |-> first + i - 1,
                     count |-> DayCount(inside, first + i - 1)]]
      BY <2>3 DEF ByDay
    <3>2. (IF n > MaxDays THEN MaxDays ELSE n) = n
      BY <1>1, <2>2
    <3> QED BY <3>1, <3>2
  <2>6. ASSUME NEW e \in inside
        PROVE  \E i \in DOMAIN days : days[i].day = e.ts \div Day
    <3> DEFINE d == e.ts \div Day
    <3>1. e.ts \in Nat /\ from <= e.ts /\ e.ts <= now /\ e.ts <= to
      BY <1>2, <2>1
    <3>2. d \in Nat /\ first <= d /\ d <= last
      BY <1>1, <2>1, <3>1, PartIs, PartsGrow DEF LastDay
    <3> HIDE DEF d, first, last
    <3>3. d - first + 1 \in 1..n /\ first + (d - first + 1) - 1 = d
      BY <2>1, <3>2
    <3>4. days[d - first + 1].day = d /\ d - first + 1 \in DOMAIN days
      BY <2>5, <3>3
    <3> QED BY <3>4 DEF d
  <2> QED BY <2>6
<1> QED BY <1>3, <1>4 DEF DaysAddUp, corpus

-----------------------------------------------------------------------------
(* The theorem *)

\* For any buckets and days: what the chart draws (compute_history_buckets) is
\* what the card counts (_count_in_window) less what is before the first
\* bucket; the days of the default window are whole; and a window with a lower
\* bound that is not of the future, and with an upper bound or none, has a day
\* for each of its entries when it has no more days than are shown
\* (_count_by_day).  A window with an upper bound only, or of more days than
\* are shown, may leave entries out; nothing is said of those.
THEOREM SeriesAgree == Spec => []SeriesAddUp
<1>1. IInv => SeriesAddUp
  BY ChartAgrees, DaysAgree DEF IInv, SeriesAddUp
<1> QED BY <1>1, Invariance, PTL

=============================================================================
