--------------------------- MODULE LogIngestProofs ---------------------------
(***************************************************************************)
(* Proofs about LogIngest, for any length of the log, any headers, batch   *)
(* size and bounds: the types, that the handler goes past no line without  *)
(* embedding it unless its loss has a cause, and that a document is one    *)
(* stretch of the log while no file is rolled.                             *)
(*                                                                         *)
(* First come the sets of positions in ascending order, then what reading, *)
(* folding and filtering do to a stretch of the log, and then the steps.   *)
(***************************************************************************)
EXTENDS LogIngest, SequenceTheorems, FiniteSetTheorems, WellFoundedInduction,
        TLAPS

-----------------------------------------------------------------------------
(* The inductive invariant *)

\* A line read from its beginning to its end.
Whole(l) == [line |-> l, part |-> "whole"]

\* An offset moved to the end of the line it is in, when it is in one.
LineEnd(n) == n + (n % 2)

\* The line is a document, about to be one, or lost for a cause.
Safe(l, ds, bt, ex) ==
  \/ l \in ex
  \/ \E d \in ds : d[1] = Whole(l)
  \/ \E i \in DOMAIN bt : bt[i][1] = Whole(l)

SafeUpTo(n, ds, bt, ex) ==
  \A l \in Wanted : 2 * l <= n => Safe(l, ds, bt, ex)

\* One stretch of the log, of which only the last line may be cut.
Verbatim(d) ==
  \A i \in 1..Len(d) - 1 :
    d[i].part = "whole" /\ d[i + 1].line = d[i].line + 1

\* What the backfill holds was read in one piece, from a file that begins with
\* a line.
Shape ==
  /\ rolled % 2 = 0
  /\ \E a, b \in 0..2 * NumLines : active = ReadLines(a, b)

\* Only an upsert has a batch, and no entry is empty.
Full ==
  /\ pc \notin {"backfill", "adding"} => batch = <<>>
  /\ \A i \in DOMAIN batch : batch[i] # <<>>
  /\ \A d \in docs \cup flush : d # <<>>

\* While no file has been rolled, every entry is verbatim.
Unrolled ==
  rolls = 0 => /\ rolled = 0
               /\ \A d \in docs : Verbatim(d)
               /\ \A i \in DOMAIN batch : Verbatim(batch[i])

\* The reader has lost nothing behind it: the backfill between its two reads,
\* the backfill and the handler before the offset, the handler before the size
\* it is about to read, if the file that had this size is gone.
Behind ==
  /\ pc = "archives" =>
       \A l \in Lines : rolled < 2 * l /\ 2 * l <= rolled + LineEnd(offset) =>
                          l \in WholeLines(active) \cup excused
  /\ pc \in {"backfill"} \cup Watching =>
       SafeUpTo(rolled + LineEnd(offset), docs, batch, excused)
  /\ pc = "read" =>
       /\ offset < size
       /\ \/ rolled + size <= written
          \/ SafeUpTo(rolled + LineEnd(size), docs, batch, excused)

IInv ==
  /\ TypeOK
  /\ Shape
  /\ Full
  /\ Unrolled
  /\ Behind

-----------------------------------------------------------------------------
(* Positions in ascending order *)

\* A set of natural numbers has a least member.
LEMMA LeastNatural ==
  ASSUME NEW S \in SUBSET Nat, S # {}
  PROVE  \E n \in S : \A m \in S : n <= m
<1> DEFINE R == {ss \in Nat \X Nat : ss[1] < ss[2]}
<1>1. \A x, y \in Nat : <<x, y>> \in R <=> x < y
  OBVIOUS
<1>2. IsWellFoundedOn(R, Nat)
  BY NatLessThanWellFounded DEF OpToRel
<1> HIDE DEF R
<1>3. PICK x \in S : \A y \in S : ~ (<<y, x>> \in R)
  BY <1>2, WFMin
<1>4. ASSUME NEW m \in S PROVE x <= m
  <2>1. ~ (<<m, x>> \in R)
    BY <1>3
  <2>2. m \in Nat /\ x \in Nat
    OBVIOUS
  <2>3. ~ (m < x)
    BY <2>1, <2>2, <1>1
  <2> QED BY <2>2, <2>3
<1> QED BY <1>4

\* How many members of a set are no greater than i.
UpTo(S, i) == {j \in S : j <= i}
Rank(S, i) == Cardinality(UpTo(S, i))

\* The rank grows by one at each member and nowhere else.
LEMMA Ranks ==
  ASSUME NEW n \in Nat, NEW S \in SUBSET (1..n)
  PROVE  /\ IsFiniteSet(S) /\ Cardinality(S) \in Nat
         /\ \A i \in 0..n : Rank(S, i) \in Nat /\ Rank(S, i) <= Cardinality(S)
         /\ Rank(S, 0) = 0
         /\ Rank(S, n) = Cardinality(S)
         /\ \A i \in 1..n : Rank(S, i) = IF i \in S THEN Rank(S, i - 1) + 1
                                                    ELSE Rank(S, i - 1)
<1>0. \A j \in S : j \in Nat /\ 1 <= j /\ j <= n
  OBVIOUS
<1>8. \A i, j : j \in UpTo(S, i) <=> j \in S /\ j <= i
  BY DEF UpTo
<1>1. IsFiniteSet(1..n)
  BY FS_Interval
<1>2. IsFiniteSet(S)
  BY <1>1, FS_Subset
<1>3. Cardinality(S) \in Nat
  BY <1>2, FS_CardinalityType
<1>4. ASSUME NEW i \in 0..n
      PROVE  /\ IsFiniteSet(UpTo(S, i))
             /\ Rank(S, i) \in Nat /\ Rank(S, i) <= Cardinality(S)
  <2>1. UpTo(S, i) \in SUBSET S
    BY DEF UpTo
  <2>2. IsFiniteSet(UpTo(S, i)) /\ Rank(S, i) <= Cardinality(S)
    BY <1>2, <2>1, FS_Subset DEF Rank
  <2> QED BY <2>2, FS_CardinalityType DEF Rank
<1>5. Rank(S, 0) = 0
  <2>0. \A j \in S : ~ (j <= 0)
    BY <1>0
  <2>1. \A j : j \notin UpTo(S, 0)
    BY <2>0, <1>8
  <2>2. UpTo(S, 0) = {}
    BY <2>1
  <2> QED BY <2>2, FS_EmptySet DEF Rank
<1>6. Rank(S, n) = Cardinality(S)
  <2>1. UpTo(S, n) = S
    BY <1>0 DEF UpTo
  <2> QED BY <2>1 DEF Rank
<1>7. ASSUME NEW i \in 1..n
      PROVE  Rank(S, i) = IF i \in S THEN Rank(S, i - 1) + 1
                                     ELSE Rank(S, i - 1)
  <2>1. i - 1 \in 0..n
    OBVIOUS
  <2>2. IsFiniteSet(UpTo(S, i - 1))
    BY <1>4, <2>1
  <2>3. CASE i \in S
    <3>1. UpTo(S, i) = UpTo(S, i - 1) \cup {i} /\ i \notin UpTo(S, i - 1)
      <4>1. i \notin UpTo(S, i - 1)
        BY DEF UpTo
      <4>2. \A j \in S : j <= i <=> j <= i - 1 \/ j = i
        BY <1>0
      <4>3. \A j : j \in UpTo(S, i) <=> j \in UpTo(S, i - 1) \cup {i}
        BY <2>3, <4>2, <1>8, ZenonT(30)
      <4> QED BY <4>1, <4>3
    <3> QED BY <2>2, <2>3, <3>1, FS_AddElement DEF Rank
  <2>4. CASE i \notin S
    <3>1. \A j \in S : j # i
      BY <2>4
    <3>2. \A j \in S : j <= i <=> j <= i - 1
      BY <1>0, <3>1
    <3>3. \A j : j \in UpTo(S, i) <=> j \in UpTo(S, i - 1)
      BY <3>2, <1>8, Zenon
    <3>4. UpTo(S, i) = UpTo(S, i - 1)
      <4>1. \A A, B : (\A j : j \in A <=> j \in B) => A = B
        OBVIOUS
      <4> QED BY <3>3, <4>1
    <3> QED BY <2>4, <3>4 DEF Rank
  <2> QED BY <2>3, <2>4
<1> QED BY <1>2, <1>3, <1>4, <1>5, <1>6, <1>7

\* Members of different size have different ranks.
LEMMA RankIsOwn ==
  ASSUME NEW n \in Nat, NEW S \in SUBSET (1..n),
         NEW i \in S, NEW j \in S, Rank(S, i) = Rank(S, j)
  PROVE  i = j
<1>0. \A x \in S : x \in Nat
  OBVIOUS
<1>1. ASSUME NEW a \in S, NEW b \in S, a < b, Rank(S, a) = Rank(S, b)
      PROVE  FALSE
  <2>1. IsFiniteSet(UpTo(S, b))
    <3>1. UpTo(S, b) \in SUBSET S
      BY DEF UpTo
    <3> QED BY <3>1, Ranks, FS_Subset
  <2>2. UpTo(S, a) \in SUBSET UpTo(S, b)
    <3>1. ASSUME NEW x \in UpTo(S, a) PROVE x \in UpTo(S, b)
      <4>1. x \in S /\ x <= a
        BY DEF UpTo
      <4>2. x <= b
        BY <1>0, <1>1, <4>1
      <4> QED BY <4>1, <4>2 DEF UpTo
    <3> QED BY <3>1
  <2>3. UpTo(S, b) = UpTo(S, a)
    BY <1>1, <2>1, <2>2, FS_Subset DEF Rank
  <2>4. b \in UpTo(S, b) /\ b \notin UpTo(S, a)
    BY <1>0, <1>1 DEF UpTo
  <2> QED BY <2>3, <2>4
<1>2. i < j \/ j < i \/ i = j
  BY <1>0
<1> QED BY <1>1, <1>2

\* There is a member of every rank up to the cardinality.
LEMMA RankIsTaken ==
  ASSUME NEW n \in Nat, NEW S \in SUBSET (1..n), NEW k \in 1..Cardinality(S)
  PROVE  \E i \in S : Rank(S, i) = k
<1> DEFINE T == {i \in 0..n : k <= Rank(S, i)}
<1>1. k \in Nat /\ 1 <= k /\ k <= Cardinality(S)
  BY Ranks
<1>2. n \in T
  BY <1>1, Ranks
<1>3. PICK i \in T : \A j \in T : i <= j
  <2>1. T \in SUBSET Nat /\ T # {}
    BY <1>2
  <2> HIDE DEF T
  <2> QED BY <2>1, LeastNatural
<1>4. i \in 0..n /\ k <= Rank(S, i)
  BY <1>3
<1>5. i # 0
  BY <1>1, <1>4, Ranks
<1>6. i \in 1..n /\ i - 1 \in 0..n
  BY <1>4, <1>5
<1>7. i - 1 \notin T
  BY <1>3, <1>6
<1>8. ~ (k <= Rank(S, i - 1))
  BY <1>6, <1>7
<1>9. /\ Rank(S, i) \in Nat /\ Rank(S, i - 1) \in Nat
      /\ Rank(S, i) = IF i \in S THEN Rank(S, i - 1) + 1 ELSE Rank(S, i - 1)
  BY <1>6, Ranks
<1> HIDE DEF T
<1>10. i \in S /\ Rank(S, i) = k
  BY <1>1, <1>4, <1>8, <1>9
<1> QED BY <1>10

\* InOrder lists each member of a set once, the member of rank k at k.
LEMMA InOrderIs ==
  ASSUME NEW n \in Nat, NEW S \in SUBSET (1..n)
  PROVE  /\ Cardinality(S) \in Nat
         /\ DOMAIN InOrder(S) = 1..Cardinality(S)
         /\ \A k \in 1..Cardinality(S) :
              InOrder(S)[k] \in S /\ Rank(S, InOrder(S)[k]) = k
         /\ \A i \in S : Rank(S, i) \in 1..Cardinality(S)
         /\ \A i \in S : InOrder(S)[Rank(S, i)] = i
<1>1. Cardinality(S) \in Nat
  BY Ranks
<1>2. DOMAIN InOrder(S) = 1..Cardinality(S)
  BY DEF InOrder
<1>3. ASSUME NEW k \in 1..Cardinality(S)
      PROVE  InOrder(S)[k] \in S /\ Rank(S, InOrder(S)[k]) = k
  <2>1. \E i \in S : Rank(S, i) = k
    BY RankIsTaken
  <2>2. InOrder(S)[k] = CHOOSE i \in S : Rank(S, i) = k
    BY DEF InOrder, Rank, UpTo
  <2> QED BY <2>1, <2>2
<1>4. ASSUME NEW i \in S
      PROVE  Rank(S, i) \in 1..Cardinality(S) /\ InOrder(S)[Rank(S, i)] = i
  <2>1. i \in 1..n /\ i - 1 \in 0..n /\ i \in 0..n
    OBVIOUS
  <2>2. /\ Rank(S, i) \in Nat /\ Rank(S, i - 1) \in Nat
        /\ Rank(S, i) = Rank(S, i - 1) + 1
        /\ Rank(S, i) <= Cardinality(S)
    BY <2>1, Ranks
  <2>3. Rank(S, i) \in 1..Cardinality(S)
    BY <1>1, <2>2
  <2>4. /\ InOrder(S)[Rank(S, i)] \in S
        /\ Rank(S, InOrder(S)[Rank(S, i)]) = Rank(S, i)
    BY <1>3, <2>3
  <2> QED BY <2>3, <2>4, RankIsOwn
<1> QED BY <1>1, <1>2, <1>3, <1>4

\* What a sequence has at the positions of a set: nothing else, nothing less.
LEMMA PickedIs ==
  ASSUME NEW X, NEW s \in Seq(X), NEW S \in SUBSET (DOMAIN s)
  PROVE  /\ Picked(s, S) \in Seq(X)
         /\ DOMAIN Picked(s, S) = 1..Cardinality(S)
         /\ Len(Picked(s, S)) = Cardinality(S)
         /\ Cardinality(S) \in Nat
         /\ \A k \in 1..Cardinality(S) :
              InOrder(S)[k] \in S /\ Picked(s, S)[k] = s[InOrder(S)[k]]
         /\ \A k \in DOMAIN Picked(s, S) : \E i \in S : Picked(s, S)[k] = s[i]
         /\ \A i \in S : \E k \in DOMAIN Picked(s, S) : Picked(s, S)[k] = s[i]
<1> DEFINE n == Len(s)
           q == Picked(s, S)
           c == Cardinality(S)
<1>1. n \in Nat /\ DOMAIN s = 1..n /\ \A i \in 1..n : s[i] \in X
  BY LenProperties, ElementOfSeq
<1>2. S \in SUBSET (1..n)
  BY <1>1
<1> HIDE DEF n
<1>3. /\ c \in Nat
      /\ DOMAIN InOrder(S) = 1..c
      /\ \A k \in 1..c : InOrder(S)[k] \in S
      /\ \A i \in S : Rank(S, i) \in 1..c /\ InOrder(S)[Rank(S, i)] = i
  BY <1>1, <1>2, InOrderIs
<1> HIDE DEF c
<1>4. DOMAIN q = 1..c /\ \A k \in 1..c : q[k] = s[InOrder(S)[k]]
  BY <1>3 DEF Picked
<1>5. q \in [1..c -> X]
  <2>1. q = [k \in 1..c |-> s[InOrder(S)[k]]]
    BY <1>3 DEF Picked
  <2>2. \A k \in 1..c : s[InOrder(S)[k]] \in X
    BY <1>1, <1>2, <1>3
  <2> QED BY <2>1, <2>2
<1> HIDE DEF q
<1>6. q \in Seq(X) /\ Len(q) = c
  BY <1>3, <1>5
<1>7. \A k \in DOMAIN q : \E i \in S : q[k] = s[i]
  BY <1>3, <1>4
<1>8. \A i \in S : \E k \in DOMAIN q : q[k] = s[i]
  BY <1>3, <1>4
<1> QED BY <1>3, <1>4, <1>6, <1>7, <1>8 DEF q, c

\* A stretch of positions is listed from its first to its last.
LEMMA StretchInOrder ==
  ASSUME NEW j \in Nat, NEW m \in Nat, j <= m
  PROVE  /\ Cardinality(j + 1..m) = m - j
         /\ \A k \in 1..m - j : InOrder(j + 1..m)[k] = j + k
<1> DEFINE S == j + 1..m
<1>1. S \in SUBSET (1..m)
  OBVIOUS
<1>2. Cardinality(S) = m - j
  <2>1. j + 1 \in Int /\ m \in Int
    OBVIOUS
  <2>2. Cardinality(S) = IF j + 1 > m THEN 0 ELSE m - (j + 1) + 1
    BY <2>1, FS_Interval
  <2> HIDE DEF S
  <2> QED BY <2>2
<1>3. ASSUME NEW i \in S PROVE Rank(S, i) = i - j
  <2>1. UpTo(S, i) = j + 1..i
    BY DEF UpTo
  <2>2. i \in Int /\ j + 1 \in Int /\ ~ (j + 1 > i)
    OBVIOUS
  <2>3. Cardinality(j + 1..i) = i - (j + 1) + 1
    BY <2>2, FS_Interval
  <2> QED BY <2>1, <2>2, <2>3 DEF Rank
<1>4. ASSUME NEW k \in 1..m - j PROVE InOrder(S)[k] = j + k
  <2>1. j + k \in S /\ (j + k) - j = k
    OBVIOUS
  <2>2. Rank(S, j + k) = k
    BY <1>3, <2>1
  <2> HIDE DEF S
  <2>3. InOrder(S)[Rank(S, j + k)] = j + k
    BY <1>1, <2>1, InOrderIs
  <2> QED BY <2>2, <2>3
<1> QED BY <1>2, <1>4

-----------------------------------------------------------------------------
(* A stretch of the log *)

\* What is read between two positions: consecutive lines, of which only the
\* first may lack its beginning and only the last its end, and among them every
\* line that lies between the positions.
LEMMA ReadIs ==
  ASSUME NEW a \in Nat, NEW b \in 0..2 * NumLines
  PROVE  /\ ReadLines(a, b) \in Seq(Pieces)
         /\ \A i \in DOMAIN ReadLines(a, b) :
              ReadLines(a, b)[i].line = (a \div 2) + i
         /\ \A i \in DOMAIN ReadLines(a, b) :
              /\ i > 1 => ReadLines(a, b)[i].part # "tail"
              /\ i < Len(ReadLines(a, b)) => ReadLines(a, b)[i].part # "head"
         /\ \A l \in Lines : a < 2 * l - 1 /\ 2 * l <= b =>
              \E i \in DOMAIN ReadLines(a, b) : ReadLines(a, b)[i] = Whole(l)
         /\ a >= b => ReadLines(a, b) = <<>>
<1> DEFINE p == ReadLines(a, b)
           first == (a \div 2) + 1
           last == (b + 1) \div 2
           n == last - first + 1
<1>1. NumLines \in Nat
  BY ConstantsAssumption
<1>2. b \in Nat /\ b <= 2 * NumLines
  BY <1>1
<1>3. CASE a >= b
  <2>1. p = <<>>
    BY <1>2, <1>3 DEF ReadLines
  <2>2. p \in Seq(Pieces) /\ DOMAIN p = {}
    BY <2>1
  <2>3. \A l \in Lines : ~ (a < 2 * l - 1 /\ 2 * l <= b)
    BY <1>1, <1>2, <1>3 DEF Lines
  <2> QED BY <2>1, <2>2, <2>3
<1>4. CASE ~(a >= b)
  <2>1. p = [i \in 1..n |-> Piece(first + i - 1, a, b)]
    BY <1>2, <1>4 DEF ReadLines
  <2>2. /\ first \in Nat /\ first >= 1 /\ first = (a \div 2) + 1
        /\ last \in Nat /\ last <= NumLines /\ first <= last
        /\ 2 * first - 2 <= a /\ a <= 2 * first - 1
        /\ 2 * last - 1 <= b /\ b <= 2 * last
    BY <1>1, <1>2, <1>4
  <2> HIDE DEF p, first, last
  <2>3. n \in Nat /\ \A i \in 1..n : first + i - 1 \in Lines
    BY <1>1, <2>2 DEF Lines
  <2>4. \A l \in Lines : /\ Piece(l, a, b) \in Pieces
                         /\ Piece(l, a, b).line = l
    BY DEF Piece, Pieces
  <2>5. \A l \in Lines :
          /\ Piece(l, a, b).part = "tail" => 2 * l - 1 <= a
          /\ Piece(l, a, b).part = "head" => 2 * l > b
          /\ ~ (2 * l - 1 <= a) /\ ~ (2 * l > b) => Piece(l, a, b) = Whole(l)
    BY DEF Piece, Whole
  <2>6. p \in [1..n -> Pieces] /\ DOMAIN p = 1..n
    BY <2>1, <2>3, <2>4
  <2>7. p \in Seq(Pieces) /\ Len(p) = n
    BY <2>3, <2>6
  <2>8. \A i \in 1..n : /\ p[i] = Piece(first + i - 1, a, b)
                        /\ p[i].line = first + i - 1
    BY <2>1, <2>3, <2>4
  <2>9. ASSUME NEW i \in 1..n
        PROVE  /\ i > 1 => p[i].part # "tail"
               /\ i < n => p[i].part # "head"
    <3>1. /\ p[i].part = "tail" => 2 * (first + i - 1) - 1 <= a
          /\ p[i].part = "head" => 2 * (first + i - 1) > b
      BY <2>3, <2>5, <2>8
    <3>2. i > 1 => ~ (2 * (first + i - 1) - 1 <= a)
      BY <2>2
    <3>3. i < n => ~ (2 * (first + i - 1) > b)
      BY <1>2, <2>2
    <3> QED BY <3>1, <3>2, <3>3
  <2>10. ASSUME NEW l \in Lines, a < 2 * l - 1, 2 * l <= b
         PROVE  \E i \in 1..n : p[i] = Whole(l)
    <3>1. l \in Nat
      BY <1>1 DEF Lines
    <3>2. l - first + 1 \in 1..n /\ first + (l - first + 1) - 1 = l
      BY <1>2, <2>2, <2>10, <3>1
    <3>3. ~ (2 * l - 1 <= a) /\ ~ (2 * l > b)
      BY <1>2, <2>10, <3>1
    <3>4. Piece(l, a, b) = Whole(l)
      BY <2>5, <3>3
    <3>5. p[l - first + 1] = Piece(first + (l - first + 1) - 1, a, b)
      BY <2>8, <3>2
    <3>6. p[l - first + 1] = Whole(l)
      BY <3>2, <3>4, <3>5
    <3> QED BY <3>2, <3>6
  <2>11. \A i \in 1..n : p[i].line = (a \div 2) + i
    BY <2>2, <2>8
  <2> HIDE DEF n
  <2> QED BY <1>4, <2>6, <2>7, <2>9, <2>10, <2>11 DEF p
<1> QED BY <1>3, <1>4

\* The lines a text holds from beginning to end.
LEMMA WholeLinesAre ==
  ASSUME NEW p \in Seq(Pieces), NEW l
  PROVE  l \in WholeLines(p) <=> \E i \in DOMAIN p : p[i] = Whole(l)
<1>1. \A i \in DOMAIN p : p[i] \in Pieces
  BY LenProperties, ElementOfSeq
<1>2. \A e \in Pieces : e.part = "whole" <=> e = Whole(e.line)
  BY DEF Pieces, Whole
<1>3. Whole(l).line = l /\ Whole(l).part = "whole"
  BY DEF Whole
<1>4. l \in WholeLines(p) <=>
        \E i \in DOMAIN p : p[i].part = "whole" /\ p[i].line = l
  BY DEF WholeLines
<1> QED BY <1>1, <1>2, <1>3, <1>4

\* The text of the entry whose raw line is e.
EntryOf(p, e) == <<e>> \o (IF Multiline THEN Trace(p, e) ELSE <<>>)

\* The lines attached to an entry are lines of the text.
LEMMA TraceIs ==
  ASSUME NEW p \in Seq(Pieces), NEW e
  PROVE  Trace(p, e) \in Seq(Pieces)
<1> DEFINE S == {i \in DOMAIN p :
                   \E j \in DOMAIN p : p[j] = e /\ Continues(p, i, j)}
<1>1. S \in SUBSET DOMAIN p
  OBVIOUS
<1>2. Trace(p, e) = Picked(p, S)
  BY DEF Trace
<1> HIDE DEF S
<1> QED BY <1>1, <1>2, PickedIs

\* An entry begins with its raw line.
LEMMA EntryIs ==
  ASSUME NEW p \in Seq(Pieces), NEW e \in Pieces
  PROVE  /\ EntryOf(p, e) \in Seq(Pieces)
         /\ EntryOf(p, e) # <<>>
         /\ EntryOf(p, e)[1] = e
<1> DEFINE t == IF Multiline THEN Trace(p, e) ELSE <<>>
           h == <<e>>
<1>1. t \in Seq(Pieces)
  BY TraceIs
<1>2. h \in Seq(Pieces) /\ Len(h) = 1 /\ h[1] = e
  OBVIOUS
<1>3. EntryOf(p, e) = h \o t
  BY DEF EntryOf
<1> HIDE DEF t, h
<1>4. Len(t) \in Nat
  BY <1>1, LenProperties
<1>5. /\ h \o t \in Seq(Pieces)
      /\ Len(h \o t) = 1 + Len(t)
      /\ \A i \in 1..1 + Len(t) :
           (h \o t)[i] = IF i <= 1 THEN h[i] ELSE t[i - 1]
  <2>1. /\ h \o t \in Seq(Pieces)
        /\ Len(h \o t) = Len(h) + Len(t)
        /\ \A i \in 1..Len(h) + Len(t) :
             (h \o t)[i] = IF i <= Len(h) THEN h[i] ELSE t[i - Len(h)]
    BY <1>1, <1>2, ConcatProperties
  <2> QED BY <1>2, <2>1
<1>6. 1 \in 1..1 + Len(t)
  BY <1>4
<1>7. (h \o t)[1] = e
  BY <1>2, <1>5, <1>6
<1>8. h \o t # <<>>
  BY <1>4, <1>5, EmptySeq
<1> QED BY <1>3, <1>5, <1>7, <1>8

\* The entries that pass are those of the wanted lines that parse, and each of
\* these has one.
LEMMA PassingIs ==
  ASSUME NEW p \in Seq(Pieces)
  PROVE  /\ Passing(p) \in Seq(Seq(Pieces))
         /\ \A k \in DOMAIN Passing(p) : \E j \in DOMAIN p :
              Parses(p[j]) /\ Passing(p)[k] = EntryOf(p, p[j])
         /\ \A j \in DOMAIN p : Parses(p[j]) /\ p[j].line \in Wanted =>
              \E k \in DOMAIN Passing(p) : Passing(p)[k] = EntryOf(p, p[j])
<1> DEFINE H == {i \in DOMAIN p : Parses(p[i])}
           heads == Picked(p, H)
           all == Entries(p)
           W == {k \in DOMAIN all : all[k][1].line \in Wanted}
           n == Cardinality(H)
<1>1. H \in SUBSET DOMAIN p
  OBVIOUS
<1>2. \A i \in DOMAIN p : i \in H <=> Parses(p[i])
  OBVIOUS
<1>3. all = [k \in DOMAIN heads |-> EntryOf(p, heads[k])]
  BY DEF Entries, EntryOf
<1>4. Passing(p) = Picked(all, W)
  BY DEF Passing
<1>5. \A k \in DOMAIN all : k \in W <=> all[k][1].line \in Wanted
  OBVIOUS
<1>6. W \in SUBSET DOMAIN all
  OBVIOUS
<1> HIDE DEF H, all, W
<1>7. /\ heads \in Seq(Pieces)
      /\ DOMAIN heads = 1..n
      /\ n \in Nat
      /\ \A k \in DOMAIN heads : \E i \in H : heads[k] = p[i]
      /\ \A i \in H : \E k \in DOMAIN heads : heads[k] = p[i]
  BY <1>1, PickedIs
<1> HIDE DEF heads, n
<1>8. \A k \in 1..n : heads[k] \in Pieces
  BY <1>7, LenProperties, ElementOfSeq
<1>9. DOMAIN all = 1..n /\ \A k \in 1..n : all[k] = EntryOf(p, heads[k])
  BY <1>3, <1>7
<1>10. \A k \in 1..n : all[k] \in Seq(Pieces) /\ all[k][1] = heads[k]
  <2>1. ASSUME NEW k \in 1..n
        PROVE  all[k] \in Seq(Pieces) /\ all[k][1] = heads[k]
    <3>1. heads[k] \in Pieces /\ all[k] = EntryOf(p, heads[k])
      BY <1>8, <1>9
    <3> QED BY <3>1, EntryIs
  <2> QED BY <2>1
<1>11. all \in Seq(Seq(Pieces))
  <2>1. all \in [1..n -> Seq(Pieces)]
    BY <1>3, <1>7, <1>9, <1>10
  <2> QED BY <1>7, <2>1
<1>12. /\ Picked(all, W) \in Seq(Seq(Pieces))
       /\ \A k \in DOMAIN Picked(all, W) :
            \E i \in W : Picked(all, W)[k] = all[i]
       /\ \A i \in W :
            \E k \in DOMAIN Picked(all, W) : Picked(all, W)[k] = all[i]
  <2> DEFINE X == Seq(Pieces)
  <2>1. all \in Seq(X)
    BY <1>11
  <2> HIDE DEF X
  <2>2. /\ Picked(all, W) \in Seq(X)
        /\ \A k \in DOMAIN Picked(all, W) :
             \E i \in W : Picked(all, W)[k] = all[i]
        /\ \A i \in W :
             \E k \in DOMAIN Picked(all, W) : Picked(all, W)[k] = all[i]
    BY <1>6, <2>1, PickedIs
  <2> QED BY <2>2 DEF X
<1>13. ASSUME NEW k \in DOMAIN Passing(p)
       PROVE  \E j \in DOMAIN p :
                Parses(p[j]) /\ Passing(p)[k] = EntryOf(p, p[j])
  <2>1. PICK i \in W : Passing(p)[k] = all[i]
    BY <1>4, <1>12
  <2>2. i \in 1..n
    BY <1>6, <1>9
  <2>3. PICK j \in H : heads[i] = p[j]
    BY <1>7, <2>2
  <2> QED BY <1>1, <1>2, <1>9, <2>1, <2>2, <2>3
<1>14. ASSUME NEW j \in DOMAIN p, Parses(p[j]), p[j].line \in Wanted
       PROVE  \E k \in DOMAIN Passing(p) : Passing(p)[k] = EntryOf(p, p[j])
  <2>1. j \in H
    BY <1>2, <1>14
  <2>2. PICK i \in 1..n : heads[i] = p[j]
    BY <1>7, <2>1
  <2>3. i \in W
    BY <1>5, <1>9, <1>10, <1>14, <2>2
  <2> QED BY <1>4, <1>9, <1>12, <2>2, <2>3
<1> QED BY <1>4, <1>12, <1>13, <1>14

\* A set of positions of a sequence has a greatest member.
LEMMA LastPosition ==
  ASSUME NEW n \in Nat, NEW S \in SUBSET (1..n), S # {}
  PROVE  \E m \in S : \A j \in S : j <= m
<1> DEFINE T == {k \in Nat : n - k \in S}
<1>1. PICK s \in S : TRUE
  OBVIOUS
<1>2. n - s \in T
  <2>1. s \in 1..n
    BY <1>1
  <2>2. n - s \in Nat /\ n - (n - s) = s
    BY <2>1
  <2> QED BY <1>1, <2>2
<1>3. PICK k \in T : \A l \in T : k <= l
  BY <1>2, LeastNatural
<1>4. ASSUME NEW j \in S PROVE j <= n - k
  <2>1. j \in 1..n
    OBVIOUS
  <2>2. n - j \in Nat /\ n - (n - j) = j
    BY <2>1
  <2>3. n - j \in T
    BY <2>2
  <2>4. k <= n - j /\ k \in Nat
    BY <1>3, <2>3
  <2> QED BY <2>1, <2>4
<1> QED BY <1>3, <1>4

\* In a stretch of the log, the continuations of an entry are the lines that
\* follow it, up to some line.
LEMMA TraceIsStretch ==
  ASSUME NEW a \in Nat, NEW b \in 0..2 * NumLines,
         NEW j \in DOMAIN ReadLines(a, b), Parses(ReadLines(a, b)[j])
  PROVE  \E m \in j..Len(ReadLines(a, b)) :
           Trace(ReadLines(a, b), ReadLines(a, b)[j]) =
             Picked(ReadLines(a, b), j + 1..m)
<1> DEFINE p == ReadLines(a, b)
           n == Len(p)
           T == {i \in DOMAIN p : Continues(p, i, j)}
           U == {i \in DOMAIN p :
                   \E k \in DOMAIN p : p[k] = p[j] /\ Continues(p, i, k)}
<1>1. n \in Nat /\ DOMAIN p = 1..n
  BY ReadIs, LenProperties
<1>2. \A k \in 1..n : p[k] = p[j] => k = j
  <2> DEFINE c == a \div 2
  <2>1. \A k \in 1..n : p[k].line = c + k
    BY <1>1, ReadIs
  <2>2. c \in Nat /\ j \in 1..n
    BY <1>1
  <2> HIDE DEF p, n, c
  <2>3. ASSUME NEW k \in 1..n, p[k] = p[j] PROVE k = j
    <3>1. c + k = c + j
      BY <2>1, <2>2, <2>3
    <3> QED BY <1>1, <2>2, <3>1
  <2> QED BY <2>3
<1>3. Trace(p, p[j]) = Picked(p, U)
  BY DEF Trace
<1>4. U = T
  BY <1>1, <1>2
<1>5. \A i : i \in T <=> /\ i \in 1..n
                         /\ j < i /\ ~Parses(p[i])
                         /\ \A k \in j + 1..i - 1 : ~Parses(p[k])
  <2>1. Parses(p[j])
    OBVIOUS
  <2> QED BY <1>1, <2>1, Zenon DEF Continues
<1>6. j \in 1..n
  BY <1>1
<1> HIDE DEF p, n, T, U
<1>7. CASE T = {}
  <2>1. j + 1..j = {} /\ j \in j..n
    BY <1>1, <1>6
  <2> QED BY <1>3, <1>4, <1>7, <2>1 DEF p, n
<1>8. CASE T # {}
  <2>1. T \in SUBSET (1..n)
    BY <1>5
  <2>2. PICK m \in T : \A i \in T : i <= m
    BY <1>1, <1>8, <2>1, LastPosition
  <2>3. /\ m \in 1..n /\ j < m /\ ~Parses(p[m])
        /\ \A k \in j + 1..m - 1 : ~Parses(p[k])
    BY <1>5, <2>2
  <2>4. ASSUME NEW i \in T PROVE i \in j + 1..m
    BY <1>1, <1>5, <1>6, <2>2, <2>3
  <2>5. ASSUME NEW i \in j + 1..m PROVE i \in T
    <3>1. i \in 1..n /\ j < i
      BY <1>1, <1>6, <2>3
    <3>2. i = m \/ i \in j + 1..m - 1
      BY <1>1, <1>6, <2>3
    <3>3. ~Parses(p[i])
      BY <2>3, <3>2
    <3>4. \A k \in j + 1..i - 1 : k \in j + 1..m - 1
      BY <1>1, <1>6, <2>3
    <3>5. \A k \in j + 1..i - 1 : ~Parses(p[k])
      BY <2>3, <3>4
    <3> QED BY <1>5, <3>1, <3>3, <3>5
  <2>6. T = j + 1..m
    BY <2>4, <2>5
  <2>7. m \in j..n
    BY <1>1, <1>6, <2>3
  <2> QED BY <1>3, <1>4, <2>6, <2>7 DEF p, n
<1> QED BY <1>7, <1>8

\* The entries of a stretch of the log are verbatim.
LEMMA StretchIsVerbatim ==
  ASSUME NEW a \in Nat, NEW b \in 0..2 * NumLines,
         NEW j \in DOMAIN ReadLines(a, b), Parses(ReadLines(a, b)[j])
  PROVE  Verbatim(EntryOf(ReadLines(a, b), ReadLines(a, b)[j]))
<1> DEFINE p == ReadLines(a, b)
           n == Len(p)
           e == p[j]
           c == a \div 2
           t == IF Multiline THEN Trace(p, e) ELSE <<>>
           h == <<e>>
           d == EntryOf(p, e)
<1>1. /\ p \in Seq(Pieces)
      /\ n \in Nat /\ DOMAIN p = 1..n
      /\ \A i \in 1..n : p[i] \in Pieces
      /\ \A i \in 1..n : p[i].line = c + i
      /\ \A i \in 1..n : /\ i > 1 => p[i].part # "tail"
                         /\ i < n => p[i].part # "head"
  BY ReadIs, LenProperties, ElementOfSeq
<1>2. j \in 1..n /\ c \in Nat
  BY <1>1
<1>3. e.part # "tail" /\ e \in Pieces
  <2>1. Parses(e)
    OBVIOUS
  <2>2. e \in Pieces
    BY <1>1, <1>2
  <2> HIDE DEF e
  <2> QED BY <2>1, <2>2 DEF Parses
<1>4. PICK m \in j..n : Trace(p, e) = Picked(p, j + 1..m)
  BY TraceIsStretch
<1>5. d = h \o t
  BY DEF EntryOf
<1>6. h \in Seq(Pieces) /\ Len(h) = 1 /\ h[1] = e
  BY <1>3
<1>7. e = p[j]
  OBVIOUS
<1>8. t = IF Multiline THEN Picked(p, j + 1..m) ELSE <<>>
  BY <1>4
<1> HIDE DEF p, n, e, c, t, h, d
<1>9. \E q \in j..m : /\ t \in Seq(Pieces)
                      /\ Len(t) = q - j
                      /\ \A k \in 1..q - j : t[k] = p[j + k]
  <2>1. CASE Multiline
    <3>1. j + 1..m \in SUBSET DOMAIN p /\ j \in Nat /\ m \in Nat /\ j <= m
      BY <1>1, <1>2
    <3>2. /\ Cardinality(j + 1..m) = m - j
          /\ \A k \in 1..m - j : InOrder(j + 1..m)[k] = j + k
      BY <3>1, StretchInOrder
    <3> DEFINE S == j + 1..m
    <3>3. /\ Picked(p, S) \in Seq(Pieces)
          /\ Len(Picked(p, S)) = m - j
          /\ \A k \in 1..m - j : Picked(p, S)[k] = p[InOrder(S)[k]]
      <4>1. S \in SUBSET DOMAIN p /\ Cardinality(S) = m - j
        BY <3>1, <3>2
      <4> HIDE DEF S
      <4> QED BY <1>1, <4>1, PickedIs
    <3>4. \A k \in 1..m - j : Picked(p, S)[k] = p[j + k]
      BY <3>2, <3>3
    <3>5. m \in j..m
      BY <3>1
    <3> QED BY <1>8, <2>1, <3>3, <3>4, <3>5
  <2>2. CASE ~Multiline
    <3>1. t = <<>> /\ t \in Seq(Pieces) /\ Len(t) = 0
      BY <1>8, <2>2
    <3>2. j \in j..m /\ j - j = 0 /\ 1..0 = {}
      BY <1>1, <1>2
    <3> QED BY <3>1, <3>2
  <2> QED BY <2>1, <2>2
<1>10. PICK q \in j..m : /\ t \in Seq(Pieces)
                         /\ Len(t) = q - j
                         /\ \A k \in 1..q - j : t[k] = p[j + k]
  BY <1>9
<1>11. q \in Nat /\ j <= q /\ q <= n
  BY <1>1, <1>2
<1>12. /\ Len(h \o t) = 1 + (q - j)
       /\ \A i \in 1..1 + (q - j) :
            (h \o t)[i] = IF i <= 1 THEN h[i] ELSE t[i - 1]
  <2>1. /\ Len(h \o t) = Len(h) + Len(t)
        /\ \A i \in 1..Len(h) + Len(t) :
             (h \o t)[i] = IF i <= Len(h) THEN h[i] ELSE t[i - Len(h)]
    BY <1>6, <1>10, ConcatProperties
  <2> QED BY <1>6, <1>10, <2>1
<1>13. ASSUME NEW i \in 1..1 + (q - j) PROVE d[i] = p[j + i - 1]
  <2>1. CASE i = 1
    <3>1. j + i - 1 = j
      BY <1>2, <2>1
    <3> QED BY <1>5, <1>6, <1>7, <1>12, <2>1, <3>1
  <2>2. CASE i # 1
    <3>1. i - 1 \in 1..q - j /\ ~ (i <= 1) /\ j + (i - 1) = j + i - 1
      BY <1>2, <1>11, <2>2
    <3>2. d[i] = t[i - 1]
      BY <1>5, <1>12, <3>1
    <3>3. t[i - 1] = p[j + (i - 1)]
      BY <1>10, <3>1
    <3> QED BY <3>1, <3>2, <3>3
  <2> QED BY <2>1, <2>2
<1>14. ASSUME NEW i \in 1..Len(d) - 1
       PROVE  d[i].part = "whole" /\ d[i + 1].line = d[i].line + 1
  <2>1. Len(d) - 1 = q - j
    BY <1>5, <1>11, <1>12, <1>2
  <2>2. i \in 1..q - j
    BY <2>1
  <2>3. /\ i \in 1..1 + (q - j) /\ i + 1 \in 1..1 + (q - j)
        /\ j + i - 1 \in 1..n /\ j + i \in 1..n /\ j + i - 1 < n
        /\ j + (i + 1) - 1 = j + i
        /\ i # 1 => j + i - 1 > 1
        /\ i = 1 => j + i - 1 = j
    BY <1>1, <1>2, <1>11, <2>2
  <2>4. d[i] = p[j + i - 1] /\ d[i + 1] = p[j + i]
    BY <1>13, <2>3
  <2>5. p[j + i - 1].part # "tail" /\ p[j + i - 1].part # "head"
    BY <1>1, <1>3, <1>7, <2>3
  <2>6. p[j + i - 1].part = "whole"
    <3>1. p[j + i - 1] \in Pieces
      BY <1>1, <2>3
    <3> QED BY <2>5, <3>1 DEF Pieces
  <2>7. p[j + i].line = p[j + i - 1].line + 1
    <3>1. p[j + i].line = c + (j + i) /\ p[j + i - 1].line = c + (j + i - 1)
      BY <1>1, <2>3
    <3> QED BY <1>2, <2>2, <3>1
  <2> QED BY <2>4, <2>6, <2>7
<1>15. Verbatim(d)
  BY <1>14 DEF Verbatim
<1> QED BY <1>15 DEF d, e, p

\* Filtering: no entry is empty, a whole wanted line has one, and those of a
\* stretch of the log are verbatim.
LEMMA PassingHolds ==
  ASSUME NEW p \in Seq(Pieces)
  PROVE  /\ Passing(p) \in Seq(Seq(Pieces))
         /\ \A k \in DOMAIN Passing(p) : Passing(p)[k] # <<>>
         /\ \A l \in Wanted : l \in WholeLines(p) =>
              \E k \in DOMAIN Passing(p) : Passing(p)[k][1] = Whole(l)
<1>1. \A j \in DOMAIN p : p[j] \in Pieces
  BY LenProperties, ElementOfSeq
<1>2. ASSUME NEW k \in DOMAIN Passing(p) PROVE Passing(p)[k] # <<>>
  <2>1. PICK j \in DOMAIN p : Passing(p)[k] = EntryOf(p, p[j])
    BY PassingIs
  <2> QED BY <1>1, <2>1, EntryIs
<1>3. ASSUME NEW l \in Wanted, l \in WholeLines(p)
      PROVE  \E k \in DOMAIN Passing(p) : Passing(p)[k][1] = Whole(l)
  <2>1. PICK j \in DOMAIN p : p[j] = Whole(l)
    BY <1>3, WholeLinesAre
  <2>2. Parses(p[j]) /\ p[j].line \in Wanted
    <3>1. l \in Headers
      BY ConstantsAssumption
    <3> QED BY <2>1, <3>1 DEF Parses, Whole
  <2>3. PICK k \in DOMAIN Passing(p) : Passing(p)[k] = EntryOf(p, p[j])
    BY <2>2, PassingIs
  <2>4. Passing(p)[k][1] = p[j]
    BY <1>1, <2>3, EntryIs
  <2> QED BY <2>1, <2>4
<1> QED BY <1>2, <1>3, PassingIs

LEMMA PassingIsVerbatim ==
  ASSUME NEW a \in Nat, NEW b \in 0..2 * NumLines,
         NEW k \in DOMAIN Passing(ReadLines(a, b))
  PROVE  Verbatim(Passing(ReadLines(a, b))[k])
<1>1. ReadLines(a, b) \in Seq(Pieces)
  BY ReadIs
<1>2. PICK j \in DOMAIN ReadLines(a, b) :
        /\ Parses(ReadLines(a, b)[j])
        /\ Passing(ReadLines(a, b))[k]
             = EntryOf(ReadLines(a, b), ReadLines(a, b)[j])
  BY <1>1, PassingIs
<1> QED BY <1>2, StretchIsVerbatim

\* The whole lines of a stretch that begins with or in a line.
LEMMA WholeLinesOfRead ==
  ASSUME NEW a \in Nat, NEW b \in 0..2 * NumLines, NEW l \in Lines,
         LineEnd(a) < 2 * l, 2 * l <= b
  PROVE  l \in WholeLines(ReadLines(a, b))
<1>1. l \in Nat
  BY DEF Lines
<1>2. a < 2 * l - 1
  BY <1>1 DEF LineEnd
<1>3. \E i \in DOMAIN ReadLines(a, b) : ReadLines(a, b)[i] = Whole(l)
  BY <1>2, ReadIs
<1> QED BY <1>3, ReadIs, WholeLinesAre

-----------------------------------------------------------------------------
(* The app and its files *)

\* What the types say of the numbers.
LEMMA Numbers ==
  ASSUME TypeOK
  PROVE  /\ NumLines \in Nat
         /\ written \in Nat /\ written <= 2 * NumLines
         /\ rolled \in Nat /\ rolled <= written
         /\ zipped \in Nat /\ zipped <= rolled
         /\ offset \in Nat /\ size \in Nat
         /\ \A l \in Lines : l \in Nat
         /\ Wanted \subseteq Lines
  BY ConstantsAssumption DEF TypeOK, Lines

\* Nothing of what the invariant says of the readers depends on these steps.
LEMMA FilesKeep ==
  ASSUME IInv, Write \/ Zip
  PROVE  IInv'
<1>1. TypeOK /\ Shape /\ Full /\ Unrolled /\ Behind
  BY DEF IInv
<1>2. /\ written' \in {written, written + 1} /\ written' \in 0..2 * NumLines
      /\ zipped' \in {zipped, rolled}
      /\ dirty' \in BOOLEAN
      /\ UNCHANGED <<rolled, pc, active, offset, size, batch, docs, flush,
                     excused, rolls, faults, starts, flushes>>
  <2>1. CASE Write
    BY <1>1, <2>1, Numbers DEF Write, TypeOK, bounds
  <2>2. CASE Zip
    BY <1>1, <2>2, Numbers DEF Zip, TypeOK, bounds
  <2> QED BY <2>1, <2>2
<1>3. TypeOK'
  BY <1>1, <1>2, Numbers DEF TypeOK
<1>4. Shape' /\ Full' /\ Unrolled'
  BY <1>1, <1>2 DEF Shape, Full, Unrolled
<1>5. Behind'
  <2>1. rolled + size <= written => rolled' + size' <= written'
    BY <1>1, <1>2, Numbers
  <2> QED BY <1>1, <1>2, <2>1 DEF Behind
<1> QED BY <1>3, <1>4, <1>5 DEF IInv

\* The lines between two positions.
LEMMA BetweenAre ==
  ASSUME NEW a, NEW b, NEW l \in Lines, a < 2 * l, 2 * l <= b
  PROVE  l \in Between(a, b)
  BY DEF Between

\* More lines excused: what was safe is safe.
LEMMA MoreExcused ==
  ASSUME NEW n \in Nat, NEW m \in Nat, NEW ds, NEW bt, NEW ex, NEW more,
         SafeUpTo(n, ds, bt, ex),
         \A l \in Wanted : n < 2 * l /\ 2 * l <= m => l \in more,
         Wanted \subseteq Nat
  PROVE  SafeUpTo(m, ds, bt, ex \cup more)
<1>1. ASSUME NEW l \in Wanted, 2 * l <= m
      PROVE  Safe(l, ds, bt, ex \cup more)
  <2>1. CASE 2 * l <= n
    BY <2>1 DEF SafeUpTo, Safe
  <2>2. CASE ~(2 * l <= n)
    <3>1. l \in more
      BY <1>1, <2>2
    <3> QED BY <3>1 DEF Safe
  <2> QED BY <2>1, <2>2
<1> QED BY <1>1 DEF SafeUpTo

\* A roll excuses what its reader will not see, or not whole.
LEMMA RollKeeps ==
  ASSUME IInv, Roll
  PROVE  IInv'
<1> DEFINE stale == IF pc = "read" THEN size ELSE offset
           more == Between(rolled + offset, written + stale + (stale % 2))
<1>1. TypeOK /\ Shape /\ Full /\ Unrolled /\ Behind
  BY DEF IInv
<1>2. /\ rolls < MaxRolls
      /\ rolled < written /\ written % 2 = 0
      /\ rolled' = written
      /\ zipped' \in {zipped, written}
      /\ excused' = excused \cup more
      /\ rolls' = rolls + 1
      /\ UNCHANGED <<written, pc, active, offset, size, batch, dirty, docs,
                     flush, faults, starts, flushes>>
  BY DEF Roll
<1>3. /\ stale \in Nat
      /\ pc = "read" => stale = size /\ offset < size
      /\ pc # "read" => stale = offset
  BY <1>1, Numbers DEF Behind
<1>4. more \subseteq Lines
  BY DEF Between
<1>5. \A l \in Lines : rolled + offset < 2 * l
                       /\ 2 * l <= written + LineEnd(stale) => l \in more
  <2>1. written + LineEnd(stale) = written + stale + (stale % 2)
    BY <1>1, <1>3, Numbers DEF LineEnd
  <2> QED BY <2>1 DEF Between
<1> HIDE DEF more, stale
<1>6. rolls \in Nat /\ rolls' # 0 /\ rolls' \in 0..MaxRolls
  BY <1>1, <1>2, ConstantsAssumption DEF TypeOK
<1>7. TypeOK'
  <2>1. /\ written' \in 0..2 * NumLines
        /\ rolled' \in 0..written' /\ zipped' \in 0..rolled'
    BY <1>1, <1>2, Numbers
  <2>2. excused' \subseteq Lines
    BY <1>1, <1>2, <1>4 DEF TypeOK
  <2> QED BY <1>1, <1>2, <1>6, <2>1, <2>2 DEF TypeOK
<1>8. Shape' /\ Full' /\ Unrolled'
  BY <1>1, <1>2, <1>6 DEF Shape, Full, Unrolled
<1>9. /\ LineEnd(offset) \in Nat /\ offset <= LineEnd(offset)
      /\ LineEnd(stale) \in Nat /\ LineEnd(size) \in Nat
      /\ LineEnd(offset) <= LineEnd(stale)
      /\ pc = "read" => LineEnd(stale) = LineEnd(size)
  BY <1>1, <1>3, Numbers DEF LineEnd
<1>10. ASSUME pc = "archives", NEW l \in Lines, rolled' < 2 * l,
              2 * l <= rolled' + LineEnd(offset)
       PROVE  l \in WholeLines(active) \cup (excused \cup more)
  <2>1. CASE 2 * l <= rolled + LineEnd(offset)
    <3>1. rolled < 2 * l
      BY <1>1, <1>2, <1>10, Numbers
    <3> QED BY <1>1, <1>10, <2>1, <3>1 DEF Behind
  <2>2. CASE ~(2 * l <= rolled + LineEnd(offset))
    <3>1. rolled + offset < 2 * l /\ 2 * l <= written + LineEnd(stale)
      BY <1>1, <1>2, <1>9, <1>10, <2>2, Numbers
    <3> QED BY <1>5, <3>1
  <2> QED BY <2>1, <2>2
<1>11. ASSUME pc \in {"backfill"} \cup Watching
       PROVE  SafeUpTo(written + LineEnd(stale), docs, batch, excused \cup more)
  <2> DEFINE n == rolled + LineEnd(offset)
             m == written + LineEnd(stale)
  <2>1. n \in Nat /\ m \in Nat /\ Wanted \subseteq Nat
    BY <1>1, <1>9, Numbers
  <2>2. \A l \in Wanted : n < 2 * l /\ 2 * l <= m => l \in more
    BY <1>1, <1>5, <1>9, Numbers
  <2>3. SafeUpTo(n, docs, batch, excused)
    BY <1>1, <1>11 DEF Behind
  <2> HIDE DEF n, m
  <2>4. SafeUpTo(m, docs, batch, excused \cup more)
    BY <2>1, <2>2, <2>3, MoreExcused
  <2> QED BY <2>4 DEF m
<1>12. pc # "read" => LineEnd(stale) = LineEnd(offset)
  BY <1>3
<1>13. pc = "read" =>
         SafeUpTo(written + LineEnd(offset), docs, batch, excused \cup more)
  <2>1. \A l \in Wanted : 2 * l <= written + LineEnd(offset)
                            => 2 * l <= written + LineEnd(stale)
    BY <1>1, <1>9, Numbers
  <2> QED BY <1>11, <2>1 DEF SafeUpTo, Watching
<1>14. Behind'
  <2>1. pc \in {"backfill"} \cup Watching =>
          SafeUpTo(written + LineEnd(offset), docs, batch, excused \cup more)
    BY <1>11, <1>12, <1>13
  <2>2. pc = "read" =>
          /\ offset < size
          /\ SafeUpTo(written + LineEnd(size), docs, batch, excused \cup more)
    BY <1>3, <1>9, <1>11 DEF Watching
  <2> QED BY <1>2, <1>10, <2>1, <2>2 DEF Behind
<1> QED BY <1>7, <1>8, <1>14 DEF IInv

-----------------------------------------------------------------------------
(* The backfill *)

LEMMA NothingRead == ReadLines(0, 0) = <<>> /\ 0 \in 0..2 * NumLines
<1>1. 0 \in 0..2 * NumLines /\ 0 \in Nat
  BY ConstantsAssumption
<1> QED BY <1>1, ReadIs

\* Steps of the threads that only end something: no claim is made of what
\* comes after, or the same as before.
LEMMA ThreadsKeep ==
  ASSUME IInv, \/ Start \/ ArchiveTruncated \/ BackfillAddFails \/ StartWatcher
               \/ TickAborted \/ Added
  PROVE  IInv'
<1>1. TypeOK /\ Shape /\ Full /\ Unrolled /\ Behind
  BY DEF IInv
<1>2. /\ \/ pc' \in {"active", "failed"}
         \/ pc \in {"backfill"} \cup Watching /\ pc' = "idle"
      /\ batch' = batch \/ batch' = <<>>
      /\ pc' \notin {"backfill", "adding"} /\ batch' = <<>>
      /\ active' \in {active, <<>>}
      /\ pc' = "idle" => batch' = batch
      /\ dirty' \in BOOLEAN
      /\ faults' \in 0..MaxFaults /\ starts' \in 0..MaxStarts
      /\ UNCHANGED <<fileVars, offset, size, docs, flush, excused, rolls,
                     flushes>>
  <2>1. CASE Start
    BY <1>1, <2>1, ConstantsAssumption DEF Start, TypeOK, Full, Watching
  <2>2. CASE ArchiveTruncated
    BY <1>1, <2>2 DEF ArchiveTruncated, BackfillFails, TypeOK, bounds, Watching
  <2>3. CASE BackfillAddFails
    BY <1>1, <2>3, ConstantsAssumption
      DEF BackfillAddFails, BackfillFails, Fault, TypeOK, Watching
  <2>4. CASE StartWatcher
    BY <1>1, <2>4 DEF StartWatcher, TypeOK, bounds, Watching
  <2>5. CASE TickAborted
    BY <1>1, <2>5, ConstantsAssumption
      DEF TickAborted, Fault, TypeOK, Full, Watching
  <2>6. CASE Added
    BY <1>1, <2>6 DEF Added, TypeOK, bounds, Watching
  <2> QED BY <2>1, <2>2, <2>3, <2>4, <2>5, <2>6
<1>3. TypeOK'
  <2>1. pc' \in {"active", "failed", "idle"}
    BY <1>2
  <2>2. active' \in Seq(Pieces) /\ batch' \in Seq(Seq(Pieces))
    <3>1. \A X : <<>> \in Seq(X)
      OBVIOUS
    <3>2. active \in Seq(Pieces)
      BY <1>1 DEF TypeOK
    <3>3. active' = active \/ active' = <<>>
      BY <1>2
    <3> QED BY <1>2, <3>1, <3>2, <3>3
  <2>3. /\ written' = written /\ rolled' = rolled /\ zipped' = zipped
        /\ offset' = offset /\ size' = size /\ docs' = docs /\ flush' = flush
        /\ excused' = excused /\ rolls' = rolls /\ flushes' = flushes
    BY <1>2 DEF fileVars
  <2>4. /\ dirty' \in BOOLEAN
        /\ faults' \in 0..MaxFaults /\ starts' \in 0..MaxStarts
    BY <1>2
  <2> QED BY <1>1, <2>1, <2>2, <2>3, <2>4 DEF TypeOK, Watching
<1>4. Shape'
  <2>1. ReadLines(0, 0) = <<>> /\ 0 \in 0..2 * NumLines
    BY NothingRead
  <2> QED BY <1>1, <1>2, <2>1 DEF Shape, fileVars
<1>5. Full' /\ Unrolled'
  BY <1>1, <1>2 DEF Full, Unrolled, fileVars
<1>6. Behind'
  BY <1>1, <1>2 DEF Behind, fileVars, Watching
<1> QED BY <1>3, <1>4, <1>5, <1>6 DEF IInv

\* The size of the active file is noted; nothing is read yet.
LEMMA StatActiveKeeps ==
  ASSUME IInv, StatActive
  PROVE  IInv'
<1>1. TypeOK /\ Shape /\ Full /\ Unrolled /\ Behind
  BY DEF IInv
<1>2. /\ pc = "active" /\ pc' = "opening"
      /\ size' = written - rolled
      /\ UNCHANGED <<fileVars, active, offset, batch, dirty, docs, flush,
                     excused, bounds>>
  BY DEF StatActive
<1>3. size' \in 0..2 * NumLines
  BY <1>1, <1>2, Numbers
<1>4. TypeOK'
  BY <1>1, <1>2, <1>3 DEF TypeOK, fileVars, bounds
<1>5. Shape' /\ Full' /\ Unrolled' /\ Behind'
  BY <1>1, <1>2 DEF Shape, Full, Unrolled, Behind, fileVars, bounds, Watching
<1> QED BY <1>4, <1>5 DEF IInv

\* The active file is read to the size, and the lines that are cut or gone with
\* the file that had this size are excused.
LEMMA ReadActiveKeeps ==
  ASSUME IInv, ReadActive \/ ActiveUnreadable
  PROVE  IInv'
<1>1. TypeOK /\ Shape /\ Full /\ Unrolled /\ Behind
  BY DEF IInv
<1>2. /\ pc \in {"active", "opening"} /\ pc' = "archives"
      /\ faults' \in 0..MaxFaults
      /\ UNCHANGED <<fileVars, size, batch, dirty, docs, flush, rolls, starts,
                     flushes>>
  BY <1>1, ConstantsAssumption
    DEF ReadActive, ActiveUnreadable, Fault, TypeOK, bounds
<1>3. /\ rolled % 2 = 0
      /\ rolled \in 0..2 * NumLines /\ written \in 0..2 * NumLines
      /\ 0 \in 0..2 * NumLines
  BY <1>1, Numbers DEF Shape
<1>4. /\ \E a, b \in 0..2 * NumLines : active' = ReadLines(a, b)
      /\ active' \in Seq(Pieces)
      /\ offset' \in 0..2 * NumLines
      /\ excused' \subseteq Lines
      /\ \A l \in Lines : rolled < 2 * l /\ 2 * l <= rolled + LineEnd(offset')
           => l \in WholeLines(active') \cup excused'
  <2>1. CASE ReadActive
    <3> DEFINE end == IF rolled + size < written THEN rolled + size ELSE written
    <3>1. /\ active' = ReadLines(rolled, end)
          /\ offset' = size
          /\ excused' = Between(end, rolled + size + (size % 2))
      BY <2>1 DEF ReadActive
    <3>2. end \in 0..2 * NumLines /\ rolled <= end
      BY <1>1, <1>3, Numbers
    <3> HIDE DEF end
    <3>3. active' \in Seq(Pieces)
      BY <1>1, <1>3, <3>1, <3>2, ReadIs, Numbers
    <3>4. offset' \in 0..2 * NumLines /\ excused' \subseteq Lines
      BY <1>1, <3>1 DEF Between, TypeOK
    <3>5. ASSUME NEW l \in Lines, rolled < 2 * l,
                 2 * l <= rolled + LineEnd(offset')
          PROVE  l \in WholeLines(active') \cup excused'
      <4>1. CASE 2 * l <= end
        <5>1. LineEnd(rolled) < 2 * l /\ rolled \in Nat /\ end \in Nat
          BY <1>1, <1>3, <3>2, <3>5, Numbers DEF LineEnd
        <5>2. l \in WholeLines(ReadLines(rolled, end))
          BY <3>2, <4>1, <5>1, WholeLinesOfRead
        <5> QED BY <3>1, <5>2
      <4>2. CASE ~(2 * l <= end)
        <5>1. /\ l \in Nat /\ rolled \in Nat /\ size \in Nat /\ end \in Nat
              /\ 2 * l <= rolled + LineEnd(size)
          BY <1>1, <3>1, <3>2, <3>5, Numbers
        <5>2. 2 * l <= rolled + size + (size % 2) /\ end < 2 * l
          BY <4>2, <5>1 DEF LineEnd
        <5> QED BY <3>1, <5>2, BetweenAre
      <4> QED BY <4>1, <4>2
    <3> QED BY <1>3, <3>1, <3>2, <3>3, <3>4, <3>5
  <2>2. CASE ActiveUnreadable
    <3>1. active' = <<>> /\ offset' = 0 /\ excused' = {}
      BY <2>2 DEF ActiveUnreadable
    <3>2. ReadLines(0, 0) = <<>> /\ active' \in Seq(Pieces)
      BY <1>3, <3>1, ReadIs
    <3>3. rolled + LineEnd(0) = rolled
      BY <1>1, Numbers DEF LineEnd
    <3>4. \A l \in Lines : ~ (rolled < 2 * l /\ 2 * l <= rolled)
      BY <1>1, Numbers
    <3> QED BY <1>3, <3>1, <3>2, <3>3, <3>4
  <2> QED BY <2>1, <2>2
<1>5. TypeOK'
  BY <1>1, <1>2, <1>4 DEF TypeOK, fileVars
<1>6. Shape' /\ Full' /\ Unrolled'
  BY <1>1, <1>2, <1>4 DEF Shape, Full, Unrolled, fileVars
<1>7. Behind'
  BY <1>2, <1>4 DEF Behind, fileVars, Watching
<1> QED BY <1>5, <1>6, <1>7 DEF IInv

\* What was read of the archives and of the active file is filtered and about
\* to be embedded; a line in neither has been excused.
LEMMA EmbedKeeps ==
  ASSUME IInv, ReadArchives \/ ArchiveUnreadable
  PROVE  IInv'
<1>1. TypeOK /\ Shape /\ Full /\ Unrolled /\ Behind
  BY DEF IInv
<1>2. PICK upTo \in {0, zipped} : Embed(upTo)
  BY DEF ReadArchives, ArchiveUnreadable, Found
<1>3. /\ pc = "archives"
      /\ faults' \in 0..MaxFaults
      /\ UNCHANGED <<fileVars, offset, size, dirty, docs, flush, rolls, starts,
                     flushes>>
  BY <1>1, ConstantsAssumption
    DEF ReadArchives, ArchiveUnreadable, Fault, TypeOK, bounds
<1> DEFINE old == ReadLines(0, upTo)
           all == old \o active
<1>4. /\ batch' = Passing(all)
      /\ excused' = (excused \cup Between(upTo, rolled)) \ WholeLines(all)
      /\ active' = <<>>
      /\ pc' = "backfill"
  BY <1>2 DEF Embed
<1>5. upTo \in 0..2 * NumLines /\ upTo <= rolled /\ 0 \in Nat
  BY <1>1, Numbers
<1>6. old \in Seq(Pieces) /\ active \in Seq(Pieces) /\ all \in Seq(Pieces)
  BY <1>1, <1>5, ReadIs, ConcatProperties DEF TypeOK
<1>7. \A l : l \in WholeLines(old) \/ l \in WholeLines(active)
               => l \in WholeLines(all)
  <2>1. /\ Len(old) \in Nat /\ DOMAIN old = 1..Len(old)
        /\ Len(active) \in Nat /\ DOMAIN active = 1..Len(active)
        /\ Len(all) \in Nat /\ DOMAIN all = 1..Len(all)
    BY <1>6, LenProperties
  <2>2. /\ Len(all) = Len(old) + Len(active)
        /\ \A i \in 1..Len(old) + Len(active) : all[i] =
             IF i <= Len(old) THEN old[i] ELSE active[i - Len(old)]
    BY <1>6, ConcatProperties
  <2> HIDE DEF old, all
  <2>3. ASSUME NEW l, l \in WholeLines(old) PROVE l \in WholeLines(all)
    <3>1. PICK i \in 1..Len(old) : old[i] = Whole(l)
      BY <1>6, <2>1, <2>3, WholeLinesAre
    <3>2. i \in 1..Len(old) + Len(active) /\ i <= Len(old)
      BY <2>1
    <3>3. i \in DOMAIN all /\ all[i] = Whole(l)
      BY <2>1, <2>2, <3>1, <3>2
    <3> QED BY <1>6, <3>3, WholeLinesAre
  <2>4. ASSUME NEW l, l \in WholeLines(active) PROVE l \in WholeLines(all)
    <3>1. PICK i \in 1..Len(active) : active[i] = Whole(l)
      BY <1>6, <2>1, <2>4, WholeLinesAre
    <3>2. /\ Len(old) + i \in 1..Len(old) + Len(active)
          /\ ~ (Len(old) + i <= Len(old))
          /\ (Len(old) + i) - Len(old) = i
      BY <2>1
    <3>3. Len(old) + i \in DOMAIN all /\ all[Len(old) + i] = Whole(l)
      BY <2>1, <2>2, <3>1, <3>2
    <3> QED BY <1>6, <3>3, WholeLinesAre
  <2> QED BY <2>3, <2>4
<1>8. \A l \in Lines : 2 * l <= upTo => l \in WholeLines(old)
  <2>1. LineEnd(0) = 0
    BY DEF LineEnd
  <2>2. ASSUME NEW l \in Lines, 2 * l <= upTo PROVE l \in WholeLines(old)
    <3>1. LineEnd(0) < 2 * l
      BY <2>1 DEF Lines
    <3> QED BY <1>5, <2>2, <3>1, WholeLinesOfRead
  <2> QED BY <2>2
<1>9. /\ Passing(all) \in Seq(Seq(Pieces))
      /\ \A k \in DOMAIN Passing(all) : Passing(all)[k] # <<>>
      /\ \A l \in Wanted : l \in WholeLines(all) =>
           \E k \in DOMAIN Passing(all) : Passing(all)[k][1] = Whole(l)
  BY <1>6, PassingHolds
<1>10. rolls = 0 => \A k \in DOMAIN Passing(all) : Verbatim(Passing(all)[k])
  <2>1. SUFFICES ASSUME rolls = 0
                 PROVE  \A k \in DOMAIN Passing(all) : Verbatim(Passing(all)[k])
    OBVIOUS
  <2>2. upTo = 0
    BY <1>1, <1>5, <2>1, Numbers DEF Unrolled
  <2>3. old = <<>>
    BY <1>5, <2>2, ReadIs
  <2>4. all = active
    BY <1>6, <2>3, ConcatEmptySeq
  <2>5. PICK a \in 0..2 * NumLines, b \in 0..2 * NumLines :
          active = ReadLines(a, b)
    BY <1>1 DEF Shape
  <2>6. a \in Nat
    BY <1>1, Numbers
  <2> QED BY <2>4, <2>5, <2>6, PassingIsVerbatim
<1> HIDE DEF old, all
<1>11. TypeOK'
  <2>1. excused' \subseteq Lines
    BY <1>1, <1>4 DEF TypeOK, Between
  <2>2. <<>> \in Seq(Pieces)
    OBVIOUS
  <2> QED BY <1>1, <1>3, <1>4, <1>9, <2>1, <2>2 DEF TypeOK, fileVars
<1>12. Shape'
  <2>1. ReadLines(0, 0) = <<>> /\ 0 \in 0..2 * NumLines
    BY NothingRead
  <2> QED BY <1>1, <1>3, <1>4, <2>1 DEF Shape, fileVars
<1>13. Full' /\ Unrolled'
  BY <1>1, <1>3, <1>4, <1>9, <1>10 DEF Full, Unrolled, fileVars
<1>14. ASSUME NEW l \in Wanted, 2 * l <= rolled + LineEnd(offset)
       PROVE  Safe(l, docs, batch', excused')
  <2>1. CASE l \in WholeLines(all)
    <3>1. PICK k \in DOMAIN batch' : batch'[k][1] = Whole(l)
      BY <1>4, <1>9, <2>1
    <3> QED BY <3>1 DEF Safe
  <2>2. CASE l \notin WholeLines(all)
    <3>1. l \in Lines /\ l \notin WholeLines(old) /\ l \notin WholeLines(active)
      BY <1>1, <1>7, <2>2, Numbers
    <3>2. ~ (2 * l <= upTo)
      BY <1>8, <3>1
    <3>3. l \in excused \cup Between(upTo, rolled)
      <4>1. CASE 2 * l <= rolled
        <5>1. upTo < 2 * l
          BY <1>1, <1>5, <3>1, <3>2, Numbers
        <5> QED BY <3>1, <4>1, <5>1, BetweenAre
      <4>2. CASE ~(2 * l <= rolled)
        <5>1. rolled < 2 * l
          BY <1>1, <3>1, <4>2, Numbers
        <5> QED BY <1>1, <1>3, <1>14, <3>1, <5>1 DEF Behind
      <4> QED BY <4>1, <4>2
    <3>4. l \in excused'
      BY <1>4, <2>2, <3>3
    <3> QED BY <3>4 DEF Safe
  <2> QED BY <2>1, <2>2
<1>15. Behind'
  <2>1. SafeUpTo(rolled + LineEnd(offset), docs, batch', excused')
    BY <1>14 DEF SafeUpTo
  <2> QED BY <1>3, <1>4, <2>1 DEF Behind, fileVars, Watching
<1> QED BY <1>11, <1>12, <1>13, <1>15 DEF IInv

-----------------------------------------------------------------------------
(* Upserts, ticks, the flush and the end of the process *)

\* A batch is embedded: what waited is a document or still waits.
LEMMA AddBatchKeeps ==
  ASSUME IInv, AddBatch
  PROVE  IInv'
<1>1. TypeOK /\ Shape /\ Full /\ Unrolled /\ Behind
  BY DEF IInv
<1> DEFINE n == IF Len(batch) < BatchSize THEN Len(batch) ELSE BatchSize
           new == {batch[i] : i \in 1..n}
           m == Len(batch)
<1>2. /\ pc \in {"backfill", "adding"}
      /\ docs' = docs \cup new
      /\ batch' = SubSeq(batch, n + 1, m)
      /\ UNCHANGED <<fileVars, pc, active, offset, size, dirty, flush, excused,
                     bounds>>
  BY DEF AddBatch, DocId
<1>3. /\ m \in Nat /\ DOMAIN batch = 1..m
      /\ \A i \in 1..m : batch[i] \in Seq(Pieces) /\ batch[i] # <<>>
  <2>1. batch \in Seq(Seq(Pieces))
    BY <1>1 DEF TypeOK
  <2>2. m \in Nat /\ DOMAIN batch = 1..m
    BY <2>1, LenProperties
  <2>3. \A i \in 1..m : batch[i] \in Seq(Pieces)
    BY <2>1, ElementOfSeq
  <2> QED BY <1>1, <2>2, <2>3 DEF Full
<1>4. n \in Nat /\ n <= m
  BY <1>3, ConstantsAssumption
<1>5. \A d : d \in new <=> \E i \in 1..n : d = batch[i]
  OBVIOUS
<1> HIDE DEF n, new, m
<1>6. /\ batch' \in Seq(Seq(Pieces))
      /\ DOMAIN batch' = 1..m - n
      /\ \A i \in 1..m - n : batch'[i] = batch[n + i]
  <2> DEFINE X == Seq(Pieces)
  <2>1. n + 1 \in Int /\ m \in Int /\ \A i \in n + 1..m : i \in 1..m
    BY <1>3, <1>4
  <2>2. \A i \in n + 1..m : batch[i] \in X
    BY <1>3, <2>1
  <2> HIDE DEF X
  <2>3. /\ batch' \in Seq(X)
        /\ Len(batch') = IF n + 1 <= m THEN m - (n + 1) + 1 ELSE 0
        /\ \A i \in 1..m - (n + 1) + 1 : batch'[i] = batch[n + 1 + i - 1]
    BY <1>2, <2>1, <2>2, SubSeqProperties
  <2>4. Len(batch') = m - n /\ m - (n + 1) + 1 = m - n
    BY <1>3, <1>4, <2>3
  <2>5. DOMAIN batch' = 1..m - n
    BY <2>3, <2>4, LenProperties
  <2>6. \A i \in 1..m - n : n + 1 + i - 1 = n + i
    BY <1>4
  <2> QED BY <2>3, <2>4, <2>5, <2>6 DEF X
<1>7. \A i \in 1..n : i \in 1..m
  BY <1>3, <1>4
<1>8. \A i \in 1..m - n : n + i \in 1..m
  BY <1>3, <1>4
<1>9. \A d \in new : d \in Seq(Pieces) /\ d # <<>>
  BY <1>3, <1>5, <1>7
<1>10. \A l : Safe(l, docs, batch, excused)
                => Safe(l, docs', batch', excused')
  <2>1. SUFFICES ASSUME NEW l, Safe(l, docs, batch, excused)
                 PROVE  Safe(l, docs', batch', excused')
    OBVIOUS
  <2>2. CASE l \in excused \/ \E d \in docs : d[1] = Whole(l)
    BY <1>2, <2>2 DEF Safe
  <2>3. CASE \E i \in DOMAIN batch : batch[i][1] = Whole(l)
    <3>1. PICK i \in 1..m : batch[i][1] = Whole(l)
      BY <1>3, <2>3
    <3>2. CASE i <= n
      <4>1. batch[i] \in new
        BY <1>4, <1>5, <3>2
      <4>2. \E d \in docs' : d[1] = Whole(l)
        BY <1>2, <3>1, <4>1
      <4> QED BY <4>2 DEF Safe
    <3>3. CASE ~(i <= n)
      <4>1. i - n \in 1..m - n /\ n + (i - n) = i
        BY <1>3, <1>4, <3>3
      <4>2. batch'[i - n] = batch[i]
        BY <1>6, <4>1
      <4>3. \E k \in DOMAIN batch' : batch'[k][1] = Whole(l)
        BY <1>6, <3>1, <4>1, <4>2
      <4> QED BY <4>3 DEF Safe
    <3> QED BY <3>2, <3>3
  <2> QED BY <2>1, <2>2, <2>3 DEF Safe
<1>11. TypeOK'
  <2>1. docs' \subseteq Seq(Pieces)
    BY <1>1, <1>2, <1>9 DEF TypeOK
  <2> QED BY <1>1, <1>2, <1>6, <2>1 DEF TypeOK, fileVars, bounds
<1>12. Shape'
  BY <1>1, <1>2 DEF Shape, fileVars
<1>13. Full'
  <2>1. \A i \in DOMAIN batch' : batch'[i] # <<>>
    BY <1>3, <1>6, <1>8
  <2>2. \A d \in docs' \cup flush' : d # <<>>
    BY <1>1, <1>2, <1>9 DEF Full
  <2> QED BY <1>2, <2>1, <2>2 DEF Full
<1>14. Unrolled'
  <2>1. SUFFICES ASSUME rolls = 0
                 PROVE  /\ rolled' = 0
                        /\ \A d \in docs' : Verbatim(d)
                        /\ \A i \in DOMAIN batch' : Verbatim(batch'[i])
    BY <1>2 DEF Unrolled, bounds
  <2>2. /\ rolled = 0 /\ \A d \in docs : Verbatim(d)
        /\ \A i \in 1..m : Verbatim(batch[i])
    BY <1>1, <1>3, <2>1 DEF Unrolled
  <2> QED BY <1>2, <1>5, <1>6, <1>7, <1>8, <2>2 DEF fileVars
<1>15. Behind'
  <2>1. \A k : SafeUpTo(k, docs, batch, excused)
                 => SafeUpTo(k, docs', batch', excused')
    BY <1>10 DEF SafeUpTo
  <2> QED BY <1>1, <1>2, <2>1 DEF Behind, fileVars, Watching
<1> QED BY <1>11, <1>12, <1>13, <1>14, <1>15 DEF IInv

\* A tick begins; the offset is kept or starts again from 0.
LEMMA StatKeeps ==
  ASSUME IInv, Stat
  PROVE  IInv'
<1>1. TypeOK /\ Shape /\ Full /\ Unrolled /\ Behind
  BY DEF IInv
<1>2. /\ pc = "idle"
      /\ dirty' = FALSE
      /\ size' = written - rolled
      /\ offset' \in {0, offset}
      /\ offset' <= size'
      /\ pc' \in {"idle", "read"}
      /\ pc' = "read" => size' # offset'
      /\ UNCHANGED <<fileVars, active, batch, docs, flush, excused, bounds>>
  BY <1>1, Numbers DEF Stat
<1>3. size' \in 0..2 * NumLines /\ offset' \in 0..2 * NumLines
      /\ rolled + size' = written
  BY <1>1, <1>2, Numbers DEF TypeOK
<1>4. TypeOK'
  BY <1>1, <1>2, <1>3 DEF TypeOK, fileVars, bounds, Watching
<1>5. Shape' /\ Full' /\ Unrolled'
  BY <1>1, <1>2 DEF Shape, Full, Unrolled, fileVars, bounds
<1>6. SafeUpTo(rolled + LineEnd(offset'), docs, batch, excused)
  <2>1. SafeUpTo(rolled + LineEnd(offset), docs, batch, excused)
    BY <1>1, <1>2 DEF Behind, Watching
  <2>2. CASE offset' = offset
    BY <2>1, <2>2
  <2>3. CASE offset' = 0
    <3>1. \A l \in Wanted : 2 * l <= rolled + LineEnd(offset')
                              => 2 * l <= rolled + LineEnd(offset)
      BY <1>1, <2>3, Numbers DEF LineEnd
    <3> QED BY <2>1, <3>1 DEF SafeUpTo
  <2> QED BY <1>2, <2>2, <2>3
<1>7. pc' = "read" => offset' < size' /\ rolled' + size' <= written'
  BY <1>1, <1>2, <1>3, Numbers DEF fileVars
<1>8. Behind'
  BY <1>2, <1>6, <1>7 DEF Behind, fileVars, Watching
<1> QED BY <1>4, <1>5, <1>8 DEF IInv

\* Offsets, and the parts they end in.
LEMMA Parity ==
  ASSUME NEW r \in Nat, NEW o \in Nat
  PROVE  /\ o % 2 \in {0, 1}
         /\ r % 2 = 0 => (r + o) % 2 = o % 2
         /\ (o - (o % 2)) % 2 = 0
  BY SMT

LEMMA LineEndIs ==
  ASSUME NEW n \in Nat
  PROVE  /\ LineEnd(n) \in Nat
         /\ n <= LineEnd(n)
         /\ n % 2 = 0 => LineEnd(n) = n
         /\ n > 0 => LineEnd(n - 1) <= LineEnd(n)
  BY SMT DEF LineEnd

\* The chunk that is read begins where the offset is and ends with a line; all
\* of its wanted lines wait for the upsert.
LEMMA ReadKeeps ==
  ASSUME IInv, Read
  PROVE  IInv'
<1>1. TypeOK /\ Shape /\ Full /\ Unrolled /\ Behind
  BY DEF IInv
<1> DEFINE a == rolled + offset
           b == IF rolled + size < written THEN rolled + size ELSE written
           cut == IF a < b THEN b % 2 ELSE 0
           p == ReadLines(a, b - cut)
<1>2. /\ pc = "read"
      /\ offset' = size - cut
      /\ batch' = Passing(p)
      /\ pc' = IF batch' = <<>> THEN "idle" ELSE "adding"
      /\ UNCHANGED <<fileVars, active, size, dirty, docs, flush, excused,
                     bounds>>
  BY DEF Read
<1>3. /\ rolled % 2 = 0 /\ offset < size
      /\ SafeUpTo(rolled + LineEnd(offset), docs, batch, excused)
      /\ \/ rolled + size <= written
         \/ SafeUpTo(rolled + LineEnd(size), docs, batch, excused)
      /\ batch = <<>>
  BY <1>1, <1>2 DEF Shape, Behind, Watching, Full
<1>4. /\ a \in Nat /\ b \in Nat /\ b <= 2 * NumLines
      /\ cut \in {0, 1} /\ b - cut \in 0..2 * NumLines
      /\ offset' \in 0..2 * NumLines
  <2>1. a \in Nat /\ b \in Nat /\ b <= written
    BY <1>1, Numbers
  <2>2. b <= 2 * NumLines
    BY <1>1, <2>1, Numbers
  <2> HIDE DEF b
  <2>3. cut \in {0, 1} /\ cut <= b
    BY <2>1, Parity
  <2> HIDE DEF cut
  <2>4. b - cut \in 0..2 * NumLines
    BY <1>1, <2>1, <2>2, <2>3, Numbers
  <2>5. offset' \in 0..2 * NumLines
    BY <1>1, <1>2, <1>3, <2>3, Numbers DEF TypeOK
  <2> QED BY <2>1, <2>2, <2>3, <2>4, <2>5
<1>5. p \in Seq(Pieces)
  BY <1>4, ReadIs
<1>6. /\ batch' \in Seq(Seq(Pieces))
      /\ \A k \in DOMAIN batch' : batch'[k] # <<>>
      /\ \A l \in Wanted : l \in WholeLines(p) =>
           \E k \in DOMAIN batch' : batch'[k][1] = Whole(l)
      /\ \A k \in DOMAIN batch' : Verbatim(batch'[k])
  BY <1>2, <1>4, <1>5, PassingHolds, PassingIsVerbatim
<1>7. ASSUME rolled + size <= written, NEW l \in Lines,
             rolled + LineEnd(offset) < 2 * l, 2 * l <= rolled + LineEnd(offset')
      PROVE  l \in WholeLines(p)
  <2>1. b = rolled + size /\ a < b /\ cut = b % 2
    BY <1>1, <1>3, <1>7, Numbers
  <2>2. b % 2 = size % 2 /\ a % 2 = offset % 2
    <3>1. (rolled + size) % 2 = size % 2 /\ (rolled + offset) % 2 = offset % 2
      BY <1>1, <1>3, Numbers, Parity
    <3>2. b = rolled + size /\ a = rolled + offset
      BY <2>1
    <3> HIDE DEF a, b
    <3> QED BY <3>1, <3>2
  <2>3. LineEnd(offset') = offset' /\ rolled + offset' = b - cut
    <3>1. offset' = size - (size % 2)
      BY <1>2, <2>1, <2>2
    <3>2. offset' % 2 = 0
      BY <1>1, <3>1, Numbers, Parity
    <3>3. offset' \in Nat
      BY <1>1, <1>4, Numbers
    <3>4. rolled + offset' = b - cut
      <4>1. b = rolled + size /\ cut \in Nat /\ offset' = size - cut
        BY <1>2, <1>4, <2>1
      <4> HIDE DEF b, cut
      <4> QED BY <1>1, <4>1, Numbers
    <3> QED BY <3>2, <3>3, <3>4, LineEndIs
  <2>4. LineEnd(a) < 2 * l
    BY <1>1, <1>7, <2>2, Numbers DEF LineEnd
  <2>5. 2 * l <= b - cut
    BY <1>7, <2>3
  <2> HIDE DEF a, b, cut
  <2> QED BY <1>4, <2>4, <2>5, WholeLinesOfRead
<1>8. LineEnd(offset') <= LineEnd(size)
  <2>1. size \in Nat /\ offset' \in {size, size - 1} /\ size > 0
    BY <1>1, <1>2, <1>3, <1>4, Numbers
  <2>2. LineEnd(size) \in Nat
    BY <2>1, LineEndIs
  <2> QED BY <2>1, <2>2, LineEndIs
<1> HIDE DEF a, b, cut, p
<1>9. TypeOK'
  BY <1>1, <1>2, <1>4, <1>6 DEF TypeOK, fileVars, bounds, Watching
<1>10. Shape'
  BY <1>1, <1>2 DEF Shape, fileVars
<1>11. Full' /\ Unrolled'
  BY <1>1, <1>2, <1>6 DEF Full, Unrolled, fileVars, bounds
<1>12. ASSUME NEW l \in Wanted, 2 * l <= rolled + LineEnd(offset')
       PROVE  Safe(l, docs, batch', excused)
  <2>1. l \in Lines /\ l \in Nat
    BY <1>1, Numbers
  <2>2. Safe(l, docs, batch, excused) => Safe(l, docs, batch', excused)
    BY <1>3 DEF Safe
  <2>3. CASE 2 * l <= rolled + LineEnd(offset)
    BY <1>3, <2>2, <2>3 DEF SafeUpTo
  <2>4. CASE ~(2 * l <= rolled + LineEnd(offset)) /\ rolled + size <= written
    <3>1. rolled + LineEnd(offset) < 2 * l
      BY <1>1, <2>1, <2>4, Numbers DEF LineEnd
    <3>2. \E k \in DOMAIN batch' : batch'[k][1] = Whole(l)
      BY <1>6, <1>7, <1>12, <2>1, <2>4, <3>1
    <3> QED BY <3>2 DEF Safe
  <2>5. CASE ~(rolled + size <= written)
    <3>1. 2 * l <= rolled + LineEnd(size)
      BY <1>1, <1>4, <1>8, <1>12, <2>1, Numbers DEF LineEnd
    <3> QED BY <1>3, <2>2, <2>5, <3>1 DEF SafeUpTo
  <2> QED BY <2>3, <2>4, <2>5
<1>13. Behind'
  <2>1. SafeUpTo(rolled + LineEnd(offset'), docs, batch', excused)
    BY <1>12 DEF SafeUpTo
  <2> QED BY <1>2, <2>1 DEF Behind, fileVars, Watching
<1> QED BY <1>9, <1>10, <1>11, <1>13 DEF IInv

\* An upsert that raises excuses the lines whose entries it had not embedded.
LEMMA AddFailsKeeps ==
  ASSUME IInv, AddFails
  PROVE  IInv'
<1> DEFINE lost == {batch[i][1].line : i \in DOMAIN batch}
<1>1. TypeOK /\ Shape /\ Full /\ Unrolled /\ Behind
  BY DEF IInv
<1>2. /\ pc = "adding" /\ pc' = "idle"
      /\ excused' = excused \cup lost
      /\ batch' = <<>>
      /\ faults' \in 0..MaxFaults
      /\ UNCHANGED <<fileVars, active, offset, size, dirty, docs, flush, rolls,
                     starts, flushes>>
  BY <1>1, ConstantsAssumption DEF AddFails, Fault, TypeOK
<1>3. \A i \in DOMAIN batch : batch[i][1] \in Pieces
  <2>1. SUFFICES ASSUME NEW i \in DOMAIN batch PROVE batch[i][1] \in Pieces
    OBVIOUS
  <2>2. batch[i] \in Seq(Pieces)
    <3> DEFINE X == Seq(Pieces)
    <3>1. batch \in Seq(X)
      BY <1>1 DEF TypeOK
    <3> HIDE DEF X
    <3>2. batch[i] \in X
      BY <3>1, LenProperties, ElementOfSeq
    <3> QED BY <3>2 DEF X
  <2>3. batch[i] # <<>>
    BY <1>1 DEF Full
  <2>4. 1 \in 1..Len(batch[i])
    BY <2>2, <2>3, EmptySeq
  <2> QED BY <2>2, <2>4, ElementOfSeq
<1>4. lost \subseteq Lines
  BY <1>3 DEF Pieces
<1>5. \A l : Safe(l, docs, batch, excused) => Safe(l, docs, <<>>, excused')
  <2>1. \A l : Whole(l).line = l
    BY DEF Whole
  <2>2. \A l : (\E i \in DOMAIN batch : batch[i][1] = Whole(l)) => l \in lost
    BY <2>1
  <2> HIDE DEF lost
  <2> QED BY <1>2, <2>2 DEF Safe
<1> HIDE DEF lost
<1>6. TypeOK'
  <2>1. excused' \subseteq Lines
    BY <1>1, <1>2, <1>4 DEF TypeOK
  <2>2. batch' \in Seq(Seq(Pieces))
    BY <1>2
  <2> QED BY <1>1, <1>2, <2>1, <2>2 DEF TypeOK, fileVars, Watching
<1>7. Shape' /\ Full' /\ Unrolled'
  BY <1>1, <1>2 DEF Shape, Full, Unrolled, fileVars
<1>8. Behind'
  <2>1. SafeUpTo(rolled + LineEnd(offset), docs, <<>>, excused')
    BY <1>1, <1>2, <1>5 DEF Behind, SafeUpTo, Watching
  <2> QED BY <1>2, <2>1 DEF Behind, fileVars, Watching
<1> QED BY <1>6, <1>7, <1>8 DEF IInv

\* The flush takes the ids of the documents ...
LEMMA FlushSnapshotKeeps ==
  ASSUME IInv, FlushSnapshot
  PROVE  IInv'
<1>1. TypeOK /\ Shape /\ Full /\ Unrolled /\ Behind
  BY DEF IInv
<1>2. /\ flush' = docs
      /\ flushes' \in 0..MaxFlushes
      /\ UNCHANGED <<fileVars, pc, active, offset, size, batch, dirty, docs,
                     excused, rolls, faults, starts>>
  BY <1>1, ConstantsAssumption DEF FlushSnapshot, TypeOK
<1>3. TypeOK'
  BY <1>1, <1>2 DEF TypeOK, fileVars
<1>4. Shape' /\ Full' /\ Unrolled'
  BY <1>1, <1>2 DEF Shape, Full, Unrolled, fileVars
<1>5. Behind'
  BY <1>1, <1>2 DEF Behind, fileVars
<1> QED BY <1>3, <1>4, <1>5 DEF IInv

\* ... and deletes them, or some, which excuses their lines.
LEMMA DeleteKeeps ==
  ASSUME IInv, FlushDelete \/ FlushFails
  PROVE  IInv'
<1>1. TypeOK /\ Shape /\ Full /\ Unrolled /\ Behind
  BY DEF IInv
<1>2. PICK D \in SUBSET flush : Delete(D)
  BY DEF FlushDelete, FlushFails
<1> DEFINE gone == {d[1].line : d \in D}
<1>3. /\ docs' = docs \ D
      /\ excused' = excused \cup gone
      /\ flush' = {}
      /\ faults' \in 0..MaxFaults
      /\ UNCHANGED <<fileVars, pc, active, offset, size, batch, dirty, rolls,
                     starts, flushes>>
  <2>1. docs' = docs \ D /\ excused' = excused \cup gone /\ flush' = {}
    BY <1>2 DEF Delete
  <2>2. /\ faults' \in 0..MaxFaults
        /\ UNCHANGED <<fileVars, pc, active, offset, size, batch, dirty, rolls,
                       starts, flushes>>
    BY <1>1, ConstantsAssumption
      DEF FlushDelete, FlushFails, Fault, TypeOK, bounds
  <2> QED BY <2>1, <2>2
<1>4. \A d \in D : d[1] \in Pieces
  <2>1. SUFFICES ASSUME NEW d \in D PROVE d[1] \in Pieces
    OBVIOUS
  <2>2. d \in Seq(Pieces) /\ d # <<>>
    BY <1>1 DEF TypeOK, Full
  <2>3. 1 \in 1..Len(d)
    BY <2>2, EmptySeq
  <2> QED BY <2>2, <2>3, ElementOfSeq
<1>5. gone \subseteq Lines
  BY <1>4 DEF Pieces
<1>6. \A l : Safe(l, docs, batch, excused) => Safe(l, docs', batch, excused')
  <2>1. \A l : Whole(l).line = l
    BY DEF Whole
  <2>2. \A l : \A d \in D : d[1] = Whole(l) => l \in gone
    BY <2>1
  <2> HIDE DEF gone
  <2>3. ASSUME NEW l, Safe(l, docs, batch, excused)
        PROVE  Safe(l, docs', batch, excused')
    <3>1. CASE l \in excused \/ \E i \in DOMAIN batch : batch[i][1] = Whole(l)
      BY <1>3, <3>1 DEF Safe
    <3>2. CASE \E d \in docs : d[1] = Whole(l)
      <4>1. PICK d \in docs : d[1] = Whole(l)
        BY <3>2
      <4>2. d \in D => l \in gone
        BY <2>2, <4>1
      <4> QED BY <1>3, <4>1, <4>2 DEF Safe
    <3> QED BY <2>3, <3>1, <3>2 DEF Safe
  <2> QED BY <2>3
<1> HIDE DEF gone
<1>7. TypeOK'
  <2>1. excused' \subseteq Lines /\ docs' \subseteq Seq(Pieces)
    BY <1>1, <1>3, <1>5 DEF TypeOK
  <2> QED BY <1>1, <1>3, <2>1 DEF TypeOK, fileVars
<1>8. Shape' /\ Full' /\ Unrolled'
  BY <1>1, <1>3 DEF Shape, Full, Unrolled, fileVars
<1>9. Behind'
  <2>1. \A k : SafeUpTo(k, docs, batch, excused)
                 => SafeUpTo(k, docs', batch, excused')
    BY <1>6 DEF SafeUpTo
  <2>2. pc = "archives" => \A l \in Lines :
          rolled < 2 * l /\ 2 * l <= rolled + LineEnd(offset) =>
            l \in WholeLines(active) \cup excused'
    BY <1>1, <1>3 DEF Behind
  <2> QED BY <1>1, <1>3, <2>1, <2>2 DEF Behind, fileVars
<1> QED BY <1>7, <1>8, <1>9 DEF IInv

\* The process stops; the documents and what is excused stay.
LEMMA StopKeeps ==
  ASSUME IInv, Stop
  PROVE  IInv'
<1>1. TypeOK /\ Shape /\ Full /\ Unrolled /\ Behind
  BY DEF IInv
<1>2. /\ pc' = "down"
      /\ active' = <<>> /\ offset' = 0 /\ size' = 0 /\ batch' = <<>>
      /\ dirty' = FALSE /\ flush' = {}
      /\ UNCHANGED <<fileVars, docs, excused, bounds>>
  BY DEF Stop
<1>3. TypeOK'
  <2>1. \A X : <<>> \in Seq(X)
    OBVIOUS
  <2>2. /\ active' \in Seq(Pieces) /\ batch' \in Seq(Seq(Pieces))
        /\ offset' \in 0..2 * NumLines /\ size' \in 0..2 * NumLines
    BY <1>2, <2>1, NothingRead
  <2> QED BY <1>1, <1>2, <2>2 DEF TypeOK, fileVars, bounds
<1>4. Shape'
  BY <1>1, <1>2, NothingRead DEF Shape, fileVars
<1>5. Full' /\ Unrolled' /\ Behind'
  BY <1>1, <1>2 DEF Full, Unrolled, Behind, fileVars, bounds, Watching
<1> QED BY <1>3, <1>4, <1>5 DEF IInv

-----------------------------------------------------------------------------
(* The theorems *)

LEMMA InitOK == Init => IInv
<1> SUFFICES ASSUME Init PROVE IInv
  OBVIOUS
<1>1. TypeOK
  <2>1. 0 \in 0..2 * NumLines /\ 0 \in 0..0
    BY NothingRead
  <2>2. \A X : <<>> \in Seq(X)
    OBVIOUS
  <2>3. /\ 0 \in 0..MaxRolls /\ 0 \in 0..MaxFaults
        /\ 0 \in 0..MaxStarts /\ 0 \in 0..MaxFlushes
    BY ConstantsAssumption
  <2> QED BY <2>1, <2>2, <2>3 DEF Init, TypeOK
<1>2. Shape
  BY NothingRead DEF Init, Shape
<1>3. Full /\ Unrolled /\ Behind
  BY DEF Init, Full, Unrolled, Behind, Watching
<1> QED BY <1>1, <1>2, <1>3 DEF IInv

LEMMA NextOK == IInv /\ [Next]_vars => IInv'
<1> SUFFICES ASSUME IInv, [Next]_vars PROVE IInv'
  OBVIOUS
<1>1. CASE Write \/ Zip
  BY <1>1, FilesKeep
<1>2. CASE Roll
  BY <1>2, RollKeeps
<1>3. CASE \/ Start \/ ArchiveTruncated \/ BackfillAddFails \/ StartWatcher
           \/ TickAborted \/ Added
  BY <1>3, ThreadsKeep
<1>4. CASE StatActive \/ ReadActive \/ ActiveUnreadable
  BY <1>4, StatActiveKeeps, ReadActiveKeeps
<1>5. CASE ReadArchives \/ ArchiveUnreadable
  BY <1>5, EmbedKeeps
<1>6. CASE AddBatch
  BY <1>6, AddBatchKeeps
<1>7. CASE Stat
  BY <1>7, StatKeeps
<1>8. CASE Read
  BY <1>8, ReadKeeps
<1>9. CASE AddFails
  BY <1>9, AddFailsKeeps
<1>10. CASE FlushSnapshot
  BY <1>10, FlushSnapshotKeeps
<1>11. CASE FlushDelete \/ FlushFails
  BY <1>11, DeleteKeeps
<1>12. CASE Stop
  BY <1>12, StopKeeps
<1>13. CASE UNCHANGED vars
  <2>1. TypeOK' /\ Shape' /\ Full' /\ Unrolled' /\ Behind'
    BY <1>13 DEF IInv, TypeOK, Shape, Full, Unrolled, Behind, vars, fileVars,
                 bounds
  <2> QED BY <2>1 DEF IInv
<1> QED BY <1>1, <1>2, <1>3, <1>4, <1>5, <1>6, <1>7, <1>8, <1>9, <1>10, <1>11,
           <1>12, <1>13 DEF Next, Backfill, Tick

\* The types, what the readers hold, and what is safe behind them, in every
\* reachable state.
THEOREM Invariance == Spec => []IInv
<1>1. Init => IInv
  BY InitOK
<1>2. IInv /\ [Next]_vars => IInv'
  BY NextOK
<1> QED BY <1>1, <1>2, PTL DEF Spec

\* Every variable of the files, of the ingesting thread and of the store keeps
\* its type.
THEOREM TypesHold == Spec => []TypeOK
<1>1. IInv => TypeOK
  BY DEF IInv
<1> QED BY <1>1, Invariance, PTL

\* The watcher's handler goes past no wanted line without embedding it, however
\* the writes, the rolls, the reads and the failures interleave, unless the
\* line has one of the excuses.
THEOREM NoLineIsSkipped == Spec => []EveryLineIsEmbedded
<1>1. IInv => EveryLineIsEmbedded
  <2>1. SUFFICES ASSUME IInv, NEW l \in Wanted, Consumed(l), l \notin excused
                 PROVE  Embedded(l) \/ Pending(l)
    BY DEF EveryLineIsEmbedded
  <2>2. TypeOK /\ Behind
    BY <2>1 DEF IInv
  <2>3. pc \in Watching /\ 2 * l <= rolled + offset
    BY <2>1 DEF Consumed
  <2>4. 2 * l <= rolled + LineEnd(offset)
    BY <2>2, <2>3, Numbers, LineEndIs
  <2>5. Safe(l, docs, batch, excused)
    BY <2>2, <2>3, <2>4 DEF Behind, SafeUpTo
  <2> QED BY <2>1, <2>5 DEF Safe, Embedded, Pending, Whole
<1> QED BY <1>1, Invariance, PTL

\* While no file is rolled, the text of a document is one stretch of the log,
\* wherever the backfill and the ticks cut the file.
THEOREM DocumentsAreVerbatim == Spec => []TextIsVerbatim
<1>1. IInv => TextIsVerbatim
  BY DEF IInv, Unrolled, Verbatim, TextIsVerbatim
<1> QED BY <1>1, Invariance, PTL

=============================================================================
