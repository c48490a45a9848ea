------------------------------ MODULE LogReads ------------------------------
(***************************************************************************)
(* What an operator reads of the logs: the tail of each app's file         *)
(* (reader.py), the pages of GET /api/logs and the Log Explorer that asks  *)
(* for them (logs.py, LogExplorer.tsx), the counts of the status cards and *)
(* their trend charts (rollup.py), and the days of the corpus              *)
(* (chroma_stats.py).  The apps go on writing, their files are rolled, and *)
(* the operator changes the filters while answers are under way.           *)
(*                                                                         *)
(* Time is a number, an entry is a record, and a line is as many bytes as  *)
(* LineBytes says of its level.  An app is its rank in the order of names. *)
(***************************************************************************)
EXTENDS Integers, Sequences, FiniteSets

CONSTANTS
  App,            \* the apps, numbers
  Level,          \* the levels that the apps write
  Writes,         \* those that an app writes (bound)
  LineBytes,      \* the length of a line of a level
  Chunk,          \* _TAIL_CHUNK_BYTES
  TailDefault,    \* logs_tail_default, in lines
  PageSize,       \* the limit of a page
  TopK,           \* SEARCH_TOP_K
  GateLevels,     \* INGEST_LEVELS: what is embedded
  Filters,        \* the filters that the operator chooses from
  Hour,           \* the first window of the cards
  Buckets, BucketSize,   \* HISTORY_WINDOWS of that window
  Day, DefaultDays, MaxDays,   \* _count_by_day: a day, 30 and 366 of them
  Times,          \* the moments that are looked at (bound)
  MaxTime, MaxEntries, MaxRolls, MaxPending   \* bounds

\* No bound of a time, no cursor: later than everything.
Forever == MaxTime + 1

ASSUME ConstantsAssumption ==
  /\ App \subseteq Nat \ {0}
  /\ {Chunk, TailDefault, PageSize, TopK, Hour, Buckets, BucketSize, Day,
      DefaultDays, MaxDays} \subseteq Nat \ {0}
  /\ {MaxTime, MaxEntries, MaxRolls} \subseteq Nat
  /\ Times \subseteq 0..MaxTime
  /\ Writes \in [App -> SUBSET Level]
  /\ LineBytes \in [Level -> Nat \ {0}]
  /\ Hour = Buckets * BucketSize
  /\ \A f \in Filters : /\ f.apps \subseteq App /\ f.levels \subseteq Level
                        /\ f.span \in Nat /\ f.until \in 0..Forever
                        /\ f.search \in BOOLEAN

VARIABLES
  now,
  written,     \* how many entries were written
  file,        \* each app's current log file; a missing one has no entries
  rolls,       \* counter of bounded events
  filter,      \* the operator's filters
  since,       \* the lower bound they were resolved to
  rows,        \* the table
  nextBefore,  \* the cursor of the next page, or Forever
  loading,     \* the buttons are off; the error message is left out
  pending,     \* the requests on their way
  due,         \* history: what the next pages of this table have to show
  mixed        \* history: answers came late or not at all, see Deliver

logs == <<now, written, file, rolls>>
screen == <<filter, since, rows, nextBefore, loading>>
history == <<due, mixed>>
vars == <<logs, screen, pending, history>>

Entry == [id : 1..MaxEntries, app : App, level : Level, ts : 0..MaxTime]

Request == [newest : BOOLEAN, apps : SUBSET App, levels : SUBSET Level,
            since : 0..MaxTime, until : 0..Forever, before : 0..Forever,
            append : BOOLEAN, search : BOOLEAN]

-----------------------------------------------------------------------------
(* The tail of a file *)

Elements(s) == {s[i] : i \in DOMAIN s}

LastLines(s, n) == SubSeq(s, IF Len(s) > n THEN Len(s) - n + 1 ELSE 1, Len(s))

\* Where each line of a file ends.
Ends(f) ==
  LET end[i \in 0..Len(f)] ==
        IF i = 0 THEN 0 ELSE end[i - 1] + LineBytes[f[i].level]
  IN end

\* The newlines after a position, and the position after so many chunks.
Newlines(end, pos) == Cardinality({i \in DOMAIN end : end[i] > pos})
Seek(size, k) == IF k * Chunk < size THEN size - k * Chunk ELSE 0

\* Chunks are read from the end until there are enough newlines; the first
\* line, which the last seek may have cut, is dropped.
ReadBack(f, n, enough) ==
  LET end == Ends(f)
      size == end[Len(f)]
      Stops(k) == Seek(size, k) = 0 \/ Newlines(end, Seek(size, k)) >= enough
      pos == Seek(size, CHOOSE k \in 1..size + 1 :
                          Stops(k) /\ \A j \in 1..k - 1 : ~Stops(j))
      lines == LastLines(f, Newlines(end, pos))
  IN LastLines(IF pos > 0 THEN Tail(lines) ELSE lines, n)

\* Mutant: n newlines are enough.
TailLines_TooFew(f, n) == ReadBack(f, n, n)

TailLines(f, n) == ReadBack(f, n, n + 1)

\* A missing file raises, and its readers leave the app out, like an empty one.
ReadRecent(a) == Elements(TailLines(file[a], TailDefault))

-----------------------------------------------------------------------------
(* GET /api/logs and POST /api/logs/search *)

\* Nothing chosen is no filter: the frontend sends no parameter for it.
Lets(chosen, x) == chosen = {} \/ x \in chosen

\* collected: what the tails have for a request.
Collected(r) ==
  {e \in UNION {ReadRecent(a) : a \in App} :
     /\ Lets(r.apps, e.app) /\ Lets(r.levels, e.level)
     /\ e.ts < r.before /\ e.ts < r.until /\ e.ts >= r.since}

Newer(e, f) ==
  \/ e.ts > f.ts
  \/ e.ts = f.ts /\ e.app > f.app
  \/ e.ts = f.ts /\ e.app = f.app /\ e.id > f.id

\* The entries of a set, the newest first.
Sorted(S) ==
  [k \in 1..Cardinality(S) |->
     CHOOSE e \in S : Cardinality({f \in S : Newer(f, e)}) = k - 1]

\* Mutant: the page is cut before it is sorted.
Page_Unsorted(found) ==
  LET sorted == Sorted(found)
  IN Sorted(Elements(SubSeq(sorted, IF Len(sorted) > PageSize
                                    THEN Len(sorted) - PageSize + 1 ELSE 1,
                            Len(sorted))))

\* The newest entries, at most a page of them.
Page(found) ==
  LET sorted == Sorted(found)
  IN SubSeq(sorted, 1, IF Len(sorted) > PageSize THEN PageSize ELSE Len(sorted))

\* Mutant: the cursor excludes the last entry of the page once more.
NextBefore_Less(found) ==
  IF Cardinality(found) > PageSize THEN Page(found)[PageSize].ts - 1
  ELSE Forever

\* next_before: only when there is more.
NextBefore(found) ==
  IF Cardinality(found) > PageSize THEN Page(found)[PageSize].ts ELSE Forever

\* The entries that the dashboard has embedded: here, all of the ingest gate.
Embedded == {e \in UNION {Elements(file[a]) : a \in App} : e.level \in GateLevels}

\* _build_where: the clauses that the request has, all of them.
Matches(e, r) ==
  /\ Lets(r.apps, e.app) /\ Lets(r.levels, e.level)
  /\ e.ts >= r.since /\ e.ts < r.until

-----------------------------------------------------------------------------
(* The status cards and charts *)

Counted == Level \ {"DEBUG"}

CountInWindow(entries, level, window) ==
  Cardinality({e \in entries : e.ts >= now - window /\ e.level = level})

\* Mutant: the grid ends now.
HistoryEnd_Now == now

\* The border after the bucket that now is in.
HistoryEnd == now - (now % BucketSize) + BucketSize

\* compute_history_buckets, oldest bucket first.
History(entries, level) ==
  LET start == HistoryEnd - Buckets * BucketSize
      inside == {e \in entries : /\ e.level = level
                                 /\ e.ts >= start /\ e.ts < HistoryEnd}
  IN [i \in 1..Buckets |->
        Cardinality({e \in inside : (e.ts - start) \div BucketSize = i - 1})]

-----------------------------------------------------------------------------
(* The days of GET /api/chroma/stats *)

InDefaultWindow(e) == e.ts >= now - DefaultDays * Day

DayCount(entries, d) == Cardinality({e \in entries : e.ts \div Day = d})

\* Without bounds: the last days, today last.
ByDayDefault(corpus) ==
  LET today == now \div Day
      inside == {e \in corpus : InDefaultWindow(e)}
  IN [i \in 1..DefaultDays |->
        [day |-> today - DefaultDays + i,
         count |-> DayCount(inside, today - DefaultDays + i)]]

\* No lower bound.
Ever == -1

\* The day of the upper bound.
LastDay(to) == (IF to = Forever THEN now ELSE to) \div Day

\* With a bound: from the day of the first to the day of the second, at most
\* MaxDays of them; nothing for a range that is turned around.
ByDay(corpus, from, to) ==
  LET inside == {e \in corpus : e.ts >= from /\ e.ts < to}
      first == (IF from = Ever THEN now - DefaultDays * Day ELSE from) \div Day
      days == LastDay(to) - first + 1
  IN IF from # Ever /\ to <= from THEN << >>
     ELSE [i \in 1..(IF days > MaxDays THEN MaxDays ELSE days) |->
             [day |-> first + i - 1, count |-> DayCount(inside, first + i - 1)]]

-----------------------------------------------------------------------------
(* The apps *)

\* What the Log Explorer asks for.
Asked(f, lower, cursor, append) ==
  [newest |-> TRUE, apps |-> f.apps, levels |-> f.levels, since |-> lower,
   until |-> f.until, before |-> cursor, append |-> append, search |-> f.search]

Init ==
  /\ now = 0 /\ written = 0
  /\ file = [a \in App |-> << >>]
  /\ rolls = 0
  /\ filter \in Filters
  /\ since = 0
  /\ rows = << >> /\ nextBefore = Forever
  /\ loading = TRUE
  /\ pending = {Asked(filter, since, Forever, FALSE)}
  /\ due = {} /\ mixed = FALSE

Write(a, level) ==
  /\ level \in Writes[a]
  /\ written < MaxEntries
  /\ written' = written + 1
  /\ file' = [file EXCEPT ![a] =
       Append(@, [id |-> written + 1, app |-> a, level |-> level, ts |-> now])]
  /\ UNCHANGED <<now, rolls, screen, pending, history>>

\* The file is rolled; whether its successor is there at once, or with the next
\* entry, makes no difference to its readers.
Roll(a) ==
  /\ rolls < MaxRolls /\ file[a] # << >>
  /\ rolls' = rolls + 1
  /\ file' = [file EXCEPT ![a] = << >>]
  /\ UNCHANGED <<now, written, screen, pending, history>>

Tick ==
  /\ \E t \in Times : t > now /\ now' = t
  /\ UNCHANGED <<written, file, rolls, screen, pending, history>>

-----------------------------------------------------------------------------
(* The Log Explorer *)

Fetch(f, lower, cursor, append) ==
  /\ Cardinality(pending) < MaxPending
  /\ pending' = {[r EXCEPT !.newest = FALSE] : r \in pending}
                  \cup {Asked(f, lower, cursor, append)}
  /\ loading' = TRUE
  /\ mixed' = (mixed \/ pending # {})

\* The lower bound of the filters' window, as of now.
Resolve(f) == IF f.span < now THEN now - f.span ELSE 0

\* Bounds are resolved when the window changes, and only then; the first page
\* is asked for at once.
ChangeFilter(f) ==
  /\ f # filter
  /\ filter' = f
  /\ since' = IF f.span = filter.span /\ f.until = filter.until THEN since
              ELSE Resolve(f)
  /\ Fetch(f, since', Forever, FALSE)
  /\ UNCHANGED <<logs, rows, nextBefore, due>>

Refresh ==
  /\ ~loading
  /\ Fetch(filter, since, Forever, FALSE)
  /\ UNCHANGED <<logs, filter, since, rows, nextBefore, due>>

\* The table shows its button.
HasMore == ~filter.search /\ nextBefore # Forever

\* Mutant: the next page is asked for without the cursor.
LoadMore_NoCursor ==
  /\ HasMore /\ ~loading
  /\ Fetch(filter, since, Forever, TRUE)
  /\ UNCHANGED <<logs, filter, since, rows, nextBefore, due>>

LoadMore ==
  /\ HasMore /\ ~loading
  /\ Fetch(filter, since, nextBefore, TRUE)
  /\ UNCHANGED <<logs, filter, since, rows, nextBefore, due>>

\* An answer is applied when it comes, whatever was asked since.  The table is
\* of one question again when the last request, a first page, comes alone.
Deliver(r, page, next) ==
  /\ pending' = pending \ {r}
  /\ rows' = IF r.append THEN rows \o page ELSE page
  /\ nextBefore' = next
  /\ loading' = FALSE
  /\ mixed' = (mixed /\ ~(r.newest /\ ~r.append /\ pending = {r}))
  /\ UNCHANGED <<logs, filter, since>>

\* The page is made of the tails at one moment, taken to be this one.  Owed to
\* the operator is what was there for the first page, is still there, and was
\* not shown; not what has the very time at which a page ends.
LogsAnswer(r) ==
  LET found == Collected(r)
      there == Collected([r EXCEPT !.before = Forever])
      page == Page(found)
      next == NextBefore(found)
  IN /\ ~r.search
     /\ Deliver(r, page, next)
     /\ due' = {e \in IF r.append THEN due \cap there ELSE there :
                  ~mixed' /\ e \notin Elements(page) /\ e.ts # next}

\* The nearest entries, whichever and in whatever order, among those the filters let in.
SearchAnswer(r) ==
  /\ r.search
  /\ \E n \in 0..TopK :
     \E hits \in [1..n -> {e \in Embedded : Matches(e, r)}] :
       /\ \A i, j \in 1..n : hits[i] = hits[j] => i = j
       /\ Deliver(r, hits, Forever)
  /\ due' = {}

\* The table stays, with an error over it, also when it is of other filters.
FetchFails(r) ==
  /\ pending' = pending \ {r}
  /\ loading' = FALSE
  /\ mixed' = (mixed \/ ~r.append)
  /\ UNCHANGED <<logs, filter, since, rows, nextBefore, due>>

Next ==
  \/ \E a \in App, level \in Level : Write(a, level)
  \/ \E a \in App : Roll(a)
  \/ Tick
  \/ \E f \in Filters : ChangeFilter(f)
  \/ Refresh \/ LoadMore
  \/ \E r \in pending : LogsAnswer(r) \/ SearchAnswer(r) \/ FetchFails(r)

Spec == Init /\ [][Next]_vars

-----------------------------------------------------------------------------
\* The types.
TypeOK ==
  /\ now \in 0..MaxTime /\ written \in 0..MaxEntries
  /\ file \in [App -> Seq(Entry)]
  /\ rolls \in 0..MaxRolls
  /\ filter \in Filters /\ since \in 0..MaxTime
  /\ rows \in Seq(Entry) /\ nextBefore \in 0..Forever
  /\ loading \in BOOLEAN
  /\ pending \subseteq Request
  /\ due \subseteq Entry /\ mixed \in BOOLEAN

\* The table is what the operator asked for: entries of the chosen apps and
\* levels, of all when none is chosen, and of the window as it was resolved;
\* newest first and none twice, also when the apps write between the pages;
\* except when an answer was overtaken or did not come.
TableAnswersTheFilter ==
  pending = {} /\ ~mixed =>
    /\ \A i \in DOMAIN rows :
         /\ Lets(filter.apps, rows[i].app)
         /\ Lets(filter.levels, rows[i].level)
         /\ rows[i].ts >= since /\ rows[i].ts < filter.until
    /\ ~filter.search =>
         \A i, j \in DOMAIN rows : i < j => Newer(rows[i], rows[j])

\* When there is no next page, everything was shown that was there when the
\* first one was made, unless it has left the tail or has the very time at
\* which a page ended.
NothingIsSkipped ==
  pending = {} /\ ~mixed /\ nextBefore = Forever => due = {}

\* Whatever the chunks cut, the tail is the last lines, whole.
TailIsTheEnd ==
  \A a \in App, n \in 0..TailDefault : TailLines(file[a], n) = LastLines(file[a], n)

\* The chart under a card never shows more than the card counts, and all of it
\* but for what is older than the chart's first bucket.
ChartAgreesWithCard ==
  \A a \in App :
    LET entries == ReadRecent(a) IN
    \A level \in Counted :
      LET chart == History(entries, level)
          shown == {b \in (1..Buckets) \X (1..TailDefault) :
                      b[2] <= chart[b[1]]}
          older == {e \in entries :
                      /\ e.level = level /\ e.ts >= now - Hour
                      /\ e.ts < HistoryEnd - Hour}
      IN Cardinality(shown) + Cardinality(older)
           = CountInWindow(entries, level, Hour)

\* The days of the corpus: those of the default window count whole days, and
\* those of a window with a lower bound that is not of the future have a day
\* for each of its entries, unless it has more days than are shown.  A window
\* with an upper bound only is left out: it has none for the entries that are
\* older than the default window (chroma_stats.py:257,285).
DaysAddUp ==
  LET corpus == Embedded
      default == ByDayDefault(corpus)
  IN /\ \A i \in 1..DefaultDays :
          default[i].count = DayCount(corpus, default[i].day)
     /\ \A from \in 0..now, to \in 0..Forever :
          from < to /\ LastDay(to) - (from \div Day) < MaxDays =>
            LET days == ByDay(corpus, from, to)
                inside == {e \in corpus : e.ts >= from /\ e.ts < to}
            IN \A e \in inside :
                 \E i \in DOMAIN days : days[i].day = e.ts \div Day

\* The charts and the days agree with what they draw.
SeriesAddUp == ChartAgreesWithCard /\ DaysAddUp
=============================================================================
