------------------------------ MODULE LogIngest ------------------------------
(***************************************************************************)
(* How the lines of one app's log reach the vector store.                  *)
(*                                                                         *)
(* The app appends to its active file and rolls it at 10 MB: Logback into  *)
(* a .gz archive, the other apps into files of other names.  When the      *)
(* dashboard starts, a worker thread reads the active file and the .gz     *)
(* archives, parses, folds and embeds them (backfill.py); then the watcher *)
(* takes over at the size the backfill saw (watcher.py), woken by modify   *)
(* events.  The operator may flush the store at any time                   *)
(* (chroma_stats.py), and the process may stop and start.                  *)
(*                                                                         *)
(* Text.  The app writes the lines 1, 2, 3, ... in this order, each line   *)
(* in two parts, the second ending in its newline; a reader can see a line *)
(* when only its first part is there.  Positions count parts from the      *)
(* start of the log, sizes and offsets from the start of the active file.  *)
(***************************************************************************)
EXTENDS Integers, Sequences, FiniteSets

CONSTANTS
  NumLines,    \* how many lines the app writes (bound)
  Headers,     \* the lines a parser makes an entry of; others are traces
  Wanted,      \* the headers filter_for_ingest lets through
  Multiline,   \* app_log.fmt is LOGBACK_TEXT, whose traces are folded
  Gzip,        \* rolled files are named and compressed as Logback does it
  CutParses,   \* the first part of a header alone parses as an entry
  BatchSize,   \* settings.embedding_batch_size
  MaxRolls, MaxFaults, MaxStarts, MaxFlushes   \* bounds

Lines == 1..NumLines

ASSUME ConstantsAssumption ==
  /\ NumLines \in Nat \ {0}
  /\ Headers \subseteq Lines /\ 1 \in Headers
  /\ Wanted \subseteq Headers
  /\ {Multiline, Gzip, CutParses} \subseteq BOOLEAN
  /\ BatchSize \in Nat \ {0}
  /\ {MaxRolls, MaxFaults, MaxStarts, MaxFlushes} \subseteq Nat

VARIABLES
  written,   \* the end of the log
  rolled,    \* where the active file begins: what is before is archived
  zipped,    \* the rolled files are complete up to here
  pc,        \* the ingesting thread, see TypeOK
  active,    \* the backfill's active_lines
  offset,    \* active_size_bytes, then the handler's offset
  size,      \* the last stat result of the backfill or of the handler
  batch,     \* entries still to be embedded by the current upsert_entries
  dirty,     \* a modify event is waiting for the handler
  docs,      \* the collection: the text of each document
  flush,     \* the ids a flush is about to delete, {} when none runs
  excused,   \* history: lines whose loss has a cause, see EveryLineIsEmbedded
  rolls, faults, starts, flushes   \* counters of bounded events

fileVars == <<written, rolled, zipped>>
bounds == <<rolls, faults, starts, flushes>>
vars == <<fileVars, pc, active, offset, size, batch, dirty, docs, flush,
          excused, bounds>>

Watching == {"idle", "read", "adding"}

Init ==
  /\ written = 0 /\ rolled = 0 /\ zipped = 0
  /\ pc = "down"
  /\ active = <<>>
  /\ offset = 0 /\ size = 0
  /\ batch = <<>>
  /\ dirty = FALSE
  /\ docs = {}
  /\ flush = {}
  /\ excused = {}
  /\ rolls = 0 /\ faults = 0 /\ starts = 0 /\ flushes = 0

-----------------------------------------------------------------------------
(* Text to entries *)

Piece(l, a, b) ==
  [line |-> l, part |-> CASE 2 * l - 1 <= a -> "tail"
                          [] 2 * l > b -> "head"
                          [] OTHER -> "whole"]

\* splitlines of the text between two positions.
ReadLines(a, b) ==
  LET first == a \div 2 + 1
      last == (b + 1) \div 2
  IN  IF a >= b THEN <<>>
      ELSE [i \in 1..last - first + 1 |-> Piece(first + i - 1, a, b)]

WholeLines(p) == {p[i].line : i \in {j \in DOMAIN p : p[j].part = "whole"}}

\* parse_line returns an entry.
Parses(e) ==
  /\ e.line \in Headers
  /\ \/ e.part = "whole"
     \/ e.part = "head" /\ CutParses

\* Mutant: a line continues every entry before it.
Continues_AnyEntry(p, i, j) == j < i /\ ~Parses(p[i]) /\ Parses(p[j])

\* The line at i is a continuation of the entry at j.
Continues(p, i, j) ==
  /\ j < i /\ ~Parses(p[i]) /\ Parses(p[j])
  /\ \A k \in j + 1..i - 1 : ~Parses(p[k])

\* A set of positions in ascending order, and what a sequence has there.
InOrder(S) ==
  [k \in 1..Cardinality(S) |->
     CHOOSE i \in S : Cardinality({j \in S : j <= i}) = k]

Picked(s, S) == [k \in DOMAIN InOrder(S) |-> s[InOrder(S)[k]]]

\* _fold_logback_continuations finds an entry by its raw line, so entries with
\* the same raw line are one object, which collects all their continuations.
Trace(p, e) ==
  Picked(p, {i \in DOMAIN p :
               \E j \in DOMAIN p : p[j] = e /\ Continues(p, i, j)})

\* parse_and_fold: the raw text of each entry, in input order.
Entries(p) ==
  LET heads == Picked(p, {i \in DOMAIN p : Parses(p[i])})
  IN  [k \in DOMAIN heads |->
         <<heads[k]>> \o (IF Multiline THEN Trace(p, heads[k]) ELSE <<>>)]

\* ... of those that filter_for_ingest keeps.
Passing(p) ==
  LET all == Entries(p)
  IN  Picked(all, {k \in DOMAIN all : all[k][1].line \in Wanted})

\* make_doc_id(app, raw) is a hash of the entry's text when it is embedded.
DocId(raw) == raw

-----------------------------------------------------------------------------
(* The app and its files *)

Write ==
  /\ written < 2 * NumLines
  /\ written' = written + 1
  /\ dirty' = (dirty \/ pc \in Watching)
  /\ UNCHANGED <<rolled, zipped, pc, active, offset, size, batch, docs, flush,
                 excused, bounds>>

\* Lines whose second part is after a and not after b.
Between(a, b) == {l \in Lines : a < 2 * l /\ 2 * l <= b}

\* An app rolls its file between two events.  What the reader had not read of
\* the old file, and the lines of the new file that its stale offset covers or
\* cuts, may be lost.
Roll ==
  /\ rolls < MaxRolls
  /\ zipped = rolled /\ rolled < written
  /\ written % 2 = 0 /\ (written \div 2) + 1 \in Headers \cup {NumLines + 1}
  /\ rolled' = written
  /\ zipped' = IF Gzip THEN zipped ELSE written
  /\ excused' = excused \cup
       LET stale == IF pc = "read" THEN size ELSE offset
       IN  Between(rolled + offset, written + stale + (stale % 2))
  /\ rolls' = rolls + 1
  /\ UNCHANGED <<written, pc, active, offset, size, batch, dirty, docs,
                 flush, faults, starts, flushes>>

\* The compression of the rolled file ends.
Zip ==
  /\ zipped < rolled
  /\ zipped' = rolled
  /\ UNCHANGED <<written, rolled, pc, active, offset, size, batch, dirty, docs,
                 flush, excused, bounds>>

-----------------------------------------------------------------------------
(* The start of the dashboard: run_initial_backfill, then the watcher *)

Start ==
  /\ pc = "down"
  /\ starts < MaxStarts
  /\ starts' = starts + 1
  /\ pc' = "active"
  /\ UNCHANGED <<fileVars, active, offset, size, batch, dirty, docs, flush,
                 excused, rolls, faults, flushes>>

\* _read_text_lines_with_size: the stat ...
StatActive ==
  /\ pc = "active"
  /\ size' = written - rolled
  /\ pc' = "opening"
  /\ UNCHANGED <<fileVars, active, offset, batch, dirty, docs, flush, excused,
                 bounds>>

\* ... and the read of as many bytes, of whichever file is active by then: all
\* lines, the cut one included.  What the size returned goes beyond of a file
\* that was rolled in between is lost, like a line that is cut.
ReadActive ==
  /\ pc = "opening"
  /\ LET end == IF rolled + size < written THEN rolled + size ELSE written
     IN /\ active' = ReadLines(rolled, end)
        /\ excused' = Between(end, rolled + size + (size % 2))
  /\ offset' = size
  /\ pc' = "archives"
  /\ UNCHANGED <<fileVars, size, batch, dirty, docs, flush, bounds>>

Fault == faults < MaxFaults /\ faults' = faults + 1

\* An OSError in either leaves no lines and the offset 0.
ActiveUnreadable ==
  /\ pc \in {"active", "opening"}
  /\ Fault
  /\ active' = <<>> /\ offset' = 0 /\ excused' = {}
  /\ pc' = "archives"
  /\ UNCHANGED <<fileVars, size, batch, dirty, docs, flush, rolls, starts,
                 flushes>>

\* _find_rotated_archives looks for <name>.*.gz.
Found == IF Gzip THEN zipped ELSE 0

\* The archives' lines go before the active file's.
Embed(upTo) ==
  LET all == ReadLines(0, upTo) \o active IN
    /\ batch' = Passing(all)
    /\ excused' = (excused \cup Between(upTo, rolled)) \ WholeLines(all)
    /\ active' = <<>>
    /\ pc' = "backfill"

\* An archive whose compression has not ended is not there yet ...
ReadArchives ==
  /\ pc = "archives"
  /\ Embed(Found)
  /\ UNCHANGED <<fileVars, offset, size, dirty, docs, flush, bounds>>

\* ... or is there, cut short: gzip raises EOFError, which is no OSError.
BackfillFails == pc' = "failed" /\ batch' = <<>> /\ active' = <<>>

ArchiveTruncated ==
  /\ pc = "archives"
  /\ zipped < rolled
  /\ BackfillFails
  /\ UNCHANGED <<fileVars, offset, size, dirty, docs, flush, excused, bounds>>

\* An OSError skips the archive.
ArchiveUnreadable ==
  /\ pc = "archives"
  /\ Found > 0
  /\ Fault
  /\ Embed(0)
  /\ UNCHANGED <<fileVars, offset, size, dirty, docs, flush, rolls, starts,
                 flushes>>

\* One turn of upsert_entries' loop; documents that exist are skipped.
AddBatch ==
  /\ pc \in {"backfill", "adding"} /\ batch # <<>>
  /\ LET n == IF Len(batch) < BatchSize THEN Len(batch) ELSE BatchSize IN
       /\ docs' = docs \cup {DocId(batch[i]) : i \in 1..n}
       /\ batch' = SubSeq(batch, n + 1, Len(batch))
  /\ UNCHANGED <<fileVars, pc, active, offset, size, dirty, flush, excused,
                 bounds>>

\* Mutant: the handler begins at the end of the file as it is now.
StartWatcher_AtEof ==
  /\ pc = "backfill" /\ batch = <<>>
  /\ pc' = "idle"
  /\ dirty' = FALSE
  /\ offset' = written - rolled
  /\ UNCHANGED <<fileVars, active, size, batch, docs, flush, excused, bounds>>

\* LogVolumeWatcher's handler begins at the size the backfill saw.  Events are
\* delivered from now on.
StartWatcher ==
  /\ pc = "backfill" /\ batch = <<>>
  /\ pc' = "idle"
  /\ dirty' = FALSE
  /\ UNCHANGED <<fileVars, active, offset, size, batch, docs, flush, excused,
                 bounds>>

\* upsert_entries raises: _backfill_and_start_watcher gives up.
BackfillAddFails ==
  /\ pc = "backfill" /\ batch # <<>>
  /\ Fault
  /\ BackfillFails
  /\ UNCHANGED <<fileVars, offset, size, dirty, docs, flush, excused, rolls,
                 starts, flushes>>

-----------------------------------------------------------------------------
(* _read_and_upsert, on the watcher's thread *)

\* The stat: an offset beyond the end of the file starts again from 0.
Stat ==
  /\ pc = "idle" /\ dirty
  /\ dirty' = FALSE
  /\ size' = written - rolled
  /\ offset' = IF size' < offset THEN 0 ELSE offset
  /\ pc' = IF size' = offset' THEN "idle" ELSE "read"
  /\ UNCHANGED <<fileVars, active, batch, docs, flush, excused, bounds>>

\* Mutant: the offset counts what was read twice.
Read_Accumulates ==
  /\ pc = "read"
  /\ LET a == rolled + offset
         b == IF rolled + size < written THEN rolled + size ELSE written
         cut == IF a < b THEN b % 2 ELSE 0
     IN /\ offset' = offset + size - cut
        /\ batch' = Passing(ReadLines(a, b - cut))
  /\ pc' = IF batch' = <<>> THEN "idle" ELSE "adding"
  /\ UNCHANGED <<fileVars, active, size, dirty, docs, flush, excused, bounds>>

\* Mutant: the offset does not back off before an unfinished line.
Read_SkipsPartial ==
  /\ pc = "read"
  /\ LET a == rolled + offset
         b == IF rolled + size < written THEN rolled + size ELSE written
         cut == IF a < b THEN b % 2 ELSE 0
     IN /\ offset' = size
        /\ batch' = Passing(ReadLines(a, b - cut))
  /\ pc' = IF batch' = <<>> THEN "idle" ELSE "adding"
  /\ UNCHANGED <<fileVars, active, size, dirty, docs, flush, excused, bounds>>

\* Mutant: an event that arrives during the read is taken for this one.
Read_DropsEvent ==
  /\ pc = "read"
  /\ LET a == rolled + offset
         b == IF rolled + size < written THEN rolled + size ELSE written
         cut == IF a < b THEN b % 2 ELSE 0
     IN /\ offset' = size - cut
        /\ batch' = Passing(ReadLines(a, b - cut))
  /\ pc' = IF batch' = <<>> THEN "idle" ELSE "adding"
  /\ dirty' = FALSE
  /\ UNCHANGED <<fileVars, active, size, docs, flush, excused, bounds>>

\* The read, of whichever file is active by then: an unfinished last line is
\* dropped and will be read again.
Read ==
  /\ pc = "read"
  /\ LET a == rolled + offset
         b == IF rolled + size < written THEN rolled + size ELSE written
         cut == IF a < b THEN b % 2 ELSE 0
     IN /\ offset' = size - cut
        /\ batch' = Passing(ReadLines(a, b - cut))
  /\ pc' = IF batch' = <<>> THEN "idle" ELSE "adding"
  /\ UNCHANGED <<fileVars, active, size, dirty, docs, flush, excused, bounds>>

\* An OSError in stat or read ends the tick and leaves the offset.
TickAborted ==
  /\ (pc = "idle" /\ dirty) \/ pc = "read"
  /\ Fault
  /\ pc' = "idle"
  /\ dirty' = (dirty /\ pc = "read")
  /\ UNCHANGED <<fileVars, active, offset, size, batch, docs, flush, excused,
                 rolls, starts, flushes>>

Added ==
  /\ pc = "adding" /\ batch = <<>>
  /\ pc' = "idle"
  /\ UNCHANGED <<fileVars, active, offset, size, batch, dirty, docs, flush,
                 excused, bounds>>

\* upsert_entries raises: the offset has already moved past the lines.
AddFails ==
  /\ pc = "adding" /\ batch # <<>>
  /\ Fault
  /\ excused' = excused \cup {batch[i][1].line : i \in DOMAIN batch}
  /\ batch' = <<>>
  /\ pc' = "idle"
  /\ UNCHANGED <<fileVars, active, offset, size, dirty, docs, flush, rolls,
                 starts, flushes>>

-----------------------------------------------------------------------------
(* POST /chroma/flush, and the end of the process *)

FlushSnapshot ==
  /\ pc # "down" /\ flush = {} /\ docs # {}
  /\ flushes < MaxFlushes
  /\ flushes' = flushes + 1
  /\ flush' = docs
  /\ UNCHANGED <<fileVars, pc, active, offset, size, batch, dirty, docs,
                 excused, rolls, faults, starts>>

\* delete, in batches; D is what was deleted when one of them raised, if any.
Delete(D) ==
  /\ flush # {}
  /\ docs' = docs \ D
  /\ excused' = excused \cup {d[1].line : d \in D}
  /\ flush' = {}

FlushDelete ==
  /\ Delete(flush)
  /\ UNCHANGED <<fileVars, pc, active, offset, size, batch, dirty, bounds>>

FlushFails ==
  /\ flush # {} /\ \E D \in SUBSET flush : Delete(D)
  /\ Fault
  /\ UNCHANGED <<fileVars, pc, active, offset, size, batch, dirty, rolls,
                 starts, flushes>>

\* The process stops; the collection and the files stay.
Stop ==
  /\ pc # "down"
  /\ pc' = "down"
  /\ active' = <<>> /\ offset' = 0 /\ size' = 0 /\ batch' = <<>>
  /\ dirty' = FALSE /\ flush' = {}
  /\ UNCHANGED <<fileVars, docs, excused, bounds>>

-----------------------------------------------------------------------------
Backfill ==
  \/ StatActive \/ ReadActive \/ ActiveUnreadable
  \/ ReadArchives \/ ArchiveTruncated \/ ArchiveUnreadable
  \/ StartWatcher \/ BackfillAddFails

Tick == Stat \/ Read \/ TickAborted \/ Added \/ AddFails

Next ==
  \/ Write \/ Roll \/ Zip
  \/ Start \/ Backfill \/ AddBatch \/ Tick
  \/ FlushSnapshot \/ FlushDelete \/ FlushFails
  \/ Stop

Spec == Init /\ [][Next]_vars

\* The worker thread, then the observer's thread, keep running.
ThreadFairness == WF_vars(Backfill \/ AddBatch \/ Tick)

FairSpec == Spec /\ ThreadFairness

-----------------------------------------------------------------------------
(* Properties *)

Pieces == [line : Lines, part : {"head", "tail", "whole"}]

\* Every variable has its type.
TypeOK ==
  /\ written \in 0..2 * NumLines /\ rolled \in 0..written
  /\ zipped \in 0..rolled
  /\ pc \in {"down", "active", "opening", "archives", "backfill", "failed"}
             \cup Watching
  /\ active \in Seq(Pieces)
  /\ offset \in 0..2 * NumLines
  /\ size \in 0..2 * NumLines
  /\ batch \in Seq(Seq(Pieces))
  /\ dirty \in BOOLEAN
  /\ docs \subseteq Seq(Pieces)
  /\ flush \subseteq Seq(Pieces)
  /\ excused \subseteq Lines
  /\ rolls \in 0..MaxRolls /\ faults \in 0..MaxFaults
  /\ starts \in 0..MaxStarts /\ flushes \in 0..MaxFlushes

\* The handler, or the backfill before it, has gone past the line.
Consumed(l) == pc \in Watching /\ 2 * l <= rolled + offset
Pending(l) == \E i \in DOMAIN batch : batch[i][1].line = l
Embedded(l) == \E d \in docs : d[1] = [line |-> l, part |-> "whole"]

\* The handler never goes past a line without embedding it, except for a cause
\* it cannot see: the line was cut at the hand-over from the backfill, an
\* upsert or a file failed, the file was rolled before the line was read, or
\* the operator flushed it.  A restart repairs all but the first.
EveryLineIsEmbedded ==
  \A l \in Wanted :
    Consumed(l) /\ l \notin excused => Embedded(l) \/ Pending(l)

\* A document's text is one stretch of the log, from a header on, and only its
\* last line may be cut ("no invented data", reader.py:110), as long as no file
\* is rolled: one rolled between the backfill's two reads is read twice, and
\* the two copies of an entry, one object, get the trace twice.
TextIsVerbatim ==
  rolls = 0 => \A d \in docs : \A i \in 1..Len(d) - 1 :
    d[i].part = "whole" /\ d[i + 1].line = d[i].line + 1

\* A line that is finished while the watcher runs is embedded without waiting
\* for another write, unless its loss has a cause or the watcher stops.
WatchedLineIsEmbedded ==
  \A l \in Wanted :
    (pc \in Watching /\ dirty /\ 2 * l <= written) ~>
      (Embedded(l) \/ l \in excused \/ pc = "down" \/ faults > 0)

\* backfill.py:33-35: "incremental ingestion resumes from exactly where
\* backfill stopped"; line 113 "off-by-a-few bytes is harmless".  A line that
\* was being written at the hand-over is embedded when the handler passes it.
HandoverLosesNothing ==
  rolls = 0 /\ faults = 0 /\ flushes = 0 =>
    \A l \in Wanted : Consumed(l) => Embedded(l) \/ Pending(l)
=============================================================================
