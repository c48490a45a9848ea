-------------------------- MODULE AgentTurnsProofs --------------------------
(***************************************************************************)
(* Proofs about AgentTurns, for any turns, sessions, log entries and       *)
(* limits: the types and the bounds of the index and of the findings       *)
(* buffer, the memory of the checkpointer, the tool budget, whose answer a *)
(* question is given, and what the conversations keep.                     *)
(*                                                                         *)
(* A step is of one of four kinds, and one lemma of each kind says what it *)
(* leaves true: threads are forgotten and turns started (Fading), a turn   *)
(* loads its thread (Ingesting), a node saves it (Saving), and a turn ends *)
(* (Ending).                                                               *)
(***************************************************************************)
EXTENDS AgentTurns, SequenceTheorems, FiniteSetTheorems, WellFoundedInduction,
        TLAPS

-----------------------------------------------------------------------------
(* The inductive invariant *)

\* A turn that has entered the graph's second node, and one that has not yet
\* loaded its thread.
Past(r) == turn[r].pc \in Nodes \ {"ingest"}
Fresh(r) == turn[r].pc \in {"start", "ingest"}

\* A message of the type and the turn is in the conversation.
Wrote(msgs, r, type) ==
  \E i \in DOMAIN msgs : msgs[i].turn = r /\ msgs[i].type = type

\* The question of turn r is in the conversation, and its answer, unless the
\* budget ended first.
Holds(msgs, r, spent) ==
  Wrote(msgs, r, "human") /\ (Wrote(msgs, r, "answer") \/ spent)

\* The turns that wrote the messages had loaded their threads.
Settled(msgs, tn) ==
  \A i \in DOMAIN msgs : tn[msgs[i].turn].pc \notin {"start", "ingest"}

\* The tool results of turn r among the messages.
Tools(msgs, r) == {i \in DOMAIN msgs : msgs[i].type = "tool" /\ msgs[i].turn = r}

\* How the fields of a turn go together.
Staged == \A r \in Turns :
  /\ turn[r].kind = "none" <=> turn[r].pc = "start"
  /\ turn[r].thread \in Sessions \cup {r}
  /\ turn[r].kind = "scan" => r \in ScanTurns /\ turn[r].thread = r
  /\ turn[r].status # "none" => turn[r].pc = "done"
  /\ ~Past(r) => turn[r].chan.msgs = <<>>

\* The index or the history knows every thread that is in use.
Known ==
  /\ \A r \in Turns : Running(r) => turn[r].thread \in Tracked \cup strays
  /\ DOMAIN checkpoint \subseteq Tracked \cup strays

\* Nothing of a turn is written before it has loaded its thread.
Signed ==
  /\ \A t \in DOMAIN checkpoint : Settled(checkpoint[t].msgs, turn)
  /\ \A r \in Turns : Settled(turn[r].chan.msgs, turn)
  /\ \A t \in DOMAIN checkpoint \cap Turns : ~Fresh(t)

\* What the state c of a run says when turn r is about to enter the node pc.
RunOK(r, c, pc, kind) ==
  /\ Cardinality(Tools(c.msgs, r)) + c.left = MaxToolCalls
  /\ c.spent <=> c.left = 0
  /\ pc \in {"analyze", "correlate"} => c.left > 0
  /\ Wrote(c.msgs, r, "human")
  /\ pc \in {"respond", "reply"} =>
       \/ c.spent
       \/ c.msgs # <<>> /\ c.msgs[Len(c.msgs)] = Msg("answer", r, {})
  /\ kind = "scan" => \A i \in DOMAIN c.msgs : c.msgs[i].turn = r

Runs == \A r \in Turns :
  Past(r) => RunOK(r, turn[r].chan, turn[r].pc, turn[r].kind)

\* A run alone on its thread shares it with no other, and the thread's state is
\* its own.
Alone == \A r \in Turns : Past(r) /\ turn[r].alone =>
  /\ \A q \in Turns : Past(q) /\ turn[q].thread = turn[r].thread => q = r
  /\ turn[r].kept => /\ turn[r].thread \in DOMAIN checkpoint
                     /\ checkpoint[turn[r].thread] = turn[r].chan

\* The thread of an answered turn holds it, and so does the copy of every run.
Kept == \A r \in Turns : Answered(r) /\ turn[r].alone /\ turn[r].kept =>
  /\ turn[r].thread \in DOMAIN checkpoint
  /\ Holds(checkpoint[turn[r].thread].msgs, r, turn[r].chan.spent)
  /\ \A q \in Turns : Past(q) /\ turn[q].thread = turn[r].thread =>
       Holds(turn[q].chan.msgs, r, turn[r].chan.spent)

FindingsOwn ==
  \A i \in DOMAIN findings : findings[i].answer \in {findings[i].turn, NoTurn}

\* What a step of any kind leaves true.
Sound == /\ Staged
         /\ Signed
         /\ Alone
         /\ Kept
         /\ AnswerIsForTheQuestion

IInv ==
  /\ TypeOK
  /\ Sound
  /\ Runs
  /\ Known
  /\ FindingsOwn

-----------------------------------------------------------------------------
(* Numbers and sequences *)

\* A set of natural numbers has a least member.
LEMMA LeastNatural ==
  ASSUME NEW S \in SUBSET Nat, S # {}
  PROVE  \E n \in S : \A m \in S : n <= m
<1> DEFINE R == {ss \in Nat \X Nat : ss[1] < ss[2]}
<1>1. \A x, y \in Nat : <<x, y>> \in R <=> x < y
  OBVIOUS
<1>2. IsWellFoundedOn(R, Nat)
  BY NatLessThanWellFounded DEF OpToRel
<1> HIDE DEF R
<1>3. PICK x \in S : \A y \in S : ~ (<<y, x>> \in R)
  BY <1>2, WFMin
<1>4. ASSUME NEW m \in S PROVE x <= m
  <2>1. ~ (<<m, x>> \in R)
    BY <1>3
  <2>2. m \in Nat /\ x \in Nat
    OBVIOUS
  <2>3. ~ (m < x)
    BY <2>1, <2>2, <1>1
  <2> QED BY <2>2, <2>3
<1> QED BY <1>4

\* A set of positions of a sequence has a greatest member.
LEMMA LastPosition ==
  ASSUME NEW n \in Nat, NEW S \in SUBSET (1..n), S # {}
  PROVE  \E m \in S : \A j \in S : j <= m
<1> DEFINE T == {k \in Nat : n - k \in S}
<1>1. PICK s \in S : TRUE
  OBVIOUS
<1>2. n - s \in T
  <2>1. s \in 1..n
    BY <1>1
  <2>2. n - s \in Nat /\ n - (n - s) = s
    BY <2>1
  <2> QED BY <1>1, <2>2
<1>3. PICK k \in T : \A l \in T : k <= l
  BY <1>2, LeastNatural
<1>4. ASSUME NEW j \in S PROVE j <= n - k
  <2>1. j \in 1..n
    OBVIOUS
  <2>2. n - j \in Nat /\ n - (n - j) = j
    BY <2>1
  <2>3. n - j \in T
    BY <2>2
  <2>4. k <= n - j /\ k \in Nat
    BY <1>3, <2>3
  <2> QED BY <2>1, <2>4
<1> QED BY <1>3, <1>4

\* What can be read of a sequence with one message more.
LEMMA Appended ==
  ASSUME NEW s \in Seq(Messages), NEW m \in Messages
  PROVE  /\ Append(s, m) \in Seq(Messages)
         /\ Len(Append(s, m)) = Len(s) + 1
         /\ DOMAIN s = 1..Len(s)
         /\ DOMAIN Append(s, m) = DOMAIN s \cup {Len(s) + 1}
         /\ \A i \in DOMAIN s : Append(s, m)[i] = s[i]
         /\ Append(s, m)[Len(s) + 1] = m
<1> QED BY AppendProperties

\* A message more is one tool round more exactly when it is a result of r's.
LEMMA RoundsOfAppend ==
  ASSUME NEW s \in Seq(Messages), NEW m \in Messages, NEW r
  PROVE  /\ Cardinality(Tools(s, r)) \in Nat
         /\ Cardinality(Tools(Append(s, m), r)) =
              Cardinality(Tools(s, r))
                + (IF m.type = "tool" /\ m.turn = r THEN 1 ELSE 0)
<1>1. DOMAIN s = 1..Len(s) /\ Len(s) \in Nat
  BY LenProperties
<1>2. IsFiniteSet(Tools(s, r))
  <2>1. IsFiniteSet(1..Len(s))
    BY <1>1, FS_Interval
  <2>2. Tools(s, r) \subseteq 1..Len(s)
    BY <1>1 DEF Tools
  <2> QED BY <2>1, <2>2, FS_Subset
<1>3. Cardinality(Tools(s, r)) \in Nat
  BY <1>2, FS_CardinalityType
<1>4. CASE m.type = "tool" /\ m.turn = r
  <2>1. Tools(Append(s, m), r) = Tools(s, r) \cup {Len(s) + 1}
    BY <1>4, Appended DEF Tools
  <2>2. Len(s) + 1 \notin Tools(s, r)
    BY <1>1 DEF Tools
  <2>3. Cardinality(Tools(Append(s, m), r)) = Cardinality(Tools(s, r)) + 1
    BY <1>2, <2>1, <2>2, FS_AddElement
  <2> QED BY <1>3, <1>4, <2>3
<1>5. CASE ~(m.type = "tool" /\ m.turn = r)
  <2>1. Tools(Append(s, m), r) = Tools(s, r)
    BY <1>5, <1>1, Appended DEF Tools
  <2> QED BY <1>3, <1>5, <2>1
<1> QED BY <1>4, <1>5

\* The answer of a conversation is a turn of one of its messages, or none; when
\* the last message is an answer, it is that one.
LEMMA ExtractAnswerIs ==
  ASSUME NEW s \in Seq(Messages)
  PROVE  /\ \/ ExtractAnswer(s) = NoTurn
            \/ \E i \in DOMAIN s : ExtractAnswer(s) = s[i].turn
         /\ s # <<>> /\ s[Len(s)].type = "answer" =>
              ExtractAnswer(s) = s[Len(s)].turn
<1> DEFINE answers == {i \in DOMAIN s : s[i].type = "answer"}
           Last(i) == i \in answers /\ \A j \in answers : j <= i
           last == CHOOSE i \in answers : \A j \in answers : j <= i
<1>1. DOMAIN s = 1..Len(s) /\ Len(s) \in Nat
  BY LenProperties
<1>2. ExtractAnswer(s) = IF answers = {} THEN NoTurn ELSE s[last].turn
  BY DEF ExtractAnswer
<1>3. ASSUME answers # {} PROVE Last(last)
  <2>1. \E i \in answers : \A j \in answers : j <= i
    BY <1>1, <1>3, LastPosition
  <2> QED BY <2>1
<1>4. ASSUME s # <<>>, s[Len(s)].type = "answer"
      PROVE  ExtractAnswer(s) = s[Len(s)].turn
  <2>1. Len(s) \in answers
    BY <1>1, <1>4, EmptySeq
  <2>2. Len(s) <= last /\ last \in 1..Len(s)
    BY <1>1, <1>3, <2>1
  <2>3. last = Len(s)
    BY <1>1, <2>2
  <2> QED BY <1>2, <2>1, <2>3
<1>5. \/ ExtractAnswer(s) = NoTurn
      \/ \E i \in DOMAIN s : ExtractAnswer(s) = s[i].turn
  BY <1>2, <1>3
<1> QED BY <1>4, <1>5
-----------------------------------------------------------------------------
(* The index *)

\* The queue with t at its end: t is in it, and all that was in it still is.
LEMMA QueuedIs ==
  ASSUME NEW t \in Threads, lru \in Seq(Threads)
  PROVE  /\ Queued(t) \in Seq(Threads)
         /\ Len(Queued(t)) = IF t \in Tracked THEN Len(lru) ELSE Len(lru) + 1
         /\ Queued(t) # <<>>
         /\ \A u \in Tracked \cup {t} :
              \E i \in 1..Len(Queued(t)) : Queued(t)[i] = u
         /\ t \notin Tracked /\ lru # <<>> => Head(Queued(t)) # t
<1>1. DOMAIN lru = 1..Len(lru) /\ Len(lru) \in Nat
  BY LenProperties
<1>2. CASE t \notin Tracked
  <2>1. /\ Append(lru, t) \in Seq(Threads)
        /\ Len(Append(lru, t)) = Len(lru) + 1
        /\ \A i \in 1..Len(lru) : Append(lru, t)[i] = lru[i]
        /\ Append(lru, t)[Len(lru) + 1] = t
    BY AppendProperties
  <2>2. Queued(t) = Append(lru, t)
    BY <1>2 DEF Queued
  <2>3. Append(lru, t) # <<>>
    BY AppendProperties
  <2>4. \A u \in Tracked \cup {t} :
          \E i \in 1..(Len(lru) + 1) : Append(lru, t)[i] = u
    BY <1>1, <2>1 DEF Tracked
  <2>5. ASSUME lru # <<>> PROVE Head(Append(lru, t)) # t
    <3>1. Head(Append(lru, t)) = Append(lru, t)[1] /\ 1 \in 1..Len(lru)
      BY <1>1, <2>1, <2>3, <2>5, EmptySeq, HeadTailProperties
    <3> QED BY <1>1, <1>2, <2>1, <3>1 DEF Tracked
  <2> QED BY <1>2, <2>1, <2>2, <2>3, <2>4, <2>5
<1>3. CASE t \in Tracked
  <2> DEFINE at == CHOOSE i \in DOMAIN lru : lru[i] = t
             moved == [i \in DOMAIN lru |->
                        IF i < at THEN lru[i]
                        ELSE IF i < Len(lru) THEN lru[i + 1] ELSE t]
  <2>1. at \in DOMAIN lru /\ lru[at] = t
    BY <1>3 DEF Tracked
  <2>2. Queued(t) = moved
    BY <1>3 DEF Queued
  <2> HIDE DEF at
  <2>3. moved \in Seq(Threads) /\ Len(moved) = Len(lru)
    <3>1. ASSUME NEW i \in 1..Len(lru) PROVE moved[i] \in Threads
      <4>1. i < Len(lru) => i + 1 \in 1..Len(lru)
        BY <1>1
      <4> QED BY <1>1, <4>1, ElementOfSeq
    <3>2. moved \in [1..Len(lru) -> Threads]
      BY <1>1, <3>1
    <3> QED BY <1>1, <3>2, SeqDef, LenProperties
  <2>4. ASSUME NEW u \in Tracked PROVE \E i \in 1..Len(lru) : moved[i] = u
    <3>1. PICK j \in 1..Len(lru) : lru[j] = u
      BY <1>1 DEF Tracked
    <3>2. CASE j < at
      BY <1>1, <3>1, <3>2
    <3>3. CASE j = at
      <4>1. Len(lru) \in 1..Len(lru) /\ ~(Len(lru) < at)
        BY <1>1, <2>1
      <4> QED BY <1>1, <2>1, <3>1, <3>3, <4>1
    <3>4. CASE at < j
      <4>1. j - 1 \in 1..Len(lru) /\ ~(j - 1 < at) /\ j - 1 < Len(lru)
        BY <1>1, <2>1, <3>4
      <4> QED BY <1>1, <3>1, <4>1
    <3> QED BY <1>1, <2>1, <3>2, <3>3, <3>4
  <2>5. moved # <<>>
    BY <1>1, <2>1, <2>3
  <2> HIDE DEF moved
  <2> QED BY <1>3, <2>2, <2>3, <2>4, <2>5
<1> QED BY <1>2, <1>3

\* Every field of a turn but kept is carried over, and kept only when its thread
\* is not one of T.
Carried(a, b, T) ==
  /\ b.kind = a.kind /\ b.thread = a.thread /\ b.pc = a.pc
  /\ b.chan = a.chan /\ b.store = a.store /\ b.status = a.status
  /\ b.answer = a.answer /\ b.alone = a.alone
  /\ b.kept => a.kept /\ a.thread \notin T

\* The checkpointer forgets the threads of T, and nothing else.
Forgets(T) ==
  /\ DOMAIN checkpoint' = DOMAIN checkpoint \ T
  /\ \A t \in DOMAIN checkpoint' : checkpoint'[t] = checkpoint[t]

LEMMA EvictedIs ==
  ASSUME NEW T, NEW tn \in [Turns -> TurnStates]
  PROVE  /\ Evicted(T, tn) \in [Turns -> TurnStates]
         /\ \A r \in Turns : Carried(tn[r], Evicted(T, tn)[r], T)
  BY DEF Evicted, Carried, TurnStates

\* Touching a thread makes the index know it; what the index drops for it, the
\* checkpointer forgets, and the history keeps when a turn still runs on it.
LEMMA TouchIs ==
  ASSUME TypeOK, Staged, NEW r \in Turns, NEW kind \in {"ask", "scan"},
         NEW t \in Threads, Touch(t, Started(r, kind, t))
  PROVE  \E T \in SUBSET Threads :
           /\ t \notin T
           /\ turn' \in [Turns -> TurnStates]
           /\ \A q \in Turns : Carried(Started(r, kind, t)[q], turn'[q], T)
           /\ Forgets(T)
           /\ lru' \in Seq(Threads) /\ Len(lru') <= MaxSessions
           /\ strays' \subseteq Threads
           /\ t \in Tracked'
           /\ Tracked \cup strays \subseteq Tracked' \cup strays' \cup T
           /\ \A q \in Turns :
                Running(q) /\ turn[q].thread \in T => turn[q].thread \in strays'
<1> DEFINE queue == Queued(t)
           victim == Head(queue)
           full == t \notin Tracked /\ Len(queue) > MaxSessions
           busy == \E q \in OnThread(victim) : Running(q)
           tn == Started(r, kind, t)
<1>1. lru \in Seq(Threads) /\ Len(lru) <= MaxSessions /\ strays \subseteq Threads
      /\ MaxSessions \in Nat \ {0} /\ Len(lru) \in Nat
  BY ConstantsAssumption, LenProperties DEF TypeOK
<1>2. /\ queue \in Seq(Threads) /\ queue # <<>>
      /\ Len(queue) = IF t \in Tracked THEN Len(lru) ELSE Len(lru) + 1
      /\ \A u \in Tracked \cup {t} : \E i \in 1..Len(queue) : queue[i] = u
      /\ t \notin Tracked /\ lru # <<>> => victim # t
  BY <1>1, QueuedIs
<1>3. DOMAIN queue = 1..Len(queue) /\ Len(queue) \in Nat
  BY <1>2, LenProperties
<1>6. tn \in [Turns -> TurnStates]
  <2>1. turn \in [Turns -> TurnStates] /\ store \in BOOLEAN
    BY DEF TypeOK
  <2>2. [turn[r] EXCEPT !.kind = kind, !.thread = t, !.pc = "ingest",
                        !.store = store] \in TurnStates
    BY <2>1 DEF TurnStates, Kinds, Nodes
  <2> QED BY <2>1, <2>2 DEF Started
<1>4. CASE full
  <2>1. /\ lru' = Tail(queue)
        /\ turn' = Evicted({victim}, tn)
        /\ checkpoint' = Forget({victim})
        /\ strays' = (strays \ {t}) \cup (IF busy THEN {victim} ELSE {})
    BY <1>4 DEF Touch
  <2>2. Len(queue) = Len(lru) + 1 /\ lru # <<>> /\ victim # t
    BY <1>1, <1>2, <1>4, EmptySeq
  <2>3. /\ victim = queue[1] /\ victim \in Threads
        /\ Tail(queue) \in Seq(Threads)
        /\ Len(Tail(queue)) = Len(lru)
        /\ \A i \in 1..Len(lru) : Tail(queue)[i] = queue[i + 1]
    BY <1>1, <1>2, <1>3, <2>2, HeadTailProperties, ElementOfSeq
  <2>4. DOMAIN lru' = 1..Len(lru)
    BY <2>1, <2>3, LenProperties
  <2>5. ASSUME NEW u \in (Tracked \cup {t}) \ {victim} PROVE u \in Tracked'
    <3>1. PICK i \in 1..Len(queue) : queue[i] = u
      BY <1>2
    <3>2. i # 1
      BY <2>3, <3>1
    <3>3. i - 1 \in 1..Len(lru) /\ (i - 1) + 1 = i
      BY <1>1, <2>2, <3>2
    <3> QED BY <2>1, <2>3, <2>4, <3>1, <3>3 DEF Tracked
  <2>6. \A q \in Turns : Running(q) /\ turn[q].thread \in {victim} =>
          turn[q].thread \in strays'
    <3>1. \A q \in Turns : Running(q) => turn[q].kind # "none"
      BY DEF Staged, Running, Nodes
    <3> QED BY <2>1, <3>1 DEF OnThread
  <2>7. turn' \in [Turns -> TurnStates]
        /\ \A q \in Turns : Carried(tn[q], turn'[q], {victim})
    <3> HIDE DEF tn
    <3> QED BY <1>6, <2>1, EvictedIs
  <2>8. Forgets({victim})
    BY <2>1 DEF Forgets, Forget
  <2>9. strays' \subseteq Threads
    BY <1>1, <2>1, <2>3
  <2>10. Tracked \cup strays \subseteq Tracked' \cup strays' \cup {victim}
         /\ t \in Tracked'
    BY <2>1, <2>2, <2>5
  <2>11. lru' \in Seq(Threads) /\ Len(lru') <= MaxSessions
    BY <1>1, <2>1, <2>3
  <2>12. {victim} \in SUBSET Threads
    BY <2>3
  <2> HIDE DEF queue, victim, full, busy
  <2> QED BY <2>12, <2>2, <2>6, <2>7, <2>8, <2>9, <2>10, <2>11
<1>5. CASE ~full
  <2>1. lru' = queue /\ turn' = tn /\ strays' = strays \ {t}
        /\ checkpoint' = checkpoint
    BY <1>5 DEF Touch
  <2>2. \A u \in Tracked \cup {t} : u \in Tracked'
    BY <1>2, <1>3, <2>1 DEF Tracked
  <2>3. Len(queue) <= MaxSessions
    BY <1>1, <1>2, <1>3, <1>5
  <2>4. \A q \in Turns : Carried(tn[q], turn'[q], {})
    <3> HIDE DEF tn
    <3> QED BY <2>1 DEF Carried
  <2>5. Forgets({})
    BY <2>1 DEF Forgets
  <2> HIDE DEF queue, victim, full, busy
  <2> QED BY <1>1, <1>2, <1>6, <2>1, <2>2, <2>3, <2>4, <2>5
<1> QED BY <1>4, <1>5
-----------------------------------------------------------------------------
(* What a step of each kind leaves true *)

\* A thread belongs to a session, or to the one turn it is named after.
LEMMA ThreadIs ==
  ASSUME TypeOK, Staged, NEW r \in Turns
  PROVE  /\ turn[r].thread \in Threads
         /\ turn[r].thread \in Turns => turn[r].thread = r
  BY ConstantsAssumption DEF TypeOK, Staged, TurnStates, Threads

\* The messages of the threads and of the runs are messages of turns.
LEMMA MessagesAre ==
  ASSUME TypeOK
  PROVE  /\ \A t \in DOMAIN checkpoint : checkpoint[t].msgs \in Seq(Messages)
         /\ \A r \in Turns : turn[r].chan.msgs \in Seq(Messages)
  BY DEF TypeOK, TurnStates, States

LEMMA WritersAre ==
  ASSUME NEW s \in Seq(Messages)
  PROVE  \A i \in DOMAIN s : s[i].turn \in Turns
<1>1. \A i \in 1..Len(s) : s[i] \in Messages
  BY ElementOfSeq
<1> QED BY <1>1, LenProperties DEF Messages

\* When no turn becomes fresh, settled conversations stay so.
LEMMA SettledStays ==
  ASSUME NEW s \in Seq(Messages), NEW tn, NEW new, Settled(s, tn),
         \A q \in Turns : tn[q].pc \notin {"start", "ingest"} =>
                            new[q].pc \notin {"start", "ingest"}
  PROVE  Settled(s, new)
  BY WritersAre DEF Settled

\* Threads of T are forgotten, and turns of R are started.
LEMMA Fading ==
  ASSUME TypeOK, Sound, Runs, NEW T, NEW R \in SUBSET Turns,
         \A q \in Turns \ R : Carried(turn[q], turn'[q], T),
         \A q \in R : /\ turn[q].pc = "start" /\ turn'[q].pc = "ingest"
                      /\ turn'[q].kind \in {"ask", "scan"}
                      /\ turn'[q].thread \in Sessions \cup {q}
                      /\ turn'[q].kind = "scan" => q \in ScanTurns /\ turn'[q].thread = q
                      /\ turn'[q].chan = turn[q].chan
                      /\ turn'[q].status = turn[q].status,
         Forgets(T)
  PROVE  Sound' /\ Runs'
<1>1. ASSUME NEW q \in Turns
      PROVE  /\ Past(q)' => Past(q) /\ q \notin R
             /\ ~Past(q)' => ~Past(q)
             /\ turn[q].pc \notin {"start", "ingest"} =>
                  turn'[q].pc \notin {"start", "ingest"}
             /\ turn'[q].chan = turn[q].chan
             /\ Answered(q)' => Answered(q) /\ q \notin R
  BY DEF Past, Answered, Carried, Sound, Staged, Nodes
<1>2. Staged'
  BY <1>1 DEF Sound, Staged, Carried, Past, Nodes
<1>3. Signed'
  <2>1. \A t \in DOMAIN checkpoint' :
          t \in DOMAIN checkpoint /\ checkpoint'[t] = checkpoint[t]
    BY DEF Forgets
  <2>2. ASSUME NEW t \in DOMAIN checkpoint'
        PROVE  Settled(checkpoint'[t].msgs, turn')
    <3>1. Settled(checkpoint[t].msgs, turn) /\ t \in DOMAIN checkpoint
      BY <2>1 DEF Sound, Signed
    <3> QED BY <1>1, <2>1, <3>1, MessagesAre, SettledStays
  <2>3. ASSUME NEW r \in Turns PROVE Settled(turn'[r].chan.msgs, turn')
    <3>1. Settled(turn[r].chan.msgs, turn)
      BY DEF Sound, Signed
    <3> QED BY <1>1, <3>1, MessagesAre, SettledStays
  <2> QED BY <1>1, <2>1, <2>2, <2>3 DEF Sound, Signed, Fresh
<1>4. Runs'
  BY <1>1 DEF Runs, Carried, Past
<1>5. Alone'
  <2>1. ASSUME NEW q \in Turns, Past(q)'
        PROVE  /\ Past(q)
               /\ turn'[q].thread = turn[q].thread
               /\ turn'[q].alone = turn[q].alone
               /\ turn'[q].kept => turn[q].kept /\ turn[q].thread \notin T
    BY <1>1, <2>1 DEF Carried
  <2> QED BY <1>1, <2>1 DEF Sound, Alone, Forgets
<1>6. Kept'
  <2>1. ASSUME NEW q \in Turns, Past(q)' \/ Answered(q)'
        PROVE  /\ Past(q)' => Past(q)
               /\ Answered(q)' => Answered(q)
               /\ turn'[q].thread = turn[q].thread
               /\ turn'[q].alone = turn[q].alone
               /\ turn'[q].kept => turn[q].kept /\ turn[q].thread \notin T
    BY <1>1, <2>1 DEF Carried
  <2> QED BY <1>1, <2>1 DEF Sound, Kept, Forgets
<1>7. AnswerIsForTheQuestion'
  BY <1>1 DEF Sound, AnswerIsForTheQuestion, Carried
<1> QED BY <1>2, <1>3, <1>4, <1>5, <1>6, <1>7 DEF Sound

\* The step keeps every message of s, and adds only messages of turn r.
Extends(s, r, new) ==
  /\ \A i \in DOMAIN s : i \in DOMAIN new /\ new[i] = s[i]
  /\ \A i \in DOMAIN new : i \in DOMAIN s \/ new[i].turn = r

LEMMA ExtendedIs ==
  ASSUME NEW s \in Seq(Messages), NEW r, NEW m \in Messages, m.turn = r
  PROVE  Extends(s, r, Append(s, m))
  BY Appended DEF Extends

\* A conversation that holds a turn still does when it grows.
LEMMA HoldsStays ==
  ASSUME NEW s, NEW r, NEW new, Extends(s, r, new), NEW q, NEW spent,
         Holds(s, q, spent)
  PROVE  Holds(new, q, spent)
  BY DEF Extends, Holds, Wrote

\* A settled conversation that grows by a turn past its first node is settled.
LEMMA SettledGrows ==
  ASSUME NEW s, NEW r, NEW new, Extends(s, r, new), NEW tn, Settled(s, tn),
         tn[r].pc \notin {"start", "ingest"}
  PROVE  Settled(new, tn)
  BY DEF Extends, Settled

\* Turn r loads its thread and leaves the first node.
LEMMA Ingesting ==
  ASSUME TypeOK, Sound, Runs, NEW r \in Turns, Ingest(r)
  PROVE  Sound' /\ Runs'
<1> DEFINE t == turn[r].thread
           others == {q \in OnThread(t) \ {r} : Running(q)}
           old == Loaded(t)
           m == Msg("human", r, {})
           c == Reset(Append(old, m))
           single == others = {}
<1>1. /\ turn[r].pc = "ingest" /\ turn[r].thread = t
      /\ turn'[r] = [turn[r] EXCEPT !.chan = c, !.pc = "analyze",
                                    !.alone = single]
      /\ \A q \in Turns \ {r} :
           turn'[q] = IF q \in others THEN [turn[q] EXCEPT !.alone = FALSE]
                      ELSE turn[q]
      /\ checkpoint' = Save(r, c)
  BY DEF Ingest
<1>2. turn \in [Turns -> TurnStates]
  BY DEF TypeOK
<1>3. /\ old \in Seq(Messages)
      /\ m \in Messages /\ m.turn = r /\ m.type = "human"
      /\ Settled(old, turn)
      /\ t \in DOMAIN checkpoint => old = checkpoint[t].msgs
      /\ t \notin DOMAIN checkpoint => old = <<>>
  <2>1. m \in Messages /\ m.turn = r /\ m.type = "human"
    BY DEF Msg, Messages, MsgTypes
  <2>2. CASE t \in DOMAIN checkpoint
    <3>1. old = checkpoint[t].msgs
      BY <2>2 DEF Loaded
    <3>2. checkpoint[t].msgs \in Seq(Messages)
      BY <2>2, MessagesAre
    <3>3. Settled(checkpoint[t].msgs, turn)
      BY <2>2 DEF Sound, Signed
    <3> HIDE DEF m, old, t
    <3> QED BY <2>1, <2>2, <3>1, <3>2, <3>3
  <2>3. CASE t \notin DOMAIN checkpoint
    <3>1. old = <<>>
      BY <2>3 DEF Loaded
    <3>2. old \in Seq(Messages) /\ Settled(old, turn)
      BY <3>1 DEF Settled
    <3> HIDE DEF m, old, t
    <3> QED BY <2>1, <2>3, <3>1, <3>2
  <2> QED BY <2>2, <2>3
<1>4. c.msgs = Append(old, m) /\ c.left = MaxToolCalls /\ c.spent = FALSE
  BY DEF Reset, Blank
<1>5. \A q \in Turns : q # r /\ Past(q) /\ turn[q].thread = t => q \in others
  BY DEF OnThread, Running, Past, Sound, Staged, Nodes
<1>6. others \subseteq Turns /\ r \notin others
      /\ \A q \in others : ~Answered(q)
  BY DEF OnThread, Running, Nodes, Answered, Sound, Staged
<1>7. t = r => old = <<>>
  BY <1>1, <1>3 DEF Sound, Signed, Fresh
<1>8. t \in Turns => t = r
  BY ThreadIs DEF Sound
<1>9. turn[r].kind = "scan" => t = r
  BY DEF Sound, Staged
<1>24. single => others = {}
  OBVIOUS
<1> HIDE DEF t, others, old, c, m, single
<1>10. /\ turn'[r].pc = "analyze" /\ turn'[r].chan = c
       /\ turn'[r].alone = single
       /\ turn'[r].thread = t /\ turn'[r].kind = turn[r].kind
       /\ turn'[r].status = turn[r].status /\ turn'[r].kept = turn[r].kept
       /\ turn'[r].answer = turn[r].answer
  BY <1>1, <1>2 DEF TurnStates
<1>11. ASSUME NEW q \in Turns \ {r}
       PROVE  /\ turn'[q].pc = turn[q].pc /\ turn'[q].chan = turn[q].chan
              /\ turn'[q].thread = turn[q].thread
              /\ turn'[q].kind = turn[q].kind
              /\ turn'[q].status = turn[q].status
              /\ turn'[q].kept = turn[q].kept
              /\ turn'[q].answer = turn[q].answer
              /\ turn'[q].alone => turn[q].alone /\ q \notin others
              /\ q \notin others => turn'[q].alone = turn[q].alone
  <2>1. CASE q \in others
    <3>1. turn'[q] = [turn[q] EXCEPT !.alone = FALSE] /\ turn[q] \in TurnStates
      BY <1>1, <1>2, <2>1
    <3> QED BY <2>1, <3>1 DEF TurnStates
  <2>2. CASE q \notin others
    <3>1. turn'[q] = turn[q]
      BY <1>1, <2>2
    <3> QED BY <2>2, <3>1
  <2> QED BY <2>1, <2>2
<1>12. /\ DOMAIN checkpoint' = DOMAIN checkpoint \cup {t}
       /\ checkpoint'[t] = c
       /\ \A u \in DOMAIN checkpoint \ {t} : checkpoint'[u] = checkpoint[u]
  BY <1>1 DEF Save
<1>13. Extends(old, r, c.msgs)
  BY <1>3, <1>4, ExtendedIs
<1>14. /\ DOMAIN c.msgs = DOMAIN old \cup {Len(old) + 1}
       /\ \A i \in DOMAIN old : c.msgs[i] = old[i]
       /\ c.msgs[Len(old) + 1] = m
  BY <1>3, <1>4, Appended
<1>15. ~Past(r) /\ ~Answered(r)
  BY <1>1 DEF Past, Sound, Staged, Answered
<1>16. \A q \in Turns : turn[q].pc \notin {"start", "ingest"} =>
                          turn'[q].pc \notin {"start", "ingest"}
  BY <1>10, <1>11
<1>17. Staged'
  <2>1. turn[r].kind # "none" /\ turn[r].thread \in Sessions \cup {r}
        /\ (turn[r].kind = "scan" => r \in ScanTurns /\ turn[r].thread = r)
        /\ ~(turn[r].status # "none")
    BY <1>1 DEF Sound, Staged
  <2>2. Past(r)'
    BY <1>10 DEF Past, Nodes
  <2>3. ASSUME NEW q \in Turns \ {r}
        PROVE  /\ turn'[q].kind = "none" <=> turn'[q].pc = "start"
               /\ turn'[q].thread \in Sessions \cup {q}
               /\ turn'[q].kind = "scan" => q \in ScanTurns /\ turn'[q].thread = q
               /\ turn'[q].status # "none" => turn'[q].pc = "done"
               /\ ~Past(q)' => turn'[q].chan.msgs = <<>>
    BY <1>11 DEF Sound, Staged, Past
  <2>4. /\ turn'[r].kind = "none" <=> turn'[r].pc = "start"
        /\ turn'[r].thread \in Sessions \cup {r}
        /\ turn'[r].kind = "scan" => r \in ScanTurns /\ turn'[r].thread = r
        /\ turn'[r].status # "none" => turn'[r].pc = "done"
    BY <1>1, <1>10, <2>1
  <2> QED BY <2>2, <2>3, <2>4 DEF Staged
<1>18. Signed'
  <2>1. Settled(c.msgs, turn')
    <3>1. Settled(old, turn')
      BY <1>3, <1>16, SettledStays
    <3> QED BY <1>10, <1>13, <3>1, SettledGrows
  <2>2. ASSUME NEW u \in DOMAIN checkpoint'
        PROVE  Settled(checkpoint'[u].msgs, turn')
    <3>1. CASE u = t
      BY <1>12, <2>1, <3>1
    <3>2. CASE u # t
      <4>1. u \in DOMAIN checkpoint /\ Settled(checkpoint[u].msgs, turn)
        BY <1>12, <3>2 DEF Sound, Signed
      <4> QED BY <1>12, <1>16, <3>2, <4>1, MessagesAre, SettledStays
    <3> QED BY <3>1, <3>2
  <2>3. ASSUME NEW q \in Turns PROVE Settled(turn'[q].chan.msgs, turn')
    <3>1. CASE q = r
      BY <1>10, <2>1, <3>1
    <3>2. CASE q # r
      <4>1. Settled(turn[q].chan.msgs, turn)
        BY DEF Sound, Signed
      <4> QED BY <1>11, <1>16, <3>2, <4>1, MessagesAre, SettledStays
    <3> QED BY <3>1, <3>2
  <2>4. \A u \in DOMAIN checkpoint' \cap Turns : ~Fresh(u)'
    BY <1>8, <1>10, <1>12, <1>16 DEF Sound, Signed, Fresh
  <2> QED BY <2>2, <2>3, <2>4 DEF Signed
<1>19. RunOK(r, c, "analyze", turn[r].kind)
  <2>1. Tools(c.msgs, r) = {}
    BY <1>1, <1>3, <1>14 DEF Tools, Settled
  <2>2. Cardinality(Tools(c.msgs, r)) = 0
    BY <2>1, FS_EmptySet
  <2>3. Wrote(c.msgs, r, "human")
    BY <1>3, <1>14 DEF Wrote
  <2>4. MaxToolCalls \in Nat \ {0}
    BY ConstantsAssumption
  <2>5. ASSUME turn[r].kind = "scan", NEW i \in DOMAIN c.msgs
        PROVE  c.msgs[i].turn = r
    BY <1>3, <1>7, <1>9, <1>14, <2>5
  <2> QED BY <1>4, <2>2, <2>3, <2>4, <2>5 DEF RunOK
<1>20. Runs'
  BY <1>10, <1>11, <1>19 DEF Runs, Past
<1>21. Alone'
  <2>1. ASSUME NEW q \in Turns, Past(q)', turn'[q].alone, q # r
        PROVE  /\ Past(q) /\ turn[q].alone /\ turn[q].thread # t
               /\ turn'[q].thread = turn[q].thread
    BY <1>5, <1>11, <2>1 DEF Past
  <2>2. ASSUME NEW q \in Turns, Past(q)', turn'[q].alone,
               NEW p \in Turns, Past(p)', turn'[p].thread = turn'[q].thread
        PROVE  p = q
    <3>1. CASE q = r
      BY <1>5, <1>10, <1>11, <1>24, <2>2, <3>1 DEF Past
    <3>2. CASE q # r
      BY <1>10, <1>11, <2>1, <2>2, <3>2 DEF Past, Sound, Alone
    <3> QED BY <3>1, <3>2
  <2>3. ASSUME NEW q \in Turns, Past(q)', turn'[q].alone, turn'[q].kept
        PROVE  /\ turn'[q].thread \in DOMAIN checkpoint'
               /\ checkpoint'[turn'[q].thread] = turn'[q].chan
    BY <1>10, <1>11, <1>12, <2>1, <2>3 DEF Sound, Alone
  <2> QED BY <2>2, <2>3 DEF Alone
<1>22. Kept'
  <2>1. ASSUME NEW q \in Turns, Answered(q)', turn'[q].alone, turn'[q].kept
        PROVE  /\ q # r /\ Answered(q) /\ turn[q].alone /\ turn[q].kept
               /\ turn[q].thread \in DOMAIN checkpoint
               /\ Holds(checkpoint[turn[q].thread].msgs, q, turn[q].chan.spent)
               /\ turn'[q].thread = turn[q].thread
               /\ turn'[q].chan = turn[q].chan
    BY <1>10, <1>11, <1>15, <2>1 DEF Answered, Sound, Kept
  <2>2. ASSUME NEW q \in Turns, Answered(q)', turn'[q].alone, turn'[q].kept,
               turn[q].thread = t
        PROVE  Holds(c.msgs, q, turn[q].chan.spent)
    <3>1. Holds(old, q, turn[q].chan.spent)
      BY <1>3, <2>1, <2>2
    <3> QED BY <1>13, <3>1, HoldsStays
  <2>3. ASSUME NEW q \in Turns, Answered(q)', turn'[q].alone, turn'[q].kept
        PROVE  Holds(checkpoint'[turn'[q].thread].msgs, q, turn'[q].chan.spent)
    BY <1>12, <2>1, <2>2, <2>3
  <2>4. ASSUME NEW q \in Turns, Answered(q)', turn'[q].alone, turn'[q].kept,
               NEW p \in Turns, Past(p)', turn'[p].thread = turn'[q].thread
        PROVE  Holds(turn'[p].chan.msgs, q, turn'[q].chan.spent)
    <3>1. CASE p = r
      BY <1>10, <2>1, <2>2, <2>4, <3>1
    <3>2. CASE p # r
      BY <1>11, <2>1, <2>4, <3>2 DEF Past, Sound, Kept
    <3> QED BY <3>1, <3>2
  <2>5. ASSUME NEW q \in Turns, Answered(q)', turn'[q].alone, turn'[q].kept
        PROVE  turn'[q].thread \in DOMAIN checkpoint'
    BY <1>12, <2>1, <2>5
  <2> QED BY <2>3, <2>4, <2>5 DEF Kept
<1>23. AnswerIsForTheQuestion'
  BY <1>6, <1>10, <1>11, <1>15 DEF Sound, AnswerIsForTheQuestion, Answered
<1> QED BY <1>17, <1>18, <1>20, <1>21, <1>22, <1>23 DEF Sound
\* Turn r, past its first node, saves the state c on its way to the node next.
LEMMA Saving ==
  ASSUME TypeOK, Sound, Runs, NEW r \in Turns, Past(r),
         NEW c, NEW next \in Nodes \ {"ingest"}, Node(r, c, next),
         Extends(turn[r].chan.msgs, r, c.msgs),
         RunOK(r, c, next, turn[r].kind)
  PROVE  Sound' /\ Runs'
<1> DEFINE t == turn[r].thread
           old == turn[r].chan.msgs
<1>1. /\ turn' = [turn EXCEPT ![r].chan = c, ![r].pc = next]
      /\ checkpoint' = Save(r, c)
  BY DEF Node
<1>2. turn \in [Turns -> TurnStates] /\ turn[r].thread = t /\ turn[r].chan.msgs = old
  BY DEF TypeOK
<1>3. turn[r].pc \notin {"start", "ingest", "done"} /\ ~Answered(r)
  BY DEF Past, Nodes, Sound, Staged, Answered
<1>4. t \in Turns => t = r
  BY ThreadIs DEF Sound
<1> HIDE DEF t, old
<1>5. /\ turn'[r].pc = next /\ turn'[r].chan = c
      /\ turn'[r].thread = t /\ turn'[r].kind = turn[r].kind
      /\ turn'[r].status = turn[r].status /\ turn'[r].answer = turn[r].answer
      /\ turn'[r].alone = turn[r].alone /\ turn'[r].kept = turn[r].kept
  BY <1>1, <1>2 DEF TurnStates
<1>6. \A q \in Turns \ {r} : turn'[q] = turn[q]
  BY <1>1, <1>2
<1>7. /\ DOMAIN checkpoint' = DOMAIN checkpoint \cup {t}
      /\ checkpoint'[t] = c
      /\ \A u \in DOMAIN checkpoint \ {t} : checkpoint'[u] = checkpoint[u]
  BY <1>1, <1>2 DEF Save
<1>8. next \notin {"start", "ingest", "done"} /\ Past(r)'
  BY <1>5 DEF Past, Nodes
<1>9. \A q \in Turns : turn[q].pc \notin {"start", "ingest"} =>
                         turn'[q].pc \notin {"start", "ingest"}
  BY <1>5, <1>6, <1>8
<1>10. \A q \in Turns \ {r} : (Past(q)' <=> Past(q)) /\ (Answered(q)' <=> Answered(q))
  BY <1>6 DEF Past, Answered
<1>11. ~Answered(r)'
  BY <1>3, <1>5 DEF Answered
<1>12. Staged'
  <2>1. /\ turn'[r].kind = "none" <=> turn'[r].pc = "start"
        /\ turn'[r].thread \in Sessions \cup {r}
        /\ turn'[r].kind = "scan" => r \in ScanTurns /\ turn'[r].thread = r
        /\ turn'[r].status # "none" => turn'[r].pc = "done"
    BY <1>2, <1>3, <1>5, <1>8 DEF Sound, Staged
  <2> QED BY <1>6, <1>8, <1>10, <2>1 DEF Sound, Staged
<1>13. Signed'
  <2>1. Settled(c.msgs, turn')
    <3>1. Settled(old, turn) /\ old \in Seq(Messages)
      BY <1>2, MessagesAre DEF Sound, Signed
    <3>2. Settled(old, turn')
      BY <1>9, <3>1, SettledStays
    <3> QED BY <1>2, <1>5, <1>8, <3>2, SettledGrows
  <2>2. ASSUME NEW u \in DOMAIN checkpoint'
        PROVE  Settled(checkpoint'[u].msgs, turn')
    <3>1. CASE u = t
      BY <1>7, <2>1, <3>1
    <3>2. CASE u # t
      <4>1. u \in DOMAIN checkpoint /\ Settled(checkpoint[u].msgs, turn)
        BY <1>7, <3>2 DEF Sound, Signed
      <4> QED BY <1>7, <1>9, <3>2, <4>1, MessagesAre, SettledStays
    <3> QED BY <3>1, <3>2
  <2>3. ASSUME NEW q \in Turns PROVE Settled(turn'[q].chan.msgs, turn')
    <3>1. CASE q = r
      BY <1>5, <2>1, <3>1
    <3>2. CASE q # r
      <4>1. Settled(turn[q].chan.msgs, turn)
        BY DEF Sound, Signed
      <4> QED BY <1>6, <1>9, <3>2, <4>1, MessagesAre, SettledStays
    <3> QED BY <3>1, <3>2
  <2>4. \A u \in DOMAIN checkpoint' \cap Turns : ~Fresh(u)'
    BY <1>4, <1>5, <1>7, <1>8, <1>9 DEF Sound, Signed, Fresh
  <2> QED BY <2>2, <2>3, <2>4 DEF Signed
<1>14. Runs'
  BY <1>5, <1>6, <1>10 DEF Runs
<1>15. Alone'
  <2>1. ASSUME NEW q \in Turns, Past(q)', turn'[q].alone
        PROVE  /\ Past(q) /\ turn[q].alone
               /\ turn'[q].thread = turn[q].thread
               /\ turn'[q].kept <=> turn[q].kept
               /\ q # r => turn[q].thread # t /\ turn'[q] = turn[q]
    <3>1. CASE q = r
      BY <1>2, <1>5, <2>1, <3>1
    <3>2. CASE q # r
      BY <1>2, <1>6, <1>10, <2>1, <3>2 DEF Sound, Alone
    <3> QED BY <3>1, <3>2
  <2>2. ASSUME NEW q \in Turns, Past(q)', turn'[q].alone,
               NEW p \in Turns, Past(p)', turn'[p].thread = turn'[q].thread
        PROVE  p = q
    <3>1. Past(p) /\ turn[p].thread = turn[q].thread
      BY <1>2, <1>5, <1>6, <1>10, <2>1, <2>2
    <3> QED BY <2>1, <2>2, <3>1 DEF Sound, Alone
  <2>3. ASSUME NEW q \in Turns, Past(q)', turn'[q].alone, turn'[q].kept
        PROVE  /\ turn'[q].thread \in DOMAIN checkpoint'
               /\ checkpoint'[turn'[q].thread] = turn'[q].chan
    <3>1. CASE q = r
      BY <1>5, <1>7, <3>1
    <3>2. CASE q # r
      <4>1. /\ turn[q].thread \in DOMAIN checkpoint
            /\ checkpoint[turn[q].thread] = turn[q].chan
        BY <2>1, <2>3 DEF Sound, Alone
      <4> QED BY <1>7, <2>1, <2>3, <3>2, <4>1
    <3> QED BY <3>1, <3>2
  <2> QED BY <2>2, <2>3 DEF Alone
<1>16. Kept'
  <2>1. ASSUME NEW q \in Turns, Answered(q)', turn'[q].alone, turn'[q].kept
        PROVE  /\ q # r /\ turn'[q] = turn[q]
               /\ turn[q].thread \in DOMAIN checkpoint
               /\ Holds(checkpoint[turn[q].thread].msgs, q, turn[q].chan.spent)
               /\ \A p \in Turns : Past(p) /\ turn[p].thread = turn[q].thread =>
                    Holds(turn[p].chan.msgs, q, turn[q].chan.spent)
    BY <1>6, <1>10, <1>11, <2>1 DEF Sound, Kept
  <2>2. ASSUME NEW q \in Turns, Answered(q)', turn'[q].alone, turn'[q].kept,
               turn[q].thread = t
        PROVE  Holds(c.msgs, q, turn[q].chan.spent)
    <3>1. Holds(old, q, turn[q].chan.spent)
      BY <1>2, <2>1, <2>2
    <3> QED BY <1>2, <3>1, HoldsStays
  <2>3. ASSUME NEW q \in Turns, Answered(q)', turn'[q].alone, turn'[q].kept
        PROVE  /\ turn'[q].thread \in DOMAIN checkpoint'
               /\ Holds(checkpoint'[turn'[q].thread].msgs, q, turn'[q].chan.spent)
    BY <1>7, <2>1, <2>2, <2>3
  <2>4. ASSUME NEW q \in Turns, Answered(q)', turn'[q].alone, turn'[q].kept,
               NEW p \in Turns, Past(p)', turn'[p].thread = turn'[q].thread
        PROVE  Holds(turn'[p].chan.msgs, q, turn'[q].chan.spent)
    <3>1. CASE p = r
      BY <1>5, <2>1, <2>2, <2>4, <3>1
    <3>2. CASE p # r
      BY <1>6, <1>10, <2>1, <2>4, <3>2
    <3> QED BY <3>1, <3>2
  <2> QED BY <2>3, <2>4 DEF Kept
<1>17. AnswerIsForTheQuestion'
  BY <1>6, <1>10, <1>11 DEF Sound, AnswerIsForTheQuestion
<1> QED BY <1>12, <1>13, <1>14, <1>15, <1>16, <1>17 DEF Sound

\* Turn r, past its first node, ends.  When it is answered, the answer is taken
\* from its own state, or from the thread, which is the same when it was alone.
LEMMA Ending ==
  ASSUME TypeOK, Sound, Runs, NEW r \in Turns, Past(r),
         NEW status \in {"ok", "streamed", "failed"}, NEW answer, NEW result,
         turn' = Over(r, status, answer, result), UNCHANGED checkpoint,
         status # "failed" =>
           /\ turn[r].pc = "reply" /\ answer = ExtractAnswer(result.msgs)
           /\ \/ result = turn[r].chan
              \/ status = "streamed" /\ ~(turn[r].alone /\ turn[r].kept)
  PROVE  Sound' /\ Runs'
<1> DEFINE blank == [Blank EXCEPT !.spent = result.spent]
<1>1. turn' = [turn EXCEPT ![r].pc = "done", ![r].status = status,
                           ![r].answer = answer, ![r].chan = blank,
                           ![r].store = FALSE]
  BY DEF Over
<1>2. turn \in [Turns -> TurnStates]
  BY DEF TypeOK
<1>3. blank.msgs = <<>> /\ blank.spent = result.spent
  BY DEF Blank
<1>4. turn[r].pc \notin {"start", "ingest", "done"}
  BY DEF Past, Nodes
<1> HIDE DEF blank
<1>5. /\ turn'[r].pc = "done" /\ turn'[r].chan = blank
      /\ turn'[r].thread = turn[r].thread /\ turn'[r].kind = turn[r].kind
      /\ turn'[r].status = status /\ turn'[r].answer = answer
      /\ turn'[r].alone = turn[r].alone /\ turn'[r].kept = turn[r].kept
  BY <1>1, <1>2 DEF TurnStates
<1>6. \A q \in Turns \ {r} : turn'[q] = turn[q]
  BY <1>1, <1>2
<1>7. \A q \in Turns : turn[q].pc \notin {"start", "ingest"} =>
                         turn'[q].pc \notin {"start", "ingest"}
  BY <1>5, <1>6
<1>8. \A q \in Turns \ {r} : (Past(q)' <=> Past(q)) /\ (Answered(q)' <=> Answered(q))
  BY <1>6 DEF Past, Answered
<1>9. ~Past(r)'
  BY <1>5 DEF Past, Nodes
<1>10. RunOK(r, turn[r].chan, turn[r].pc, turn[r].kind)
  BY DEF Runs
<1>11. ASSUME turn[r].pc = "reply", ~turn[r].chan.spent
       PROVE  /\ ExtractAnswer(turn[r].chan.msgs) = r
              /\ Wrote(turn[r].chan.msgs, r, "answer")
  <2> DEFINE s == turn[r].chan.msgs
  <2>1. s # <<>> /\ s[Len(s)] = Msg("answer", r, {})
    BY <1>10, <1>11 DEF RunOK
  <2>2. s \in Seq(Messages)
    BY MessagesAre
  <2> HIDE DEF s
  <2>3. s[Len(s)].type = "answer" /\ s[Len(s)].turn = r
    BY <2>1 DEF Msg
  <2>4. Len(s) \in DOMAIN s
    BY <2>1, <2>2, LenProperties, EmptySeq
  <2>5. ExtractAnswer(s) = r /\ Wrote(s, r, "answer")
    BY <2>1, <2>2, <2>3, <2>4, ExtractAnswerIs DEF Wrote
  <2> QED BY <2>5 DEF s
<1>12. Staged'
  <2>1. /\ turn'[r].kind = "none" <=> turn'[r].pc = "start"
        /\ turn'[r].thread \in Sessions \cup {r}
        /\ turn'[r].kind = "scan" => r \in ScanTurns /\ turn'[r].thread = r
        /\ turn'[r].status # "none" => turn'[r].pc = "done"
        /\ turn'[r].chan.msgs = <<>>
    BY <1>3, <1>4, <1>5 DEF Sound, Staged
  <2> QED BY <1>6, <1>8, <2>1 DEF Sound, Staged
<1>13. Signed'
  <2>1. ASSUME NEW u \in DOMAIN checkpoint
        PROVE  Settled(checkpoint[u].msgs, turn')
    BY <1>7, MessagesAre, SettledStays DEF Sound, Signed
  <2>2. ASSUME NEW q \in Turns PROVE Settled(turn'[q].chan.msgs, turn')
    <3>1. CASE q = r
      BY <1>3, <1>5, <3>1 DEF Settled
    <3>2. CASE q # r
      <4>1. Settled(turn[q].chan.msgs, turn)
        BY DEF Sound, Signed
      <4> QED BY <1>6, <1>7, <3>2, <4>1, MessagesAre, SettledStays
    <3> QED BY <3>1, <3>2
  <2>3. \A u \in DOMAIN checkpoint \cap Turns : ~Fresh(u)'
    BY <1>7 DEF Sound, Signed, Fresh
  <2> QED BY <2>1, <2>2, <2>3 DEF Signed
<1>14. Runs'
  BY <1>6, <1>8, <1>9 DEF Runs
<1>15. Alone'
  BY <1>6, <1>8, <1>9 DEF Sound, Alone
<1>16. Kept'
  <2>1. ASSUME NEW q \in Turns \ {r},
               Answered(q)', turn'[q].alone, turn'[q].kept
        PROVE  /\ turn'[q].thread \in DOMAIN checkpoint
               /\ Holds(checkpoint[turn'[q].thread].msgs, q, turn'[q].chan.spent)
               /\ \A p \in Turns : Past(p)' /\ turn'[p].thread = turn'[q].thread =>
                    Holds(turn'[p].chan.msgs, q, turn'[q].chan.spent)
    BY <1>6, <1>8, <1>9, <2>1 DEF Sound, Kept
  <2>2. ASSUME Answered(r)', turn'[r].alone, turn'[r].kept
        PROVE  /\ turn'[r].thread \in DOMAIN checkpoint
               /\ Holds(checkpoint[turn'[r].thread].msgs, r, turn'[r].chan.spent)
               /\ \A p \in Turns : Past(p)' => turn'[p].thread # turn'[r].thread
    <3>1. turn[r].alone /\ turn[r].kept /\ status # "failed"
      BY <1>5, <2>2 DEF Answered
    <3>2. turn[r].pc = "reply" /\ result = turn[r].chan
      BY <3>1
    <3>3. /\ turn[r].thread \in DOMAIN checkpoint
          /\ checkpoint[turn[r].thread] = turn[r].chan
          /\ \A p \in Turns : Past(p) /\ turn[p].thread = turn[r].thread => p = r
      BY <3>1 DEF Sound, Alone
    <3>4. Holds(turn[r].chan.msgs, r, turn[r].chan.spent)
      BY <1>10, <1>11, <3>2 DEF RunOK, Holds
    <3> QED BY <1>3, <1>5, <1>6, <1>8, <1>9, <3>2, <3>3, <3>4
  <2> QED BY <2>1, <2>2 DEF Kept
<1>17. AnswerIsForTheQuestion'
  <2>1. ASSUME Answered(r)'
        PROVE  \/ turn'[r].answer = r
               \/ turn'[r].chan.spent
               \/ turn'[r].status = "streamed"
                    /\ ~(turn'[r].alone /\ turn'[r].kept)
    <3>1. status # "failed"
      BY <1>5, <2>1 DEF Answered
    <3>2. CASE result = turn[r].chan
      BY <1>3, <1>5, <1>11, <3>1, <3>2
    <3>3. CASE status = "streamed" /\ ~(turn[r].alone /\ turn[r].kept)
      BY <1>5, <3>3
    <3> QED BY <3>1, <3>2, <3>3
  <2> QED BY <1>6, <1>8, <2>1 DEF Sound, AnswerIsForTheQuestion
<1> QED BY <1>12, <1>13, <1>14, <1>15, <1>16, <1>17 DEF Sound
-----------------------------------------------------------------------------
(* The actions *)

\* The bounds of the limits.
LEMMA Limits ==
  /\ MaxToolCalls \in Nat \ {0} /\ MaxSessions \in Nat \ {0}
  /\ MaxFindings \in Nat \ {0}
  /\ NoTurn \notin Turns
  BY ConstantsAssumption

LEMMA BlankIs == Blank \in States
<1>1. MaxToolCalls \in 0..MaxToolCalls /\ <<>> \in Seq(Messages)
  BY Limits
<1> QED BY <1>1 DEF Blank, States

\* The index and the history keep what a turn that runs on or ends needs.
LEMMA KnownStays ==
  ASSUME Known, NEW r \in Turns, Running(r), UNCHANGED <<lru, strays>>,
         DOMAIN checkpoint' \subseteq DOMAIN checkpoint \cup {turn[r].thread},
         \A q \in Turns : Running(q)' =>
           Running(q) /\ turn'[q].thread = turn[q].thread
  PROVE  Known'
<1>1. Tracked' = Tracked
  BY DEF Tracked
<1> QED BY <1>1 DEF Known

\* A node keeps the types and the index.
LEMMA NodeKeeps ==
  ASSUME TypeOK, Known, NEW r \in Turns, Past(r),
         NEW c \in States, NEW next \in Nodes \ {"ingest"}, Node(r, c, next)
  PROVE  TypeOK' /\ Known'
<1>1. /\ turn' = [turn EXCEPT ![r].chan = c, ![r].pc = next]
      /\ checkpoint' = Save(r, c)
      /\ UNCHANGED <<lru, store, findings, dryRun, closed, strays>>
  BY DEF Node
<1>2. turn' \in [Turns -> TurnStates]
  <2>1. [turn[r] EXCEPT !.chan = c, !.pc = next] \in TurnStates
    BY DEF TypeOK, TurnStates, Nodes
  <2> QED BY <1>1, <2>1 DEF TypeOK
<1>3. turn[r].thread \in Threads
  BY DEF TypeOK, TurnStates
<1>4. /\ DOMAIN checkpoint' = DOMAIN checkpoint \cup {turn[r].thread}
      /\ \A t \in DOMAIN checkpoint' : checkpoint'[t] \in States
  BY <1>1 DEF TypeOK, Save
<1>5. TypeOK'
  BY <1>1, <1>2, <1>3, <1>4 DEF TypeOK
<1>6. ASSUME NEW q \in Turns, Running(q)'
      PROVE  Running(q) /\ turn'[q].thread = turn[q].thread
  <2>1. CASE q = r
    BY <1>1, <2>1 DEF TypeOK, TurnStates, Running, Past
  <2>2. CASE q # r
    BY <1>1, <1>6, <2>2 DEF TypeOK, Running
  <2> QED BY <2>1, <2>2
<1>7. Running(r)
  BY DEF Running, Past
<1> QED BY <1>1, <1>4, <1>5, <1>6, <1>7, KnownStays

\* A turn that ends keeps them, too.
LEMMA OverKeeps ==
  ASSUME TypeOK, Known, NEW r \in Turns, Running(r),
         NEW status \in Statuses, NEW answer \in Turns \cup {NoTurn},
         NEW result \in States,
         turn' = Over(r, status, answer, result),
         UNCHANGED <<lru, checkpoint, store, dryRun, closed, strays>>,
         findings' \in Seq(Findings), Len(findings') <= MaxFindings
  PROVE  TypeOK' /\ Known'
<1> DEFINE blank == [Blank EXCEPT !.spent = result.spent]
<1>1. blank \in States
  <2>1. ASSUME NEW b \in BOOLEAN PROVE [Blank EXCEPT !.spent = b] \in States
    BY BlankIs DEF States
  <2>2. result.spent \in BOOLEAN
    BY DEF States
  <2> QED BY <2>1, <2>2
<1>2. turn' = [turn EXCEPT ![r].pc = "done", ![r].status = status,
                           ![r].answer = answer, ![r].chan = blank,
                           ![r].store = FALSE]
  BY DEF Over
<1> HIDE DEF blank
<1>3. [turn[r] EXCEPT !.pc = "done", !.status = status, !.answer = answer,
                      !.chan = blank, !.store = FALSE] \in TurnStates
  BY <1>1 DEF TypeOK, TurnStates
<1>4. turn' \in [Turns -> TurnStates]
  BY <1>2, <1>3 DEF TypeOK
<1>5. TypeOK'
  BY <1>4 DEF TypeOK
<1>6. ASSUME NEW q \in Turns, Running(q)'
      PROVE  Running(q) /\ turn'[q].thread = turn[q].thread
  <2>1. CASE q = r
    BY <1>2, <2>1 DEF TypeOK, TurnStates
  <2>2. CASE q # r
    BY <1>2, <1>6, <2>2 DEF TypeOK, Running
  <2> QED BY <2>1, <2>2
<1> QED BY <1>5, <1>6, KnownStays

\* The state of a run with a message of its own more.
LEMMA GrownIs ==
  ASSUME TypeOK, NEW r \in Turns, NEW m \in Messages, m.turn = r
  PROVE  /\ turn[r].chan \in States
         /\ Append(turn[r].chan.msgs, m) \in Seq(Messages)
         /\ Extends(turn[r].chan.msgs, r, Append(turn[r].chan.msgs, m))
         /\ Append(turn[r].chan.msgs, m) # <<>>
         /\ Append(turn[r].chan.msgs, m)[Len(Append(turn[r].chan.msgs, m))] = m
<1>1. turn[r].chan \in States
  BY DEF TypeOK, TurnStates
<1>2. turn[r].chan.msgs \in Seq(Messages)
  BY MessagesAre
<1> QED BY <1>1, <1>2, ExtendedIs, AppendProperties

\* A message of the model is no tool round, and the state it is added to keeps
\* the budget.
LEMMA SaysIs ==
  ASSUME TypeOK, Runs, NEW r \in Turns, Past(r), NEW type \in {"call", "answer"},
         NEW next \in {"correlate", "respond"},
         next = "correlate" => turn[r].chan.left > 0,
         next = "respond" => type = "answer" \/ turn[r].chan.spent
  PROVE  /\ Says(r, type) \in States
         /\ Extends(turn[r].chan.msgs, r, Says(r, type).msgs)
         /\ RunOK(r, Says(r, type), next, turn[r].kind)
<1> DEFINE m == Msg(type, r, {})
           old == turn[r].chan.msgs
           new == Append(old, m)
           c == turn[r].chan
<1>1. m \in Messages /\ m.turn = r /\ m.type = type
  BY DEF Msg, Messages, MsgTypes
<1>2. RunOK(r, c, turn[r].pc, turn[r].kind) /\ c.msgs = old
  BY DEF Runs
<1>3. Says(r, type) = [c EXCEPT !.msgs = new]
  BY DEF Says
<1>4. c \in States /\ new \in Seq(Messages) /\ Extends(old, r, new)
      /\ new # <<>> /\ new[Len(new)] = m /\ old \in Seq(Messages)
  <2> HIDE DEF m
  <2> QED BY <1>1, GrownIs, MessagesAre
<1>5. Cardinality(Tools(new, r)) = Cardinality(Tools(old, r))
  <2>1. Cardinality(Tools(old, r)) \in Nat
        /\ Cardinality(Tools(new, r)) = Cardinality(Tools(old, r)) + 0
    <3> HIDE DEF m, old
    <3> QED BY <1>1, <1>4, RoundsOfAppend
  <2> HIDE DEF new, old
  <2> QED BY <2>1
<1>6. m = Msg(type, r, {})
  OBVIOUS
<1> HIDE DEF m, new, c
<1>7. /\ Says(r, type) \in States
      /\ Says(r, type).msgs = new /\ Says(r, type).left = c.left
      /\ Says(r, type).spent = c.spent
  BY <1>3, <1>4 DEF States
<1>8. turn[r].chan = c
  BY DEF c
<1> HIDE DEF old
<1>9. Wrote(new, r, "human")
  BY <1>2, <1>4 DEF RunOK, Wrote, Extends
<1>10. turn[r].kind = "scan" => \A i \in DOMAIN new : new[i].turn = r
  BY <1>2, <1>4 DEF RunOK, Extends
<1>11. next = "respond" => c.spent \/ new[Len(new)] = Msg("answer", r, {})
  BY <1>4, <1>6, <1>8
<1>12. /\ Cardinality(Tools(old, r)) + c.left = MaxToolCalls
       /\ c.spent <=> c.left = 0
  BY <1>2 DEF RunOK
<1>13. RunOK(r, Says(r, type), next, turn[r].kind)
  BY <1>4, <1>5, <1>7, <1>8, <1>9, <1>10, <1>11, <1>12 DEF RunOK
<1> QED BY <1>2, <1>4, <1>7, <1>8, <1>13

LEMMA AnalyzeKeeps ==
  ASSUME IInv, NEW r \in Turns, Analyze(r)
  PROVE  IInv'
<1>1. PICK type \in LlmReplies(turn[r].chan.msgs) :
        Node(r, Says(r, type), RouteAfterAnalyze(type))
  BY DEF Analyze
<1> DEFINE next == RouteAfterAnalyze(type)
<1>2. type \in {"call", "answer"}
  BY DEF LlmReplies
<1>3. Past(r) /\ turn[r].pc = "analyze"
  BY DEF Analyze, Past, Nodes
<1>4. RunOK(r, turn[r].chan, turn[r].pc, turn[r].kind)
  BY <1>3 DEF IInv, Runs
<1>5. /\ next \in {"correlate", "respond"}
      /\ next = "correlate" => turn[r].chan.left > 0
      /\ next = "respond" => type = "answer"
  BY <1>2, <1>3, <1>4 DEF RouteAfterAnalyze, RunOK
<1> HIDE DEF next
<1>6. /\ Says(r, type) \in States
      /\ Extends(turn[r].chan.msgs, r, Says(r, type).msgs)
      /\ RunOK(r, Says(r, type), next, turn[r].kind)
  BY <1>2, <1>3, <1>5, SaysIs DEF IInv
<1>7. Node(r, Says(r, type), next) /\ next \in Nodes \ {"ingest"}
  BY <1>1, <1>5 DEF next, Nodes
<1>8. Sound' /\ Runs'
  BY <1>3, <1>6, <1>7, Saving DEF IInv
<1>9. TypeOK' /\ Known'
  BY <1>3, <1>6, <1>7, NodeKeeps DEF IInv
<1> QED BY <1>7, <1>8, <1>9 DEF IInv, FindingsOwn, Node

LEMMA PredictKeeps ==
  ASSUME IInv, NEW r \in Turns, Predict(r)
  PROVE  IInv'
<1> DEFINE left == turn[r].chan.left
<1>1. PICK type \in LlmReplies(turn[r].chan.msgs) :
        Node(r, Says(r, type), RouteAfterPredict(type, left))
  BY DEF Predict
<1> DEFINE next == RouteAfterPredict(type, left)
<1>2. type \in {"call", "answer"}
  BY DEF LlmReplies
<1>3. Past(r)
  BY DEF Predict, Past, Nodes
<1>4. RunOK(r, turn[r].chan, turn[r].pc, turn[r].kind)
  BY <1>3 DEF IInv, Runs
<1>5. left \in Nat
  BY DEF IInv, TypeOK, TurnStates, States
<1>6. /\ next \in {"correlate", "respond"}
      /\ next = "correlate" => turn[r].chan.left > 0
      /\ next = "respond" => type = "answer" \/ turn[r].chan.spent
  BY <1>2, <1>3, <1>4, <1>5 DEF RouteAfterPredict, RunOK
<1> HIDE DEF next
<1>7. /\ Says(r, type) \in States
      /\ Extends(turn[r].chan.msgs, r, Says(r, type).msgs)
      /\ RunOK(r, Says(r, type), next, turn[r].kind)
  BY <1>2, <1>3, <1>6, SaysIs DEF IInv
<1>8. Node(r, Says(r, type), next) /\ next \in Nodes \ {"ingest"}
  BY <1>1, <1>6 DEF next, Nodes
<1>9. Sound' /\ Runs'
  BY <1>3, <1>7, <1>8, Saving DEF IInv
<1>10. TypeOK' /\ Known'
  BY <1>3, <1>7, <1>8, NodeKeeps DEF IInv
<1> QED BY <1>8, <1>9, <1>10 DEF IInv, FindingsOwn, Node

\* The result of a tool is a round, paid for with one of those left.
LEMMA CorrelateKeeps ==
  ASSUME IInv, NEW r \in Turns, Correlate(r)
  PROVE  IInv'
<1> DEFINE c == turn[r].chan
           old == turn[r].chan.msgs
           left == IF c.left = 0 THEN 0 ELSE c.left - 1
           none == left = 0
<1>1. PICK found \in SUBSET Entries :
        Node(r, [c EXCEPT !.msgs = Append(@, Msg("tool", r, found)),
                          !.left = left, !.spent = none], "predict")
  BY DEF Correlate
<1> DEFINE m == Msg("tool", r, found)
           new == Append(old, m)
           d == [c EXCEPT !.msgs = new, !.left = left, !.spent = none]
<1>2. m \in Messages /\ m.turn = r /\ m.type = "tool"
  BY DEF Msg, Messages, MsgTypes
<1>3. Past(r) /\ turn[r].pc = "correlate"
  BY DEF Correlate, Past, Nodes
<1>4. RunOK(r, c, "correlate", turn[r].kind) /\ c = turn[r].chan /\ c.msgs = old
  BY <1>3 DEF IInv, Runs
<1>5. Node(r, d, "predict") /\ "predict" \in Nodes \ {"ingest"}
  BY <1>1 DEF Nodes
<1>6. c \in States /\ new \in Seq(Messages) /\ Extends(old, r, new)
      /\ old \in Seq(Messages)
  <2> HIDE DEF m
  <2> QED BY <1>2, GrownIs, MessagesAre DEF IInv
<1>7. /\ Cardinality(Tools(old, r)) \in Nat
      /\ Cardinality(Tools(new, r)) = Cardinality(Tools(old, r)) + 1
  <2> HIDE DEF m, old
  <2> QED BY <1>2, <1>6, RoundsOfAppend
<1>8. /\ Cardinality(Tools(old, r)) + c.left = MaxToolCalls
      /\ c.left > 0
  BY <1>4 DEF RunOK
<1>9. c.left \in 0..MaxToolCalls /\ MaxToolCalls \in Nat
  BY Limits DEF IInv, TypeOK, TurnStates, States
<1>10. left = c.left - 1 /\ left \in 0..MaxToolCalls /\ none \in BOOLEAN
       /\ (none <=> left = 0)
  BY <1>8, <1>9
<1> HIDE DEF c, old, left, none, m, new
<1>11. d \in States /\ d.msgs = new /\ d.left = left /\ d.spent = none
  BY <1>6, <1>10 DEF States
<1> HIDE DEF d
<1>12. RunOK(r, d, "predict", turn[r].kind)
  <2>1. Wrote(new, r, "human")
    BY <1>4, <1>6 DEF RunOK, Wrote, Extends
  <2>2. turn[r].kind = "scan" => \A i \in DOMAIN new : new[i].turn = r
    BY <1>4, <1>6 DEF RunOK, Extends
  <2>3. Cardinality(Tools(new, r)) + left = MaxToolCalls
    BY <1>7, <1>8, <1>9, <1>10
  <2> QED BY <1>10, <1>11, <2>1, <2>2, <2>3 DEF RunOK
<1>13. Extends(turn[r].chan.msgs, r, d.msgs)
  BY <1>4, <1>6, <1>11
<1>14. Sound' /\ Runs'
  BY <1>3, <1>5, <1>12, <1>13, Saving DEF IInv
<1>15. TypeOK' /\ Known'
  BY <1>3, <1>5, <1>11, NodeKeeps DEF IInv
<1> QED BY <1>5, <1>14, <1>15 DEF IInv, FindingsOwn, Node

LEMMA RespondKeeps ==
  ASSUME IInv, NEW r \in Turns, Respond(r)
  PROVE  IInv'
<1> DEFINE c == turn[r].chan
           d == [c EXCEPT !.cites = ExtractCitations(c.msgs)]
<1>1. turn[r].pc = "respond" /\ Node(r, d, "reply") /\ c = turn[r].chan
      /\ "reply" \in Nodes \ {"ingest"}
  BY DEF Respond, AfterRespond, Nodes
<1>2. Past(r)
  BY <1>1 DEF Past, Nodes
<1>3. RunOK(r, c, "respond", turn[r].kind)
  BY <1>1, <1>2 DEF IInv, Runs
<1>4. c \in States
  BY DEF IInv, TypeOK, TurnStates
<1>5. ExtractCitations(c.msgs) \subseteq Entries
  <2>1. c.msgs \in Seq(Messages)
    BY <1>4 DEF States
  <2>2. \A i \in DOMAIN c.msgs : c.msgs[i] \in Messages
    BY <2>1, ElementOfSeq, LenProperties
  <2>3. \A i \in DOMAIN c.msgs : c.msgs[i].entries \subseteq Entries
    BY <2>2 DEF Messages
  <2> QED BY <2>3 DEF ExtractCitations
<1> HIDE DEF c
<1>6. d \in States /\ d.msgs = c.msgs /\ d.left = c.left /\ d.spent = c.spent
  BY <1>4, <1>5 DEF States
<1> HIDE DEF d
<1>7. RunOK(r, d, "reply", turn[r].kind)
  BY <1>3, <1>6 DEF RunOK
<1>8. Extends(turn[r].chan.msgs, r, d.msgs)
  BY <1>1, <1>6 DEF Extends
<1>9. Sound' /\ Runs'
  BY <1>1, <1>2, <1>7, <1>8, Saving DEF IInv
<1>10. TypeOK' /\ Known'
  BY <1>1, <1>2, <1>6, NodeKeeps DEF IInv
<1> QED BY <1>1, <1>9, <1>10 DEF IInv, FindingsOwn, Node

LEMMA IngestKeeps ==
  ASSUME IInv, NEW r \in Turns, Ingest(r)
  PROVE  IInv'
<1> DEFINE t == turn[r].thread
           others == {q \in OnThread(t) \ {r} : Running(q)}
           m == Msg("human", r, {})
           c == Reset(Append(Loaded(t), m))
           single == others = {}
<1>1. /\ turn[r].pc = "ingest" /\ t = turn[r].thread /\ single \in BOOLEAN
      /\ turn' = [q \in Turns |->
           IF q = r THEN [turn[r] EXCEPT !.chan = c, !.pc = "analyze",
                                         !.alone = single]
           ELSE IF q \in others THEN [turn[q] EXCEPT !.alone = FALSE]
           ELSE turn[q]]
      /\ checkpoint' = Save(r, c)
      /\ UNCHANGED <<lru, store, findings, dryRun, closed, strays>>
  BY DEF Ingest
<1>2. turn \in [Turns -> TurnStates]
  BY DEF IInv, TypeOK
<1>3. t \in Threads
  BY <1>2 DEF TurnStates
<1>4. c \in States
  <2>1. Loaded(t) \in Seq(Messages)
    BY MessagesAre DEF Loaded, IInv
  <2>2. m \in Messages
    BY DEF Msg, Messages, MsgTypes
  <2>3. Append(Loaded(t), m) \in Seq(Messages)
    BY <2>1, <2>2, AppendProperties
  <2>4. ASSUME NEW s \in Seq(Messages) PROVE Reset(s) \in States
    BY BlankIs DEF Reset, States
  <2> QED BY <2>3, <2>4
<1> HIDE DEF t, others, c, single
<1>5. turn' \in [Turns -> TurnStates]
  <2>1. [turn[r] EXCEPT !.chan = c, !.pc = "analyze", !.alone = single]
          \in TurnStates
    BY <1>1, <1>2, <1>4 DEF TurnStates, Nodes
  <2>2. ASSUME NEW q \in Turns
        PROVE  [turn[q] EXCEPT !.alone = FALSE] \in TurnStates
    BY <1>2 DEF TurnStates
  <2> QED BY <1>1, <1>2, <2>1, <2>2
<1>6. /\ DOMAIN checkpoint' = DOMAIN checkpoint \cup {t}
      /\ \A u \in DOMAIN checkpoint' : checkpoint'[u] \in States
  BY <1>1, <1>4 DEF IInv, TypeOK, Save
<1>7. TypeOK'
  BY <1>1, <1>3, <1>5, <1>6 DEF IInv, TypeOK
<1>8. ASSUME NEW q \in Turns
      PROVE  /\ Running(q)' => Running(q)
             /\ turn'[q].thread = turn[q].thread
  <2>1. CASE q = r
    BY <1>1, <1>2, <2>1 DEF TurnStates, Running, Nodes
  <2>2. CASE q # r /\ q \in others
    <3>1. turn'[q] = [turn[q] EXCEPT !.alone = FALSE]
      BY <1>1, <2>2
    <3> QED BY <1>2, <3>1 DEF TurnStates, Running
  <2>3. CASE q # r /\ q \notin others
    BY <1>1, <2>3 DEF Running
  <2> QED BY <2>1, <2>2, <2>3
<1>9. Running(r)
  BY <1>1 DEF Running, Nodes
<1>10. Known'
  BY <1>1, <1>6, <1>8, <1>9, KnownStays DEF IInv
<1>11. Sound' /\ Runs'
  BY Ingesting DEF IInv
<1> QED BY <1>1, <1>7, <1>10, <1>11 DEF IInv, FindingsOwn

\* The answer of a conversation is a turn or none.
LEMMA AnswerType ==
  ASSUME NEW s \in Seq(Messages)
  PROVE  ExtractAnswer(s) \in Turns \cup {NoTurn}
  BY ExtractAnswerIs, WritersAre

LEMMA ReplyKeeps ==
  ASSUME IInv, NEW r \in Turns, Reply(r) \/ StreamReply(r)
  PROVE  IInv'
<1>1. \E status \in {"ok", "streamed"}, result \in States :
        /\ turn' = Over(r, status, ExtractAnswer(result.msgs), result)
        /\ \/ result = turn[r].chan
           \/ status = "streamed" /\ ~(turn[r].alone /\ turn[r].kept)
  <2>1. CASE Reply(r)
    <3>1. turn' = Over(r, "ok", ExtractAnswer(turn[r].chan.msgs), turn[r].chan)
      BY <2>1 DEF Reply
    <3>2. turn[r].chan \in States
      BY DEF IInv, TypeOK, TurnStates
    <3> QED BY <3>1, <3>2
  <2>2. CASE StreamReply(r)
    <3> DEFINE t == turn[r].thread
               result == IF t \in DOMAIN checkpoint THEN checkpoint[t] ELSE Blank
    <3>1. turn' = Over(r, "streamed", ExtractAnswer(result.msgs), result)
      BY <2>2 DEF StreamReply
    <3>2. result \in States
      BY BlankIs DEF IInv, TypeOK
    <3>3. turn[r].alone /\ turn[r].kept => result = turn[r].chan
      <4>1. Past(r)
        BY <2>2 DEF StreamReply, Past, Nodes
      <4> QED BY <4>1 DEF IInv, Sound, Alone
    <3> HIDE DEF result
    <3> QED BY <3>1, <3>2, <3>3
  <2> QED BY <2>1, <2>2
<1>2. PICK status \in {"ok", "streamed"}, result \in States :
        /\ turn' = Over(r, status, ExtractAnswer(result.msgs), result)
        /\ \/ result = turn[r].chan
           \/ status = "streamed" /\ ~(turn[r].alone /\ turn[r].kept)
  BY <1>1
<1>3. /\ turn[r].pc = "reply"
      /\ UNCHANGED <<lru, checkpoint, store, findings, dryRun, closed, strays>>
  BY DEF Reply, StreamReply
<1>4. Past(r) /\ Running(r)
  BY <1>3 DEF Past, Running, Nodes
<1>5. result.msgs \in Seq(Messages)
  BY DEF States
<1>6. ExtractAnswer(result.msgs) \in Turns \cup {NoTurn}
  BY <1>5, AnswerType
<1>7. Sound' /\ Runs'
  BY <1>2, <1>3, <1>4, Ending DEF IInv
<1>8. status \in Statuses /\ findings \in Seq(Findings)
      /\ Len(findings) <= MaxFindings
  BY DEF Statuses, IInv, TypeOK
<1>9. TypeOK' /\ Known'
  BY <1>2, <1>3, <1>4, <1>5, <1>6, <1>8, OverKeeps DEF IInv
<1> QED BY <1>3, <1>7, <1>9 DEF IInv, FindingsOwn

\* The findings keep their bound and their types.
LEMMA BufferedIs ==
  ASSUME TypeOK, NEW f \in Findings
  PROVE  /\ Buffered(f) \in Seq(Findings)
         /\ Len(Buffered(f)) <= MaxFindings
         /\ \A i \in DOMAIN Buffered(f) :
              Buffered(f)[i] = f \/ \E j \in DOMAIN findings :
                                      Buffered(f)[i] = findings[j]
<1>1. findings \in Seq(Findings) /\ Len(findings) <= MaxFindings
      /\ DOMAIN findings = 1..Len(findings) /\ Len(findings) \in Nat
  BY LenProperties DEF TypeOK
<1>2. MaxFindings \in Nat \ {0}
  BY Limits
<1>3. CASE Len(findings) < MaxFindings
  <2>1. Buffered(f) = Append(findings, f)
    BY <1>3 DEF Buffered
  <2>2. /\ Append(findings, f) \in Seq(Findings)
        /\ DOMAIN Append(findings, f) = 1..(Len(findings) + 1)
        /\ Len(Append(findings, f)) = Len(findings) + 1
        /\ \A i \in 1..Len(findings) : Append(findings, f)[i] = findings[i]
        /\ Append(findings, f)[Len(findings) + 1] = f
    BY <1>1, AppendProperties, LenProperties
  <2> QED BY <1>1, <1>2, <1>3, <2>1, <2>2
<1>4. CASE ~(Len(findings) < MaxFindings)
  <2> DEFINE rest == Tail(findings)
  <2>1. findings # <<>>
    BY <1>1, <1>2, <1>4
  <2>2. /\ rest \in Seq(Findings)
        /\ Len(rest) = Len(findings) - 1 /\ Len(rest) \in Nat
        /\ \A i \in 1..Len(rest) : rest[i] = findings[i + 1]
    BY <1>1, <2>1, HeadTailProperties, LenProperties
  <2>3. Buffered(f) = Append(rest, f)
    BY <1>4 DEF Buffered
  <2> HIDE DEF rest
  <2>4. /\ Append(rest, f) \in Seq(Findings)
        /\ DOMAIN Append(rest, f) = 1..(Len(rest) + 1)
        /\ Len(Append(rest, f)) = Len(rest) + 1
        /\ \A i \in 1..Len(rest) : Append(rest, f)[i] = rest[i]
        /\ Append(rest, f)[Len(rest) + 1] = f
    BY <2>2, AppendProperties, LenProperties
  <2>5. ASSUME NEW i \in 1..Len(rest)
        PROVE  \E j \in DOMAIN findings : Append(rest, f)[i] = findings[j]
    <3>1. i + 1 \in DOMAIN findings
      BY <1>1, <2>2
    <3> QED BY <2>2, <2>4, <3>1
  <2>6. \A i \in 1..(Len(rest) + 1) : i \in 1..Len(rest) \/ i = Len(rest) + 1
    BY <2>2
  <2>7. Len(Append(rest, f)) <= MaxFindings
    <3> DEFINE n == Len(Append(rest, f))
               k == Len(rest)
    <3>1. n = k + 1 /\ k = Len(findings) - 1
      BY <2>2, <2>4
    <3> HIDE DEF n, k
    <3>2. n <= MaxFindings
      BY <1>1, <1>2, <3>1
    <3> QED BY <3>2 DEF n
  <2> QED BY <2>3, <2>4, <2>5, <2>6, <2>7
<1> QED BY <1>3, <1>4

LEMMA ScanReplyKeeps ==
  ASSUME IInv, NEW r \in Turns, ScanReply(r)
  PROVE  IInv'
<1> DEFINE c == turn[r].chan
           f == Finding(r)
<1>1. /\ turn[r].pc = "reply" /\ turn[r].kind = "scan"
      /\ turn' = Over(r, "ok", f.answer, c)
      /\ findings' = Buffered(f) \/ findings' = findings
      /\ UNCHANGED <<lru, checkpoint, store, dryRun, closed, strays>>
  BY DEF ScanReply
<1>2. f.turn = r /\ f.answer = ExtractAnswer(c.msgs)
      /\ f.severity \in Severities
      /\ f = [turn |-> f.turn, answer |-> f.answer, severity |-> f.severity]
  BY DEF Finding, Severities, SeverityFor
<1>3. Past(r) /\ Running(r)
  BY <1>1 DEF Past, Running, Nodes
<1>4. c \in States /\ c.msgs \in Seq(Messages)
  BY DEF IInv, TypeOK, TurnStates, States
<1>5. RunOK(r, c, "reply", "scan")
  BY <1>1, <1>3 DEF IInv, Runs
<1> HIDE DEF f
<1>6. f.answer \in {r, NoTurn}
  BY <1>2, <1>4, <1>5, ExtractAnswerIs DEF RunOK
<1>7. r \in ScanTurns
  BY <1>1 DEF IInv, Sound, Staged
<1>8. f \in Findings
  BY <1>2, <1>6, <1>7 DEF Findings
<1>9. /\ findings' \in Seq(Findings) /\ Len(findings') <= MaxFindings
      /\ \A i \in DOMAIN findings' :
           findings'[i] = f \/ \E j \in DOMAIN findings : findings'[i] = findings[j]
  BY <1>1, <1>8, BufferedIs DEF IInv, TypeOK
<1>10. FindingsOwn'
  BY <1>2, <1>6, <1>9 DEF IInv, FindingsOwn
<1>11. Sound' /\ Runs'
  BY <1>1, <1>2, <1>3, Ending DEF IInv
<1>12. "ok" \in Statuses /\ f.answer \in Turns \cup {NoTurn}
  BY <1>6 DEF Statuses
<1>13. TypeOK' /\ Known'
  BY <1>1, <1>3, <1>4, <1>9, <1>12, OverKeeps DEF IInv
<1> QED BY <1>10, <1>11, <1>13 DEF IInv

\* A failure and a disconnect end the turn without an answer.
LEMMA FailureKeeps ==
  ASSUME IInv, NEW r \in Turns, LlmFails(r) \/ Disconnect(r)
  PROVE  IInv'
<1>1. /\ turn' = Over(r, "failed", NoTurn, Blank)
      /\ UNCHANGED <<lru, checkpoint, store, findings, dryRun, closed, strays>>
  BY DEF LlmFails, Disconnect
<1>2. Past(r) /\ Running(r)
  BY DEF LlmFails, Disconnect, Past, Running, Nodes
<1>3. Blank \in States /\ "failed" \in Statuses
  BY BlankIs DEF Statuses
<1>4. findings \in Seq(Findings) /\ Len(findings) <= MaxFindings
  BY DEF IInv, TypeOK
<1>5. Sound' /\ Runs'
  BY <1>1, <1>2, Ending DEF IInv
<1>6. TypeOK' /\ Known'
  BY <1>1, <1>2, <1>3, <1>4, OverKeeps DEF IInv
<1> QED BY <1>1, <1>5, <1>6 DEF IInv, FindingsOwn

\* A turn starts on its thread, which the index then knows.
LEMMA StartKeeps ==
  ASSUME IInv, NEW r \in Turns, NEW kind \in {"ask", "scan"},
         NEW t \in Sessions \cup {r},
         kind = "scan" => r \in ScanTurns /\ t = r, StartTurn(r, kind, t)
  PROVE  IInv'
<1> DEFINE tn == Started(r, kind, t)
<1>1. /\ turn[r].pc = "start" /\ Touch(t, tn)
      /\ UNCHANGED <<store, findings, dryRun, closed>>
      /\ tn = [turn EXCEPT ![r].kind = kind, ![r].thread = t,
                           ![r].pc = "ingest", ![r].store = store]
  BY DEF StartTurn, Started
<1>2. turn \in [Turns -> TurnStates] /\ store \in BOOLEAN /\ t \in Threads
  BY DEF IInv, TypeOK, Threads
<1>10. TypeOK /\ Staged
  BY DEF IInv, Sound
<1>4. PICK T \in SUBSET Threads :
        /\ t \notin T
        /\ turn' \in [Turns -> TurnStates]
        /\ \A q \in Turns : Carried(tn[q], turn'[q], T)
        /\ Forgets(T)
        /\ lru' \in Seq(Threads) /\ Len(lru') <= MaxSessions
        /\ strays' \subseteq Threads
        /\ t \in Tracked'
        /\ Tracked \cup strays \subseteq Tracked' \cup strays' \cup T
        /\ \A q \in Turns :
             Running(q) /\ turn[q].thread \in T => turn[q].thread \in strays'
  BY <1>1, <1>2, <1>10, TouchIs
<1> HIDE DEF tn
<1>5. \A q \in Turns \ {r} : Carried(turn[q], turn'[q], T)
  BY <1>1, <1>2, <1>4
<1>6. /\ turn'[r].pc = "ingest" /\ turn'[r].kind = kind
      /\ turn'[r].thread = t /\ turn'[r].chan = turn[r].chan
      /\ turn'[r].status = turn[r].status
  <2>1. Carried(tn[r], turn'[r], T)
    BY <1>4
  <2> QED BY <1>1, <1>2, <2>1 DEF Carried, TurnStates
<1>7. Sound' /\ Runs'
  <2> DEFINE R == {r}
  <2>1. \A q \in R : /\ turn[q].pc = "start" /\ turn'[q].pc = "ingest"
                     /\ turn'[q].kind \in {"ask", "scan"}
                     /\ turn'[q].thread \in Sessions \cup {q}
                     /\ turn'[q].kind = "scan" =>
                          q \in ScanTurns /\ turn'[q].thread = q
                     /\ turn'[q].chan = turn[q].chan
                     /\ turn'[q].status = turn[q].status
    BY <1>1, <1>6
  <2>2. \A q \in Turns \ R : Carried(turn[q], turn'[q], T)
    BY <1>5
  <2>3. R \in SUBSET Turns
    OBVIOUS
  <2> HIDE DEF R
  <2> QED BY <1>4, <2>1, <2>2, <2>3, Fading DEF IInv
<1>8. TypeOK'
  <2>1. /\ DOMAIN checkpoint' \subseteq Threads
        /\ \A u \in DOMAIN checkpoint' : checkpoint'[u] \in States
    BY <1>4 DEF IInv, TypeOK, Forgets
  <2> QED BY <1>1, <1>4, <2>1 DEF IInv, TypeOK
<1>9. Known'
  <2>1. ASSUME NEW q \in Turns, Running(q)'
        PROVE  turn'[q].thread \in Tracked' \cup strays'
    <3>1. CASE q = r
      BY <1>4, <1>6, <3>1
    <3>2. CASE q # r
      <4>1. Running(q) /\ turn'[q].thread = turn[q].thread
        BY <1>5, <2>1, <3>2 DEF Carried, Running
      <4>2. turn[q].thread \in Tracked \cup strays
        BY <4>1 DEF IInv, Known
      <4> QED BY <1>4, <4>1, <4>2
    <3> QED BY <3>1, <3>2
  <2>2. DOMAIN checkpoint' \subseteq Tracked' \cup strays'
    BY <1>4 DEF IInv, Known, Forgets
  <2> QED BY <2>1, <2>2 DEF Known
<1> QED BY <1>1, <1>7, <1>8, <1>9 DEF IInv, FindingsOwn

\* The index is closed when nothing runs.
LEMMA CloseKeeps ==
  ASSUME IInv, CloseIndex
  PROVE  IInv'
<1>1. /\ \A r \in Turns : ~Running(r)
      /\ closed' = TRUE /\ lru' = <<>>
      /\ checkpoint' = Forget(Tracked) /\ turn' = Evicted(Tracked, turn)
      /\ UNCHANGED <<store, findings, dryRun, strays>>
  BY DEF CloseIndex
<1>2. /\ turn' \in [Turns -> TurnStates]
      /\ \A r \in Turns : Carried(turn[r], turn'[r], Tracked)
  BY <1>1, EvictedIs DEF IInv, TypeOK
<1>3. Forgets(Tracked)
  BY <1>1 DEF Forgets, Forget
<1>4. Sound' /\ Runs'
  <2> DEFINE R == {}
  <2>1. \A q \in Turns \ R : Carried(turn[q], turn'[q], Tracked)
    BY <1>2
  <2>2. \A q \in R : FALSE
    OBVIOUS
  <2>3. R \in SUBSET Turns
    OBVIOUS
  <2> HIDE DEF R
  <2> QED BY <1>3, <2>1, <2>2, <2>3, Fading DEF IInv
<1>5. TypeOK'
  <2>1. /\ DOMAIN checkpoint' \subseteq Threads
        /\ \A u \in DOMAIN checkpoint' : checkpoint'[u] \in States
    BY <1>3 DEF IInv, TypeOK, Forgets
  <2>2. lru' \in Seq(Threads) /\ Len(lru') <= MaxSessions
    BY <1>1, Limits, EmptySeq
  <2> QED BY <1>1, <1>2, <2>1, <2>2 DEF IInv, TypeOK
<1>6. Known'
  <2>1. \A q \in Turns : ~Running(q)'
    BY <1>1, <1>2 DEF Carried, Running
  <2>2. DOMAIN checkpoint' \subseteq strays
    BY <1>3 DEF IInv, Known, Forgets
  <2> QED BY <1>1, <2>1, <2>2 DEF Known
<1> QED BY <1>1, <1>4, <1>5, <1>6 DEF IInv, FindingsOwn

\* When the turns, the index and the checkpoints stay, everything does.
LEMMA UnchangedKeeps ==
  ASSUME IInv, UNCHANGED <<turn, lru, checkpoint, findings, strays>>,
         store' \in BOOLEAN, dryRun' \in BOOLEAN, closed' \in BOOLEAN
  PROVE  IInv'
<1>1. TypeOK'
  BY DEF IInv, TypeOK
<1>2. Known'
  BY DEF IInv, Known, Running, Tracked
<1>3. Sound' /\ Runs'
  <2> DEFINE R == {}
             T == {}
  <2>1. \A q \in Turns \ R : Carried(turn[q], turn'[q], T)
    BY DEF Carried
  <2>2. \A q \in R : FALSE
    OBVIOUS
  <2>3. R \in SUBSET Turns
    OBVIOUS
  <2>4. Forgets(T)
    BY DEF Forgets
  <2> HIDE DEF R, T
  <2> QED BY <2>1, <2>2, <2>3, <2>4, Fading DEF IInv
<1> QED BY <1>1, <1>2, <1>3 DEF IInv, FindingsOwn

-----------------------------------------------------------------------------
(* The theorems *)

LEMMA InitOK == Init => IInv
<1> SUFFICES ASSUME Init PROVE IInv
  OBVIOUS
<1> DEFINE first(r) ==
      [kind |-> "none", thread |-> r, pc |-> "start",
       chan |-> Blank, store |-> FALSE, status |-> "none",
       answer |-> NoTurn, alone |-> TRUE, kept |-> TRUE]
<1>1. turn = [r \in Turns |-> first(r)]
  BY DEF Init
<1>2. \A r \in Turns : first(r) \in TurnStates
  BY BlankIs DEF TurnStates, Kinds, Statuses, Threads
<1>3. \A r \in Turns : /\ turn[r].kind = "none" /\ turn[r].pc = "start"
                       /\ turn[r].thread = r /\ turn[r].status = "none"
                       /\ turn[r].chan.msgs = <<>>
  BY <1>1 DEF Blank
<1> HIDE DEF first
<1>4. turn \in [Turns -> TurnStates]
  BY <1>1, <1>2
<1>5. lru \in Seq(Threads) /\ Len(lru) <= MaxSessions
  BY Limits, EmptySeq DEF Init
<1>6. findings \in Seq(Findings) /\ Len(findings) <= MaxFindings
  BY Limits, EmptySeq DEF Init
<1>7. DOMAIN checkpoint = {}
  BY DEF Init
<1>8. TypeOK
  BY <1>4, <1>5, <1>6, <1>7 DEF TypeOK, Init
<1>9. \A r \in Turns : ~Past(r) /\ ~Running(r) /\ ~Answered(r)
  BY <1>3 DEF Past, Running, Answered, Nodes
<1>10. Staged
  BY <1>3, <1>9 DEF Staged
<1>11. Signed
  BY <1>3, <1>7 DEF Signed, Settled
<1>12. Sound
  BY <1>9, <1>10, <1>11 DEF Sound, Alone, Kept, AnswerIsForTheQuestion
<1>13. Runs /\ Known
  BY <1>7, <1>9 DEF Runs, Known
<1>14. FindingsOwn
  BY DEF FindingsOwn, Init
<1> QED BY <1>8, <1>12, <1>13, <1>14 DEF IInv

LEMMA NextOK == IInv /\ [Next]_vars => IInv'
<1> SUFFICES ASSUME IInv, [Next]_vars PROVE IInv'
  OBVIOUS
<1>1. store \in BOOLEAN /\ dryRun \in BOOLEAN /\ closed \in BOOLEAN
  BY DEF IInv, TypeOK
<1>2. ASSUME NEW r \in ChatTurns, PostChat(r) PROVE IInv'
  <2>1. PICK t \in Sessions \cup {r} : StartTurn(r, "ask", t)
    BY <1>2 DEF PostChat
  <2> QED BY <2>1, StartKeeps DEF Turns
<1>3. ASSUME NEW r \in ChatTurns, GetErrorDetail(r) PROVE IInv'
  BY <1>3, StartKeeps DEF Turns, GetErrorDetail
<1>4. ASSUME NEW r \in ScanTurns, StartScan(r) PROVE IInv'
  BY <1>4, StartKeeps DEF Turns, StartScan, ScanSession
<1>5. ASSUME NEW r \in Turns, Work(r) PROVE IInv'
  BY <1>5, IngestKeeps, AnalyzeKeeps, CorrelateKeeps, PredictKeeps,
     RespondKeeps, ReplyKeeps, ScanReplyKeeps, FailureKeeps DEF Work
<1>6. ASSUME NEW r \in Turns, Disconnect(r) PROVE IInv'
  BY <1>6, FailureKeeps
<1>7. CASE Promote
  BY <1>1, <1>7, UnchangedKeeps DEF Promote
<1>8. CASE CloseIndex
  BY <1>8, CloseKeeps
<1>9. CASE UNCHANGED vars
  BY <1>1, <1>9, UnchangedKeeps DEF vars
<1> QED BY <1>2, <1>3, <1>4, <1>5, <1>6, <1>7, <1>8, <1>9 DEF Next

\* The invariant holds in every reachable state.
THEOREM Invariance == Spec => []IInv
  BY InitOK, NextOK, PTL DEF Spec

\* The types hold, the index has at most MaxSessions threads and the buffer at
\* most MaxFindings findings.
THEOREM TypesHold == Spec => []TypeOK
<1>1. IInv => TypeOK
  BY DEF IInv
<1> QED BY <1>1, Invariance, PTL

\* The checkpointer knows no thread that the index neither tracks nor dropped
\* under a running turn.
THEOREM MemoryIsBounded == Spec => []CheckpointsAreTracked
<1>1. IInv => CheckpointsAreTracked
  BY DEF IInv, Known, CheckpointsAreTracked
<1> QED BY <1>1, Invariance, PTL

\* The tool rounds of a turn and those it has left add up to the limit, and the
\* flag says when none is left.
THEOREM BudgetHolds == Spec => []BudgetIsKept
<1>1. IInv => BudgetIsKept
  <2> SUFFICES ASSUME IInv, NEW r \in Turns, turn[r].pc \in Nodes \ {"ingest"}
               PROVE  /\ Rounds(r) + turn[r].chan.left = MaxToolCalls
                      /\ turn[r].chan.spent <=> turn[r].chan.left = 0
    BY DEF BudgetIsKept
  <2>1. RunOK(r, turn[r].chan, turn[r].pc, turn[r].kind)
    BY DEF IInv, Runs, Past
  <2>2. Rounds(r) = Cardinality(Tools(turn[r].chan.msgs, r))
    BY DEF Rounds, Tools
  <2> QED BY <2>1, <2>2 DEF RunOK
<1> QED BY <1>1, Invariance, PTL

\* The answer given for a question is its own, unless the client is told that
\* the budget ended, or a stream read the thread back after another turn or an
\* eviction; a scan and its finding say only what the scan found.
THEOREM AnswersAreOwn == Spec => []AnswersAreTheirOwn
<1>1. IInv => AnswersAreTheirOwn
  <2> SUFFICES ASSUME IInv PROVE AnswersAreTheirOwn
    OBVIOUS
  <2>1. AnswerIsForTheQuestion
    BY DEF IInv, Sound
  <2>2. ASSUME NEW r \in Turns, turn[r].kind = "scan",
               NEW i \in DOMAIN turn[r].chan.msgs
        PROVE  turn[r].chan.msgs[i].turn = r
    <3>1. CASE Past(r)
      BY <2>2, <3>1 DEF IInv, Runs, RunOK
    <3>2. CASE ~Past(r)
      <4>1. turn[r].chan.msgs = <<>>
        BY <3>2 DEF IInv, Sound, Staged
      <4> QED BY <2>2, <4>1
    <3> QED BY <3>1, <3>2
  <2>3. FindingsAreFromTheirScan
    BY <2>2 DEF FindingsAreFromTheirScan, IInv, FindingsOwn
  <2> QED BY <2>1, <2>3 DEF AnswersAreTheirOwn
<1> QED BY <1>1, Invariance, PTL

\* The thread of an answered question holds it, with its answer or with the
\* budget spent, until it is evicted or when no other turn ran on it meanwhile.
THEOREM AnswersAreKept == Spec => []AnsweredTurnsAreKept
<1>1. IInv => AnsweredTurnsAreKept
  BY DEF IInv, Sound, Kept, Holds, Wrote, AnsweredTurnsAreKept
<1> QED BY <1>1, Invariance, PTL
=============================================================================
