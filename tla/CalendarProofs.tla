--------------------------- MODULE CalendarProofs ---------------------------
(***************************************************************************)
(* An answer that calls the year backfilled has counted what the backfill  *)
(* cannot miss of it, for any events, batches, retention, length of a day  *)
(* and instants.  The row and the counts are read                          *)
(* at different times and beside a poller that stores, backfills and       *)
(* prunes; what holds them together is that a row, whenever it was read,   *)
(* vouches for events that are stored from then on, until they are too old *)
(* (Backed), and that the reader counts under the write lock.              *)
(*                                                                         *)
(* The second half is about the statistics that the answer carries.        *)
(***************************************************************************)
EXTENDS Calendar, FiniteSetTheorems, SequenceTheorems, WellFoundedInduction, TLAPS

Rows == [polled : BOOLEAN, completed : BOOLEAN, batch : 1..(Batches + 1), begun : -1..now]
Tables == [events : SUBSET Happened, row : Rows]

\* The events that a row vouches for are among E: those of the batches it has
\* behind it, from the window of now to the day the backfill was begun.
Backed(row, E) ==
    /\ row.begun = -1 => row.batch = 1
    /\ row.completed => row.batch > Batches
    /\ \A e \in Promised :
          BatchOf[e] < row.batch /\ At[e] \in (now - Retention)..row.begun => e \in E

DatabaseOK ==
    /\ now \in 0..MaxTime
    /\ disk \in Tables /\ Backed(disk.row, disk.events)
    /\ work \in Tables /\ Backed(work.row, work.events)
    /\ lock \in {NoSession, Poller, Reader}
    /\ IF lock = Poller THEN disk.events \subseteq work.events ELSE work = disk

PollerOK ==
    /\ lock = Poller => phase \in {"cursor", "git", "fetch"}
    /\ phase = "git" => lock = Poller
    /\ since \in Int
    /\ phase = "fetch" => View(Poller).row.begun # -1 /\ since <= now - Retention

ReaderOK ==
    /\ step \in 0..5
    /\ lock = Reader <=> step \in 3..5
    /\ IF step \in 2..5 THEN known \in Rows /\ Backed(known, disk.events) ELSE known = Unknown
    /\ counted = IF step \in 4..5 THEN {e \in disk.events : DayOf[e] \in request} ELSE {}
    /\ step # 5 => answer = NoAnswer

CalendarInv == DatabaseOK /\ PollerOK /\ ReaderOK /\ AnswerIsBacked

-----------------------------------------------------------------------------
LEMMA Settings ==
    /\ MaxTime \in Nat /\ Retention \in Nat /\ Batches \in Nat \ {0} /\ DayLength \in Nat \ {0}
    /\ At \in [Events -> Nat] /\ Promised \subseteq Events /\ BatchOf \in [Promised -> Nat \ {0}]
    /\ \A e \in Promised : BatchOf[e] <= Batches
BY CalendarAssumption

LEMMA Quotient ==
    ASSUME NEW t \in Nat
    PROVE  t \div DayLength \in Nat
<1>1. DayLength \in Nat /\ DayLength > 0
  BY Settings
<1> QED BY <1>1

LEMMA DaysOfEvents == DayOf \in [Events -> Nat]
<1>1. \A e \in Events : At[e] \in Nat
  BY Settings
<1>2. \A e \in Events : At[e] \div DayLength \in Nat
  BY <1>1, Quotient
<1> QED BY <1>2 DEF DayOf

LEMMA Names == NoSession # Poller /\ NoSession # Reader /\ Poller # Reader
<1> SUFFICES ASSUME NoSession = Poller \/ NoSession = Reader \/ Poller = Reader
             PROVE  FALSE
  OBVIOUS
<1>1. PICK x, y : {NoSession, Poller, Reader} = {x, y}
  <2>1. CASE NoSession = Poller
    BY <2>1
  <2>2. CASE NoSession # Poller
    BY <2>2
  <2> QED BY <2>1, <2>2
<1>2. Cardinality({x, y}) <= 2
  <2>1. IsFiniteSet({x}) /\ Cardinality({x}) = 1
    BY FS_Singleton
  <2>2. {x, y} = {x} \cup {y}
    OBVIOUS
  <2> QED BY <2>1, <2>2, FS_AddElement
<1> QED BY <1>1, <1>2, CalendarAssumption

LEMMA Steps ==
    /\ Len(ReadSteps) = 5
    /\ ReadSteps[1] = "load" /\ ReadSteps[2] = "flush" /\ ReadSteps[3] = "count"
    /\ ReadSteps[4] = "metadata" /\ ReadSteps[5] = "commit"
BY DEF ReadSteps

\* The step that the reader is at, and the one it comes to.
LEMMA Doings ==
    ASSUME step \in 0..5
    PROVE  /\ Doing("load") <=> step = 1
           /\ Doing("flush") <=> step = 2
           /\ Doing("count") <=> step = 3
           /\ Doing("metadata") <=> step = 4
           /\ Doing("commit") <=> step = 5
           /\ Proceed => step' = IF step = 5 THEN 0 ELSE step + 1
BY Steps DEF Doing, Proceed

\* What a row vouches for stays vouched for as long as only that is dropped which
\* is too old, and as days go by.
LEMMA BackedStays ==
    ASSUME now \in 0..MaxTime, now' \in 0..MaxTime, now <= now',
           NEW row \in Rows, NEW E, NEW F, Backed(row, E),
           \A e \in Events \cap E : e \in F \/ At[e] < now' - Retention
    PROVE  row \in Rows' /\ Backed(row, F)'
<1>1. row \in Rows'
  <2>1. -1..now \subseteq -1..now'
    BY Settings
  <2> QED BY <2>1 DEF Rows
<1>2. ASSUME NEW e \in Promised, BatchOf[e] < row.batch, At[e] \in (now' - Retention)..row.begun
      PROVE  e \in F
  <2>1. e \in Events /\ At[e] \in Nat /\ now \in Int /\ now' \in Int /\ Retention \in Int /\ row.begun \in Int
    BY Settings DEF Rows
  <2>2. At[e] \in (now - Retention)..row.begun /\ ~(At[e] < now' - Retention)
    BY <1>2, <2>1
  <2>3. e \in E
    BY <1>2, <2>2 DEF Backed
  <2> QED BY <2>1, <2>2, <2>3
<1>3. Backed(row, F)'
  BY <1>2 DEF Backed
<1> QED BY <1>1, <1>3

LEMMA WithFacts ==
    ASSUME NEW T \in Tables, NEW events \in SUBSET Happened
    PROVE  /\ With(T, events) \in Tables /\ With(T, events).row = T.row
           /\ With(T, events).events = T.events \cup events
BY DEF With, Tables

LEMMA MoreIsBacked ==
    ASSUME NEW row, NEW E, NEW F, Backed(row, E), E \subseteq F
    PROVE  Backed(row, F)
BY DEF Backed

-----------------------------------------------------------------------------
(* The poller commits, commits a part of what it wrote, writes or only reads: *)
(* what the others see of it.                                                 *)
LEMMA PollerReads ==
    ASSUME CalendarInv, ReadOnly, UNCHANGED <<now, Read>>
    PROVE  DatabaseOK' /\ ReaderOK' /\ AnswerIsBacked'
BY DEF CalendarInv, ReadOnly, Read, DatabaseOK, ReaderOK, AnswerIsBacked, Tables, Rows,
   Happened, Backed

LEMMA PollerCommits ==
    ASSUME CalendarInv, lock # Reader, UNCHANGED <<now, Read>>,
           NEW D \in Tables, Backed(D.row, D.events), disk' = D,
           NEW T \in Tables, Backed(T.row, T.events), work' = T,
           \/ lock' = NoSession /\ T = D
           \/ lock' = Poller /\ D.events \subseteq T.events,
           \A e \in Events \cap disk.events : e \in D.events \/ Outdated(e)
    PROVE  DatabaseOK' /\ ReaderOK' /\ AnswerIsBacked'
<1>1. /\ disk' = D /\ work' = T /\ now' = now /\ lock' \in {NoSession, Poller}
      /\ UNCHANGED <<step, request, known, counted, answer>>
  BY DEF Read
<1>2. DatabaseOK'
  BY <1>1, Names DEF CalendarInv, DatabaseOK, Tables, Rows, Happened, Backed
<1>3. step \notin 3..5 /\ counted = {}
  BY DEF CalendarInv, ReaderOK
<1>4. ReaderOK'
  <2>1. ASSUME step \in 2..5
        PROVE  (known \in Rows /\ Backed(known, disk.events))'
    <3>1. PICK row : row = known
      OBVIOUS
    <3>2. PICK E : E = disk.events
      OBVIOUS
    <3>3. row \in Rows /\ Backed(row, E)
      BY <2>1, <3>1, <3>2 DEF CalendarInv, ReaderOK
    <3>4. now \in 0..MaxTime /\ now \in Int
      BY Settings DEF CalendarInv, DatabaseOK
    <3>5. row \in Rows' /\ Backed(row, D.events)'
      BY <1>1, <3>2, <3>3, <3>4, BackedStays DEF Outdated
    <3> QED BY <1>1, <3>1, <3>5 DEF Backed
  <2>2. step \notin 2..5 => known = Unknown
    BY DEF CalendarInv, ReaderOK
  <2> QED BY <1>1, <1>3, <2>1, <2>2, Names DEF CalendarInv, ReaderOK
<1>5. AnswerIsBacked'
  BY <1>1 DEF CalendarInv, AnswerIsBacked
<1> QED BY <1>2, <1>4, <1>5

LEMMA PollerWrites ==
    ASSUME CalendarInv, CanWrite(Poller), UNCHANGED <<now, Read>>,
           NEW T \in Tables, Backed(T.row, T.events), Write(Poller, T),
           disk.events \subseteq T.events
    PROVE  DatabaseOK' /\ ReaderOK' /\ AnswerIsBacked'
<1>1. /\ disk' = disk /\ work' = T /\ lock' = Poller /\ now' = now /\ lock # Reader
      /\ UNCHANGED <<step, request, known, counted, answer>>
  BY Names DEF Write, CanWrite, Read
<1>2. DatabaseOK'
  BY <1>1 DEF CalendarInv, DatabaseOK, Tables, Rows, Happened, Backed
<1>3. ReaderOK'
  BY <1>1, Names DEF CalendarInv, ReaderOK, Rows, Backed
<1>4. AnswerIsBacked'
  BY <1>1 DEF CalendarInv, AnswerIsBacked
<1> QED BY <1>2, <1>3, <1>4

-----------------------------------------------------------------------------
LEMMA IncrementalPollStep ==
    ASSUME CalendarInv, PollTodo \/ StoreCursor \/ PollGit
    PROVE  CalendarInv'
<1>0. disk \in Tables /\ work \in Tables /\ Backed(disk.row, disk.events) /\ Backed(work.row, work.events)
  BY DEF CalendarInv, DatabaseOK
<1>1. CASE PollTodo
  <2>0. /\ lock # Reader /\ lock # Poller /\ UNCHANGED <<now, Read>> /\ phase' = "cursor" /\ since' = since
        /\ phase = "idle"
    BY <1>1, Names DEF PollTodo, CanWrite, CalendarInv, PollerOK
  <2>1. PICK found \in SUBSET Happened :
            IF found \cap disk.events = {} THEN Commit(With(disk, found))
            ELSE \E first \in SUBSET (found \ disk.events) :
                    disk' = With(disk, first) /\ work' = With(disk, found) /\ lock' = Poller
    BY <1>1 DEF PollTodo
  <2>2. PICK T : T = With(disk, found)
    OBVIOUS
  <2>3. T \in Tables /\ T.row = disk.row /\ T.events = disk.events \cup found
    BY <1>0, <2>2, WithFacts
  <2>4. Backed(T.row, T.events)
    BY <1>0, <2>3, MoreIsBacked
  <2>5. CASE found \cap disk.events = {}
    <3>1. disk' = T /\ work' = T /\ lock' = NoSession
      BY <2>1, <2>2, <2>5 DEF Commit
    <3>2. DatabaseOK' /\ ReaderOK' /\ AnswerIsBacked'
      BY <2>0, <2>3, <2>4, <3>1, PollerCommits
    <3>3. PollerOK'
      BY <2>0, <3>1, Names DEF CalendarInv, PollerOK
    <3> QED BY <3>2, <3>3 DEF CalendarInv
  <2>6. CASE found \cap disk.events # {}
    <3>1. PICK first \in SUBSET (found \ disk.events) :
              disk' = With(disk, first) /\ work' = T /\ lock' = Poller
      BY <2>1, <2>2, <2>6
    <3>2. PICK D : D = With(disk, first)
      OBVIOUS
    <3>3. D \in Tables /\ D.row = disk.row /\ D.events = disk.events \cup first
      BY <1>0, <3>2, WithFacts
    <3>4. Backed(D.row, D.events) /\ D.events \subseteq T.events
      BY <1>0, <2>3, <3>3, MoreIsBacked
    <3>5. \A e \in Events \cap disk.events : e \in D.events \/ Outdated(e)
      BY <3>3
    <3>6. disk' = D /\ work' = T /\ lock' = Poller
      BY <3>1, <3>2
    <3>7. DatabaseOK' /\ ReaderOK' /\ AnswerIsBacked'
      BY <2>0, <2>3, <2>4, <3>3, <3>4, <3>5, <3>6, PollerCommits
    <3>8. PollerOK'
      BY <2>0, <3>1, Names DEF CalendarInv, PollerOK
    <3> QED BY <3>7, <3>8 DEF CalendarInv
  <2> QED BY <2>5, <2>6
<1>2. CASE StoreCursor
  <2>1. PICK T : T = View(Poller)
    OBVIOUS
  <2>2. /\ Write(Poller, T) /\ CanWrite(Poller) /\ UNCHANGED <<now, Read>>
        /\ phase' = "git" /\ since' = since /\ lock' = Poller
    BY <1>2, <2>1 DEF StoreCursor, Write
  <2>3. T \in Tables /\ Backed(T.row, T.events) /\ disk.events \subseteq T.events
    BY <1>0, <2>1 DEF View, CalendarInv, DatabaseOK
  <2>4. DatabaseOK' /\ ReaderOK' /\ AnswerIsBacked'
    BY <2>2, <2>3, PollerWrites
  <2>5. PollerOK'
    BY <2>2 DEF CalendarInv, PollerOK
  <2> QED BY <2>4, <2>5 DEF CalendarInv
<1>3. CASE PollGit
  <2>1. PICK found \in SUBSET Happened : Commit([With(work, found) EXCEPT !.row.polled = TRUE])
    BY <1>3 DEF PollGit
  <2>2. PICK W : W = With(work, found)
    OBVIOUS
  <2>3. W \in Tables /\ W.row = work.row /\ W.events = work.events \cup found
    BY <1>0, <2>2, WithFacts
  <2>4. PICK T : T = [W EXCEPT !.row.polled = TRUE]
    OBVIOUS
  <2>5. /\ T \in Tables /\ T.events = W.events /\ T.row.begun = W.row.begun
        /\ T.row.batch = W.row.batch /\ T.row.completed = W.row.completed
    BY <2>3, <2>4 DEF Tables, Rows
  <2>6. Backed(T.row, T.events)
    BY <1>0, <2>3, <2>5 DEF Backed
  <2>7. /\ lock = Poller /\ lock # Reader /\ UNCHANGED <<now, Read>> /\ phase' = "backfill"
        /\ since' = since /\ lock' = NoSession
    BY <1>3, <2>1, Names DEF PollGit, Commit, CalendarInv, PollerOK
  <2>8. disk.events \subseteq T.events
    BY <2>3, <2>5, <2>7 DEF CalendarInv, DatabaseOK
  <2>9. DatabaseOK' /\ ReaderOK' /\ AnswerIsBacked'
    BY <2>1, <2>2, <2>4, <2>5, <2>6, <2>7, <2>8, PollerCommits DEF Commit
  <2>10. PollerOK'
    BY <2>7, Names DEF CalendarInv, PollerOK
  <2> QED BY <2>9, <2>10 DEF CalendarInv
<1> QED BY <1>1, <1>2, <1>3

LEMMA FetchBatchStep ==
    ASSUME CalendarInv, FetchBatch
    PROVE  CalendarInv'
<1>1. PICK V : V = View(Poller)
  OBVIOUS
<1>2. /\ V \in Tables /\ Backed(V.row, V.events) /\ disk.events \subseteq V.events
      /\ now \in 0..MaxTime /\ V.row.begun # -1 /\ since <= now - Retention /\ since \in Int
      /\ phase = "fetch"
  BY <1>1 DEF FetchBatch, CalendarInv, DatabaseOK, PollerOK, View
<1>3. PICK n : n = V.row.batch
  OBVIOUS
<1>4. n \in 1..Batches /\ n + 1 \in 1..(Batches + 1) /\ n \in Int
  BY <1>1, <1>2, <1>3, Settings DEF FetchBatch, Tables, Rows
<1>0. PICK found \in SUBSET InWindow : InBatch(n) \subseteq found /\ Write(Poller, WithBatch(V, found))
  BY <1>1, <1>3 DEF FetchBatch
<1>5. PICK W : W = With(V, found)
  OBVIOUS
<1>6. W \in Tables /\ W.row = V.row /\ W.events = V.events \cup found
  <2>1. found \in SUBSET Happened
    BY DEF InWindow
  <2> QED BY <1>2, <1>5, <2>1, WithFacts
<1>7. PICK T : T = [W EXCEPT !.row.batch = n + 1]
  OBVIOUS
<1>8. /\ T \in Tables /\ T.events = W.events /\ T.row.begun = V.row.begun
      /\ T.row.batch = n + 1 /\ T.row.completed = V.row.completed /\ T.row.begun \in -1..now
  BY <1>4, <1>6, <1>7 DEF Tables, Rows
<1>9. T = WithBatch(V, found)
  BY <1>3, <1>5, <1>6, <1>7 DEF WithBatch, Tables, Rows
<1>10. ASSUME NEW e \in Promised, BatchOf[e] < n + 1,
              At[e] \in (now - Retention)..T.row.begun
       PROVE  e \in T.events
  <2>1. BatchOf[e] \in Nat /\ At[e] \in Nat /\ e \in Events /\ now \in Int /\ Retention \in Int
    BY <1>2, Settings
  <2>2. CASE BatchOf[e] < n
    BY <1>2, <1>3, <1>6, <1>8, <1>10, <2>2 DEF Backed
  <2>3. CASE BatchOf[e] = n
    <3>1. At[e] <= now /\ At[e] >= since
      BY <1>2, <1>8, <1>10, <2>1
    <3>2. e \in InBatch(n)
      BY <2>1, <2>3, <3>1 DEF InBatch, InWindow, Happened
    <3> QED BY <1>0, <1>6, <1>8, <3>2
  <2> QED BY <1>4, <1>10, <2>1, <2>2, <2>3
<1>11. Backed(T.row, T.events)
  <2>1. T.row.completed => n > Batches
    BY <1>2, <1>3, <1>8 DEF Backed
  <2>2. ~T.row.completed
    BY <1>4, <2>1, Settings
  <2> QED BY <1>2, <1>8, <1>10, <2>2 DEF Backed
<1>12. /\ Write(Poller, T) /\ CanWrite(Poller) /\ UNCHANGED <<now, Read, phase, since>>
       /\ lock' = Poller /\ work' = T
  BY <1>0, <1>9 DEF FetchBatch, Write, Poll
<1>13. DatabaseOK' /\ ReaderOK' /\ AnswerIsBacked'
  <2>1. disk.events \subseteq T.events
    BY <1>2, <1>6, <1>8
  <2> QED BY <1>8, <1>11, <1>12, <2>1, PollerWrites
<1>14. PollerOK'
  BY <1>2, <1>8, <1>12 DEF PollerOK, View
<1> QED BY <1>13, <1>14 DEF CalendarInv

LEMMA BackfillStep ==
    ASSUME CalendarInv, BeginBackfill \/ EndBackfill \/ SkipBackfill
    PROVE  CalendarInv'
<1>0. /\ disk \in Tables /\ work \in Tables /\ Backed(disk.row, disk.events)
      /\ Backed(work.row, work.events) /\ now \in 0..MaxTime /\ now \in Int
      /\ Retention \in Nat
  BY Settings DEF CalendarInv, DatabaseOK
<1>1. CASE BeginBackfill
  <2>1. /\ phase' = "fetch" /\ since' = now - Retention /\ UNCHANGED <<now, Read>>
        /\ since' \in Int /\ since' <= now - Retention /\ phase = "backfill" /\ lock # Poller
        /\ now' = now
    BY <1>0, <1>1 DEF BeginBackfill, CalendarInv, PollerOK
  <2>2. CASE disk.row.begun # -1
    <3>1. ReadOnly
      BY <1>1, <2>2 DEF BeginBackfill
    <3>2. PollerOK'
      BY <2>1, <2>2, <3>1 DEF PollerOK, View, ReadOnly
    <3> QED BY <2>1, <3>1, <3>2, PollerReads DEF CalendarInv
  <2>3. CASE disk.row.begun = -1
    <3>1. PICK T : T = [disk EXCEPT !.row.begun = now]
      OBVIOUS
    <3>2. Write(Poller, T) /\ CanWrite(Poller) /\ lock' = Poller /\ work' = T
      BY <1>1, <2>3, <3>1 DEF BeginBackfill, Write
    <3>3. /\ T \in Tables /\ T.events = disk.events /\ T.row.begun = now /\ now # -1
          /\ T.row.batch = disk.row.batch /\ T.row.completed = disk.row.completed
      BY <1>0, <3>1 DEF Tables, Rows
    <3>4. Backed(T.row, T.events)
      <4>1. T.row.batch = 1
        BY <1>0, <2>3, <3>3 DEF Backed
      <4>2. \A e \in Promised : ~(BatchOf[e] < 1)
        BY Settings
      <4> QED BY <1>0, <3>3, <4>1, <4>2 DEF Backed
    <3>5. DatabaseOK' /\ ReaderOK' /\ AnswerIsBacked'
      BY <2>1, <3>2, <3>3, <3>4, PollerWrites
    <3>6. PollerOK'
      BY <2>1, <3>2, <3>3 DEF PollerOK, View
    <3> QED BY <3>5, <3>6 DEF CalendarInv
  <2> QED BY <2>2, <2>3
<1>2. CASE EndBackfill
  <2>a. PICK done : done = (work.row.batch > Batches)
    OBVIOUS
  <2>b. done \in BOOLEAN
    BY <2>a
  <2>1. PICK T : T = [work EXCEPT !.row.completed = done]
    OBVIOUS
  <2>2. /\ Commit(T) /\ lock # Reader /\ lock = Poller /\ UNCHANGED <<now, Read>>
        /\ phase' = "prune" /\ since' = since /\ lock' = NoSession
    BY <1>2, <2>a, <2>1, Names DEF EndBackfill, Commit
  <2>3. /\ T \in Tables /\ T.events = work.events /\ T.row.begun = work.row.begun
        /\ T.row.batch = work.row.batch /\ T.row.completed = done
    BY <1>0, <2>1, <2>b DEF Tables, Rows
  <2>4. Backed(T.row, T.events)
    BY <1>0, <2>a, <2>3 DEF Backed
  <2>5. disk.events \subseteq T.events
    BY <2>2, <2>3 DEF CalendarInv, DatabaseOK
  <2>6. DatabaseOK' /\ ReaderOK' /\ AnswerIsBacked'
    BY <2>2, <2>3, <2>4, <2>5, PollerCommits DEF Commit
  <2>7. PollerOK'
    BY <2>2, Names DEF CalendarInv, PollerOK
  <2> QED BY <2>6, <2>7 DEF CalendarInv
<1>3. CASE SkipBackfill
  <2>1. ReadOnly /\ UNCHANGED <<now, Read>> /\ phase' = "prune" /\ since' = since /\ lock # Poller
    BY <1>3 DEF SkipBackfill, CalendarInv, PollerOK
  <2>2. PollerOK'
    BY <2>1 DEF CalendarInv, PollerOK, ReadOnly
  <2> QED BY <2>1, <2>2, PollerReads DEF CalendarInv
<1> QED BY <1>1, <1>2, <1>3

LEMMA EndOfPassStep ==
    ASSUME CalendarInv, Fail \/ Prune
    PROVE  CalendarInv'
<1>0. disk \in Tables /\ Backed(disk.row, disk.events)
  BY DEF CalendarInv, DatabaseOK
<1>1. CASE Fail
  <2>1. UNCHANGED <<now, Read>> /\ phase' = "prune" /\ since' = since
    BY <1>1 DEF Fail
  <2>2. CASE lock = Poller
    <3>1. Commit(disk) /\ lock # Reader /\ lock' = NoSession
      BY <1>1, <2>2, Names DEF Fail, Commit
    <3>2. PICK T : T = disk
      OBVIOUS
    <3>3. DatabaseOK' /\ ReaderOK' /\ AnswerIsBacked'
      BY <1>0, <2>1, <3>1, <3>2, PollerCommits DEF Commit
    <3>4. PollerOK'
      BY <2>1, <3>1, Names DEF CalendarInv, PollerOK
    <3> QED BY <3>3, <3>4 DEF CalendarInv
  <2>3. CASE lock # Poller
    <3>1. ReadOnly /\ lock' = lock
      BY <1>1, <2>3 DEF Fail, ReadOnly
    <3>2. PollerOK'
      BY <2>1, <2>3, <3>1 DEF CalendarInv, PollerOK
    <3> QED BY <2>1, <3>1, <3>2, PollerReads DEF CalendarInv
  <2> QED BY <2>2, <2>3
<1>2. CASE Prune
  <2>1. PICK T : T = [disk EXCEPT !.events = {e \in disk.events : ~Outdated(e)}]
    OBVIOUS
  <2>2. /\ Commit(T) /\ UNCHANGED <<now, Read>> /\ phase' = "idle" /\ since' = since
        /\ CanWrite(Poller) /\ lock # Reader /\ lock' = NoSession
    BY <1>2, <2>1, Names DEF Prune, CanWrite, Commit
  <2>3. /\ T \in Tables /\ T.row = disk.row /\ T.events = {e \in disk.events : ~Outdated(e)}
    BY <1>0, <2>1 DEF Tables
  <2>4. Backed(T.row, T.events)
    <3>1. ASSUME NEW e \in Promised, At[e] \in (now - Retention)..disk.row.begun
          PROVE  ~Outdated(e)
      <4>1. At[e] \in Int /\ now \in Int /\ Retention \in Int /\ disk.row.begun \in Int
        BY <1>0, Settings DEF CalendarInv, DatabaseOK, Tables, Rows
      <4> QED BY <3>1, <4>1 DEF Outdated
    <3> QED BY <1>0, <2>3, <3>1 DEF Backed
  <2>5. \A e \in Events \cap disk.events : e \in T.events \/ Outdated(e)
    BY <2>3
  <2>6. DatabaseOK' /\ ReaderOK' /\ AnswerIsBacked'
    BY <2>2, <2>3, <2>4, <2>5, PollerCommits DEF Commit
  <2>7. PollerOK'
    BY <2>2, Names DEF CalendarInv, PollerOK
  <2> QED BY <2>6, <2>7 DEF CalendarInv
<1> QED BY <1>1, <1>2

-----------------------------------------------------------------------------
(* The reader. *)
LEMMA DatabaseStays ==
    ASSUME CalendarInv, UNCHANGED <<now, disk>>,
           \/ UNCHANGED <<work, lock>>
           \/ work' = disk /\ lock' \in {NoSession, Reader}
    PROVE  DatabaseOK'
BY Names DEF CalendarInv, DatabaseOK, Tables, Rows, Happened, Backed

LEMMA ReaderStep ==
    ASSUME CalendarInv, StartRead \/ Load \/ Flush \/ Count \/ Metadata \/ EndRead
    PROVE  CalendarInv'
<1>0. /\ step \in 0..5 /\ (lock = Reader <=> step \in 3..5)
      /\ disk \in Tables /\ Backed(disk.row, disk.events) /\ now \in 0..MaxTime
      /\ lock # Poller => work = disk
  BY DEF CalendarInv, DatabaseOK, ReaderOK
<1>1. /\ UNCHANGED <<now, phase, since>>
      /\ step \in {1, 2, 3, 4, 5} => Proceed
      /\ ~StartRead => step # 0
  BY <1>0, Doings DEF StartRead, Load, Flush, Count, Metadata, EndRead, Poll, Doing
<1>2. CASE StartRead
  <2>1. /\ step = 0 /\ step' = 1 /\ ReadOnly /\ UNCHANGED <<now, disk, work, lock, known, counted, answer>>
    BY <1>2 DEF StartRead, ReadOnly
  <2>2. DatabaseOK'
    BY <2>1, DatabaseStays
  <2>3. PollerOK' /\ ReaderOK' /\ AnswerIsBacked'
    BY <1>0, <1>1, <2>1 DEF CalendarInv, PollerOK, View, ReaderOK, AnswerIsBacked
  <2> QED BY <2>2, <2>3 DEF CalendarInv
<1>3. CASE Load
  <2>1. /\ step = 1 /\ step' = 2 /\ known' = Row
        /\ UNCHANGED <<now, disk, work, lock, request, counted, answer>>
    BY <1>0, <1>3, Doings DEF Load, ReadOnly
  <2>2. known' = disk.row
    BY <1>0, <2>1 DEF Row, View, CalendarInv, ReaderOK
  <2>3. DatabaseOK'
    BY <2>1, DatabaseStays
  <2>4. disk.row \in Rows
    BY <1>0 DEF Tables
  <2>5. ReaderOK'
    BY <1>0, <2>1, <2>2, <2>4 DEF CalendarInv, ReaderOK, Rows, Backed
  <2>6. PollerOK' /\ AnswerIsBacked'
    BY <1>1, <2>1 DEF CalendarInv, PollerOK, View, ReaderOK, AnswerIsBacked
  <2> QED BY <2>3, <2>5, <2>6 DEF CalendarInv
<1>4. CASE Flush
  <2>1. /\ step = 2 /\ step' = 3 /\ CanWrite(Reader) /\ Write(Reader, View(Reader))
        /\ UNCHANGED <<now, request, known, counted, answer>>
    BY <1>0, <1>4, Doings DEF Flush
  <2>2. lock = NoSession
    BY <1>0, <2>1 DEF CanWrite
  <2>3. lock' = Reader /\ work' = disk /\ disk' = disk /\ work = disk
    BY <1>0, <2>1, <2>2, Names DEF Write, View
  <2>4. DatabaseOK'
    BY <2>1, <2>3, DatabaseStays
  <2>5. PollerOK'
    BY <1>1, <2>2, <2>3, Names DEF CalendarInv, PollerOK, View
  <2>6. ReaderOK'
    BY <2>1, <2>3 DEF CalendarInv, ReaderOK, Rows, Backed
  <2>7. AnswerIsBacked'
    BY <2>1 DEF CalendarInv, AnswerIsBacked
  <2> QED BY <2>4, <2>5, <2>6, <2>7 DEF CalendarInv
<1>5. CASE Count
  <2>1. /\ step = 3 /\ step' = 4 /\ counted' = {e \in View(Reader).events : DayOf[e] \in request}
        /\ UNCHANGED <<now, disk, work, lock, request, known, answer>>
    BY <1>0, <1>5, Doings DEF Count, ReadOnly
  <2>2. View(Reader) = disk /\ lock = Reader
    BY <1>0, <2>1, Names DEF View
  <2>3. DatabaseOK'
    BY <2>1, DatabaseStays
  <2>4. PollerOK'
    BY <1>1, <2>1 DEF CalendarInv, PollerOK, View
  <2>5. ReaderOK'
    BY <2>1, <2>2 DEF CalendarInv, ReaderOK, Rows, Backed
  <2>6. AnswerIsBacked'
    BY <2>1 DEF CalendarInv, ReaderOK, AnswerIsBacked
  <2> QED BY <2>3, <2>4, <2>5, <2>6 DEF CalendarInv
<1>6. CASE Metadata
  <2>1. /\ step = 4 /\ step' = 5 /\ known' = Row
        /\ answer'.isBackfilled = Row.completed /\ answer'.on = now
        /\ UNCHANGED <<now, disk, work, lock, request, counted>>
    BY <1>0, <1>6, Doings DEF Metadata, ReadOnly
  <2>2. /\ known \in Rows /\ Backed(known, disk.events)
        /\ counted = {e \in disk.events : DayOf[e] \in request}
    BY <2>1 DEF CalendarInv, ReaderOK
  <2>3. known # Unknown /\ Row = known
    <3>1. known.batch # 0
      BY <2>2 DEF Rows
    <3>2. Unknown.batch = 0
      BY DEF Unknown, NewActor
    <3> QED BY <3>1, <3>2 DEF Row
  <2>4. DatabaseOK'
    BY <2>1, DatabaseStays
  <2>5. PollerOK'
    BY <1>1, <2>1 DEF CalendarInv, PollerOK, View
  <2>6. ReaderOK'
    BY <2>1, <2>2, <2>3 DEF CalendarInv, ReaderOK, Rows, Backed
  <2>7. AnswerIsBacked'
    <3> SUFFICES ASSUME known.completed, NEW e \in Promised, DayOf[e] \in request,
                        At[e] \in (now - Retention)..known.begun
                 PROVE  e \in counted
      BY <2>1, <2>3 DEF AnswerIsBacked
    <3>1. BatchOf[e] \in Nat /\ BatchOf[e] <= Batches /\ Batches \in Nat /\ known.batch \in Int
      BY <2>2, Settings DEF Rows
    <3>2. BatchOf[e] < known.batch
      BY <2>2, <3>1 DEF Backed
    <3> QED BY <2>2, <3>2 DEF Backed
  <2> QED BY <2>4, <2>5, <2>6, <2>7 DEF CalendarInv
<1>7. CASE EndRead
  <2>1. /\ step = 5 /\ step' = 0 /\ Commit(View(Reader))
        /\ known' = Unknown /\ counted' = {} /\ answer' = NoAnswer /\ now' = now
    BY <1>0, <1>7, Doings DEF EndRead
  <2>2. lock = Reader /\ work = disk
    BY <1>0, <2>1, Names
  <2>3. lock' = NoSession /\ work' = disk /\ disk' = disk
    BY <2>1, <2>2 DEF Commit, View
  <2>4. DatabaseOK'
    BY <2>1, <2>3, DatabaseStays
  <2>5. PollerOK'
    BY <1>1, <2>2, <2>3, Names DEF CalendarInv, PollerOK, View
  <2>6. ReaderOK' /\ AnswerIsBacked'
    BY <2>1, <2>3, Names DEF ReaderOK, AnswerIsBacked
  <2> QED BY <2>4, <2>5, <2>6 DEF CalendarInv
<1> QED BY <1>2, <1>3, <1>4, <1>5, <1>6, <1>7

LEMMA TickStep ==
    ASSUME CalendarInv, Tick
    PROVE  CalendarInv'
<1>1. /\ now \in 0..MaxTime /\ now' \in 0..MaxTime /\ now <= now' /\ now \in Int
      /\ now' = now + 1
  BY Settings DEF CalendarInv, DatabaseOK, Tick
<1>2. UNCHANGED <<disk, work, lock, phase, since, step, request, known, counted, answer>>
  BY DEF Tick, ReadOnly, Poll, Read
<1>3. \A T \in Tables : Backed(T.row, T.events) => T \in Tables' /\ Backed(T.row, T.events)'
  <2> SUFFICES ASSUME NEW T \in Tables, Backed(T.row, T.events)
               PROVE  T \in Tables' /\ Backed(T.row, T.events)'
    OBVIOUS
  <2>1. T.row \in Rows
    BY DEF Tables
  <2>2. T.row \in Rows' /\ Backed(T.row, T.events)'
    BY <1>1, <2>1, BackedStays
  <2>3. Happened \subseteq Happened'
    <3>1. \A e \in Events : At[e] \in Nat
      BY Settings
    <3> QED BY <1>1, <3>1 DEF Happened
  <2> QED BY <2>2, <2>3 DEF Tables
<1>4. DatabaseOK'
  <2>1. PICK T \in Tables : T = disk
    BY DEF CalendarInv, DatabaseOK
  <2>2. PICK W \in Tables : W = work
    BY DEF CalendarInv, DatabaseOK
  <2>3. /\ T \in Tables' /\ Backed(T.row, T.events)' /\ W \in Tables' /\ Backed(W.row, W.events)'
    BY <1>3, <2>1, <2>2 DEF CalendarInv, DatabaseOK
  <2> QED BY <1>1, <1>2, <2>1, <2>2, <2>3 DEF CalendarInv, DatabaseOK, Backed
<1>5. PollerOK'
  <2>1. since \in Int /\ Retention \in Int
    BY Settings DEF CalendarInv, PollerOK
  <2>2. since <= now - Retention => since <= now' - Retention
    BY <1>1, <2>1
  <2> QED BY <1>2, <2>2 DEF CalendarInv, PollerOK, View
<1>6. ReaderOK'
  <2>1. ASSUME step \in 2..5
        PROVE  (known \in Rows /\ Backed(known, disk.events))'
    <3>1. PICK row : row = known
      OBVIOUS
    <3>2. PICK E : E = disk.events
      OBVIOUS
    <3>3. row \in Rows /\ Backed(row, E)
      BY <2>1, <3>1, <3>2 DEF CalendarInv, ReaderOK
    <3>4. row \in Rows' /\ Backed(row, E)'
      BY <1>1, <3>3, BackedStays
    <3> QED BY <1>2, <3>1, <3>2, <3>4 DEF Backed
  <2> QED BY <1>2, <2>1 DEF CalendarInv, ReaderOK
<1>7. AnswerIsBacked'
  BY <1>2 DEF CalendarInv, AnswerIsBacked
<1> QED BY <1>4, <1>5, <1>6, <1>7 DEF CalendarInv

LEMMA CalendarInit == Init => CalendarInv
<1> SUFFICES ASSUME Init PROVE CalendarInv
  OBVIOUS
<1>1. /\ now \in 0..MaxTime /\ disk = [events |-> {}, row |-> NewActor] /\ work = disk
      /\ lock = NoSession /\ phase = "idle" /\ since = 0
      /\ step = 0 /\ known = Unknown /\ counted = {} /\ answer = NoAnswer
  BY DEF Init
<1>2. disk \in Tables
  <2>1. NewActor \in Rows
    BY <1>1, Settings DEF NewActor, Rows
  <2> QED BY <1>1, <2>1 DEF Tables
<1>3. Backed(disk.row, disk.events)
  <2>1. /\ disk.row.begun = -1 /\ disk.row.batch = 1 /\ ~disk.row.completed
    BY <1>1 DEF NewActor
  <2>2. \A e \in Promised : ~(BatchOf[e] < 1)
    BY Settings
  <2> QED BY <2>1, <2>2 DEF Backed
<1>4. DatabaseOK
  BY <1>1, <1>2, <1>3, Names DEF DatabaseOK
<1>5. PollerOK /\ ReaderOK /\ AnswerIsBacked
  BY <1>1, Names DEF PollerOK, ReaderOK, AnswerIsBacked
<1> QED BY <1>4, <1>5 DEF CalendarInv

LEMMA CalendarStep == CalendarInv /\ [Next]_vars => CalendarInv'
<1> SUFFICES ASSUME CalendarInv, [Next]_vars PROVE CalendarInv'
  OBVIOUS
<1>1. CASE UNCHANGED vars
  BY <1>1 DEF vars, CalendarInv, DatabaseOK, PollerOK, ReaderOK, AnswerIsBacked, Tables, Rows,
     Happened, Backed, View
<1> QED
  BY <1>1, IncrementalPollStep, FetchBatchStep, BackfillStep, EndOfPassStep, ReaderStep,
     TickStep DEF Next

LEMMA CalendarInvariant == Spec => []CalendarInv
BY CalendarInit, CalendarStep, PTL DEF Spec

\* The tables hold only what has happened, and the reader counts no more.
THEOREM CalendarTypes == Spec => []TypeOK
<1>1. ASSUME CalendarInv
      PROVE  TypeOK
  <2>1. step \in 0..Len(ReadSteps)
    BY <1>1, Steps DEF CalendarInv, ReaderOK
  <2>2. \A T \in Tables : /\ T.events \subseteq Happened
                          /\ T.row.batch \in 1..(Batches + 1) /\ T.row.begun \in -1..now
    BY DEF Tables, Rows
  <2>3. lock = NoSession => work = disk
    BY <1>1, Names DEF CalendarInv, DatabaseOK
  <2>4. counted \subseteq disk.events
    BY <1>1 DEF CalendarInv, ReaderOK
  <2> QED BY <1>1, <2>1, <2>2, <2>3, <2>4 DEF CalendarInv, DatabaseOK, TypeOK
<1> QED BY <1>1, CalendarInvariant, PTL

\* get_contributions counts before it looks at the backfill status, from a row
\* it loaded earlier still; an answer with backfilled = true has all of the window
\* that the backfill cannot miss, up to the instant it was begun and from the one
\* it is retained from, whatever was stored or pruned between.
THEOREM AnswerBacked == Spec => []AnswerIsBacked
<1>1. CalendarInv => AnswerIsBacked
  BY DEF CalendarInv
<1> QED BY <1>1, CalendarInvariant, PTL

-----------------------------------------------------------------------------
(***************************************************************************)
(* The statistics are folds over the days, and a fold is a recursion: what *)
(* it computes has to be told apart from what it is written as.  So the    *)
(* values of a fold are shown to exist (FoldDefined) and to be the only    *)
(* ones (FoldUnique), day by day; what the loops know after each day then  *)
(* follows by induction, which is well-foundedness of < here.              *)
(***************************************************************************)
LEMMA InductionOnNat ==
    ASSUME NEW P, 0 \in P, \A n \in P \cap Nat : n + 1 \in P
    PROVE  Nat \subseteq P
<1> SUFFICES ASSUME NEW T, T = Nat \ P, T # {}
             PROVE  FALSE
  OBVIOUS
<1>1. PICK n \in T : \A m \in T : ~(<<m, n>> \in OpToRel(<, Nat))
  <2>1. T \subseteq Nat
    OBVIOUS
  <2> QED BY <2>1, NatLessThanWellFounded, WFMin
<1>2. \A m \in T : ~(m < n)
  BY <1>1 DEF OpToRel
<1>3. n # 0 /\ n - 1 \in Nat /\ n - 1 \notin T
  BY <1>2
<1> QED BY <1>3

LEMMA InductionUpTo ==
    ASSUME NEW n \in Nat, NEW P, 0 \in P, \A k \in 0..(n - 1) : k \in P => k + 1 \in P
    PROVE  0..n \subseteq P
<1> DEFINE Q == P \cup {k \in Nat : k > n}
<1>1. Nat \subseteq Q
  <2>1. 0 \in Q /\ \A k \in Q \cap Nat : k + 1 \in Q
    OBVIOUS
  <2> HIDE DEF Q
  <2> QED BY <2>1, InductionOnNat
<1> QED BY <1>1

LEMMA MaxOfInterval == ASSUME NEW k \in Nat \ {0} PROVE Max(1..k) = k
BY DEF Max

LEMMA MaxFacts ==
    ASSUME NEW n \in Nat, NEW S \in SUBSET (0..n), S # {}
    PROVE  Max(S) \in S /\ \A x \in S : x <= Max(S)
<1> SUFFICES \E x \in S : \A y \in S : x >= y
  BY DEF Max
<1> DEFINE T == {n - x : x \in S}
<1>1. T \subseteq Nat /\ T # {}
  <2>1. \A x \in S : n - x \in Nat
    OBVIOUS
  <2> QED BY <2>1
<1>2. PICK d \in T : \A m \in T : ~(<<m, d>> \in OpToRel(<, Nat))
  <2> HIDE DEF T
  <2> QED BY <1>1, NatLessThanWellFounded, WFMin
<1>3. \A m \in T : ~(m < d)
  <2> HIDE DEF T
  <2> QED BY <1>1, <1>2 DEF OpToRel
<1>4. PICK x \in S : d = n - x
  OBVIOUS
<1>5. ASSUME NEW y \in S
      PROVE  y <= x
  <2>1. n - y \in T
    OBVIOUS
  <2>2. ~(n - y < d)
    BY <1>3, <2>1
  <2> QED BY <1>4, <2>2
<1> QED BY <1>5

LEMMA MaxInRange ==
    ASSUME NEW n \in Nat, NEW T \in SUBSET (1..n), T # {}
    PROVE  Max(T) \in T /\ Max(T) \in 1..n
<1>1. T \in SUBSET (0..n)
  OBVIOUS
<1> QED BY <1>1, MaxFacts

LEMMA MinInRange ==
    ASSUME NEW n \in Nat, NEW T \in SUBSET (1..n), T # {}
    PROVE  Min(T) \in T /\ Min(T) \in 1..n
<1>1. T \subseteq Nat
  OBVIOUS
<1>2. PICK x \in T : \A y \in T : ~(<<y, x>> \in OpToRel(<, Nat))
  BY <1>1, NatLessThanWellFounded, WFMin
<1>3. \A y \in T : ~(y < x)
  BY <1>1, <1>2 DEF OpToRel
<1>4. \A y \in T : x <= y
  BY <1>1, <1>3
<1> QED BY <1>4 DEF Min

\* A fold over the set S in which the step is a function, too: its value for
\* each part of S, of which `pick` chooses what comes last.
Rest(T, pick) == T \ {pick[T]}

IsFold(g, S, A, pick, base, move) ==
    /\ g \in [SUBSET S -> A]
    /\ \A T \in SUBSET S : g[T] = IF T = {} THEN base ELSE move[<<pick[T], g[Rest(T, pick)]>>]

Picks(pick, S) == \A T \in SUBSET S : T # {} => pick[T] \in T

LEMMA PartFacts ==
    ASSUME NEW S, IsFiniteSet(S), NEW pick, Picks(pick, S), NEW T \in SUBSET S
    PROVE  /\ IsFiniteSet(T) /\ Cardinality(T) \in Nat /\ Cardinality(T) <= Cardinality(S)
           /\ T = {} <=> Cardinality(T) = 0
           /\ T # {} => /\ pick[T] \in S /\ Rest(T, pick) \in SUBSET S
                        /\ Cardinality(Rest(T, pick)) = Cardinality(T) - 1
<1>1. IsFiniteSet(T) /\ Cardinality(T) \in Nat /\ Cardinality(T) <= Cardinality(S)
  BY FS_Subset, FS_CardinalityType
<1>2. T = {} <=> Cardinality(T) = 0
  BY <1>1, FS_EmptySet
<1>3. T # {} => pick[T] \in T
  BY DEF Picks
<1>4. T # {} => Cardinality(Rest(T, pick)) = Cardinality(T) - 1
  BY <1>1, <1>3, FS_RemoveElement DEF Rest
<1> QED BY <1>1, <1>2, <1>3, <1>4 DEF Rest

LEMMA FoldDefined ==
    ASSUME NEW S, IsFiniteSet(S), NEW pick, Picks(pick, S),
           NEW A, NEW base \in A, NEW move \in [S \X A -> A]
    PROVE  \E g : IsFold(g, S, A, pick, base, move)
<1> DEFINE Upto(k) == {T \in SUBSET S : Cardinality(T) <= k}
           Value(g, T) == IF T = {} THEN base ELSE move[<<pick[T], g[Rest(T, pick)]>>]
           Good(k) == \E g \in [Upto(k) -> A] : \A T \in Upto(k) : g[T] = Value(g, T)
           Levels == {k \in Nat : Good(k)}
<1>1. \A T \in SUBSET S : /\ IsFiniteSet(T) /\ Cardinality(T) \in Nat /\ Cardinality(T) <= Cardinality(S)
                          /\ T = {} <=> Cardinality(T) = 0
                          /\ T # {} => /\ pick[T] \in S /\ Rest(T, pick) \in SUBSET S
                                       /\ Cardinality(Rest(T, pick)) = Cardinality(T) - 1
  <2> TAKE T \in SUBSET S
  <2> QED BY PartFacts
<1>2. 0 \in Levels
  <2> DEFINE g == [T \in Upto(0) |-> base]
  <2>1. ASSUME NEW T \in Upto(0)
        PROVE  T = {}
    <3>1. T \in SUBSET S /\ Cardinality(T) <= 0
      OBVIOUS
    <3>2. Cardinality(T) \in Nat /\ (T = {} <=> Cardinality(T) = 0)
      BY <1>1, <3>1
    <3> QED BY <3>1, <3>2
  <2>2. g \in [Upto(0) -> A] /\ \A T \in Upto(0) : g[T] = Value(g, T)
    BY <2>1
  <2> QED BY <2>2
<1>3. ASSUME NEW k \in Levels
      PROVE  k + 1 \in Levels
  <2>1. k \in Nat /\ k + 1 \in Nat
    OBVIOUS
  <2>2. PICK g \in [Upto(k) -> A] : \A T \in Upto(k) : g[T] = Value(g, T)
    OBVIOUS
  <2> DEFINE h == [T \in Upto(k + 1) |-> IF T \in Upto(k) THEN g[T] ELSE Value(g, T)]
  <2>3. ASSUME NEW T \in Upto(k + 1), T # {}
        PROVE  Rest(T, pick) \in Upto(k) /\ pick[T] \in S
    <3>1. T \in SUBSET S /\ Cardinality(T) <= k + 1
      OBVIOUS
    <3>2. /\ pick[T] \in S /\ Rest(T, pick) \in SUBSET S
          /\ Cardinality(Rest(T, pick)) = Cardinality(T) - 1 /\ Cardinality(T) \in Nat
      <4> HIDE DEF Upto
      <4> QED BY <1>1, <2>3, <3>1
    <3> QED BY <2>1, <3>1, <3>2
  <2>4. Upto(k) \subseteq Upto(k + 1)
    <3>1. \A T \in SUBSET S : Cardinality(T) \in Nat
      BY <1>1
    <3> QED BY <2>1, <3>1
  <2>5. \A T \in Upto(k + 1) : Value(h, T) = Value(g, T) /\ Value(g, T) \in A
    BY <2>2, <2>3, <2>4
  <2>6. h \in [Upto(k + 1) -> A] /\ \A T \in Upto(k + 1) : h[T] = Value(h, T)
    <3> HIDE DEF Upto, Value
    <3> QED BY <2>2, <2>5
  <2>7. Good(k + 1)
    <3> HIDE DEF h, Upto, Value
    <3> QED BY <2>6
  <2> QED BY <2>1, <2>7
<1>4. Good(Cardinality(S))
  <2>1. Nat \subseteq Levels
    <3> HIDE DEF Levels
    <3> QED BY <1>2, <1>3, InductionOnNat
  <2> QED BY <2>1, FS_CardinalityType
<1>5. Upto(Cardinality(S)) = SUBSET S
  BY <1>1
<1>6. PICK g \in [SUBSET S -> A] : \A T \in SUBSET S : g[T] = Value(g, T)
  <2> HIDE DEF Upto, Value
  <2> QED BY <1>4, <1>5
<1> QED BY <1>6 DEF IsFold

\* The same, if only for values in A.
Obeys(h, S, A, pick, base, move) ==
    /\ h = [T \in SUBSET S |-> h[T]] /\ h[{}] = base
    /\ \A T \in SUBSET S :
          T # {} /\ h[Rest(T, pick)] \in A => h[T] = move[<<pick[T], h[Rest(T, pick)]>>]

\* What satisfies the equation of a fold as long as its values are in A is one.
LEMMA FoldUnique ==
    ASSUME NEW S, IsFiniteSet(S), NEW pick, Picks(pick, S),
           NEW A, NEW base \in A, NEW move \in [S \X A -> A],
           NEW h, Obeys(h, S, A, pick, base, move)
    PROVE  IsFold(h, S, A, pick, base, move)
<1>a. h[{}] = base /\ \A T \in SUBSET S :
        T # {} /\ h[Rest(T, pick)] \in A => h[T] = move[<<pick[T], h[Rest(T, pick)]>>]
  BY DEF Obeys
<1> DEFINE Good == {k \in Nat : \A T \in SUBSET S : Cardinality(T) = k => h[T] \in A}
<1>1. 0 \in Good
  BY <1>a, PartFacts
<1>2. ASSUME NEW k \in Good
      PROVE  k + 1 \in Good
  <2>1. k \in Nat /\ \A T \in SUBSET S : Cardinality(T) = k => h[T] \in A
    OBVIOUS
  <2>2. ASSUME NEW T \in SUBSET S, Cardinality(T) = k + 1
        PROVE  h[T] \in A
    <3>1. /\ T # {} /\ pick[T] \in S /\ Rest(T, pick) \in SUBSET S
          /\ Cardinality(Rest(T, pick)) = k
      <4>1. Cardinality(T) # 0 /\ Cardinality(T) - 1 = k
        BY <2>1, <2>2
      <4>2. T # {}
        BY <4>1, PartFacts
      <4> QED BY <4>1, <4>2, PartFacts
    <3>2. h[Rest(T, pick)] \in A
      BY <2>1, <3>1
    <3> QED BY <1>a, <3>1, <3>2
  <2>3. k + 1 \in Nat
    BY <2>1
  <2> QED BY <2>2, <2>3
<1>3. Nat \subseteq Good
  <2> HIDE DEF Good
  <2> QED BY <1>1, <1>2, InductionOnNat
<1>4. ASSUME NEW T \in SUBSET S
      PROVE  h[T] \in A
  <2>1. Cardinality(T) \in Nat
    BY PartFacts
  <2> QED BY <1>3, <2>1
<1>5. h \in [SUBSET S -> A]
  BY <1>4 DEF Obeys
<1>6. ASSUME NEW T \in SUBSET S
      PROVE  h[T] = IF T = {} THEN base ELSE move[<<pick[T], h[Rest(T, pick)]>>]
  <2>1. Rest(T, pick) \in SUBSET S
    BY DEF Rest
  <2> QED BY <1>a, <1>4, <2>1
<1> QED BY <1>5, <1>6 DEF IsFold

\* What FoldLeft chooses last, and the values of its walk.
Latest(n) == [T \in SUBSET (1..n) |-> Max(T)]

LEMMA LatestFacts ==
    ASSUME NEW n \in Nat
    PROVE  /\ Picks(Latest(n), 1..n) /\ IsFiniteSet(1..n)
           /\ \A T \in SUBSET (1..n) : Latest(n)[T] = Max(T) /\ Rest(T, Latest(n)) = T \ {Max(T)}
           /\ \A T \in SUBSET (1..n) : T # {} => Max(T) \in 1..n
<1>1. \A T \in SUBSET (1..n) : T # {} => Max(T) \in T /\ Max(T) \in 1..n
  BY MaxInRange
<1>2. \A T \in SUBSET (1..n) : Latest(n)[T] = Max(T)
  BY DEF Latest
<1>3. IsFiniteSet(1..n)
  BY FS_Interval
<1>4. \A T \in SUBSET (1..n) : Rest(T, Latest(n)) = T \ {Max(T)}
  BY <1>2 DEF Rest
<1> QED BY <1>1, <1>2, <1>3, <1>4 DEF Picks

LEMMA WalkLeft ==
    ASSUME NEW n \in Nat, NEW A, NEW base, NEW move, NEW g,
           IsFold(g, 1..n, A, Latest(n), base, move)
    PROVE  \E w \in [0..n -> A] :
             /\ w[0] = base /\ w[n] = g[1..n]
             /\ \A k \in 1..n : w[k] = move[<<k, w[k - 1]>>]
<1> DEFINE w == [k \in 0..n |-> g[1..k]]
<1>1. \A k \in 0..n : 1..k \in SUBSET (1..n)
  OBVIOUS
<1>2. w \in [0..n -> A]
  BY <1>1 DEF IsFold
<1>3. w[0] = base
  <2>1. 1..0 = {} /\ 1..0 \in SUBSET (1..n)
    OBVIOUS
  <2>2. w[0] = g[{}]
    BY <2>1
  <2> QED BY <2>1, <2>2 DEF IsFold
<1>4. ASSUME NEW k \in 1..n
      PROVE  w[k] = move[<<k, w[k - 1]>>]
  <2>1. 1..k \in SUBSET (1..n) /\ 1..k # {} /\ k - 1 \in 0..n /\ k \in 0..n
    OBVIOUS
  <2>2. Max(1..k) = k
    BY MaxOfInterval
  <2>3. Latest(n)[1..k] = k /\ Rest(1..k, Latest(n)) = (1..k) \ {k}
    BY <2>1, <2>2, LatestFacts
  <2>4. (1..k) \ {k} = 1..(k - 1)
    OBVIOUS
  <2>5. g[1..k] = move[<<k, g[1..(k - 1)]>>]
    BY <2>1, <2>3, <2>4 DEF IsFold
  <2> QED BY <2>1, <2>5
<1>5. w[n] = g[1..n]
  OBVIOUS
<1> QED BY <1>2, <1>3, <1>4, <1>5

LEMMA TotalIsSum ==
    ASSUME NEW days \in Seq(Nat)
    PROVE  \E sum \in [0..Len(days) -> Nat] :
             /\ sum[0] = 0 /\ sum[Len(days)] = Total(days)
             /\ \A k \in 1..Len(days) : sum[k] = sum[k - 1] + days[k]
<1> DEFINE n == Len(days)
           Fix(h) == h = [T \in SUBSET (1..n) |->
                             IF T = {} THEN 0 ELSE h[T \ {Max(T)}] + days[Max(T)]]
           iter == CHOOSE h : Fix(h)
           move == [z \in (1..n) \X Nat |-> z[2] + days[z[1]]]
<1>1. n \in Nat /\ DOMAIN days = 1..n /\ \A k \in 1..n : days[k] \in Nat
  BY LenProperties
<1>2. Total(days) = iter[1..n]
  BY <1>1 DEF Total, FoldLeft, MapThenFoldSet
<1>3. move \in [(1..n) \X Nat -> Nat]
  BY <1>1
<1>4. \A k \in 1..n, a \in Nat : move[<<k, a>>] = a + days[k]
  OBVIOUS
<1> HIDE DEF move, n
<1>5. PICK g : IsFold(g, 1..n, Nat, Latest(n), 0, move)
  BY <1>1, <1>3, LatestFacts, FoldDefined
<1>6. Fix(g)
  <2>1. g \in [SUBSET (1..n) -> Nat]
    BY <1>5 DEF IsFold
  <2>2. ASSUME NEW T \in SUBSET (1..n)
        PROVE  g[T] = IF T = {} THEN 0 ELSE g[T \ {Max(T)}] + days[Max(T)]
    <3>1. g[T] = IF T = {} THEN 0 ELSE move[<<Max(T), g[T \ {Max(T)}]>>]
      BY <1>1, <1>5, LatestFacts DEF IsFold
    <3>2. T # {} => Max(T) \in 1..n /\ g[T \ {Max(T)}] \in Nat
      BY <1>1, <2>1, LatestFacts
    <3> QED BY <1>4, <3>1, <3>2
  <2> QED BY <2>1, <2>2
<1>7. Fix(iter)
  <2> HIDE DEF Fix
  <2> QED BY <1>6
<1>8. IsFold(iter, 1..n, Nat, Latest(n), 0, move)
  <2> HIDE DEF iter
  <2>1. iter = [T \in SUBSET (1..n) |-> iter[T]] /\ iter[{}] = 0
    BY <1>7
  <2>2. ASSUME NEW T \in SUBSET (1..n), T # {}, iter[Rest(T, Latest(n))] \in Nat
        PROVE  iter[T] = move[<<Latest(n)[T], iter[Rest(T, Latest(n))]>>]
    <3>1. Latest(n)[T] = Max(T) /\ Rest(T, Latest(n)) = T \ {Max(T)} /\ Max(T) \in 1..n
      BY <1>1, <2>2, LatestFacts
    <3> QED BY <1>4, <1>7, <2>2, <3>1
  <2> HIDE DEF Fix
  <2>3. Obeys(iter, 1..n, Nat, Latest(n), 0, move)
    BY <2>1, <2>2 DEF Obeys
  <2> QED BY <1>1, <1>3, <2>3, LatestFacts, FoldUnique
<1> HIDE DEF iter
<1>9. PICK sum \in [0..n -> Nat] :
        /\ sum[0] = 0 /\ sum[n] = iter[1..n]
        /\ \A k \in 1..n : sum[k] = move[<<k, sum[k - 1]>>]
  BY <1>1, <1>8, WalkLeft
<1>10. \A k \in 1..n : sum[k] = sum[k - 1] + days[k]
  <2> TAKE k \in 1..n
  <2>1. k - 1 \in 0..n
    BY <1>1
  <2>2. sum[k - 1] \in Nat
    BY <1>9, <2>1
  <2> QED BY <1>4, <1>9, <2>2
<1> QED BY <1>1, <1>2, <1>9, <1>10 DEF n

Streaks == [streaks : SUBSET Nat, current : Nat]

LEMMA StreaksByDay ==
    ASSUME NEW days \in Seq(Nat)
    PROVE  \E walk \in [0..Len(days) -> Streaks] :
             /\ walk[0] = [streaks |-> {}, current |-> 0]
             /\ StreakLengths(days) = walk[Len(days)].streaks \cup {walk[Len(days)].current}
             /\ \A k \in 1..Len(days) :
                   walk[k] = IF days[k] > 0 THEN [walk[k - 1] EXCEPT !.current = @ + 1]
                             ELSE [streaks |-> walk[k - 1].streaks \cup {walk[k - 1].current},
                                   current |-> 0]
<1> DEFINE n == Len(days)
           start == [streaks |-> {}, current |-> 0]
           Day(acc, count) == IF count > 0 THEN [acc EXCEPT !.current = @ + 1]
                              ELSE [streaks |-> acc.streaks \cup {acc.current}, current |-> 0]
           Fix(h) == h = [T \in SUBSET (1..n) |->
                             IF T = {} THEN start ELSE Day(h[T \ {Max(T)}], days[Max(T)])]
           iter == CHOOSE h : Fix(h)
           move == [z \in (1..n) \X Streaks |-> Day(z[2], days[z[1]])]
<1>1. n \in Nat /\ DOMAIN days = 1..n /\ \A k \in 1..n : days[k] \in Nat
  BY LenProperties
<1>2. StreakLengths(days) = iter[1..n].streaks \cup {iter[1..n].current}
  BY <1>1 DEF StreakLengths, FoldLeft, MapThenFoldSet
<1>3. start \in Streaks /\ \A acc \in Streaks, count \in Nat : Day(acc, count) \in Streaks
  BY DEF Streaks
<1> HIDE DEF Day, start
<1>4. /\ move \in [(1..n) \X Streaks -> Streaks]
      /\ \A k \in 1..n, acc \in Streaks : move[<<k, acc>>] = Day(acc, days[k])
  BY <1>1, <1>3
<1> HIDE DEF move, n
<1>5. PICK g : IsFold(g, 1..n, Streaks, Latest(n), start, move)
  BY <1>1, <1>3, <1>4, LatestFacts, FoldDefined
<1>6. Fix(g)
  <2>1. g \in [SUBSET (1..n) -> Streaks]
    BY <1>5 DEF IsFold
  <2>2. ASSUME NEW T \in SUBSET (1..n)
        PROVE  g[T] = IF T = {} THEN start ELSE Day(g[T \ {Max(T)}], days[Max(T)])
    <3>1. g[T] = IF T = {} THEN start ELSE move[<<Max(T), g[T \ {Max(T)}]>>]
      BY <1>1, <1>5, LatestFacts DEF IsFold
    <3>2. T # {} => Max(T) \in 1..n /\ g[T \ {Max(T)}] \in Streaks
      BY <1>1, <2>1, LatestFacts
    <3> QED BY <1>4, <3>1, <3>2
  <2> QED BY <2>1, <2>2
<1>7. Fix(iter)
  <2> HIDE DEF Fix
  <2> QED BY <1>6
<1>8. IsFold(iter, 1..n, Streaks, Latest(n), start, move)
  <2> HIDE DEF iter
  <2>1. iter = [T \in SUBSET (1..n) |-> iter[T]] /\ iter[{}] = start
    BY <1>7
  <2>2. ASSUME NEW T \in SUBSET (1..n), T # {}, iter[Rest(T, Latest(n))] \in Streaks
        PROVE  iter[T] = move[<<Latest(n)[T], iter[Rest(T, Latest(n))]>>]
    <3>1. Latest(n)[T] = Max(T) /\ Rest(T, Latest(n)) = T \ {Max(T)} /\ Max(T) \in 1..n
      BY <1>1, <2>2, LatestFacts
    <3>2. iter[T] = Day(iter[T \ {Max(T)}], days[Max(T)])
      BY <1>7, <2>2
    <3> QED BY <1>4, <2>2, <3>1, <3>2
  <2> HIDE DEF Fix
  <2>3. Obeys(iter, 1..n, Streaks, Latest(n), start, move)
    BY <2>1, <2>2 DEF Obeys
  <2> QED BY <1>1, <1>3, <1>4, <2>3, LatestFacts, FoldUnique
<1> HIDE DEF iter
<1>9. PICK walk \in [0..n -> Streaks] :
        /\ walk[0] = start /\ walk[n] = iter[1..n]
        /\ \A k \in 1..n : walk[k] = move[<<k, walk[k - 1]>>]
  BY <1>1, <1>8, WalkLeft
<1>10. ASSUME NEW k \in 1..n
       PROVE  walk[k] = Day(walk[k - 1], days[k])
  <2>1. k - 1 \in 0..n
    BY <1>1
  <2>2. walk[k - 1] \in Streaks
    BY <1>9, <2>1
  <2> QED BY <1>4, <1>9, <2>2
<1> QED BY <1>1, <1>2, <1>9, <1>10 DEF n, start, Day

\* The same of FoldRight.
Earliest(n) == [T \in SUBSET (1..n) |-> Min(T)]

LEMMA EarliestFacts ==
    ASSUME NEW n \in Nat
    PROVE  /\ Picks(Earliest(n), 1..n) /\ IsFiniteSet(1..n)
           /\ \A T \in SUBSET (1..n) : Earliest(n)[T] = Min(T) /\ Rest(T, Earliest(n)) = T \ {Min(T)}
           /\ \A T \in SUBSET (1..n) : T # {} => Min(T) \in 1..n
<1>1. \A T \in SUBSET (1..n) : T # {} => Min(T) \in T /\ Min(T) \in 1..n
  BY MinInRange
<1>2. \A T \in SUBSET (1..n) : Earliest(n)[T] = Min(T)
  BY DEF Earliest
<1>3. IsFiniteSet(1..n)
  BY FS_Interval
<1>4. \A T \in SUBSET (1..n) : Rest(T, Earliest(n)) = T \ {Min(T)}
  BY <1>2 DEF Rest
<1> QED BY <1>1, <1>2, <1>3, <1>4 DEF Picks

LEMMA DaysAfter ==
    ASSUME NEW n \in Nat, NEW k \in 1..n
    PROVE  /\ (k..n) \ {k} = (k + 1)..n /\ k \in k..n /\ Min(k..n) = k
           /\ k..n \in SUBSET (1..n) /\ k + 1 \in 1..(n + 1) /\ k \in 1..(n + 1)
<1>1. k \in Nat /\ 1 <= k /\ k <= n
  OBVIOUS
<1>2. \A i \in Int : (i >= k /\ i # k) <=> i >= k + 1
  BY <1>1
<1>3. (k..n) \ {k} = (k + 1)..n /\ k \in k..n
  BY <1>1, <1>2
<1>4. Min(k..n) = k
  BY <1>1, <1>3 DEF Min
<1>5. k..n \in SUBSET (1..n) /\ k + 1 \in 1..(n + 1) /\ k \in 1..(n + 1)
  BY <1>1
<1> QED BY <1>3, <1>4, <1>5

LEMMA WalkRight ==
    ASSUME NEW n \in Nat, NEW A, NEW base, NEW move, NEW g,
           IsFold(g, 1..n, A, Earliest(n), base, move)
    PROVE  \E w \in [1..(n + 1) -> A] :
             /\ w[n + 1] = base /\ w[1] = g[1..n]
             /\ \A k \in 1..n : w[k] = move[<<k, w[k + 1]>>]
<1> DEFINE w == [k \in 1..(n + 1) |-> g[k..n]]
<1>1. \A k \in 1..(n + 1) : k..n \in SUBSET (1..n)
  OBVIOUS
<1>2. w \in [1..(n + 1) -> A]
  BY <1>1 DEF IsFold
<1>3. w[n + 1] = base
  <2>1. (n + 1)..n = {} /\ (n + 1)..n \in SUBSET (1..n)
    OBVIOUS
  <2>2. w[n + 1] = g[{}]
    BY <2>1
  <2> QED BY <2>1, <2>2 DEF IsFold
<1>4. ASSUME NEW k \in 1..n
      PROVE  w[k] = move[<<k, w[k + 1]>>]
  <2>1. w[k] = g[k..n] /\ w[k + 1] = g[(k + 1)..n]
    BY DaysAfter
  <2>2. Earliest(n)[k..n] = k /\ Rest(k..n, Earliest(n)) = (k + 1)..n
    BY DaysAfter, EarliestFacts
  <2>3. k..n \in SUBSET (1..n) /\ k..n # {}
    BY DaysAfter
  <2>4. g[k..n] = move[<<k, g[(k + 1)..n]>>]
    BY <2>2, <2>3 DEF IsFold
  <2> QED BY <2>1, <2>4
<1>5. w[1] = g[1..n]
  OBVIOUS
<1> QED BY <1>2, <1>3, <1>4, <1>5

Run == [streak : Nat, over : BOOLEAN]

LEMMA CurrentByDay ==
    ASSUME NEW days \in Seq(Nat)
    PROVE  \E walk \in [1..(Len(days) + 1) -> Run] :
             /\ walk[Len(days) + 1] = [streak |-> 0, over |-> FALSE]
             /\ CurrentStreak(days) = walk[1].streak
             /\ \A k \in 1..Len(days) :
                   walk[k] = IF walk[k + 1].over \/ days[k] = 0
                             THEN [walk[k + 1] EXCEPT !.over = TRUE]
                             ELSE [walk[k + 1] EXCEPT !.streak = @ + 1]
<1> DEFINE n == Len(days)
           start == [streak |-> 0, over |-> FALSE]
           Day(count, acc) == IF acc.over \/ count = 0 THEN [acc EXCEPT !.over = TRUE]
                              ELSE [acc EXCEPT !.streak = @ + 1]
           Fix(h) == h = [T \in SUBSET (1..n) |->
                             IF T = {} THEN start ELSE Day(days[Min(T)], h[T \ {Min(T)}])]
           iter == CHOOSE h : Fix(h)
           move == [z \in (1..n) \X Run |-> Day(days[z[1]], z[2])]
<1>1. n \in Nat /\ DOMAIN days = 1..n /\ \A k \in 1..n : days[k] \in Nat
  BY LenProperties
<1>2. CurrentStreak(days) = iter[1..n].streak
  BY <1>1 DEF CurrentStreak, FoldRight, MapThenFoldSet
<1>3. start \in Run /\ \A acc \in Run, count \in Nat : Day(count, acc) \in Run
  <2>1. start \in Run
    BY DEF Run
  <2>2. ASSUME NEW acc \in Run, NEW count \in Nat
        PROVE  Day(count, acc) \in Run
    <3>1. acc.streak \in Nat /\ acc.over \in BOOLEAN
      BY DEF Run
    <3>2. [acc EXCEPT !.over = TRUE] \in Run
      BY <3>1 DEF Run
    <3>3. [acc EXCEPT !.streak = @ + 1] \in Run
      BY <3>1 DEF Run
    <3> QED BY <3>2, <3>3
  <2> QED BY <2>1, <2>2
<1> HIDE DEF Day, start
<1>4. /\ move \in [(1..n) \X Run -> Run]
      /\ \A k \in 1..n, acc \in Run : move[<<k, acc>>] = Day(days[k], acc)
  BY <1>1, <1>3
<1> HIDE DEF move, n
<1>5. PICK g : IsFold(g, 1..n, Run, Earliest(n), start, move)
  BY <1>1, <1>3, <1>4, EarliestFacts, FoldDefined
<1>6. Fix(g)
  <2>1. g \in [SUBSET (1..n) -> Run]
    BY <1>5 DEF IsFold
  <2>2. ASSUME NEW T \in SUBSET (1..n)
        PROVE  g[T] = IF T = {} THEN start ELSE Day(days[Min(T)], g[T \ {Min(T)}])
    <3>1. g[T] = IF T = {} THEN start ELSE move[<<Min(T), g[T \ {Min(T)}]>>]
      BY <1>1, <1>5, EarliestFacts DEF IsFold
    <3>2. T # {} => Min(T) \in 1..n /\ g[T \ {Min(T)}] \in Run
      BY <1>1, <2>1, EarliestFacts
    <3> QED BY <1>4, <3>1, <3>2
  <2> QED BY <2>1, <2>2
<1>7. Fix(iter)
  <2> HIDE DEF Fix
  <2> QED BY <1>6
<1>8. IsFold(iter, 1..n, Run, Earliest(n), start, move)
  <2> HIDE DEF iter
  <2>1. iter = [T \in SUBSET (1..n) |-> iter[T]] /\ iter[{}] = start
    BY <1>7
  <2>2. ASSUME NEW T \in SUBSET (1..n), T # {}, iter[Rest(T, Earliest(n))] \in Run
        PROVE  iter[T] = move[<<Earliest(n)[T], iter[Rest(T, Earliest(n))]>>]
    <3>1. Earliest(n)[T] = Min(T) /\ Rest(T, Earliest(n)) = T \ {Min(T)} /\ Min(T) \in 1..n
      BY <1>1, <2>2, EarliestFacts
    <3>2. iter[T] = Day(days[Min(T)], iter[T \ {Min(T)}])
      BY <1>7, <2>2
    <3> QED BY <1>4, <2>2, <3>1, <3>2
  <2> HIDE DEF Fix
  <2>3. Obeys(iter, 1..n, Run, Earliest(n), start, move)
    BY <2>1, <2>2 DEF Obeys
  <2> QED BY <1>1, <1>3, <1>4, <2>3, EarliestFacts, FoldUnique
<1> HIDE DEF iter
<1>9. PICK walk \in [1..(n + 1) -> Run] :
        /\ walk[n + 1] = start /\ walk[1] = iter[1..n]
        /\ \A k \in 1..n : walk[k] = move[<<k, walk[k + 1]>>]
  BY <1>1, <1>8, WalkRight
<1>10. ASSUME NEW k \in 1..n
       PROVE  walk[k] = Day(days[k], walk[k + 1])
  <2>1. k + 1 \in 1..(n + 1)
    BY <1>1
  <2>2. walk[k + 1] \in Run
    BY <1>9, <2>1
  <2> QED BY <1>4, <1>9, <2>2
<1> QED BY <1>1, <1>2, <1>9, <1>10 DEF n, start, Day

-----------------------------------------------------------------------------
(* What the statistics are, for any sequence of counts. *)
LEMMA SameMax ==
    ASSUME NEW n \in Nat, NEW S, NEW T \in SUBSET (0..n), S \subseteq T, S # {},
           \A t \in T : \E s \in S : t <= s
    PROVE  Max(S) = Max(T)
<1>1. S \in SUBSET (0..n) /\ T # {}
  OBVIOUS
<1>2. Max(S) \in S /\ \A x \in S : x <= Max(S)
  BY <1>1, MaxFacts
<1>3. Max(T) \in T /\ \A x \in T : x <= Max(T)
  BY <1>1, MaxFacts
<1>4. PICK s \in S : Max(T) <= s
  BY <1>3
<1>5. PICK a \in S : a = Max(S)
  BY <1>2
<1>6. PICK b \in T : b = Max(T)
  BY <1>3
<1>7. s <= a /\ a <= b /\ b <= s
  BY <1>2, <1>3, <1>4, <1>5, <1>6
<1>8. a \in Int /\ b \in Int /\ s \in Int
  OBVIOUS
<1>9. a = b
  BY <1>7, <1>8
<1> QED BY <1>5, <1>6, <1>9

\* What the loop over the days knows after the first k of them: `current` is
\* the streak that ends with day k, and of the streaks one is as long as any
\* interval of busy days.
EndsAt(days, k, streak) ==
    /\ streak \in 0..k /\ Busy(days, k - streak + 1, k)
    /\ streak < k => days[k - streak] = 0

AreStreaks(days, k, streaks) ==
    /\ \A s \in streaks : s \in 0..k /\ \E i \in 1..(k - s + 1) : Busy(days, i, i + s - 1)
    /\ \A i, j \in 1..k : Busy(days, i, j) => \E s \in streaks : j - i + 1 <= s

SoFar(days, k, acc) ==
    EndsAt(days, k, acc.current) /\ AreStreaks(days, k, acc.streaks \cup {acc.current})

LEMMA BusyDay ==
    ASSUME NEW days, NEW k \in Nat, NEW acc \in Streaks, SoFar(days, k, acc), days[k + 1] > 0
    PROVE  SoFar(days, k + 1, [acc EXCEPT !.current = @ + 1])
<1> DEFINE c == acc.current
           all == acc.streaks \cup {c}
           new == acc.streaks \cup {c + 1}
<1>1. /\ c \in 0..k /\ Busy(days, k - c + 1, k) /\ (c < k => days[k - c] = 0)
      /\ \A s \in all : s \in 0..k /\ \E i \in 1..(k - s + 1) : Busy(days, i, i + s - 1)
      /\ \A i, j \in 1..k : Busy(days, i, j) => \E s \in all : j - i + 1 <= s
  BY DEF SoFar, EndsAt, AreStreaks
<1>2. /\ [acc EXCEPT !.current = @ + 1].current = c + 1
      /\ [acc EXCEPT !.current = @ + 1].streaks = acc.streaks
  BY DEF Streaks
<1> HIDE DEF c
<1>3. c \in Int /\ 0 <= c /\ c <= k
  BY <1>1
<1>4. c + 1 \in 0..(k + 1) /\ k + 1 - (c + 1) = k - c
  BY <1>3
<1>5. Busy(days, k - c + 1, k + 1)
  <2> SUFFICES ASSUME NEW d \in (k - c + 1)..(k + 1)
               PROVE  days[d] > 0
    BY DEF Busy
  <2>1. d = k + 1 \/ d \in (k - c + 1)..k
    BY <1>3
  <2> QED BY <1>1, <2>1 DEF Busy
<1>6. ASSUME NEW s \in new
      PROVE  s \in 0..(k + 1) /\ \E i \in 1..(k + 1 - s + 1) : Busy(days, i, i + s - 1)
  <2>1. CASE s \in acc.streaks
    <3>1. s \in 0..k
      BY <1>1, <2>1
    <3>2. PICK i \in 1..(k - s + 1) : Busy(days, i, i + s - 1)
      BY <1>1, <2>1
    <3>3. i \in 1..(k + 1 - s + 1) /\ s \in 0..(k + 1)
      BY <3>1, <3>2
    <3> QED BY <3>2, <3>3
  <2>2. CASE s = c + 1
    <3>1. k - c + 1 \in 1..(k + 1 - s + 1) /\ (k - c + 1) + s - 1 = k + 1
      BY <1>3, <2>2
    <3>2. Busy(days, k - c + 1, (k - c + 1) + s - 1)
      BY <1>5, <3>1
    <3> QED BY <1>4, <2>2, <3>1, <3>2
  <2> QED BY <2>1, <2>2
<1>7. ASSUME NEW i \in 1..(k + 1), NEW j \in 1..(k + 1), Busy(days, i, j)
      PROVE  \E s \in new : j - i + 1 <= s
  <2>1. CASE j = k + 1
    <3>1. ~(i <= k - c)
      <4> SUFFICES ASSUME i <= k - c PROVE FALSE
        OBVIOUS
      <4>1. c < k /\ k - c \in i..j
        BY <1>3, <2>1
      <4>2. days[k - c] = 0 /\ days[k - c] > 0
        BY <1>1, <1>7, <4>1 DEF Busy
      <4> QED BY <4>2
    <3>2. j - i + 1 <= c + 1
      BY <1>3, <2>1, <3>1
    <3> QED BY <3>2
  <2>2. CASE j # k + 1 /\ i = k + 1
    <3>1. j - i + 1 <= c + 1
      BY <1>3, <2>2
    <3> QED BY <3>1
  <2>3. CASE j # k + 1 /\ i # k + 1
    <3>1. i \in 1..k /\ j \in 1..k
      BY <2>3
    <3>2. PICK s \in all : j - i + 1 <= s
      BY <1>1, <1>7, <3>1
    <3>3. CASE s = c
      <4>1. j - i + 1 <= c + 1
        BY <1>3, <3>2, <3>3
      <4> QED BY <4>1
    <3> QED BY <3>2, <3>3
  <2> QED BY <2>1, <2>2, <2>3
<1>8. c + 1 < k + 1 => days[k + 1 - (c + 1)] = 0
  BY <1>1, <1>3, <1>4
<1>9. Busy(days, k + 1 - (c + 1) + 1, k + 1)
  BY <1>4, <1>5
<1>10. PICK b : b = [acc EXCEPT !.current = @ + 1]
  OBVIOUS
<1>11. b.current = c + 1 /\ b.streaks \cup {b.current} = new
  BY <1>2, <1>10
<1> HIDE DEF new
<1>12. EndsAt(days, k + 1, c + 1)
  BY <1>4, <1>8, <1>9 DEF EndsAt
<1>13. AreStreaks(days, k + 1, new)
  BY <1>6, <1>7 DEF AreStreaks
<1> QED BY <1>10, <1>11, <1>12, <1>13 DEF SoFar

LEMMA QuietDay ==
    ASSUME NEW days, NEW k \in Nat, NEW acc \in Streaks, SoFar(days, k, acc), days[k + 1] = 0
    PROVE  SoFar(days, k + 1, [streaks |-> acc.streaks \cup {acc.current}, current |-> 0])
<1> DEFINE all == acc.streaks \cup {acc.current}
           new == all \cup {0}
<1>1. /\ \A s \in all : s \in 0..k /\ \E i \in 1..(k - s + 1) : Busy(days, i, i + s - 1)
      /\ \A i, j \in 1..k : Busy(days, i, j) => \E s \in all : j - i + 1 <= s
  BY DEF SoFar, EndsAt, AreStreaks
<1> HIDE DEF all
<1>2. 0 \in 0..(k + 1) /\ Busy(days, k + 1 - 0 + 1, k + 1) /\ days[k + 1 - 0] = 0
  BY DEF Busy
<1>3. ASSUME NEW s \in new
      PROVE  s \in 0..(k + 1) /\ \E i \in 1..(k + 1 - s + 1) : Busy(days, i, i + s - 1)
  <2>1. CASE s \in all
    <3>1. s \in 0..k
      BY <1>1, <2>1
    <3>2. PICK i \in 1..(k - s + 1) : Busy(days, i, i + s - 1)
      BY <1>1, <2>1
    <3>3. i \in 1..(k + 1 - s + 1) /\ s \in 0..(k + 1)
      BY <3>1, <3>2
    <3> QED BY <3>2, <3>3
  <2>2. CASE s = 0
    <3>1. 1 \in 1..(k + 1 - s + 1) /\ Busy(days, 1, 1 + s - 1)
      BY <2>2 DEF Busy
    <3> QED BY <2>2, <3>1
  <2> QED BY <2>1, <2>2
<1>4. ASSUME NEW i \in 1..(k + 1), NEW j \in 1..(k + 1), Busy(days, i, j)
      PROVE  \E s \in new : j - i + 1 <= s
  <2>1. CASE j = k + 1
    <3>1. k + 1 \in i..j
      BY <2>1
    <3> QED BY <1>4, <3>1 DEF Busy
  <2>2. CASE j # k + 1 /\ i = k + 1
    <3>1. j - i + 1 <= 0
      BY <2>2
    <3> QED BY <3>1
  <2>3. CASE j # k + 1 /\ i # k + 1
    <3>1. i \in 1..k /\ j \in 1..k
      BY <2>3
    <3> QED BY <1>1, <1>4, <3>1
  <2> QED BY <2>1, <2>2, <2>3
<1>5. PICK b : b = [streaks |-> acc.streaks \cup {acc.current}, current |-> 0]
  OBVIOUS
<1>6. b.current = 0 /\ b.streaks \cup {b.current} = new
  BY <1>5 DEF all
<1> HIDE DEF new
<1>7. EndsAt(days, k + 1, 0)
  BY <1>2 DEF EndsAt
<1>8. AreStreaks(days, k + 1, new)
  BY <1>3, <1>4 DEF AreStreaks
<1> QED BY <1>5, <1>6, <1>7, <1>8 DEF SoFar

\* The longest streak is the longest interval of days that all have events.
LEMMA LongestIsRight ==
    ASSUME NEW days \in Seq(Nat)
    PROVE  Max(StreakLengths(days)) =
              Max({k \in 0..Len(days) :
                      \E i \in 1..(Len(days) - k + 1) : Busy(days, i, i + k - 1)})
<1> DEFINE n == Len(days)
           T == {k \in 0..n : \E i \in 1..(n - k + 1) : Busy(days, i, i + k - 1)}
<1>1. n \in Nat /\ \A k \in 1..n : days[k] \in Nat
  BY LenProperties
<1>2. PICK walk \in [0..n -> Streaks] :
        /\ walk[0] = [streaks |-> {}, current |-> 0]
        /\ StreakLengths(days) = walk[n].streaks \cup {walk[n].current}
        /\ \A k \in 1..n :
              walk[k] = IF days[k] > 0 THEN [walk[k - 1] EXCEPT !.current = @ + 1]
                        ELSE [streaks |-> walk[k - 1].streaks \cup {walk[k - 1].current},
                              current |-> 0]
  BY StreaksByDay
<1> HIDE DEF n
<1> DEFINE Right == {k \in 0..n : SoFar(days, k, walk[k])}
<1>3. 0 \in Right
  <2>1. walk[0].current = 0 /\ walk[0].streaks \cup {walk[0].current} = {0}
    BY <1>2
  <2>2. Busy(days, 0 - 0 + 1, 0) /\ 1 \in 1..(0 - 0 + 1) /\ Busy(days, 1, 1 + 0 - 1)
    BY DEF Busy
  <2>3. EndsAt(days, 0, 0) /\ AreStreaks(days, 0, {0})
    BY <2>2 DEF EndsAt, AreStreaks
  <2>4. SoFar(days, 0, walk[0])
    BY <2>1, <2>3 DEF SoFar
  <2> QED BY <1>1, <2>4
<1>4. ASSUME NEW k \in 0..(n - 1), k \in Right
      PROVE  k + 1 \in Right
  <2>1. k \in Nat /\ k \in 0..n /\ k + 1 \in 1..n /\ k + 1 \in 0..n /\ (k + 1) - 1 = k
    BY <1>1
  <2>2. SoFar(days, k, walk[k]) /\ walk[k] \in Streaks /\ days[k + 1] \in Nat
    BY <1>1, <1>2, <1>4, <2>1
  <2>3. walk[k + 1] = IF days[k + 1] > 0 THEN [walk[k] EXCEPT !.current = @ + 1]
                      ELSE [streaks |-> walk[k].streaks \cup {walk[k].current}, current |-> 0]
    BY <1>2, <2>1
  <2>4. CASE days[k + 1] > 0
    BY <2>1, <2>2, <2>3, <2>4, BusyDay
  <2>5. CASE ~(days[k + 1] > 0)
    <3>1. days[k + 1] = 0
      BY <2>2, <2>5
    <3>2. walk[k + 1] = [streaks |-> walk[k].streaks \cup {walk[k].current}, current |-> 0]
      BY <2>3, <2>5
    <3> QED BY <2>1, <2>2, <3>1, <3>2, QuietDay
  <2> QED BY <2>4, <2>5
<1>5. SoFar(days, n, walk[n])
  <2>1. 0..n \subseteq Right
    <3> HIDE DEF Right
    <3> QED BY <1>1, <1>3, <1>4, InductionUpTo
  <2> QED BY <1>1, <2>1
<1>6. PICK S : S = StreakLengths(days)
  OBVIOUS
<1>7. /\ S # {} /\ \A s \in S : s \in T
      /\ \A i, j \in 1..n : Busy(days, i, j) => \E s \in S : j - i + 1 <= s
  BY <1>2, <1>5, <1>6 DEF SoFar, AreStreaks
<1>8. ASSUME NEW t \in T
      PROVE  \E s \in S : t <= s
  <2>1. PICK i \in 1..(n - t + 1) : Busy(days, i, i + t - 1)
    OBVIOUS
  <2>2. CASE t = 0
    <3>1. \A s \in S : 0 <= s
      BY <1>7
    <3> QED BY <1>7, <2>2, <3>1
  <2>3. CASE t # 0
    <3>1. i \in 1..n /\ i + t - 1 \in 1..n /\ (i + t - 1) - i + 1 = t
      BY <1>1, <2>1, <2>3
    <3>2. \E s \in S : (i + t - 1) - i + 1 <= s
      BY <1>7, <2>1, <3>1
    <3> QED BY <3>1, <3>2
  <2> QED BY <2>2, <2>3
<1>9. T \in SUBSET (0..n) /\ S \subseteq T
  BY <1>7
<1>10. Max(S) = Max(T)
  <2> HIDE DEF T
  <2> QED BY <1>1, <1>7, <1>8, <1>9, SameMax
<1> QED BY <1>6, <1>10 DEF n

\* What the loop backwards knows once it is at day k of n.
StandsAt(days, n, k, acc) ==
    IF acc.over
    THEN /\ acc.streak \in 0..(n - k) /\ days[n - acc.streak] = 0
         /\ Busy(days, n - acc.streak + 1, n)
    ELSE acc.streak = n - k + 1 /\ Busy(days, k, n)

LEMMA StandsOneEarlier ==
    ASSUME NEW days, NEW n \in Nat, NEW k \in 1..n, days[k] \in Nat, NEW acc \in Run,
           StandsAt(days, n, k + 1, acc),
           NEW b, b = IF acc.over \/ days[k] = 0 THEN [acc EXCEPT !.over = TRUE]
                      ELSE [acc EXCEPT !.streak = @ + 1]
    PROVE  StandsAt(days, n, k, b)
<1>0. acc.streak \in Nat /\ acc.over \in BOOLEAN
  BY DEF Run
<1>1. CASE acc.over
  <2>1. acc.streak \in 0..(n - k) /\ days[n - acc.streak] = 0 /\ Busy(days, n - acc.streak + 1, n)
    BY <1>1 DEF StandsAt
  <2>2. b = [acc EXCEPT !.over = TRUE]
    BY <1>1
  <2>3. b.over /\ b.streak = acc.streak
    BY <2>2 DEF Run
  <2> QED BY <1>1, <2>1, <2>2, <2>3 DEF StandsAt
<1>2. CASE ~acc.over
  <2>1. acc.streak = n - (k + 1) + 1 /\ Busy(days, k + 1, n)
    BY <1>2 DEF StandsAt
  <2>2. acc.streak = n - k /\ n - (n - k) = k /\ n - k + 1 = n - (k + 1) + 2
    BY <2>1
  <2>3. CASE days[k] = 0
    <3>1. b = [acc EXCEPT !.over = TRUE]
      BY <2>3
    <3>2. b.over /\ b.streak = n - k
      BY <2>2, <3>1 DEF Run
    <3>3. n - k \in 0..(n - k) /\ days[n - (n - k)] = 0 /\ Busy(days, n - (n - k) + 1, n)
      BY <2>1, <2>2, <2>3
    <3> QED BY <2>3, <3>1, <3>2, <3>3 DEF StandsAt
  <2>4. CASE days[k] # 0
    <3>1. b = [acc EXCEPT !.streak = @ + 1]
      BY <1>2, <2>4
    <3>2. ~b.over /\ b.streak = n - k + 1
      BY <1>2, <2>2, <3>1 DEF Run
    <3>3. Busy(days, k, n)
      <4> SUFFICES ASSUME NEW d \in k..n PROVE days[d] > 0
        BY DEF Busy
      <4>1. d = k \/ d \in (k + 1)..n
        OBVIOUS
      <4> QED BY <2>1, <2>4, <4>1 DEF Busy
    <3> QED BY <1>2, <2>4, <3>1, <3>2, <3>3 DEF StandsAt
  <2> QED BY <2>3, <2>4
<1> QED BY <1>0, <1>1, <1>2

\* The current streak is the longest interval of busy days up to the last day.
LEMMA CurrentIsRight ==
    ASSUME NEW days \in Seq(Nat)
    PROVE  CurrentStreak(days) = Max({k \in 0..Len(days) : Busy(days, Len(days) - k + 1, Len(days))})
<1> DEFINE n == Len(days)
           T == {k \in 0..n : Busy(days, n - k + 1, n)}
<1>1. n \in Nat /\ \A k \in 1..n : days[k] \in Nat
  BY LenProperties
<1>2. PICK walk \in [1..(n + 1) -> Run] :
        /\ walk[n + 1] = [streak |-> 0, over |-> FALSE]
        /\ CurrentStreak(days) = walk[1].streak
        /\ \A k \in 1..n :
              walk[k] = IF walk[k + 1].over \/ days[k] = 0 THEN [walk[k + 1] EXCEPT !.over = TRUE]
                        ELSE [walk[k + 1] EXCEPT !.streak = @ + 1]
  BY CurrentByDay
<1> HIDE DEF n
<1> DEFINE Right == {j \in 0..n : StandsAt(days, n, n + 1 - j, walk[n + 1 - j])}
<1>3. 0 \in Right
  <2>1. ~walk[n + 1].over /\ walk[n + 1].streak = 0 /\ n - (n + 1) + 1 = 0 /\ n + 1 - 0 = n + 1
    BY <1>1, <1>2
  <2>2. Busy(days, n + 1, n)
    BY <1>1 DEF Busy
  <2>3. StandsAt(days, n, n + 1, walk[n + 1])
    BY <2>1, <2>2 DEF StandsAt
  <2> QED BY <1>1, <2>1, <2>3
<1>4. ASSUME NEW j \in 0..(n - 1), j \in Right
      PROVE  j + 1 \in Right
  <2>1. PICK k \in 1..n : k = n + 1 - (j + 1)
    BY <1>1
  <2>2. n + 1 - j = k + 1 /\ k + 1 \in 1..(n + 1) /\ j + 1 \in 0..n
    BY <1>1, <2>1
  <2>3. StandsAt(days, n, k + 1, walk[k + 1]) /\ walk[k + 1] \in Run /\ days[k] \in Nat
    BY <1>1, <1>2, <1>4, <2>2
  <2>4. StandsAt(days, n, k, walk[k])
    <3>1. PICK acc \in Run : acc = walk[k + 1]
      BY <2>3
    <3>2. walk[k] = IF acc.over \/ days[k] = 0 THEN [acc EXCEPT !.over = TRUE]
                    ELSE [acc EXCEPT !.streak = @ + 1]
      BY <1>2, <3>1
    <3>3. StandsAt(days, n, k + 1, acc)
      BY <2>3, <3>1
    <3> HIDE DEF Right
    <3> QED BY ONLY <1>1, <2>3, <3>2, <3>3, StandsOneEarlier
  <2> QED BY <2>1, <2>2, <2>4
<1>5. StandsAt(days, n, 1, walk[1])
  <2>1. 0..n \subseteq Right
    <3> HIDE DEF Right
    <3> QED BY <1>1, <1>3, <1>4, InductionUpTo
  <2>2. n \in Right /\ n + 1 - n = 1
    BY <1>1, <2>1
  <2> QED BY <2>2
<1>6. PICK c : c = walk[1].streak
  OBVIOUS
<1>7. c \in T /\ \A t \in T : t <= c
  <2>1. CASE walk[1].over
    <3>1. c \in 0..(n - 1) /\ days[n - c] = 0 /\ Busy(days, n - c + 1, n)
      BY <1>5, <1>6, <2>1 DEF StandsAt
    <3>2. ASSUME NEW t \in T
          PROVE  t <= c
      <4> SUFFICES ASSUME ~(t <= c) PROVE FALSE
        OBVIOUS
      <4>1. n - c \in (n - t + 1)..n
        BY <1>1, <3>1
      <4> QED BY <3>1, <4>1 DEF Busy
    <3>3. c \in T
      BY <1>1, <3>1
    <3> QED BY <3>2, <3>3
  <2>2. CASE ~walk[1].over
    <3>1. c = n - 1 + 1 /\ Busy(days, 1, n)
      BY <1>5, <1>6, <2>2 DEF StandsAt
    <3>2. c = n /\ n - n + 1 = 1
      BY <1>1, <3>1
    <3> QED BY <1>1, <3>1, <3>2
  <2> QED BY <2>1, <2>2
<1>8. c = Max(T)
  <2>1. T \in SUBSET (0..n) /\ {c} \subseteq T /\ c \in Nat
    BY <1>7
  <2>2. Max({c}) = c
    BY <2>1 DEF Max
  <2>3. Max({c}) = Max(T)
    <3> HIDE DEF T
    <3> QED BY <1>1, <1>7, <2>1, SameMax
  <2> QED BY <2>2, <2>3
<1> QED BY <1>2, <1>6, <1>8 DEF n

OnDay(events, day) == {e \in events : DayOf[e] = day}

\* A range of days, and what is counted in it.
LEMMA DaysOfRange ==
    ASSUME NEW lo \in Nat, NEW hi \in Nat, lo <= hi, NEW events, IsFiniteSet(events)
    PROVE  /\ Days(lo..hi, events) \in Seq(Nat) /\ Len(Days(lo..hi, events)) = hi - lo + 1
           /\ Cardinality(lo..hi) = hi - lo + 1
           /\ \A i \in 1..(hi - lo + 1) :
                 Days(lo..hi, events)[i] = Cardinality(OnDay(events, lo + i - 1))
<1>1. PICK n \in Nat : n = hi - lo + 1
  OBVIOUS
<1>2. Cardinality(lo..hi) = n
  BY <1>1, FS_Interval
<1>3. Min(lo..hi) = lo
  BY DEF Min
<1> DEFINE Of(i) == Cardinality(OnDay(events, lo + i - 1))
           days == [i \in 1..n |-> Of(i)]
<1>4. Days(lo..hi, events) = days
  BY <1>2, <1>3 DEF Days, OnDay
<1>5. ASSUME NEW i \in 1..n
      PROVE  Of(i) \in Nat
  BY FS_Subset, FS_CardinalityType DEF OnDay
<1> HIDE DEF Of
<1>6. days \in Seq(Nat) /\ Len(days) = n
  BY <1>5
<1>7. \A i \in 1..n : days[i] = Of(i)
  OBVIOUS
<1> HIDE DEF days
<1> QED BY <1>1, <1>2, <1>4, <1>6, <1>7 DEF Of

\* Every event of the range counts once.
LEMMA TotalIsCount ==
    ASSUME NEW lo \in Nat, NEW hi \in Nat, lo <= hi, NEW events, IsFiniteSet(events),
           \A e \in events : DayOf[e] \in lo..hi
    PROVE  Total(Days(lo..hi, events)) = Cardinality(events)
<1>1. PICK days : days = Days(lo..hi, events)
  OBVIOUS
<1>2. PICK n \in Nat : n = hi - lo + 1
  OBVIOUS
<1> DEFINE Before(k) == {e \in events : DayOf[e] < lo + k}
<1>3. /\ days \in Seq(Nat) /\ Len(days) = n
      /\ \A i \in 1..n : days[i] = Cardinality(OnDay(events, lo + i - 1))
  <2>1. /\ days \in Seq(Nat) /\ Len(days) = hi - lo + 1
        /\ \A i \in 1..(hi - lo + 1) : days[i] = Cardinality(OnDay(events, lo + i - 1))
    BY <1>1, DaysOfRange
  <2> QED BY <1>2, <2>1
<1>4. PICK sum \in [0..n -> Nat] :
        sum[0] = 0 /\ sum[n] = Total(days) /\ \A k \in 1..n : sum[k] = sum[k - 1] + days[k]
  BY <1>3, TotalIsSum
<1> DEFINE Right == {k \in 0..n : sum[k] = Cardinality(Before(k))}
<1>5. 0 \in Right
  <2>1. Before(0) = {}
    OBVIOUS
  <2> HIDE DEF Before
  <2>2. Cardinality(Before(0)) = 0
    BY <2>1, FS_EmptySet, Zenon
  <2>3. sum[0] = 0 /\ 0 \in 0..n
    BY <1>2, <1>4
  <2> QED BY <2>2, <2>3
<1>6. ASSUME NEW k \in 0..(n - 1), k \in Right
      PROVE  k + 1 \in Right
  <2>1. k + 1 \in 1..n /\ k + 1 \in 0..n /\ (k + 1) - 1 = k /\ lo + (k + 1) - 1 = lo + k
    BY <1>2
  <2>2. Before(k + 1) = Before(k) \cup OnDay(events, lo + k) /\ Before(k) \cap OnDay(events, lo + k) = {}
    BY DEF OnDay
  <2>3. IsFiniteSet(Before(k)) /\ IsFiniteSet(OnDay(events, lo + k))
    BY FS_Subset DEF OnDay
  <2>4. /\ Cardinality(Before(k)) \in Nat /\ Cardinality(OnDay(events, lo + k)) \in Nat
    BY <2>3, FS_CardinalityType
  <2> HIDE DEF Before
  <2>5. Cardinality(Before(k + 1)) = Cardinality(Before(k)) + Cardinality(OnDay(events, lo + k))
    <3>1. Cardinality(Before(k) \cap OnDay(events, lo + k)) = 0
      BY <2>2, FS_EmptySet
    <3>2. Cardinality(Before(k) \cup OnDay(events, lo + k)) =
             Cardinality(Before(k)) + Cardinality(OnDay(events, lo + k)) - 0
      BY <2>3, <3>1, FS_Union
    <3>3. Cardinality(Before(k + 1)) = Cardinality(Before(k)) + Cardinality(OnDay(events, lo + k)) - 0
      BY <2>2, <3>2, Zenon
    <3> QED BY <2>4, <3>3
  <2>6. sum[k + 1] = sum[k] + Cardinality(OnDay(events, lo + k)) /\ sum[k] = Cardinality(Before(k))
    BY <1>3, <1>4, <1>6, <2>1
  <2> QED BY <2>1, <2>5, <2>6
<1>7. n \in Right
  <2>1. 0..n \subseteq Right
    <3> HIDE DEF Right
    <3> QED BY <1>2, <1>5, <1>6, InductionUpTo
  <2> QED BY <2>1
<1>8. Before(n) = events
  BY <1>2
<1> QED BY <1>1, <1>4, <1>7, <1>8

-----------------------------------------------------------------------------
(* The reader is asked for an interval of days and answers with its statistics. *)
AnswerOK ==
    /\ step # 0 => \E from, to \in 0..(MaxTime \div DayLength) : from <= to /\ request = from..to
    /\ answer # NoAnswer =>
          /\ answer.days = Days(request, counted) /\ answer.total = Total(answer.days)
          /\ answer.longest = Max(StreakLengths(answer.days))
          /\ answer.current = CurrentStreak(answer.days)

LEMMA AnswerStep ==
    ASSUME CalendarInv, AnswerOK, [Next]_vars
    PROVE  AnswerOK'
<1>0. step \in 0..5 /\ (step # 5 => answer = NoAnswer)
  BY DEF CalendarInv, ReaderOK
<1>1. CASE UNCHANGED vars \/ UNCHANGED Read
  <2>1. UNCHANGED <<step, request, counted, answer>>
    BY <1>1 DEF vars, Read
  <2> QED BY <2>1 DEF AnswerOK
<1>2. CASE StartRead
  <2>1. answer' = NoAnswer /\ \E from, to \in 0..(MaxTime \div DayLength) : from <= to /\ request' = from..to
    BY <1>0, <1>2 DEF StartRead
  <2> QED BY <2>1 DEF AnswerOK
<1>3. CASE Load \/ Flush \/ Count
  <2>1. step \in 1..3 /\ UNCHANGED <<request, answer>>
    BY <1>0, <1>3, Doings DEF Load, Flush, Count
  <2> QED BY <1>0, <2>1 DEF AnswerOK
<1>4. CASE Metadata
  <2>1. step = 4 /\ UNCHANGED <<request, counted>>
    BY <1>0, <1>4, Doings DEF Metadata
  <2>2. /\ answer'.days = Days(request, counted) /\ answer'.total = Total(answer'.days)
        /\ answer'.longest = Max(StreakLengths(answer'.days))
        /\ answer'.current = CurrentStreak(answer'.days)
    BY <1>4 DEF Metadata
  <2>3. Days(request', counted') = Days(request, counted)
    BY <2>1
  <2> QED BY <2>1, <2>2, <2>3 DEF AnswerOK
<1>5. CASE EndRead
  <2>1. step' = 0 /\ answer' = NoAnswer
    BY <1>0, <1>5, Doings DEF EndRead
  <2> QED BY <2>1 DEF AnswerOK
<1>6. CASE \/ PollTodo \/ StoreCursor \/ PollGit \/ BeginBackfill \/ FetchBatch \/ EndBackfill
           \/ Fail \/ SkipBackfill \/ Prune \/ Tick
  <2>1. UNCHANGED Read
    BY <1>6 DEF PollTodo, StoreCursor, PollGit, BeginBackfill, FetchBatch, EndBackfill, Fail,
       SkipBackfill, Prune, Tick, Read
  <2> QED BY <1>1, <2>1
<1> QED BY <1>1, <1>2, <1>3, <1>4, <1>5, <1>6 DEF Next

LEMMA StatisticsOfAnswer ==
    ASSUME CalendarInv, AnswerOK
    PROVE  StatisticsAreRight
<1> SUFFICES ASSUME answer # NoAnswer
             PROVE  LET days == answer.days
                        n == Len(days)
                    IN  /\ n = Cardinality(request)
                        /\ answer.total = Cardinality(counted)
                        /\ answer.longest =
                              Max({k \in 0..n : \E i \in 1..(n - k + 1) : Busy(days, i, i + k - 1)})
                        /\ answer.current = Max({k \in 0..n : Busy(days, n - k + 1, n)})
  BY DEF StatisticsAreRight
<1>1. PICK lo, hi \in 0..(MaxTime \div DayLength) : lo <= hi /\ request = lo..hi
  BY DEF CalendarInv, ReaderOK, AnswerOK
<1>2. lo \in Nat /\ hi \in Nat
  BY Settings
<1>3. IsFiniteSet(counted) /\ \A e \in counted : DayOf[e] \in lo..hi
  <2>1. counted \subseteq Events /\ \A e \in counted : DayOf[e] \in request
    BY DEF CalendarInv, DatabaseOK, ReaderOK, Tables, Happened
  <2> QED BY <1>1, <2>1, FS_Subset, CalendarAssumption
<1>4. PICK days : days = Days(lo..hi, counted)
  OBVIOUS
<1>5. /\ answer.days = days /\ answer.total = Total(days)
      /\ answer.longest = Max(StreakLengths(days)) /\ answer.current = CurrentStreak(days)
  BY <1>1, <1>4 DEF AnswerOK
<1>6. days \in Seq(Nat) /\ Len(days) = Cardinality(request)
  BY <1>1, <1>2, <1>3, <1>4, DaysOfRange
<1>7. Total(days) = Cardinality(counted)
  BY <1>1, <1>2, <1>3, <1>4, TotalIsCount
<1>8. Max(StreakLengths(days)) =
         Max({k \in 0..Len(days) : \E i \in 1..(Len(days) - k + 1) : Busy(days, i, i + k - 1)})
  BY <1>6, LongestIsRight
<1>9. CurrentStreak(days) = Max({k \in 0..Len(days) : Busy(days, Len(days) - k + 1, Len(days))})
  BY <1>6, CurrentIsRight
<1> QED BY <1>5, <1>6, <1>7, <1>8, <1>9

\* The total, the longest and the current streak of an answer are what a reader
\* takes them for, by the events counted: for any range of days, however long,
\* the loops of _streaks_from_days end with the longest intervals of busy days.
THEOREM StatisticsRight == Spec => []StatisticsAreRight
<1>1. Init => AnswerOK
  BY DEF Init, AnswerOK
<1>2. CalendarInv /\ AnswerOK /\ [Next]_vars => AnswerOK'
  BY AnswerStep
<1>3. CalendarInv /\ AnswerOK => StatisticsAreRight
  BY StatisticsOfAnswer
<1> QED BY <1>1, <1>2, <1>3, CalendarInvariant, PTL DEF Spec
=============================================================================
