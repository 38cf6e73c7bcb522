------------------------------ MODULE Calendar ------------------------------
(***************************************************************************)
(* The calendar of one actor: what a contribution read answers while the   *)
(* poller stores events, backfills the year and prunes what is older.      *)
(*                                                                         *)
(* The database is that of PollQueue (`disk`, `work`, `lock`), with one    *)
(* more habit: a savepoint outside of a transaction is committed when it   *)
(* is released, since the SQLite driver has begun none.  So the events     *)
(* that a poll stores before its first other write stay, whatever happens  *)
(* to the poll, until one of them is there already: its savepoint is       *)
(* rolled back but not released, and what follows is inside of it.         *)
(*                                                                         *)
(* The service of the events and their type do not matter here.  Time is   *)
(* counted in instants, DayLength of them to a day of UTC: the poller      *)
(* compares instants, the reader asks for days.                            *)
(***************************************************************************)
EXTENDS Integers, Sequences, FiniteSets, FiniteSetsExt, SequencesExt

CONSTANTS
    Events, At,          \* what happens on SourceHut, and when
    Promised,            \* the events that a backfill cannot miss (TodoBackfill, GitBackfill)
    BatchOf, Batches,    \* the batch of the backfill that has such an event
    DayLength, Retention, \* a day, and RETENTION_DAYS, in instants
    NoSession, Poller, Reader,
    MaxTime              \* bound

ASSUME CalendarAssumption ==
    /\ MaxTime \in Nat /\ Retention \in Nat /\ DayLength \in Nat \ {0}
    /\ IsFiniteSet(Events) /\ At \in [Events -> 0..MaxTime]
    /\ Promised \subseteq Events
    /\ Batches \in Nat \ {0} /\ BatchOf \in [Promised -> 1..Batches]
    /\ Cardinality({NoSession, Poller, Reader}) = 3

DayOf == [e \in Events |-> At[e] \div DayLength]

VARIABLES
    now,
    disk, work, lock,    \* the committed tables, those the open transaction sees, its session
    phase, since,        \* where the poller stands; the start of its backfill window
    step,                \* the step that the reader takes next; 0 when it has none
    request,             \* the days it is asked for
    known,               \* the row in its identity map, if any
    counted,             \* the events it has counted
    answer               \* its answer

vars == <<now, disk, work, lock, phase, since, step, request, known, counted, answer>>
Poll == <<phase, since>>
Read == <<step, request, known, counted, answer>>

\* The row of the actor and of its backfill: the next batch, when it was begun.
NewActor == [polled |-> FALSE, completed |-> FALSE, batch |-> 1, begun |-> -1]
Unknown == [NewActor EXCEPT !.batch = 0]
NoAnswer == [days |-> <<>>]

Init ==
    /\ now \in 0..MaxTime
    /\ disk = [events |-> {}, row |-> NewActor] /\ work = disk /\ lock = NoSession
    /\ phase = "idle" /\ since = 0
    /\ step = 0 /\ request = {} /\ known = Unknown /\ counted = {} /\ answer = NoAnswer

View(s) == IF lock = s THEN work ELSE disk
CanWrite(s) == lock \in {NoSession, s}
Write(s, tables) == lock' = s /\ work' = tables /\ UNCHANGED disk
Commit(tables) == lock' = NoSession /\ work' = tables /\ disk' = tables
ReadOnly == UNCHANGED <<disk, work, lock>>

-----------------------------------------------------------------------------
Happened == {e \in Events : At[e] <= now}

With(tables, events) == [tables EXCEPT !.events = @ \cup events]

\* An incremental poll finds what it finds (TodoSync, GitSync say what).  The
\* events of todo are committed one by one with their savepoints, until one of
\* them is there already; those after it are left in the open transaction.
PollTodo ==
    /\ phase = "idle" /\ CanWrite(Poller)
    /\ \E found \in SUBSET Happened :
          IF found \cap disk.events = {} THEN Commit(With(disk, found))
          ELSE \E first \in SUBSET (found \ disk.events) :
                  /\ disk' = With(disk, first) /\ work' = With(disk, found)
                  /\ lock' = Poller
    /\ phase' = "cursor"
    /\ UNCHANGED <<now, since, Read>>

\* The cursor is written outside of any savepoint.
StoreCursor ==
    /\ phase = "cursor" /\ CanWrite(Poller)
    /\ Write(Poller, View(Poller))
    /\ phase' = "git"
    /\ UNCHANGED <<now, since, Read>>

PollGit ==
    /\ phase = "git"
    /\ \E found \in SUBSET Happened :
          Commit([With(work, found) EXCEPT !.row.polled = TRUE])
    /\ phase' = "backfill"
    /\ UNCHANGED <<now, since, Read>>

\* The status of the backfill is written before its first batch is fetched; in
\* later passes nothing is written until there is a batch.
BeginBackfill ==
    /\ phase = "backfill" /\ ~disk.row.completed
    /\ IF disk.row.begun = -1
       THEN CanWrite(Poller) /\ Write(Poller, [disk EXCEPT !.row.begun = now])
       ELSE ReadOnly
    /\ phase' = "fetch" /\ since' = now - Retention
    /\ UNCHANGED <<now, Read>>

InWindow == {e \in Happened : At[e] >= since}
InBatch(n) == {e \in Promised \cap InWindow : BatchOf[e] = n}

\* The events of a batch and its cursor, in one transaction.
WithBatch(tables, found) == [With(tables, found) EXCEPT !.row.batch = @ + 1]

\* Mutant: no stop after the last batch.
FetchBatch_Endless ==
    /\ phase = "fetch" /\ CanWrite(Poller)
    /\ \E found \in SUBSET InWindow :
          /\ InBatch(View(Poller).row.batch) \subseteq found
          /\ Write(Poller, WithBatch(View(Poller), found))
    /\ UNCHANGED <<now, Poll, Read>>

\* A batch has what the backfill cannot miss of it, and may have more: a ticket
\* that is touched can move out of the batches to come, a commit can stand below
\* an older one in the log.
FetchBatch ==
    /\ phase = "fetch" /\ CanWrite(Poller)
    /\ View(Poller).row.batch <= Batches
    /\ \E found \in SUBSET InWindow :
          /\ InBatch(View(Poller).row.batch) \subseteq found
          /\ Write(Poller, WithBatch(View(Poller), found))
    /\ UNCHANGED <<now, Poll, Read>>

\* With the last batch the backfill is complete.
EndBackfill ==
    /\ phase = "fetch" /\ lock = Poller
    /\ Commit([work EXCEPT !.row.completed = work.row.batch > Batches])
    /\ phase' = "prune"
    /\ UNCHANGED <<now, since, Read>>

Fail ==
    /\ phase \in {"cursor", "git", "backfill", "fetch"}
    /\ IF lock = Poller THEN Commit(disk) ELSE ReadOnly
    /\ phase' = "prune"
    /\ UNCHANGED <<now, since, Read>>

SkipBackfill ==
    /\ phase = "backfill" /\ disk.row.completed
    /\ phase' = "prune"
    /\ ReadOnly /\ UNCHANGED <<now, since, Read>>

Outdated(e) == At[e] < now - Retention

Prune ==
    /\ phase = "prune" /\ CanWrite(Poller)
    /\ Commit([disk EXCEPT !.events = {e \in @ : ~Outdated(e)}])
    /\ phase' = "idle"
    /\ UNCHANGED <<now, since, Read>>

-----------------------------------------------------------------------------
\* Mutant: the read is registered when its answer is ready.
ReadSteps_RegisterLast == <<"count", "metadata", "load", "flush", "commit">>

\* The calls of get_contributions: track_actor_request loads the row and writes
\* to it, build_calendar counts the events and then selects the row.
ReadSteps == <<"load", "flush", "count", "metadata", "commit">>

Doing(op) == step # 0 /\ ReadSteps[step] = op
Proceed == step' = IF step = Len(ReadSteps) THEN 0 ELSE step + 1

StartRead ==
    /\ step = 0
    /\ \E from, to \in 0..(MaxTime \div DayLength) : from <= to /\ request' = from..to
    /\ step' = 1
    /\ ReadOnly /\ UNCHANGED <<now, Poll, known, counted, answer>>

\* What is in the identity map is not read again.
Row == IF known = Unknown THEN View(Reader).row ELSE known

Load ==
    /\ Doing("load") /\ Proceed
    /\ known' = Row
    /\ ReadOnly /\ UNCHANGED <<now, Poll, request, counted, answer>>

Flush ==
    /\ Doing("flush") /\ Proceed
    /\ CanWrite(Reader) /\ Write(Reader, View(Reader))
    /\ UNCHANGED <<now, Poll, request, known, counted, answer>>

\* _query_daily_aggregates.
Count ==
    /\ Doing("count") /\ Proceed
    /\ counted' = {e \in View(Reader).events : DayOf[e] \in request}
    /\ ReadOnly /\ UNCHANGED <<now, Poll, request, known, answer>>

-----------------------------------------------------------------------------
(***************************************************************************)
(* The statistics: `days` is the sequence of counts, zero-filled.          *)
(***************************************************************************)
Days(range, events) ==
    [i \in 1..Cardinality(range) |->
        Cardinality({e \in events : DayOf[e] = Min(range) + i - 1})]

Total(days) == FoldLeft(+, 0, days)

\* Mutant: the streak that lasts to the end of the range is not appended.
StreakLengths_Unfinished(days) ==
    FoldLeft(LAMBDA acc, count :
                 IF count > 0 THEN [acc EXCEPT !.current = @ + 1]
                 ELSE [streaks |-> acc.streaks \cup {acc.current}, current |-> 0],
             [streaks |-> {}, current |-> 0], days).streaks \cup {0}

StreakLengths(days) ==
    LET end == FoldLeft(LAMBDA acc, count :
                            IF count > 0 THEN [acc EXCEPT !.current = @ + 1]
                            ELSE [streaks |-> acc.streaks \cup {acc.current}, current |-> 0],
                        [streaks |-> {}, current |-> 0], days)
    IN  end.streaks \cup {end.current}

CurrentStreak(days) ==
    FoldRight(LAMBDA count, acc :
                  IF acc.over \/ count = 0 THEN [acc EXCEPT !.over = TRUE]
                  ELSE [acc EXCEPT !.streak = @ + 1],
              days, [streak |-> 0, over |-> FALSE]).streak

Metadata ==
    /\ Doing("metadata") /\ Proceed
    /\ known' = Row
    /\ LET days == Days(request, counted)
       IN  answer' = [days |-> days,
                      total |-> Total(days),
                      longest |-> Max(StreakLengths(days)),
                      current |-> CurrentStreak(days),
                      isIndexed |-> View(Reader).events # {} \/ Row.polled,
                      isBackfilled |-> Row.completed,
                      on |-> now]
    /\ ReadOnly /\ UNCHANGED <<now, Poll, request, counted>>

EndRead ==
    /\ Doing("commit") /\ Proceed
    /\ Commit(View(Reader))
    /\ request' = {} /\ known' = Unknown /\ counted' = {} /\ answer' = NoAnswer
    /\ UNCHANGED <<now, Poll>>

Tick ==
    /\ now < MaxTime
    /\ now' = now + 1
    /\ ReadOnly /\ UNCHANGED <<Poll, Read>>

Next ==
    \/ PollTodo \/ StoreCursor \/ PollGit \/ BeginBackfill \/ FetchBatch \/ EndBackfill
    \/ Fail \/ SkipBackfill \/ Prune
    \/ StartRead \/ Load \/ Flush \/ Count \/ Metadata \/ EndRead
    \/ Tick

Spec == Init /\ [][Next]_vars

-----------------------------------------------------------------------------
TypeOK ==
    /\ now \in 0..MaxTime
    /\ \A tables \in {disk, work} :
          /\ tables.events \subseteq Happened
          /\ tables.row.batch \in 1..(Batches + 1) /\ tables.row.begun \in -1..now
    /\ lock = NoSession => work = disk
    /\ lock \in {NoSession, Poller, Reader}
    /\ step \in 0..Len(ReadSteps) /\ counted \subseteq Happened

\* The row and the counts of an answer are read at different times, but fit: an
\* answer that says the year is backfilled has counted all that the backfill
\* could not miss and that happened until it was begun, as long as it is retained.
\* The window of the backfill and the prune end at an instant, so this holds for
\* a part of their first day.
AnswerIsBacked ==
    answer # NoAnswer /\ answer.isBackfilled =>
        \A e \in Promised :
            /\ DayOf[e] \in request
            /\ At[e] \in (answer.on - Retention)..known.begun
            => e \in counted

\* The statistics are what they are called: every event of the range counts
\* once, the longest streak is the longest interval of days that all have
\* events, and the current one is the longest such interval up to the last day.
Busy(days, i, j) == \A k \in i..j : days[k] > 0
StatisticsAreRight ==
    answer # NoAnswer =>
        LET days == answer.days
            n == Len(days)
        IN  /\ n = Cardinality(request)
            /\ answer.total = Cardinality(counted)
            /\ answer.longest = Max({k \in 0..n : \E i \in 1..(n - k + 1) : Busy(days, i, i + k - 1)})
            /\ answer.current = Max({k \in 0..n : Busy(days, n - k + 1, n)})
=============================================================================
