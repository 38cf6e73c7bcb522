# Verification of hutch-stats

TLA+ models of the contribution service in `src/src/srht_contrib`, checked with
TLC on small instances, and theorems about them checked with TLAPS.  Line
numbers refer to the files under `src/`; `PROJECT.json` maps every definition
that models code to the lines it models.

## 1. The system

The service polls SourceHut (git.sr.ht and todo.sr.ht) for what *actors* do,
stores one row per contribution, and serves daily counts and streaks.  It is
one process: FastAPI runs each request on a thread, APScheduler runs the
interval job on another, and all of them share an SQLite database through
SQLAlchemy sessions.  A script adds actors in bulk from a process of its own.

| Component | State it keeps | Operations |
|---|---|---|
| Actor queue (`jobs/poller.py`, `models.py:63`) | a row per actor: state, due time, boost, attempts, backfill status | register, boost, select due actors, claim, record success or error with backoff, reschedule |
| Poller (`jobs/poller.py`) | local variables of a pass; sync and backfill cursors in the database | scheduled pass, manual poll, backfill driver with batches per service, error recording |
| Sessions (`db.py`) | transaction, identity map, write lock of SQLite | load, flush, commit, rollback, busy timeout |
| Lifespan and scheduler (`main.py`) | the scheduler | startup pass, interval job (one instance), shutdown |
| Contribution API (`api/routes_contributions.py`) | none | read (registers, may boost), statistics, manual poll |
| todo ingestion (`services/todo.py`) | backfill cursor: tracker, ticket and event pages | incremental fetch over an overlapping window; one backfill batch |
| git ingestion (`services/git.py`) | backfill cursor: repository, branch, log page; cache of discovered repositories | discovery, incremental fetch, one backfill batch |
| GraphQL client (`services/srht_client.py`) | attempt counter | query with retries |
| Calendar (`services/aggregator.py`, `utils/dates.py`) | none | zero-filled days, totals, streaks |
| Tracked repositories (`api/routes_repositories.py`, `utils/repositories.py`) | rows unique by owner and name | list, create, rename, delete; insertion of the configured ones by a poll |
| Retention (`utils/retention.py`) | none | prune at the end of a pass |
| Enqueue script (`scripts/enqueue_actors.py`) | its session | register actors and spread their due times |
| Migrations (`alembic/`) | the schema and its version | upgrade before the program serves |

How they meet: passes, manual polls and reads are sessions that write the same
actor row.  A pass commits its claim, fetches with or without SQLite's write
lock, and commits again, each time from attributes it loaded when it selected
the batch.  Ingestion is called between two of these transactions and hands
back events and a cursor, which the session stores.  The calendar reads what
was committed.

### What is hard here

* **Interleaving of sessions.**  The startup pass and the interval job overlap
  (the scheduler is started first, `main.py:74`), manual polls and reads run
  beside them, and sessions neither refresh rows on commit
  (`expire_on_commit=False`) nor flush on queries (`autoflush=False`).
* **Partial failure.**  Exceptions leave the poll, the backfill and the claim
  at different points; some roll back, one is not caught.
* **The write lock.**  It is taken by the first flush and kept across network
  calls; everybody else waits for `busy_timeout` and fails.
* **Crashes** between claim, poll, scheduling and backfill.
* **Resumable scans.**  Backfill cursors nest up to three page cursors.
* **Time.**  Cursors and windows overlap on purpose, timestamps of others'
  servers are compared with local ones.
* **Habits of the SQLite driver.**  It begins a transaction with the first
  INSERT or UPDATE, not with a savepoint and not with DDL, so some things are
  committed that look like parts of a transaction.
* **Starvation.**  A pass takes a bounded batch in an order that reads and
  failures change.

`PROJECT.json` lists each such place under "hazards" with its line and the
properties that guard it, or why none does.

### What makes each component correct

* Queue: no actor is ever lost from it; a claim does not outlive its session;
  boosted actors are due; every due actor is polled in the end.
* Poller and sessions: transactions cover one actor and are never left open;
  committed progress is backed by committed events; completed means complete,
  and for good; passes and reads end.
* Ingestion: batches cover the window without gaps or repeats, wherever they
  are cut off.
* Client: bounded attempts, only failures worth it are retried.
* Calendar: agrees with the definition of totals and streaks on every range.
* Repositories: what is polled follows what is configured, tracked and public.
* Migrations: wherever the upgrade dies, the next one ends with the whole schema
  and with all rows.

## 2. The modules

| Module | Models |
|---|---|
| `ActorRow` | The row of an actor and what the poller does to one: pure operators; the selection of a batch; the merge of changed columns into the table |
| `PollQueue` | The sessions: two passes, manual polls, reads, crash, clock; EXTENDS `ActorRow` |
| `BackfillScan` | Abstract: what the poller relies on when it drives the backfill of one service |
| `BackfillPass` | A pass over one service: batches, commit, rollback; whatever a batch is |
| `TodoBackfill` | One batch of the todo backfill and the todo.sr.ht it pages through; EXTENDS `BackfillPass`, implements `BackfillScan` |
| `GitBackfill` | The same for git.sr.ht |
| `PollSchedule` | The queue in the long run: passes, reads, the enqueue script, deaths, without a last moment of time; EXTENDS `ActorRow` |
| `GraphQLClient` | A query with its attempts and pauses |
| `TodoSync` | The incremental poll of todo.sr.ht by several sessions; EXTENDS `GraphQLClient` |
| `GitSync` | The incremental poll of git.sr.ht, discovery and its cache, and the API of tracked repositories |
| `Calendar` | A contribution read, its statistics, and the poller beside it that stores, backfills and prunes |
| `Migrations` | The upgrade of the database before the program serves |
| `MCTodoBackfill`, `MCGitBackfill`, `MCPollSchedule`, `MCTodoSync`, `MCGitSync`, `MCCalendar` | Small worlds for TLC |
| `PollQueueProofs` | Proofs: operations on a row, type correctness of the queue, the bound on due times; transactions are closed and concern one actor |
| `QueueBackfillProofs` | Proofs: what backfills leave in the database, and claims; EXTENDS `PollQueueProofs` |
| `TodoSyncProofs`, `GitSyncProofs` | Proofs: no gap between two incremental polls; when a query gives up, and how long it pauses |
| `TodoBackfillProofs`, `GitBackfillProofs` | Proofs: no batch loses anything; the backfills implement `BackfillScan` |
| `CalendarProofs` | Proofs: answers that say "backfilled" have counted what a backfill promises; totals and streaks are right |
| `MigrationsProofs` | Proofs: upgrades end with the schema of the models, and keep all rows |

### `PollQueue` and the code

A step is what a session does between two calls of SourceHut, or two waits for
the write lock; `pc` names the place it stands at.

| Place in the code | Actions |
|---|---|
| `poll_tracked_actors` | `StartPass`, `TrackDefault`, `Select`, `Claim`, `Reschedule`, `EndPass` |
| `poll_all`, `_poll_actor` | `StartPoll`, `TrackPoll`, `PollTodo`, `IndexPass`, `IndexPoll`, `FetchFails` |
| `_run_backfill_batches`, `_run_backfill_scope` | `BeginBackfill`, `AfterServices`, `SkipService`, `OpenService`, `FetchBatch`, `FailBatch`, `FinishBackfill` |
| the `except` branches | `Abandon`, `RecordError`, `InsertFails`, `BusyTimeout` |
| `get_contributions` | `StartGet`, `AnswerGet` |
| the process, the clock | `Crash`, `Tick` |

The database is `disk` (committed), `work` (what the open transaction sees) and
`lock` (whose transaction it is).  A session's identity map is `loaded` and
`seen`: the attributes it loaded.  `Merge` writes the attributes that differ
from these, whatever the table says by then, which is where stale rows come
from.  `Stamp` is the same for a call that sets `next_poll_after`: a new
timestamp always differs from the loaded one in the code, though two clock
readings of the model may be equal.

A row keeps the attributes the code decides by.  Error texts,
`last_requested_at` and the deprecated `backfill_*` columns are left out; that
a read always changes `last_requested_at`, and therefore always writes, is kept
(`AnswerGet` needs the lock).  `last_polled_at` is kept as whether it is set.
Events of the backfill are the numbers of the batches that carried them; the
batches of a service are `1..Batches`, fetched in order, any fetch may fail.
How many batches a service takes is a constant of its own (`TodoBatches`,
`GitBatches`).  What is inside a batch is the subject of the next section.

### The backfills and the code

`PollQueue` knows a batch as a number; `TodoBackfill` and `GitBackfill` open it
up, for one session and one service.  Both modules divide alike:

| Place in the code | Definitions |
|---|---|
| `cursor_state` as JSON | `State`, `NewState` (what `None` stands for) |
| the pages of SourceHut (external) | `TicketsAfter`, `TicketsPage`, `EventsPage`; `Page`, `LogPageAt` |
| `_fetch_backfill_batch`, one action per return | `ListTrackers`, `NoTrackerLeft`, `ListTickets`, `FetchEvents`; `Discover`, `ListReferences`, `LeaveRepository`, `ReadLog` |
| `_run_backfill_scope`, `poll_recent_backfill` | `Begin`, `MayFetch`, `Return`, `Commit`, `Fail` of `BackfillPass` |
| other people | `Touch` (an event on a ticket), `Push` (a commit) |

The lists of a cursor are sets where the order in which they are worked off
decides nothing; the model then allows every order.  `BackfillScan` says what is
left when the cursor is hidden: committed events only grow, and "completed" is
committed only with everything that is promised.  What is promised is defined
next to each walk (`Promised`) and is less than the window, on purpose:

* todo: tickets that were not touched since the start.  A touched ticket may
  leave the page that is still to come.
* git: commits down to the first one on their branch whose author time is not
  in the window.

Section 6 says more about both.

The order in which todo.sr.ht lists tickets (last update first) and events
(newest first) is an assumption taken from how the code stops paging.  A batch
of the git code that finds no repository left (`git.py:247`) has no action: the
batch before it has reported the backfill complete.  Cursors of an older format
(`git.py:260-265`) are not modelled.

### The long run: `PollSchedule`

Who gets a turn is a question about behaviours without end, so no clock counts
up.  The timestamps of a row are relative to `Present`; time passes by moving
them into the past (`Elapse`), and of times past only their order is kept, which
is all that the selection (`poller.py:59-77`) looks at.  Whatever takes a
timestamp takes a later one than any other, as a clock of microseconds does.
A pass is one at a time and a poll is one step; what happens inside is
`PollQueue`'s subject.  The operators on a row are the same, those of
`ActorRow`.

| Place in the code | Actions |
|---|---|
| `poll_tracked_actors` | `StartPass`, `Claim`, `EndPass` |
| `poll_all`, `poll_recent_backfill` | `Poll`, `Backfill`, `Fails`, `RecordError` |
| contribution reads | `Register`, `Boost` |
| `enqueue_actors` | `ScriptLoad` (a SELECT), `ScriptCommit` (a batch) |
| the process, time | `Die`, `Tick` |

### The incremental polls: `GraphQLClient`, `TodoSync`, `GitSync`

| Place in the code | Actions |
|---|---|
| `SourceHutGraphQLClient.execute` | `Answered`, `Retry`, `Raise` |
| `TodoIngestionService.fetch_recent_events` | `Begin`, `ReadFeed` (a page), `Crawl` |
| `_insert_events`, `_upsert_sync_state` | `Insert`, `Commit` |
| `_repositories_for_actor` | `Begin`, `Discover`, `Refresh` of `GitSync` |
| `GitIngestionService.fetch_recent_events` | `Fetch`, `Skip` (a repository), `Finish` |
| `api/routes_repositories.py` | `Track`, `Rename`, `Untrack` |
| whatever fails | `Fail`, `FailInserting`, `Query`, `Abandon` |

The variable `owed` is not in the code.  It holds what was pushed or has
happened, counts for a polled actor or repository, and is not stored;
`NothingLost` says that the next poll is going to read it.  What the code
leaves out knowingly is taken from `owed` at the moment it is left out: a
repository that is skipped after an error (`git.py:125`), what lies beyond the
last page that is read (`todo.py:470`, `git.py:505`), and what the overlap of
git polls is too short for (`TooLate`, section 6).

Events of a todo poll are committed one by one: `begin_nested` opens a savepoint,
nothing else is pending, the driver has begun no transaction, and the release of
the savepoint commits (`Insert`).  That ends with the first event that is stored
already: its savepoint is rolled back, which SQLite leaves open, and the rest of
the events are inside of it and wait for the commit.  Which events come first is
left open (`first`).  In a backfill batch the state of the service
is changed before, its flush begins the transaction, and the savepoints are part
of it; so `PollQueue` keeps the events of a batch with its cursor.  In the git
part of a poll the todo cursor was flushed before, hence nothing else writes
between the steps of `GitSync`.  A manual poll of an actor that is not known yet
has inserted the row before and holds the lock from the start; there the
savepoints are part of the transaction, too, which `TodoSync` covers as a poll
that is not disturbed.

### Reads: `Calendar`

A read is five calls (`ReadSteps`): load the row, flush it, count, select the row
again, commit.  The second SELECT gives the row of the identity map, that is the
first one's attributes.  The poller beside it is reduced to what it does to
events and to the row: `PollTodo`, `StoreCursor`, `PollGit`, `BeginBackfill`,
`FetchBatch`, `EndBackfill`, `Prune`.  The answer carries the statistics of
`get_contribution_stats`, computed as the code does, in one walk over the days.

Time is counted in instants, `DayLength` of them to a day: the backfill
(`poller.py:280`) and the prune (`retention.py:15`) go back `Retention` instants
from whenever they run, a read asks for days (`DayOf`), and so the first day of
the window is only partly kept.  A batch of the backfill has what the backfills
of section 2 promise (`Promised`, an event of which is in the batch `BatchOf`
says) and any other events of the window: what a completed backfill may lack, of
tickets that were touched, behind commits with an old author time or in
repositories that are only tracked, is outside of `Promised`, and
`AnswerIsBacked` does not say that it was counted.

### Upgrades: `Migrations`

A migration is a sequence of statements with a guard each (`Applies`); the plan
is made when the migration starts (`BeginMigration`), from the schema it finds.
`todo` holds the numbers of the statements that the plan has left, the last of
them the one that writes the version (`Script`); `Run` runs the first.
`Transactional` is the habit of the driver: a CREATE or ALTER is committed at
once unless an UPDATE or INSERT has begun a transaction before.  Version 0 with
tables stands for a database from before there were migrations.  Types,
constraints and defaults are left out, except for the two forms of the tables
that are rebuilt and the columns that must not be NULL.

## 3. Runs

The queue runs use one or two actors.  Backoff is 1 clock unit per attempt up
to 2, and attempts saturate at 3, from where backoff is maximal.

| Run | Instance | Shows |
|---|---|---|
| `queue_polls` | both passes, one manual poll, one actor, clock to 2, repoll after 2 | `TypeOK`, `LockIsReleased`, `StateInsertIsSafe`, `CursorIsBacked`, `CompletedIsComplete`, `CompletedIsFinal`, `DeadClaimIsDue` |
| `queue_reads` | one pass, one reader, one actor, clock to 2, fairness; repoll at once, so that passes go on finding work although time need not pass | `DueWithinHorizon`, `PassEnds`, `GetEnds` |
| `queue_boost`, `queue_backfill_error` | the smallest instance with the sessions concerned | divergences of section 6 |
| `poll_schedule` | two actors, batches of one, backfills of two passes, any number of failures, one boost, death or run of the script, fairness | `TypeOK`, `EveryoneIsServed`, `EveryoneStaysCurrent` |
| `todo_backfill` | three trackers, one of them empty, four tickets, pages of 2, passes of 4 batches, one event added, one failure, fairness | `TypeOK`, `NothingLost`, `NothingTwice`, `IsScan`, `Completes` |
| `git_backfill` | repositories public, private, configured and empty; branches that share commits; pages of 2, passes of 4 batches, one commit pushed, one failure, fairness | `TypeOK`, `NothingLost`, `IsScan`, `Completes` |
| `todo_sync` | two sessions that poll either of two actors, feed pages of 1, two pages at most, one retry, two faults, three events, no overlap | `TypeOK`, `NothingLost`, `FaultsAreRidden`, `PausesAreShort` |
| `git_sync` | a configured repository and one to be published, tracked or renamed, log pages of 1, an entry of the cache used at the age of 0, overlap of 1, two commits on a branch, clock to 3: polls that take longer than the overlap and pushes that come later than it included | `TypeOK`, `NothingLost` |
| `calendar` | five events, two batches of a backfill and an event that it may miss, days of 2 instants, retention of 3, clock to 5, every range | `TypeOK`, `AnswerIsBacked`, `StatisticsAreRight` |
| `migrations` | every database an upgrade may start from, two deaths, fairness | `TypeOK`, `ServesCompleteSchema`, `RowsSurvive`, `UpgradeEnds` |
| `migrate_null` | the same, one death | a divergence of section 6 |

Why the bounds are enough for what they show. Every hazard of the queue needs
two sessions on one row, and three are there in `queue_polls`; two batches with
events in the first separate "flushed in this pass" from "flushed in an earlier
one"; two clock units let a row become due, be polled and become due again;
larger `poll_attempts` behave as the cap does. Crashes are enabled everywhere.

A backfill cursor distinguishes first, inner and last page of each listing, and
an item in progress from one in a queue; with pages of 2 over listings of 3 and
4, and queues worked off in any order, a pass is cut off in each of these
places, and a failure, a touch or a push falls into each.

Starvation needs one actor more than a batch takes.  A gap between two polls
needs an event, two polls and something that makes the second one read from too
late: an overlapping poll, a page read late, an old entry of the cache, a commit
pushed after it was written.  Each of these is one step of the clock in
`git_sync`, with an overlap of one step and two more to exceed it: so that a poll
or a push that takes a step is made up for, and one that takes two is not.
A page of one commit, and one page at most, puts the limit of pages there as
well.  The ranges of `calendar` include
every pattern of busy and idle days that tells a streak at an end of the range
from one inside; a retention of a day and a half, with a clock of three days,
lets windows end in the middle of a day and things be pruned.  A second death of `migrations` meets the upgrade of what the first one
left.

`CHECK_DEADLOCK` is on in all runs of the queue and in `calendar`: a pass can
always start, a process crash, a read be made.  It is off where the model really
stops: a completed backfill is not run again, what runs on a bounded clock and a
bounded number of events comes to its end, and a container that serves has
nothing left to upgrade.

### Fairness

`FairSpec` gives each session weak fairness of its next step (`Continue`).  The
interval job is started over and over by the scheduler; a call of SourceHut
ends, since the HTTP client has a timeout; a thread that finds the database
locked gets an error after `busy_timeout`, so waiting is always a step away
from an end (`BusyTimeout`).  Requests need not arrive, the clock need not tick
and the process need not crash: none of these is fair.

In the backfills `FairSpec` gives weak fairness to beginning, continuing and
committing a pass (`Work`): while a backfill is not complete its actor is due at
once (`poller.py:270`).  That passes stop failing is the bound `MaxFailures`;
nobody need touch or push anything.

`PollSchedule` has weak fairness of the passes (the interval job, polls that end)
and of time.  Nothing says that polls succeed: an actor that fails each time is
served all the same, and `EveryoneStaysCurrent` allows for a backfill that keeps
failing.  Boosts are bounded, by `MaxDisturbances`: a user who boosts one actor
before every pass does starve the others.  `Migrations` has weak fairness of its
next step: compose.yml restarts a container that ended.

## 4. What is proved

Everything here holds for all values of the constants that satisfy the
assumptions named in the modules: any sets of actors, sessions, repositories,
branches and tickets, any page sizes, numbers of batches, intervals and bounds.
The assumptions are naturals and positive page sizes, that names of different
things differ, that listings and histories have the form SourceHut gives them
(`WorldAssumption`; the tickets are finitely many, since a page is counted, and
so are the events of `Calendar`, since a day is).  None relates one setting to
another.

| Theorem | Says |
|---|---|
| `PollQueueProofs!TypeCorrect` | `Spec => []TypeOK` |
| `PollQueueProofs!DueBounded` | `Spec => []DueWithinHorizon` |
| `PollQueueProofs!BackoffIsBounded` | the backoff is a natural number not above its maximum |
| `PollQueueProofs!LockReleased` | `Spec => []LockIsReleased` |
| `PollQueueProofs!TransactionOneActor` | `Spec => []TransactionIsOneActor` |
| `QueueBackfillProofs!StateInsertSafe` | `Spec => []StateInsertIsSafe` |
| `QueueBackfillProofs!CursorBacked` | `Spec => []CursorIsBacked` |
| `QueueBackfillProofs!CompletedComplete` | `Spec => []CompletedIsComplete` |
| `QueueBackfillProofs!CompletedFinal` | `Spec => CompletedIsFinal`, an action property |
| `QueueBackfillProofs!DeadClaimDue` | `Spec => DeadClaimIsDue`, a temporal property of each actor by itself |
| `TodoSyncProofs!NoGap` | `Spec => []NothingLost` |
| `TodoSyncProofs!GivesUpLate` | `Spec => []FaultsAreRidden` |
| `TodoSyncProofs!PausesShort` | `Spec => []PausesAreShort` |
| `TodoSyncProofs!SyncTypes` | `Spec => []TypeOK` |
| `GitSyncProofs!NoGap`, `SyncTypes` | `Spec => []NothingLost`, `Spec => []TypeOK` |
| `TodoBackfillProofs!BackfillTypes` | `Spec => []TypeOK` |
| `TodoBackfillProofs!NothingIsLost` | `Spec => []NothingLost` |
| `TodoBackfillProofs!NothingIsReadTwice` | `Spec => []NothingTwice` |
| `TodoBackfillProofs!BackfillIsScan` | `Spec => IsScan`, a refinement |
| `GitBackfillProofs!BackfillTypes`, `NothingIsLost`, `BackfillIsScan` | the same three of git |
| `CalendarProofs!CalendarTypes` | `Spec => []TypeOK` |
| `CalendarProofs!AnswerBacked` | `Spec => []AnswerIsBacked` |
| `CalendarProofs!StatisticsRight` | `Spec => []StatisticsAreRight` |
| `MigrationsProofs!CompleteSchemaServed` | `Spec => []ServesCompleteSchema` |
| `MigrationsProofs!RowsKept` | `Spec => RowsSurvive`, an action property |
| `MigrationsProofs!MigrationTypes` | `Spec => []TypeOK` |

None of these properties is inductive.  The invariants that are, and why they
say what they say:

**Rows and due times** (`QueueInv`).  `TypeOK`; that a session at work has an
actor (`HasTarget`, or `Head(batch[s])` would be anything) and a fetching one a
service with tries left (`HasService`); and that due times are within the
horizon in the committed tables, in the uncommitted ones *and in what sessions
remember* (`DueInReach`).  The last is why the invariant is needed: a session
writes due times computed from the row it holds, not from the one in the table.
There is a lemma for each operation on a row, for each way a session moves, and
for each action.

**Transactions** (`LockInv`).  A step of a session reads, writes to the actor it
works on, commits or rolls back (`DatabaseStep`); the lemmas say which of the
four each action is.  `LockIsReleased` is needed for `TransactionIsOneActor`: a
session that changes its batch must not have a transaction open.  No run checks
`TransactionIsOneActor`: it is proved only.

**Backfills in the queue** (`BackfillInv` of `QueueBackfillProofs`).  It has one
part for committed tables (`TableOK`) and one per session (`SessionOK`), and
they are tied by an order: committed tables only move forward (`Later`: no
event, state or row is lost, nothing completed is reopened).  So whatever a
session loaded remains true of the tables, if in the past (`SeenIsPast`), and a
step of one session keeps the part of every other (`OthersOK`).  What is not
safe to read from stale attributes, the status of a service while its first
batch is fetched, is read by a session that holds the lock (`BatchesOK`).  That
a failed backfill rolls its status back, the finding of `queue_backfill_error`,
is part of the argument: statuses "pending" and "error" are never committed for
a service (`Settled`).

**Claims** (`ClaimInv`).  `DeadClaimIsDue` is about one actor: as long as never two
passes or manual polls have it before them (`Alone`), whatever passes overlap and
whatever becomes of other actors.  The invariant is kept by steps that start and
end `Alone`.  A claimed row of the actor is due, in the tables (`ClaimIsDue`); a
pass that is to claim the actor has found it due and has it once (`FindsDue`); and
a pass that holds the claimed row knows that it is claimed (`KnowsClaim`), without
which it would write the new due time and, as nothing seems to have changed,
leave the claim.  That is just what another pass or a manual poll with a row from
before the claim does, when the two do have the actor before them.  Boosts only
ever make an actor due now.

**Incremental todo polls** (`SyncInv` of `TodoSyncProofs`).  `PollOK` says of each
poll on its own what it has found, what it looks for and what lies beyond its
last page; the other polls and the world only add events of the present
(`Grows`).  Nothing is assumed of the overlap: the cursor is the time before
the first query, and that alone closes the gap.

**Queries** (`Charged`).  Each fault is charged to the query that saw it, and those
of a query given up stay paid for; disjoint sets of faults then add up to the
bound of `FaultsAreRidden`.  The proof needs nothing of `TodoSync` but that its
steps are steps of the client (`ClientStep`).  What a query has paused is the
pause that comes next less one second (`Paused`), because each is twice the one
before.  `Pause` is a recursive function over `0..MaxRetries`; that it has a
value at all is shown by building the functions for `0..n` one from the other.

**Incremental git polls** (`SyncInv` of `GitSyncProofs`).  An owed commit and all
that follow it on its branch were written no earlier than the next poll goes
back to (`Clean`, `InReach`); "all that follow it" is what makes the walk of the
log work, which stops at the first commit that is too old.  A cache knows what
was public before it was made (`KnowsPublished`, `Listed`), so what a poll is
bound to read (`Known`) is on its list, and what it then has not read of it was
pushed after it began (`Fetched`): less the delay of the push, the overlap takes
the next poll back to there.  Of other repositories nothing is known but the age
of their commits.

**Inside the batches** (`BackfillInv` of `TodoBackfillProofs` and
`GitBackfillProofs`).  What is promised is stored, fetched in this pass, or ahead
of the cursor (`Covers`), for the committed cursor and the one in hand.  It is
inductive only with what the parts of a cursor say of each other (`CursorOK`),
which the code takes for granted whenever it reads one back from JSON, and
which the touches and pushes of others must keep.  For todo there is the
converse as well, that nothing stored is ahead (`NotBehind`), and the orders of
the listings behind both (`HistoryOK`, `NextPage`).  That the listing is
finite and ordered gives its first page; the smallest ticket is found with the
library's theorem on well-founded relations.  `IsScan` is then proved step by
step: a commit of a batch maps to a commit of `BackfillScan`, everything else
to a moving window or a stutter (`ScanStep`).

**Reads** (`CalendarInv`).  A row, whenever it was read, vouches for events that
are stored from then on until they are too old (`Backed`), so that a reader may
count later than it looked.  The reader counts under the write lock, hence no
event comes or goes between the count and the commit (`ReaderOK`).

**Statistics.**  The loops of `_streaks_from_days` are folds in the model, and a
fold is a recursion over the days.  Its values are shown to exist and to be the
only ones (`FoldDefined`, `FoldUnique`); what a loop knows after each day is then
shown day by day (`LongestIsRight`, `CurrentIsRight`): the streaks it has seen
and the one still running are the intervals of busy days behind it.  Induction
is the library's theorem that `<` is well-founded on the naturals, applied to
the set of the days for which the claim holds.  The total is the number of
events counted because every event is on one day (`TotalIsCount`).

**Upgrades** (`MigrationInv`).  Between two statements, the committed schema has
all that the migrations up to its version create (`Sound`), and the one that the
connection sees has in addition what the statements run so far create
(`Underway`): whatever is not in the plan was found to be there when the plan
was made.  A rebuild is followed statement by statement (`Rebuilding`): a
transaction is open from the copy on, so that the state in which the table is
missing (`Between`) is never committed.  An old form is there only at the
versions before its rebuild, which makes the schema of the last version that of
the models; `Creation` and `Known` say which statement is which.  The bound on
deaths is any natural number here.

## 5. What is only model-checked, and what is not modelled

Only checked by TLC:

* Liveness, and everything under fairness: the prover does not reach `ENABLED`.
* `TypeOK` of `PollSchedule`, whose other properties are liveness.

`DeadClaimIsDue` says nothing of an actor that two passes or polls have before
them at the same time, as the startup pass and the job may (`main.py:74`).  There
it is not true: the one that has the older row may put the actor off and leave
the claim of the other.  What is left is `DueWithinHorizon`, proved for all of
them: the actor comes back after the repoll interval or the longest backoff.

Not modelled:

* `utils/identity.py` and the attribution of a commit (`git.py:567`): functions
  of their arguments without a state.  See section 6 for what they do.
* Settings, schemas, logging, the health check: declarations and pure I/O.  The
  settings are CONSTANTS of the modules that depend on them.
* The shutdown of the scheduler; a pass that is cut off is a crash here.
* `downgrade` of the migrations, which is run by hand.
* Backfill cursors of an older format (`git.py:260-265`), which only a database
  from before a change of the program has.
* How names of repositories and lines of the actors' file are normalised.

## 6. Divergences between documents and code

| Run | What the run shows |
|---|---|
| `queue_boost` | A boost that arrives while its actor is polled keeps its priority but loses its due time (`poller.py:232`) |
| `queue_backfill_error` | The status "error" of a failed backfill is rolled back with the failure |
| `migrate_null` | A death of the upgrade at the wrong moment leaves tracked actors without a backfill status, and reads of them fail (`0004:75`) |

What the models show along the way, without a run of its own:

* A read waits for the write lock that a poll keeps across the git fetch
  (`poller.py:202`), though API.txt:119 says it does not wait for polling.
  `GetEnds` says that the wait ends.
* A manual poll that fails in its backfill (`poller.py:49`) records no error,
  though API.txt:174 says that "error" stands for the most recent attempt.
* Git polls go back by an overlap (`config.py:38`), and that has to make up for a
  poll's duration and the delay of a push together; for a repository that a poll
  need not know of, because it was published after the discovery in the cache was
  made, it has to cover all the time since the commit was written.  A commit the
  overlap is too short for is lost to the incremental polls (`TooLate`), and so
  are those below it in the log.  With the defaults, an hour each for overlap and
  cache, the commits of a configured, tracked or long public repository are kept
  if poll and push together take no more than the hour; the first ones of a
  repository just published may not be.
* A ticket that is touched while its tracker is listed moves to a page already
  read, and a backfill is "completed" without its older events (`todo.py:383`),
  though API.txt:181 says "the retained one-year window is fully backfilled".
  `Promised` of `TodoBackfill` leaves touched tickets out.
* Commits behind one with an author time before the window are missing from a
  completed backfill as well (`git.py:336`); `Promised` of `GitBackfill` has no more
  than the walk reaches.
* Events of a first poll that fails stay, because savepoints commit, and a read
  takes them for a completed poll: `is_indexed` is true as soon as there is any
  event (`aggregator.py:74`), though API.txt:159 and 172-173 want "at least one
  successful poll".  No property of `Calendar` is about `is_indexed`.
* Events of a todo poll, up to the first that is a duplicate, stay although the
  poll fails later, because savepoints commit; only the cursor is rolled back, and the
  unique constraint drops what is fetched again.
* A rebuild that dies right after it has created its draft leaves a table that
  lets every later upgrade fail with "already exists"; `UpgradeEnds` makes an
  exception for it.
* Every commit of a polled repository counts for the polled actor, whoever wrote
  it, since the actor is the first candidate for its author (`git.py:576`); and
  of two actors with the same repository only the first one polled keeps the
  commits (`git.py:598`).
* Repositories that are tracked through the API are polled but not backfilled
  (`git.py:197-202` knows only the configured ones), so theirs may be missing
  from the answer of a completed backfill, too.
* An actor whose backfill fails every time is not polled for anything else by
  the passes (`poller.py:80`); `EveryoneStaysCurrent` makes an exception for it.

## 7. Plan

Done: the queue with its sessions, its schedule in the long run and its script;
both backfills and both incremental polls; the client; the calendar; the
tracked repositories; the migrations.

The theorems: all safety invariants and action properties that the runs check,
but for `TypeOK` of `PollSchedule`, and the refinement of `BackfillScan` by both
backfills.

Left to prove: `TypeOK` of `PollSchedule`.  It needs that the ranks of past
times are naturals, since the actors are finitely many, and that the operators
on a row return rows, which `PollQueueProofs` has for those of `ActorRow`.
