------------------------------ MODULE PollQueue ------------------------------
(***************************************************************************)
(* The database sessions that work on the queue of tracked actors, and     *)
(* what they do to each other: the scheduled passes (the one run at        *)
(* startup and the interval job, which may overlap), the requests that     *)
(* poll an actor by hand, and the contribution reads that register and     *)
(* boost one.                                                              *)
(*                                                                         *)
(* The database is SQLite.  `disk` is what is committed and `work` what    *)
(* the one transaction that has written something sees: `lock` is the      *)
(* session it belongs to.  A session writes only with the lock, takes it   *)
(* with its first write and gives it up with commit or rollback; one that  *)
(* finds it taken waits, and fails when it has waited too long.            *)
(*                                                                         *)
(* Sessions neither flush on a query nor forget on a commit: `seen` holds  *)
(* the attributes a session loaded for a row, it goes on using them after  *)
(* others have committed, and only attributes that differ from them are    *)
(* written back (ActorRow!Merge).                                          *)
(*                                                                         *)
(* A step is what a session does between two calls of SourceHut or two     *)
(* waits for the lock.                                                     *)
(***************************************************************************)
EXTENDS ActorRow, Sequences

CONSTANTS
    Actors,              \* the actors that can be tracked
    DefaultActor,        \* DEFAULT_ACTOR, or NoActor
    NoActor,
    StartupPass,         \* the pass run by the lifespan handler
    JobPass,             \* the pass run by the interval job
    Passes,              \* the scheduled passes that exist
    Posts,               \* threads serving POST /api/contributions/poll
    Gets,                \* threads serving GET /api/contributions/{actor}
    NoSession,
    BatchSize,           \* discovery_batch_size
    BatchesPerService,   \* RECENT_BACKFILL_BATCHES_PER_SERVICE
    Batches,             \* bound: batches in the backfill of one service
    TodoBatches,         \* how many that of todo takes, and
    GitBatches,          \* how many that of git does
    EventBatches,        \* the batches that carry events
    MaxClock             \* bound of the clock

Sessions == Passes \cup Posts \cup Gets

ASSUME SessionsAssumption ==
    /\ Passes \subseteq {StartupPass, JobPass}
    /\ StartupPass # JobPass
    /\ {StartupPass, JobPass} \cap (Posts \cup Gets) = {}
    /\ Posts \cap Gets = {}
    /\ NoSession \notin Sessions
    /\ NoActor \notin Actors
    /\ DefaultActor \in Actors \cup {NoActor}

ASSUME BoundsAssumption ==
    /\ BatchSize \in Nat
    /\ BatchesPerService \in Nat \ {0}
    /\ Batches \in Nat \ {0}
    /\ TodoBatches \in 1..Batches
    /\ GitBatches \in 1..Batches
    /\ EventBatches \subseteq 1..Batches
    /\ MaxClock \in Nat

Services == 1..2         \* todo, git: the order of _run_backfill_batches
Length(v) == IF v = 1 THEN TodoBatches ELSE GitBatches

\* A row of service_backfill_states; cursor is the next batch to fetch.
BackfillState == [status : {"absent", "pending", "in_progress", "completed", "error"},
                  cursor : 1..(Batches + 1)]
AbsentState == [status |-> "absent", cursor |-> 1]

\* The tables: tracked_actors, service_backfill_states, and of
\* contribution_events the backfill batches whose events are stored.
Tables == [rows   : [Actors -> Row],
           states : [Actors -> [Services -> BackfillState]],
           events : [Actors -> [Services -> SUBSET (1..Batches)]]]

EmptyTables ==
    [rows   |-> [a \in Actors |-> AbsentRow],
     states |-> [a \in Actors |-> [v \in Services |-> AbsentState]],
     events |-> [a \in Actors |-> [v \in Services |-> {}]]]

VARIABLES
    now,        \* the clock; its unit is far longer than the busy timeout
    disk,       \* the committed tables
    work,       \* the tables with the writes of the open transaction
    lock,       \* the session of the open transaction
    pc,         \* where a session stands
    batch,      \* the actors it still has to work on, the current one first
    loaded,     \* the rows in its identity map
    seen,       \* the attributes it loaded, or last wrote, for them
    fill        \* its local variables in _run_backfill_scope

vars == <<now, disk, work, lock, pc, batch, loaded, seen, fill>>

Fill == [service : 1..3, tries : 0..BatchesPerService,
         base : BackfillState, cursor : 1..(Batches + 1)]
NoFill == [service |-> 1, tries |-> 0, base |-> AbsentState, cursor |-> 1]

Labels == {"idle", "ended", "default", "select", "next", "track",
           "todo", "git", "reschedule", "backfill", "open", "fetch", "finish",
           "poll_failed", "backfill_failed", "poll_error", "backfill_error",
           "get", "get_boosted"}

Init ==
    /\ now = 0
    /\ disk = EmptyTables
    /\ work = EmptyTables
    /\ lock = NoSession
    /\ pc = [s \in Sessions |-> "idle"]
    /\ batch = [s \in Sessions |-> <<>>]
    /\ loaded = [s \in Sessions |-> {}]
    /\ seen = [s \in Sessions |-> [a \in Actors |-> AbsentRow]]
    /\ fill = [s \in Sessions |-> NoFill]

-----------------------------------------------------------------------------
(***************************************************************************)
(* The database.                                                           *)
(***************************************************************************)
View(s) == IF lock = s THEN work ELSE disk
CanWrite(s) == lock \in {NoSession, s}

\* The first write of a transaction, or one more.
Write(s, tables) == lock' = s /\ work' = tables /\ UNCHANGED disk
Commit(tables) == lock' = NoSession /\ work' = tables /\ disk' = tables
Rollback(s) ==
    /\ lock' = IF lock = s THEN NoSession ELSE lock
    /\ work' = IF lock = s THEN disk ELSE work
    /\ UNCHANGED disk
ReadOnly == UNCHANGED <<lock, work, disk>>

Target(s) == Head(batch[s])
Put(tables, a, row) == [tables EXCEPT !.rows[a] = row]

\* Flush of the row held for actor a: UPDATE of the attributes that changed,
\* or INSERT when the session found no row.
Flush(tables, a, base, held) ==
    Put(tables, a, IF Tracked(base) THEN Merge(tables.rows[a], base, held) ELSE held)
FlushDue(tables, a, base, held) ==
    Put(tables, a, IF Tracked(base) THEN Stamp(tables.rows[a], base, held) ELSE held)

\* The INSERT meets the row of another session: unique constraint on actor.
Conflict(s) == ~Tracked(seen[s][Target(s)]) /\ Tracked(View(s).rows[Target(s)])

Goto(s, label) == pc' = [pc EXCEPT ![s] = label]
Hold(s, a, row) ==
    /\ loaded' = [loaded EXCEPT ![s] = @ \cup {a}]
    /\ seen' = [seen EXCEPT ![s][a] = row]
Expire(s) ==
    /\ loaded' = [loaded EXCEPT ![s] = {}]
    /\ seen' = [seen EXCEPT ![s] = [a \in Actors |-> AbsentRow]]
KeepRows == UNCHANGED <<loaded, seen>>

\* The end of a session: its connection goes back to the pool.
Close(s) ==
    /\ Goto(s, IF s = StartupPass THEN "ended" ELSE "idle")
    /\ batch' = [batch EXCEPT ![s] = <<>>]
    /\ Expire(s)
    /\ fill' = [fill EXCEPT ![s] = NoFill]

\* Labels at which the session first SELECTs the row of its target.
LoadLabels == {"default", "next", "track", "poll_error", "backfill_error",
               "get", "get_boosted"}

\* The SELECT of track_actor_request, for a row not in the identity map.
Load(s) ==
    /\ pc[s] \in LoadLabels
    /\ batch[s] # <<>>
    /\ Target(s) \notin loaded[s]
    /\ Hold(s, Target(s), View(s).rows[Target(s)])
    /\ ReadOnly
    /\ UNCHANGED <<now, pc, batch, fill>>

HasRow(s) == batch[s] # <<>> /\ Target(s) \in loaded[s]

-----------------------------------------------------------------------------
(***************************************************************************)
(* A scheduled pass: poll_tracked_actors.                                  *)
(***************************************************************************)
StartPass(s) ==
    /\ pc[s] = "idle"
    /\ IF DefaultActor = NoActor
       THEN Goto(s, "select") /\ UNCHANGED batch
       ELSE Goto(s, "default") /\ batch' = [batch EXCEPT ![s] = <<DefaultActor>>]
    /\ KeepRows /\ ReadOnly
    /\ UNCHANGED <<now, fill>>

\* The default actor is registered unless it is known.
TrackDefault(s) ==
    /\ pc[s] = "default"
    /\ HasRow(s)
    /\ LET a == Target(s)
           row == TrackRequest(seen[s][a], now, FALSE)
       IN  IF row = seen[s][a]
           THEN ReadOnly
           ELSE CanWrite(s) /\ ~Conflict(s) /\ Commit(Flush(View(s), a, seen[s][a], row))
    /\ Goto(s, "select")
    /\ batch' = [batch EXCEPT ![s] = <<>>]
    /\ Expire(s)
    /\ UNCHANGED <<now, fill>>

\* The rows selected stay in the identity map for the rest of the pass.
Select(s) ==
    /\ pc[s] = "select"
    /\ \E q \in Selections(disk.rows, now, BatchSize) :
          /\ batch' = [batch EXCEPT ![s] = q]
          /\ LET picked == {q[i] : i \in DOMAIN q}
             IN  /\ loaded' = [loaded EXCEPT ![s] = picked]
                 /\ seen' = [seen EXCEPT ![s] = [a \in Actors |->
                       IF a \in picked THEN disk.rows[a] ELSE AbsentRow]]
    /\ Goto(s, "next")
    /\ ReadOnly
    /\ UNCHANGED <<now, fill>>

EndPass(s) ==
    /\ pc[s] = "next"
    /\ batch[s] = <<>>
    /\ Close(s)
    /\ ReadOnly
    /\ UNCHANGED now

\* The claim is committed before the poll; the UPDATE always contains
\* poll_attempts, which differs from the value loaded.
Claim(s) ==
    /\ pc[s] = "next"
    /\ HasRow(s)
    /\ CanWrite(s)
    /\ LET a == Target(s)
           held == Claimed(seen[s][a])
           row == [Merge(disk.rows[a], seen[s][a], held) EXCEPT
                      !.attempts = held.attempts]
       IN  /\ Commit(Put(disk, a, row))
           /\ Hold(s, a, held)
           /\ Goto(s, IF BackfillOnly(seen[s][a]) THEN "backfill" ELSE "todo")
    /\ UNCHANGED <<now, batch, fill>>

\* Mutant: the loop does not advance.
NextActor_Again(s) ==
    /\ Goto(s, "next")
    /\ UNCHANGED <<batch, loaded, seen>>
    /\ fill' = [fill EXCEPT ![s] = NoFill]

\* The pass is done with its current actor and goes on with the next.
NextActor(s) ==
    /\ Goto(s, "next")
    /\ batch' = [batch EXCEPT ![s] = Tail(@)]
    /\ loaded' = [loaded EXCEPT ![s] = @ \ {Target(s)}]
    /\ seen' = [seen EXCEPT ![s][Target(s)] = AbsentRow]
    /\ fill' = [fill EXCEPT ![s] = NoFill]

\* Mutant: the commit after the scheduling is missing.
Reschedule_NoCommit(s) ==
    /\ pc[s] = "reschedule"
    /\ CanWrite(s)
    /\ LET a == Target(s)
       IN  Write(s, FlushDue(View(s), a, seen[s][a], Rescheduled(seen[s][a], now)))
    /\ NextActor(s)
    /\ UNCHANGED now

\* A transaction of its own, after the commit of poll_all.
Reschedule(s) ==
    /\ pc[s] = "reschedule"
    /\ CanWrite(s)
    /\ LET a == Target(s)
       IN  Commit(FlushDue(View(s), a, seen[s][a], Rescheduled(seen[s][a], now)))
    /\ NextActor(s)
    /\ UNCHANGED now

-----------------------------------------------------------------------------
(***************************************************************************)
(* The poll of one actor: poll_all.                                        *)
(***************************************************************************)
StartPoll(s, a) ==
    /\ pc[s] = "idle"
    /\ \A p \in Passes : p = StartupPass => pc[p] = "ended"
    /\ Goto(s, "track")
    /\ batch' = [batch EXCEPT ![s] = <<a>>]
    /\ KeepRows /\ ReadOnly
    /\ UNCHANGED <<now, fill>>

\* A new actor is inserted, and the lock kept, before anything is fetched.
TrackPoll(s) ==
    /\ pc[s] = "track"
    /\ HasRow(s)
    /\ IF Tracked(seen[s][Target(s)])
       THEN ReadOnly
       ELSE CanWrite(s) /\ ~Conflict(s) /\ Write(s, Put(View(s), Target(s), NewRow(now)))
    /\ Goto(s, "todo")
    /\ Expire(s)
    /\ UNCHANGED <<now, batch, fill>>

\* The events of todo are fetched; storing the cursor takes the lock, and the
\* git fetch that follows runs with it.
PollTodo(s) ==
    /\ pc[s] = "todo"
    /\ CanWrite(s)
    /\ Write(s, View(s))
    /\ Goto(s, "git")
    /\ KeepRows
    /\ UNCHANGED <<now, batch, fill>>

\* git is polled too: a scheduled pass commits ...
IndexPass(s) ==
    /\ pc[s] = "git"
    /\ s \in Passes
    /\ CanWrite(s)
    /\ LET a == Target(s)
           held == Indexed(seen[s][a], now)
       IN  /\ Commit(FlushDue(View(s), a, seen[s][a], held))
           /\ Hold(s, a, held)
    /\ Goto(s, "reschedule")
    /\ UNCHANGED <<now, batch, fill>>

\* ... and a manual poll, which holds no row by now, goes on to the backfill.
IndexPoll(s) ==
    /\ pc[s] = "git"
    /\ s \in Posts
    /\ CanWrite(s)
    /\ LET a == Target(s)
           held == Indexed(View(s).rows[a], now)
       IN  Write(s, Put(View(s), a, held)) /\ Hold(s, a, held)
    /\ Goto(s, "backfill")
    /\ UNCHANGED <<now, batch, fill>>

FetchFails(s) ==
    /\ pc[s] \in {"todo", "git"}
    /\ Goto(s, "poll_failed")
    /\ KeepRows /\ ReadOnly
    /\ UNCHANGED <<now, batch, fill>>

-----------------------------------------------------------------------------
(***************************************************************************)
(* The backfill of one actor: _run_backfill_batches.                       *)
(***************************************************************************)
\* Mutant: the status is set but not flushed before the services begin.
BeginBackfill_NoFlush(s) ==
    /\ pc[s] = "backfill"
    /\ Goto(s, IF seen[s][Target(s)].backfill = "completed" THEN "finish" ELSE "open")
    /\ fill' = [fill EXCEPT ![s] = NoFill]
    /\ KeepRows /\ ReadOnly
    /\ UNCHANGED <<now, batch>>

BeginBackfill(s) ==
    /\ pc[s] = "backfill"
    /\ LET a == Target(s)
           held == [seen[s][a] EXCEPT !.backfill = "in_progress"]
       IN  IF seen[s][a].backfill = "completed"
           THEN Goto(s, "finish") /\ ReadOnly /\ KeepRows
           ELSE /\ Goto(s, "open")
                /\ Hold(s, a, held)
                /\ IF held = seen[s][a]
                   THEN ReadOnly
                   ELSE CanWrite(s) /\ Write(s, Flush(View(s), a, seen[s][a], held))
    /\ fill' = [fill EXCEPT ![s] = NoFill]
    /\ UNCHANGED <<now, batch>>

AfterServices(s) ==
    /\ pc[s] = "open"
    /\ fill[s].service > 2
    /\ Goto(s, "finish")
    /\ KeepRows /\ ReadOnly
    /\ UNCHANGED <<now, batch, fill>>

StateOf(s) == View(s).states[Target(s)][fill[s].service]
PutState(tables, a, v, state) == [tables EXCEPT !.states[a][v] = state]

SkipService(s) ==
    /\ pc[s] = "open"
    /\ fill[s].service \in Services
    /\ StateOf(s).status = "completed"
    /\ fill' = [fill EXCEPT ![s].service = @ + 1]
    /\ KeepRows /\ ReadOnly
    /\ UNCHANGED <<now, pc, batch>>

\* The state of the service is loaded, or inserted, and its batches begin.
OpenService(s) ==
    /\ pc[s] = "open"
    /\ fill[s].service \in Services
    /\ StateOf(s).status # "completed"
    /\ LET fresh == StateOf(s).status = "absent"
           state == IF fresh THEN [AbsentState EXCEPT !.status = "pending"]
                             ELSE StateOf(s)
       IN  /\ IF fresh
              THEN CanWrite(s) /\ Write(s, PutState(View(s), Target(s), fill[s].service, state))
              ELSE ReadOnly
           /\ fill' = [fill EXCEPT ![s].tries = BatchesPerService,
                                   ![s].base = state, ![s].cursor = state.cursor]
    /\ Goto(s, "fetch")
    /\ KeepRows
    /\ UNCHANGED <<now, batch>>

\* One batch: events go to the open transaction, of which they are the first
\* write unless there was one; the state is flushed after the last batch.
BatchComplete(s) == fill[s].cursor >= Length(fill[s].service)
LastBatch(s) == BatchComplete(s) \/ fill[s].tries <= 1

\* Mutant: the events of the last batch are dropped.
Stored_NotLast(s, tables) ==
    IF fill[s].cursor \in EventBatches /\ ~LastBatch(s)
    THEN [tables EXCEPT !.events[Target(s)][fill[s].service] = @ \cup {fill[s].cursor}]
    ELSE tables

Stored(s, tables) ==
    IF fill[s].cursor \in EventBatches
    THEN [tables EXCEPT !.events[Target(s)][fill[s].service] = @ \cup {fill[s].cursor}]
    ELSE tables

FlushedState(s, stored) ==
    [status |-> Net(stored.status, fill[s].base.status,
                    IF BatchComplete(s) THEN "completed" ELSE "in_progress"),
     cursor |-> fill[s].cursor + 1]

FetchBatch(s) ==
    /\ pc[s] = "fetch"
    /\ fill[s].cursor <= Batches
    /\ IF LastBatch(s)
       THEN /\ CanWrite(s)
            /\ Write(s, PutState(Stored(s, View(s)), Target(s), fill[s].service,
                                 FlushedState(s, StateOf(s))))
            /\ Goto(s, "open")
            /\ fill' = [fill EXCEPT ![s] = [NoFill EXCEPT !.service = fill[s].service + 1]]
       ELSE /\ IF fill[s].cursor \in EventBatches
               THEN CanWrite(s) /\ Write(s, Stored(s, View(s)))
               ELSE ReadOnly
            /\ fill' = [fill EXCEPT ![s].cursor = @ + 1, ![s].tries = @ - 1]
            /\ UNCHANGED pc
    /\ KeepRows
    /\ UNCHANGED <<now, batch>>

\* The fetch raises: the failure is flushed, and the exception goes on.
FailBatch(s) ==
    /\ pc[s] = "fetch"
    /\ CanWrite(s)
    /\ LET a == Target(s)
           row == [seen[s][a] EXCEPT !.backfill = "error"]
           state == [StateOf(s) EXCEPT !.status = "error"]
       IN  Write(s, PutState(Flush(View(s), a, seen[s][a], row),
                             a, fill[s].service, state))
    /\ Goto(s, "backfill_failed")
    /\ KeepRows
    /\ UNCHANGED <<now, batch, fill>>

\* The backfill of an actor is complete when that of both services is; a pass
\* then schedules the next poll, and the transaction ends.
\* Mutant: the first service is enough.
AllComplete_First(tables, a) == tables.states[a][1].status = "completed"

AllComplete(tables, a) ==
    \A v \in Services : tables.states[a][v].status = "completed"

FinishBackfill(s) ==
    /\ pc[s] = "finish"
    /\ CanWrite(s)
    /\ LET a == Target(s)
           held == IF AllComplete(View(s), a)
                   THEN [seen[s][a] EXCEPT !.backfill = "completed"]
                   ELSE seen[s][a]
           tables == Flush(View(s), a, seen[s][a], held)
       IN  IF s \in Passes
           THEN Commit(FlushDue(tables, a, held, Rescheduled(held, now))) /\ NextActor(s)
           ELSE Commit(tables) /\ Close(s)
    /\ UNCHANGED now

-----------------------------------------------------------------------------
(***************************************************************************)
(* Failures.                                                               *)
(***************************************************************************)
\* The exception leaves the poll: rollback, which expires every row.  That of
\* the backfill of a manual poll reaches the route, and ends the session.
Abandon(s) ==
    /\ pc[s] \in {"poll_failed", "backfill_failed"}
    /\ Rollback(s)
    /\ IF pc[s] = "backfill_failed" /\ s \in Posts
       THEN Close(s)
       ELSE /\ Goto(s, IF pc[s] = "poll_failed" THEN "poll_error" ELSE "backfill_error")
            /\ Expire(s)
            /\ fill' = [fill EXCEPT ![s] = NoFill]
            /\ UNCHANGED batch
    /\ UNCHANGED now

RecordError(s) ==
    /\ pc[s] \in {"poll_error", "backfill_error"}
    /\ HasRow(s)
    /\ CanWrite(s)
    /\ ~Conflict(s)
    /\ LET a == Target(s)
       IN  Commit(FlushDue(View(s), a, seen[s][a], Errored(seen[s][a], now)))
    /\ IF s \in Passes THEN NextActor(s) ELSE Close(s)
    /\ UNCHANGED now

\* The INSERT of an actor that another session has inserted since.
InsertFails(s) ==
    /\ pc[s] \in {"default", "track", "poll_error", "get", "get_boosted"}
    /\ HasRow(s)
    /\ Conflict(s)
    /\ Close(s)
    /\ ReadOnly
    /\ UNCHANGED now

\* The labels at which a session is about to write, but not to its own lock.
\* Mutant: no busy timeout, a session waits for the lock forever.
NeedsLock_Patient(s) == FALSE

NeedsLock(s) ==
    \/ pc[s] \in {"next", "poll_error", "backfill_error", "get", "get_boosted"} /\ HasRow(s)
    \/ pc[s] \in {"default", "track"} /\ HasRow(s) /\ ~Tracked(seen[s][Target(s)])
    \/ pc[s] \in {"todo", "reschedule", "fetch", "finish"}
    \/ pc[s] = "backfill" /\ seen[s][Target(s)].backfill # "in_progress"

\* "database is locked": the wait for another session's lock is over.  In a
\* poll it is one more failure; anywhere else it ends the session.
BusyTimeout(s) ==
    /\ ~CanWrite(s)
    /\ NeedsLock(s)
    /\ CASE pc[s] = "todo" ->
               Goto(s, "poll_failed") /\ KeepRows /\ UNCHANGED <<batch, fill>>
         [] pc[s] \in {"backfill", "fetch", "finish"} ->
               Goto(s, "backfill_failed") /\ KeepRows /\ UNCHANGED <<batch, fill>>
         [] OTHER -> Close(s)
    /\ ReadOnly
    /\ UNCHANGED now

-----------------------------------------------------------------------------
(***************************************************************************)
(* A contribution read: registers the actor, boosts it when asked to.      *)
(***************************************************************************)
StartGet(s, a, prioritize) ==
    /\ pc[s] = "idle"
    /\ \A p \in Passes : p = StartupPass => pc[p] = "ended"
    /\ Goto(s, IF prioritize THEN "get_boosted" ELSE "get")
    /\ batch' = [batch EXCEPT ![s] = <<a>>]
    /\ KeepRows /\ ReadOnly
    /\ UNCHANGED <<now, fill>>

\* last_requested_at changes with every read, so every read writes.
AnswerGet(s) ==
    /\ pc[s] \in {"get", "get_boosted"}
    /\ HasRow(s)
    /\ CanWrite(s)
    /\ ~Conflict(s)
    /\ LET a == Target(s)
           boost == pc[s] = "get_boosted"
           row == TrackRequest(seen[s][a], now, boost)
       IN  Commit(IF boost THEN FlushDue(View(s), a, seen[s][a], row)
                           ELSE Flush(View(s), a, seen[s][a], row))
    /\ Close(s)
    /\ UNCHANGED now

-----------------------------------------------------------------------------
\* The process dies and starts again: nothing of its sessions survives.
Crash ==
    /\ \E s \in Sessions : pc[s] # "idle"
    /\ lock' = NoSession
    /\ work' = disk
    /\ pc' = [s \in Sessions |-> "idle"]
    /\ batch' = [s \in Sessions |-> <<>>]
    /\ loaded' = [s \in Sessions |-> {}]
    /\ seen' = [s \in Sessions |-> [a \in Actors |-> AbsentRow]]
    /\ fill' = [s \in Sessions |-> NoFill]
    /\ UNCHANGED <<now, disk>>

Tick ==
    /\ now < MaxClock
    /\ now' = now + 1
    /\ UNCHANGED <<disk, work, lock, pc, batch, loaded, seen, fill>>

PassStep(s) ==
    \/ StartPass(s) \/ TrackDefault(s) \/ Select(s) \/ Claim(s)
    \/ IndexPass(s) \/ Reschedule(s) \/ EndPass(s)

PostStep(s) ==
    \/ \E a \in Actors : StartPoll(s, a)
    \/ TrackPoll(s) \/ IndexPoll(s)

GetStep(s) ==
    \/ \E a \in Actors, prioritize \in BOOLEAN : StartGet(s, a, prioritize)
    \/ AnswerGet(s)

\* What passes and manual polls have in common.
PollStep(s) ==
    \/ PollTodo(s) \/ FetchFails(s)
    \/ BeginBackfill(s) \/ AfterServices(s) \/ SkipService(s) \/ OpenService(s)
    \/ FetchBatch(s) \/ FailBatch(s) \/ FinishBackfill(s)
    \/ Abandon(s) \/ RecordError(s)

Next ==
    \/ \E s \in Passes : PassStep(s)
    \/ \E s \in Posts : PostStep(s)
    \/ \E s \in Gets : GetStep(s)
    \/ \E s \in Passes \cup Posts : PollStep(s)
    \/ \E s \in Sessions : Load(s) \/ InsertFails(s) \/ BusyTimeout(s)
    \/ Crash
    \/ Tick

Spec == Init /\ [][Next]_vars

(***************************************************************************)
(* Fairness: a thread goes on; a pass is started again (the interval job)  *)
(* and every call of SourceHut ends, with an answer or an error, since the *)
(* HTTP client has a timeout.  Whoever waits for the lock gets it, or the  *)
(* busy timeout ends the wait.                                             *)
(***************************************************************************)
Continue(s) ==
    \/ s \in Passes /\ PassStep(s)
    \/ s \in Passes \cup Posts /\ PollStep(s)
    \/ s \in Posts /\ (TrackPoll(s) \/ IndexPoll(s))
    \/ s \in Gets /\ AnswerGet(s)
    \/ Load(s) \/ InsertFails(s) \/ BusyTimeout(s)

FairSpec == Spec /\ \A s \in Sessions : WF_vars(Continue(s))

-----------------------------------------------------------------------------
TypeOK ==
    /\ now \in 0..MaxClock
    /\ disk \in Tables
    /\ work \in Tables
    /\ lock \in Sessions \cup {NoSession}
    /\ pc \in [Sessions -> Labels]
    /\ batch \in [Sessions -> Seq(Actors)]
    /\ loaded \in [Sessions -> SUBSET Actors]
    /\ seen \in [Sessions -> [Actors -> Row]]
    /\ fill \in [Sessions -> Fill]

\* A transaction is left open only across a call of SourceHut, never by a
\* session that has gone on to another actor, to an error report or to rest:
\* every way out of a poll commits or rolls back.
LockLabels == {"todo", "git", "backfill", "open", "fetch", "finish",
               "poll_failed", "backfill_failed"}
LockIsReleased == lock # NoSession => pc[lock] \in LockLabels

\* A transaction never spans two actors: what is rolled back when the poll of
\* one fails, or lost when the process dies, is not the work on another.
TransactionIsOneActor ==
    \A a \in Actors :
        \/ disk.rows[a] # work.rows[a]
        \/ disk.states[a] # work.states[a]
        \/ disk.events[a] # work.events[a]
        => lock # NoSession /\ batch[lock] # <<>> /\ a = Target(lock)

\* A session about to insert a row of service_backfill_states has the lock
\* already, so the SELECT that found none cannot be overtaken by another
\* session's INSERT (which would fail the unique constraint).
StateInsertIsSafe ==
    \A s \in Passes \cup Posts :
        pc[s] = "open" /\ fill[s].service \in Services
            => (StateOf(s).status = "absent" => lock = s)

\* The committed cursor of a backfill vouches for the events before it: they
\* are committed as well, whatever was rolled back, lost or fetched twice.
CursorIsBacked ==
    \A a \in Actors, v \in Services :
        EventBatches \cap 1..(disk.states[a][v].cursor - 1) \subseteq disk.events[a][v]

\* The backfill of an actor reads "completed" only when that of both services
\* is, and theirs only when the cursor is past the last batch.
CompletedIsComplete ==
    \A a \in Actors :
        /\ disk.rows[a].backfill = "completed" =>
              \A v \in Services : disk.states[a][v].status = "completed"
        /\ \A v \in Services :
              disk.states[a][v].status = "completed" =>
                  EventBatches \cap 1..Length(v) \subseteq disk.events[a][v]

\* A completed backfill is not reopened, not even by a session that loaded
\* the row before it was completed.
CompletedIsFinal ==
    [][\A a \in Actors :
          /\ disk.rows[a].backfill = "completed" => disk'.rows[a].backfill = "completed"
          /\ \A v \in Services :
                disk.states[a][v].status = "completed"
                    => disk'.states[a][v].status = "completed"]_vars

\* No actor leaves the queue: whatever sessions fail, die or overwrite each
\* other's columns, a tracked actor is due within the longest delay there is.
DueWithinHorizon ==
    \A a \in Actors : Tracked(disk.rows[a]) => disk.rows[a].due <= now + Horizon

WorksOn(s, a) == \E i \in DOMAIN batch[s] : batch[s][i] = a

\* Never two passes or manual polls at once that have the actor before them.
Alone(a) == \A s, t \in Passes \cup Posts : WorksOn(s, a) /\ WorksOn(t, a) => s = t

DeadClaim(a) == disk.rows[a].state = "in_progress" /\ ~\E s \in Passes : WorksOn(s, a)

DeadClaimIsDue ==
    \A a \in Actors :
        []Alone(a) => [](DeadClaim(a) => disk.rows[a].due <= now)

\* Passes end: the scheduler never runs two instances of the job, so one that
\* did not end would be the last.
PassEnds == \A s \in Passes : pc[s] = "next" ~> pc[s] \in {"idle", "ended"}

\* A read is answered, if with an error: nobody waits for the lock forever.
GetEnds == \A s \in Gets : pc[s] = "get" ~> pc[s] = "idle"

-----------------------------------------------------------------------------
(***************************************************************************)
(* What the documentation and the tests say, and the code does not do.     *)
(***************************************************************************)
\* tests/test_ingestion.py: a boosted actor is due from the boost on.
BoostedIsDue ==
    \A a \in Actors :
        disk.rows[a].boosted # Never => disk.rows[a].due <= disk.rows[a].boosted

\* API.txt: the backfill state is "error" when the last attempt failed.
BackfillErrorIsRecorded ==
    [][\A s \in Sessions :
          pc[s] = "backfill_error" /\ RecordError(s)
              => disk'.rows[Target(s)].backfill = "error"]_vars
=============================================================================
