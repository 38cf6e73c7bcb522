---------------------------- MODULE PollSchedule ----------------------------
(***************************************************************************)
(* The queue of tracked actors in the long run: the interval job, whose    *)
(* passes take a bounded batch in the order of the queue, the reads that   *)
(* boost an actor, and the script that queues actors in bulk.  The         *)
(* question is who gets a turn.                                            *)
(*                                                                         *)
(* A run never ends here, so time is not counted but relative: `Present`   *)
(* is always now, and Elapse moves the timestamps of all rows into the     *)
(* past.  Of a time past only the order matters, so times past are ranked. *)
(* What takes a timestamp takes it later than every one there is.          *)
(*                                                                         *)
(* Transactions, lock waits and overlapping passes are in PollQueue; here  *)
(* one pass is under way at a time, and a poll is one step.                *)
(***************************************************************************)
EXTENDS ActorRow, Sequences, FiniteSets, Functions

CONSTANTS
    Actors,
    File,                \* the actors in the script's file, in order
    Stagger,             \* how far it puts off the first poll at most
    BatchSize,           \* discovery_batch_size
    BackfillPasses,      \* passes that the backfill of an actor takes
    MaxDisturbances      \* bound: boosts, deaths of the process and script runs

ASSUME ScheduleAssumption ==
    /\ IsFiniteSet(Actors) /\ File \in Seq(Actors)
    /\ {Stagger, BatchSize, BackfillPasses} \subseteq Nat
    /\ BatchSize > 0 /\ BackfillPasses > 0 /\ MaxDisturbances \in Nat

VARIABLES
    rows,          \* tracked_actors
    left,          \* passes that the backfill of an actor still takes
    queue,         \* the batch of the pass, the actor it works on first
    seen,          \* the rows in its identity map
    job,           \* where it stands
    script,        \* the rows the script has loaded, in the order of its file
    disturbances

vars == <<rows, left, queue, seen, job, script, disturbances>>

NoRows == [a \in {} |-> AbsentRow]
Present == Cardinality(Actors) + 1

Init ==
    /\ rows = [a \in Actors |-> AbsentRow]
    /\ left = [a \in Actors |-> BackfillPasses]
    /\ queue = <<>> /\ seen = NoRows /\ job = "idle"
    /\ script = <<>> /\ disturbances = 0

-----------------------------------------------------------------------------
\* The rank of time t among the times past, the latest of them just before Present.
Ranked(t, past) == Present - Cardinality({u \in past : u >= t})

Elapse(table) ==
    LET dues == {table[a].due - 1 : a \in Actors}
        boosts == {table[a].boosted : a \in Actors} \ {Never}
    IN  [a \in Actors |->
            IF ~Tracked(table[a]) THEN AbsentRow
            ELSE [table[a] EXCEPT
                    !.due = IF @ > Present THEN @ - 1
                            ELSE Ranked(@ - 1, {d \in dues : d < Present}),
                    !.boosted = IF @ = Never THEN Never ELSE Ranked(@, boosts)]]

Later == Elapse(rows)
Put(a, row) == rows' = [Later EXCEPT ![a] = row]

\* The identity map: only whether an attribute changed matters later on.
Remembered(row) == [row EXCEPT !.due = 0, !.boosted = IF @ = Never THEN Never ELSE 0]

Tick ==
    /\ rows' = Later
    /\ UNCHANGED <<left, queue, seen, job, script, disturbances>>

-----------------------------------------------------------------------------
\* A pass of the interval job, when there is something for it to do.
StartPass ==
    /\ job = "idle"
    /\ \E batch \in Selections(rows, Present, BatchSize) :
          /\ batch # <<>>
          /\ queue' = batch
          /\ seen' = [a \in Range(batch) |-> Remembered(rows[a])]
    /\ job' = "next"
    /\ UNCHANGED <<rows, left, script, disturbances>>

\* The row as the session holds it: loaded again after a rollback.
Held(a) == IF a \in DOMAIN seen THEN seen[a] ELSE Remembered(rows[a])

Claim ==
    /\ job = "next" /\ queue # <<>>
    /\ LET a == Head(queue)
       IN  /\ rows' = [rows EXCEPT ![a] = Merge(@, Held(a), Claimed(Held(a)))]
           /\ seen' = [b \in DOMAIN seen \cup {a} |->
                          IF b = a THEN Claimed(Held(a)) ELSE seen[b]]
           /\ job' = IF BackfillOnly(Held(a)) THEN "backfill" ELSE "poll"
    /\ UNCHANGED <<left, queue, script, disturbances>>

EndPass ==
    /\ job = "next" /\ queue = <<>>
    /\ job' = "idle" /\ seen' = NoRows
    /\ UNCHANGED <<rows, left, queue, script, disturbances>>

Done == queue' = Tail(queue) /\ job' = "next"

\* An incremental poll, and the scheduling of the backfill after it.
Poll ==
    /\ job = "poll"
    /\ LET a == Head(queue)
           polled == Indexed(seen[a], Present)
           held == Rescheduled(polled, Present)
       IN  /\ Put(a, Stamp(Stamp(Later[a], seen[a], polled), polled, held))
           /\ seen' = [seen EXCEPT ![a] = Remembered(held)]
    /\ Done
    /\ UNCHANGED <<left, script, disturbances>>

\* The batches of a backfill that one pass fetches.
Backfill ==
    /\ job = "backfill"
    /\ LET a == Head(queue)
           held == Rescheduled([seen[a] EXCEPT
                       !.backfill = IF left[a] > 1 THEN "in_progress" ELSE "completed"],
                       Present)
       IN  /\ Put(a, Stamp(Later[a], seen[a], held))
           /\ seen' = [seen EXCEPT ![a] = Remembered(held)]
           /\ left' = [left EXCEPT ![a] = IF @ > 0 THEN @ - 1 ELSE 0]
    /\ Done
    /\ UNCHANGED <<script, disturbances>>

\* A poll or a batch fails: the rollback expires every row.
Fails ==
    /\ job \in {"poll", "backfill"}
    /\ job' = IF job = "poll" THEN "poll_failed" ELSE "backfill_failed"
    /\ seen' = NoRows
    /\ UNCHANGED <<rows, left, queue, script, disturbances>>

\* The error is written over the row as it is then.
RecordError ==
    /\ job \in {"poll_failed", "backfill_failed"}
    /\ Put(Head(queue), Errored(Later[Head(queue)], Present))
    /\ seen' = [a \in {Head(queue)} |-> Remembered(rows'[a])]
    /\ Done
    /\ UNCHANGED <<left, script, disturbances>>

-----------------------------------------------------------------------------
Disturb == disturbances < MaxDisturbances /\ disturbances' = disturbances + 1

\* A contribution read that registers an actor,
Register(a) ==
    /\ ~Tracked(rows[a])
    /\ Put(a, TrackRequest(rows[a], Present, FALSE))
    /\ UNCHANGED <<left, queue, seen, job, script, disturbances>>

\* or boosts one.
Boost(a) ==
    /\ Disturb
    /\ Put(a, TrackRequest(Later[a], Present, TRUE))
    /\ UNCHANGED <<left, queue, seen, job, script>>

Die ==
    /\ job # "idle" \/ script # <<>>
    /\ Disturb
    /\ queue' = <<>> /\ seen' = NoRows /\ job' = "idle" /\ script' = <<>>
    /\ UNCHANGED <<rows, left>>

\* The script SELECTs the rows one by one and writes them with one commit.
ScriptLoad ==
    /\ Len(script) < Len(File)
    /\ script = <<>> => Disturb
    /\ script # <<>> => UNCHANGED disturbances
    /\ script' = Append(script, Remembered(rows[File[Len(script) + 1]]))
    /\ UNCHANGED <<rows, left, queue, seen, job>>

\* What the script makes of a row.
Enqueued(row, due) ==
    IF row.polled \/ row.state = "indexed" THEN row
    ELSE [row EXCEPT !.state = "queued", !.due = due]

\* An actor that is not yet known, or has not yet been polled, becomes due when
\* its turn in the file comes: by now in the past, or still to come.  An INSERT
\* of an actor registered since fails the whole batch.
ScriptCommit ==
    /\ script # <<>> /\ Len(script) = Len(File)
    /\ \E turn \in [DOMAIN File -> {0, Present + Stagger}] :
          LET Written(i) == Enqueued(script[i], turn[i])
              Known(i) == Tracked(rows[File[i]])
          IN  rows' =
              IF \E i \in DOMAIN File : Known(i) /\ ~Tracked(script[i]) THEN rows
              ELSE [a \in Actors |->
                      IF \E i \in DOMAIN File : File[i] = a
                      THEN LET i == CHOOSE i \in DOMAIN File : File[i] = a
                           IN  IF ~Known(i) THEN Written(i)
                               ELSE IF Written(i) = script[i] THEN Later[a]
                               ELSE [Merge(Later[a], script[i], Written(i))
                                        EXCEPT !.due = turn[i]]
                      ELSE Later[a]]
    /\ script' = <<>>
    /\ UNCHANGED <<left, queue, seen, job, disturbances>>

Pass == StartPass \/ Claim \/ Poll \/ Backfill \/ Fails \/ RecordError \/ EndPass

Next ==
    \/ Tick \/ Pass \/ Die \/ ScriptLoad \/ ScriptCommit
    \/ \E a \in Actors : Register(a) \/ Boost(a)

\* The scheduler triggers the job again and again, every poll ends, and time passes.
Spec == Init /\ [][Next]_vars /\ WF_vars(Tick) /\ WF_vars(Pass)

-----------------------------------------------------------------------------
TypeOK ==
    /\ rows \in [Actors -> Row]
    /\ left \in [Actors -> 0..BackfillPasses]
    /\ queue \in Seq(Actors)
    /\ job \in {"idle", "next", "poll", "backfill", "poll_failed", "backfill_failed"}
    /\ DOMAIN seen \subseteq Actors /\ Len(script) <= Len(File)
    /\ disturbances \in 0..MaxDisturbances

At(label, a) == job = label /\ Head(queue) = a

\* No actor starves: however small the batch, whoever is boosted, put off by the
\* script, failing or never done with its backfill, everyone gets a turn and then
\* another.
EveryoneIsServed == \A a \in Actors : Tracked(rows[a]) ~> At("poll", a) \/ At("backfill", a)

\* An actor is polled for new events again and again, or else its backfill fails
\* again and again: a pass that goes on with the backfill does nothing else.
EveryoneStaysCurrent ==
    \A a \in Actors : Tracked(rows[a]) ~> At("poll", a) \/ At("backfill_failed", a)
=============================================================================
