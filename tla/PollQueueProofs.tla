--------------------------- MODULE PollQueueProofs ---------------------------
(***************************************************************************)
(* Type correctness of the poll queue and the bound on due times, for any  *)
(* sets of actors and sessions and any settings.  They are proved together *)
(* as one inductive invariant: the bound on a row that a session writes    *)
(* comes from the attributes it holds, and the type of a step that works   *)
(* on the target of a session from there being one.  A second part is      *)
(* about the write lock.                                                   *)
(***************************************************************************)
EXTENDS PollQueue, SequenceTheorems, TLAPS

(* What the operators on a row return: rows, with a due time within reach. *)

\* A row whose due time lies no farther ahead of t than the longest delay.
InReach(row, t) == row.due <= t + Horizon

LEMMA HorizonIsNat == Horizon \in Nat
BY SettingsAssumption DEF Horizon

LEMMA AbsentRowIsRow == AbsentRow \in Row
BY AttemptCapAssumption
DEF AbsentRow, Row, DiscoveryStates, BackfillStatuses, Never

LEMMA NewRowIsRow ==
    ASSUME NEW t \in Nat
    PROVE  NewRow(t) \in Row /\ NewRow(t).due = t
BY AbsentRowIsRow DEF NewRow, AbsentRow, Row, DiscoveryStates

\* The backoff of _update_tracked_actor_poll_state is capped: it never exceeds
\* discovery_error_backoff_max_seconds, however many attempts failed.
LEMMA BackoffIsBounded ==
    ASSUME NEW n \in Nat
    PROVE  Backoff(n) \in Nat /\ Backoff(n) <= BackoffMaxSeconds
<1>1. BackoffSeconds \in Nat /\ BackoffMaxSeconds \in Nat
  BY SettingsAssumption
<1>2. BackoffSeconds * (IF n < 1 THEN 1 ELSE n) \in Nat
  <2>1. (IF n < 1 THEN 1 ELSE n) \in Nat
    OBVIOUS
  <2>2. \A x, y \in Nat : x * y \in Nat
    OBVIOUS
  <2> QED BY <1>1, <2>1, <2>2
<1> QED BY <1>1, <1>2 DEF Backoff

LEMMA TrackRequestIsRow ==
    ASSUME NEW row \in Row, NEW t \in Nat, NEW prioritize \in BOOLEAN
    PROVE  /\ TrackRequest(row, t, prioritize) \in Row
           /\ InReach(row, t) => InReach(TrackRequest(row, t, prioritize), t)
           /\ Tracked(TrackRequest(row, t, prioritize))
<1> DEFINE known == IF Tracked(row) THEN row ELSE NewRow(t)
<1>1. NewRow(t) \in Row /\ NewRow(t).due = t /\ NewRow(t).state = "queued"
  BY NewRowIsRow DEF NewRow, AbsentRow
<1>2. known \in Row /\ known.state # "absent"
  BY <1>1 DEF Tracked
<1>3. InReach(row, t) => InReach(known, t)
  BY <1>1, HorizonIsNat DEF InReach
<1>4. TrackRequest(row, t, prioritize) =
        IF prioritize THEN [known EXCEPT !.boosted = t, !.due = t] ELSE known
  BY DEF TrackRequest
<1> HIDE DEF known
<1>5. /\ [known EXCEPT !.boosted = t, !.due = t] \in Row
      /\ [known EXCEPT !.boosted = t, !.due = t].due = t
      /\ [known EXCEPT !.boosted = t, !.due = t].state = known.state
  BY <1>2 DEF Row
<1>6. CASE prioritize
  BY <1>2, <1>4, <1>5, <1>6, HorizonIsNat DEF InReach, Tracked
<1>7. CASE ~prioritize
  BY <1>2, <1>3, <1>4, <1>7 DEF Tracked
<1> QED BY <1>6, <1>7

LEMMA ClaimedIsRow ==
    ASSUME NEW row \in Row
    PROVE  Claimed(row) \in Row /\ Claimed(row).due = row.due
<1> DEFINE attempts == IF row.attempts < AttemptCap THEN row.attempts + 1 ELSE AttemptCap
<1>1. attempts \in 0..AttemptCap
  BY AttemptCapAssumption DEF Row
<1>2. Claimed(row) = [row EXCEPT !.state = "in_progress", !.attempts = attempts]
  BY DEF Row, Claimed
<1> HIDE DEF attempts
<1> QED BY <1>1, <1>2 DEF Row, DiscoveryStates

LEMMA IndexedIsRow ==
    ASSUME NEW row \in Row, NEW t \in Nat
    PROVE  Indexed(row, t) \in Row /\ InReach(Indexed(row, t), t)
<1> DEFINE known == TrackRequest(row, t, FALSE)
           due == t + RepollSeconds
<1>1. known \in Row
  BY TrackRequestIsRow
<1>2. due \in Nat /\ due <= t + Horizon
  BY SettingsAssumption DEF Horizon
<1>3. 0 \in 0..AttemptCap
  BY AttemptCapAssumption
<1>4. Indexed(row, t) = [known EXCEPT !.state = "indexed", !.polled = TRUE,
                            !.due = due, !.boosted = Never, !.attempts = 0]
  BY DEF Indexed
<1> HIDE DEF known, due
<1> QED BY <1>1, <1>2, <1>3, <1>4 DEF Row, InReach, DiscoveryStates

LEMMA ErroredIsRow ==
    ASSUME NEW row \in Row, NEW t \in Nat
    PROVE  Errored(row, t) \in Row /\ InReach(Errored(row, t), t)
<1> DEFINE known == TrackRequest(row, t, FALSE)
           due == t + Backoff(known.attempts)
<1>1. known \in Row
  BY TrackRequestIsRow
<1>2. known.attempts \in Nat
  <2> HIDE DEF known
  <2>1. known.attempts \in 0..AttemptCap
    BY <1>1 DEF Row
  <2>2. AttemptCap \in Nat
    BY AttemptCapAssumption
  <2> QED BY <2>1, <2>2
<1>3. Backoff(known.attempts) \in Nat /\ Backoff(known.attempts) <= BackoffMaxSeconds
  BY <1>2, BackoffIsBounded
<1>4. BackoffMaxSeconds <= Horizon
  BY SettingsAssumption DEF Horizon
<1> HIDE DEF known
<1>5. due \in Nat /\ due <= t + Horizon
  BY <1>3, <1>4, HorizonIsNat, SettingsAssumption
<1>6. Errored(row, t) = [known EXCEPT !.state = "error", !.boosted = Never, !.due = due]
  BY DEF Errored, known
<1> HIDE DEF due
<1> QED BY <1>1, <1>5, <1>6 DEF Row, InReach, DiscoveryStates

LEMMA RescheduledIsRow ==
    ASSUME NEW row \in Row, NEW t \in Nat
    PROVE  Rescheduled(row, t) \in Row /\ InReach(Rescheduled(row, t), t)
<1> DEFINE known == TrackRequest(row, t, FALSE)
           due == IF row.backfill = "completed" THEN t + RepollSeconds ELSE t
<1>1. known \in Row
  BY TrackRequestIsRow
<1>2. due \in Nat /\ due <= t + Horizon
  BY SettingsAssumption DEF Horizon
<1>3. 0 \in 0..AttemptCap
  BY AttemptCapAssumption
<1>4. Rescheduled(row, t) = [known EXCEPT !.state = "indexed", !.boosted = Never,
                                          !.attempts = 0, !.due = due]
  BY DEF Rescheduled
<1> HIDE DEF known, due
<1> QED BY <1>1, <1>2, <1>3, <1>4 DEF Row, InReach, DiscoveryStates

LEMMA MergeIsRow ==
    ASSUME NEW stored \in Row, NEW base \in Row, NEW held \in Row
    PROVE  /\ Merge(stored, base, held) \in Row
           /\ held.due = base.due => Merge(stored, base, held).due = stored.due
BY DEF Merge, Net, Row

LEMMA StampIsRow ==
    ASSUME NEW stored \in Row, NEW base \in Row, NEW held \in Row
    PROVE  /\ Stamp(stored, base, held) \in Row
           /\ Stamp(stored, base, held).due = held.due
<1>1. Merge(stored, base, held) \in Row
  BY MergeIsRow
<1> QED BY <1>1 DEF Stamp, Row

-----------------------------------------------------------------------------
\* Labels at which a session works on the first actor of its batch.
WorkLabels == Labels \ {"idle", "ended", "select", "next"}

HasTarget == \A s \in Sessions : pc[s] \in WorkLabels => batch[s] # <<>>

\* A batch is fetched for a service, and counted.
HasService == \A s \in Sessions :
    pc[s] = "fetch" => fill[s].service \in Services /\ fill[s].tries >= 1

\* Committed, uncommitted and remembered due times alike.
AllInReach(tables) == \A a \in Actors : InReach(tables.rows[a], now)
DueInReach ==
    /\ AllInReach(disk)
    /\ AllInReach(work)
    /\ \A s \in Sessions, a \in Actors : InReach(seen[s][a], now)

QueueInv == TypeOK /\ HasTarget /\ HasService /\ DueInReach

-----------------------------------------------------------------------------
\* The two halves of the invariant a step may disturb.
DatabaseOK ==
    /\ disk \in Tables /\ AllInReach(disk)
    /\ work \in Tables /\ AllInReach(work)
    /\ lock \in Sessions \cup {NoSession}

SessionsOK ==
    /\ pc \in [Sessions -> Labels]
    /\ batch \in [Sessions -> Seq(Actors)]
    /\ loaded \in [Sessions -> SUBSET Actors]
    /\ seen \in [Sessions -> [Actors -> Row]]
    /\ \A s \in Sessions, a \in Actors : InReach(seen[s][a], now)
    /\ fill \in [Sessions -> Fill]
    /\ HasTarget

LEMMA Halves ==
    QueueInv <=> now \in 0..MaxClock /\ DatabaseOK /\ SessionsOK /\ HasService
BY DEF QueueInv, TypeOK, DueInReach, DatabaseOK, SessionsOK

LEMMA MaxClockIsNat == MaxClock \in Nat
BY BoundsAssumption

LEMMA AbsentRowInReach == ASSUME NEW t \in Nat PROVE InReach(AbsentRow, t)
BY HorizonIsNat DEF InReach, AbsentRow

-----------------------------------------------------------------------------
(* Tables. *)
LEMMA PutIsTables ==
    ASSUME NEW tables \in Tables, NEW a \in Actors, NEW row \in Row
    PROVE  /\ Put(tables, a, row) \in Tables
           /\ Put(tables, a, row).rows = [tables.rows EXCEPT ![a] = row]
BY DEF Put, Tables

LEMMA PutInReach ==
    ASSUME NEW tables \in Tables, NEW a \in Actors, NEW row \in Row,
           AllInReach(tables), InReach(row, now)
    PROVE  AllInReach(Put(tables, a, row))
<1>1. Put(tables, a, row).rows = [tables.rows EXCEPT ![a] = row]
  BY PutIsTables
<1>2. tables.rows \in [Actors -> Row]
  BY DEF Tables
<1> QED BY <1>1, <1>2 DEF AllInReach

LEMMA FlushIsTables ==
    ASSUME NEW tables \in Tables, NEW a \in Actors, NEW base \in Row, NEW held \in Row,
           AllInReach(tables), InReach(held, now), held.due = base.due \/ ~Tracked(base)
    PROVE  Flush(tables, a, base, held) \in Tables /\ AllInReach(Flush(tables, a, base, held))
<1> DEFINE row == IF Tracked(base) THEN Merge(tables.rows[a], base, held) ELSE held
<1>1. tables.rows[a] \in Row /\ InReach(tables.rows[a], now)
  BY DEF Tables, AllInReach
<1>2. row \in Row /\ InReach(row, now)
  BY <1>1, MergeIsRow DEF InReach
<1>3. Flush(tables, a, base, held) = Put(tables, a, row)
  BY DEF Flush
<1> HIDE DEF row
<1>4. Put(tables, a, row) \in Tables
  BY <1>2, PutIsTables
<1>5. AllInReach(Put(tables, a, row))
  BY <1>2, PutInReach
<1> QED BY <1>3, <1>4, <1>5

LEMMA FlushDueIsTables ==
    ASSUME NEW tables \in Tables, NEW a \in Actors, NEW base \in Row, NEW held \in Row,
           AllInReach(tables), InReach(held, now)
    PROVE  FlushDue(tables, a, base, held) \in Tables /\ AllInReach(FlushDue(tables, a, base, held))
<1> DEFINE row == IF Tracked(base) THEN Stamp(tables.rows[a], base, held) ELSE held
<1>1. tables.rows[a] \in Row
  BY DEF Tables
<1>2. row \in Row /\ InReach(row, now)
  BY <1>1, StampIsRow DEF InReach
<1>3. FlushDue(tables, a, base, held) = Put(tables, a, row)
  BY DEF FlushDue
<1> HIDE DEF row
<1>4. Put(tables, a, row) \in Tables
  BY <1>2, PutIsTables
<1>5. AllInReach(Put(tables, a, row))
  BY <1>2, PutInReach
<1> QED BY <1>3, <1>4, <1>5

LEMMA PutStateIsTables ==
    ASSUME NEW tables \in Tables, NEW a \in Actors, NEW v \in Services,
           NEW state \in BackfillState, AllInReach(tables)
    PROVE  /\ PutState(tables, a, v, state) \in Tables
           /\ AllInReach(PutState(tables, a, v, state))
BY DEF PutState, Tables, AllInReach

LEMMA StoredIsTables ==
    ASSUME NEW tables \in Tables, NEW s \in Sessions, Target(s) \in Actors,
           fill[s].service \in Services, AllInReach(tables)
    PROVE  Stored(s, tables) \in Tables /\ AllInReach(Stored(s, tables))
<1>1. EventBatches \subseteq 1..Batches
  BY BoundsAssumption
<1>2. CASE fill[s].cursor \in EventBatches
  <2> DEFINE a == Target(s)
             v == fill[s].service
             c == fill[s].cursor
  <2>1. Stored(s, tables) = [tables EXCEPT !.events[a][v] = @ \cup {c}]
    BY <1>2 DEF Stored
  <2>2. c \in 1..Batches /\ a \in Actors /\ v \in Services
    BY <1>1, <1>2
  <2> DEFINE stored == tables.events[a][v] \cup {c}
  <2>3. Stored(s, tables) = [tables EXCEPT !.events[a][v] = stored]
    BY <2>1, <2>2 DEF Tables
  <2> HIDE DEF a, v, c
  <2>4. stored \in SUBSET (1..Batches)
    BY <2>2 DEF Tables
  <2> HIDE DEF stored
  <2>5. [tables EXCEPT !.events[a][v] = stored] \in Tables
    BY <2>2, <2>4 DEF Tables
  <2>6. [tables EXCEPT !.events[a][v] = stored].rows = tables.rows
    BY DEF Tables
  <2> QED BY <2>3, <2>5, <2>6 DEF AllInReach
<1>3. CASE fill[s].cursor \notin EventBatches
  BY <1>3 DEF Stored
<1> QED BY <1>2, <1>3

-----------------------------------------------------------------------------
(* The database operations. *)
LEMMA ViewOK ==
    ASSUME DatabaseOK, NEW s \in Sessions
    PROVE  View(s) \in Tables /\ AllInReach(View(s))
BY DEF DatabaseOK, View

LEMMA WriteOK ==
    ASSUME DatabaseOK, NEW s \in Sessions, NEW tables \in Tables, AllInReach(tables),
           Write(s, tables), now' = now
    PROVE  DatabaseOK'
BY DEF DatabaseOK, Write, AllInReach

LEMMA CommitOK ==
    ASSUME DatabaseOK, NEW tables \in Tables, AllInReach(tables),
           Commit(tables), now' = now
    PROVE  DatabaseOK'
BY DEF DatabaseOK, Commit, AllInReach

LEMMA RollbackOK ==
    ASSUME DatabaseOK, NEW s \in Sessions, Rollback(s), now' = now
    PROVE  DatabaseOK'
BY DEF DatabaseOK, Rollback, AllInReach

LEMMA ReadOnlyOK ==
    ASSUME DatabaseOK, ReadOnly, now' = now
    PROVE  DatabaseOK'
BY DEF DatabaseOK, ReadOnly, AllInReach

-----------------------------------------------------------------------------
(* The sessions. *)
LEMMA TargetOK ==
    ASSUME SessionsOK, NEW s \in Sessions, batch[s] # <<>>
    PROVE  /\ Target(s) \in Actors
           /\ seen[s][Target(s)] \in Row
           /\ InReach(seen[s][Target(s)], now)
<1>1. batch[s] \in Seq(Actors) /\ batch[s] # <<>>
  BY DEF SessionsOK
<1>2. Head(batch[s]) \in Actors
  BY <1>1, HeadTailProperties
<1> QED BY <1>2 DEF SessionsOK, Target

LEMMA KeptRowsOK ==
    ASSUME SessionsOK, KeepRows, now' = now,
           pc' \in [Sessions -> Labels], batch' \in [Sessions -> Seq(Actors)],
           fill' \in [Sessions -> Fill], HasTarget'
    PROVE  SessionsOK'
BY DEF SessionsOK, KeepRows

LEMMA HoldOK ==
    ASSUME SessionsOK, NEW s \in Sessions, NEW a \in Actors, NEW row \in Row,
           InReach(row, now), Hold(s, a, row), now' = now
    PROVE  /\ loaded' \in [Sessions -> SUBSET Actors]
           /\ seen' \in [Sessions -> [Actors -> Row]]
           /\ \A r \in Sessions, b \in Actors : InReach(seen'[r][b], now')
<1>1. loaded' \in [Sessions -> SUBSET Actors]
  BY DEF SessionsOK, Hold
<1>2. seen' \in [Sessions -> [Actors -> Row]]
  BY DEF SessionsOK, Hold
<1>3. \A r \in Sessions, b \in Actors : seen'[r][b] = IF r = s /\ b = a THEN row ELSE seen[r][b]
  BY DEF SessionsOK, Hold
<1> QED BY <1>1, <1>2, <1>3 DEF SessionsOK

LEMMA ExpireOK ==
    ASSUME SessionsOK, NEW s \in Sessions, Expire(s), now' = now, now \in Nat
    PROVE  /\ loaded' \in [Sessions -> SUBSET Actors]
           /\ seen' \in [Sessions -> [Actors -> Row]]
           /\ \A r \in Sessions, b \in Actors : InReach(seen'[r][b], now')
<1>1. loaded' \in [Sessions -> SUBSET Actors]
  BY DEF SessionsOK, Expire
<1>2. seen' \in [Sessions -> [Actors -> Row]]
  BY AbsentRowIsRow DEF SessionsOK, Expire
<1>3. \A r \in Sessions, b \in Actors : seen'[r][b] = IF r = s THEN AbsentRow ELSE seen[r][b]
  BY DEF SessionsOK, Expire
<1> QED BY <1>1, <1>2, <1>3, AbsentRowInReach DEF SessionsOK

LEMMA NoFillIsFill == NoFill \in Fill
BY BoundsAssumption DEF NoFill, Fill, AbsentState, BackfillState

LEMMA CloseOK ==
    ASSUME SessionsOK, NEW s \in Sessions, Close(s), now' = now, now \in Nat
    PROVE  SessionsOK'
<1>1. pc' \in [Sessions -> Labels]
  BY DEF SessionsOK, Close, Goto, Labels
<1>2. batch' \in [Sessions -> Seq(Actors)]
  <2>1. <<>> \in Seq(Actors)
    OBVIOUS
  <2> QED BY <2>1 DEF SessionsOK, Close
<1>3. fill' \in [Sessions -> Fill]
  BY NoFillIsFill DEF SessionsOK, Close
<1>4. HasTarget'
  BY DEF SessionsOK, HasTarget, Close, Goto, WorkLabels
<1> QED BY <1>1, <1>2, <1>3, <1>4, ExpireOK DEF SessionsOK, Close

LEMMA NextActorOK ==
    ASSUME SessionsOK, NEW s \in Sessions, batch[s] # <<>>, NextActor(s),
           now' = now, now \in Nat
    PROVE  SessionsOK'
<1>1. pc' \in [Sessions -> Labels]
  BY DEF SessionsOK, NextActor, Goto, Labels
<1>2. batch' \in [Sessions -> Seq(Actors)]
  <2>1. Tail(batch[s]) \in Seq(Actors)
    BY HeadTailProperties DEF SessionsOK
  <2> QED BY <2>1 DEF SessionsOK, NextActor
<1>3. fill' \in [Sessions -> Fill]
  BY NoFillIsFill DEF SessionsOK, NextActor
<1>4. HasTarget'
  BY DEF SessionsOK, HasTarget, NextActor, Goto, WorkLabels
<1>5. loaded' \in [Sessions -> SUBSET Actors]
  BY DEF SessionsOK, NextActor
<1>6. Target(s) \in Actors
  BY TargetOK
<1>7. seen' \in [Sessions -> [Actors -> Row]]
  BY <1>6, AbsentRowIsRow DEF SessionsOK, NextActor
<1>8. \A r \in Sessions, b \in Actors :
         seen'[r][b] = IF r = s /\ b = Target(s) THEN AbsentRow ELSE seen[r][b]
  BY DEF SessionsOK, NextActor
<1>9. \A r \in Sessions, b \in Actors : InReach(seen'[r][b], now')
  BY <1>8, AbsentRowInReach DEF SessionsOK
<1> QED BY <1>1, <1>2, <1>3, <1>4, <1>5, <1>7, <1>9 DEF SessionsOK

-----------------------------------------------------------------------------
(* The steps, one lemma each. *)
LEMMA LoadOK ==
    ASSUME DatabaseOK, SessionsOK, now \in Nat, NEW s \in Sessions, Load(s)
    PROVE  DatabaseOK' /\ SessionsOK'
<1>1. now' = now /\ ReadOnly /\ UNCHANGED <<pc, batch, fill>>
  BY DEF Load
<1> DEFINE row == View(s).rows[Target(s)]
<1>2. Target(s) \in Actors
  BY TargetOK DEF Load
<1>3. row \in Row /\ InReach(row, now)
  BY <1>2, ViewOK DEF Tables, AllInReach
<1>4. Hold(s, Target(s), row)
  BY DEF Load
<1> HIDE DEF row
<1>5. /\ loaded' \in [Sessions -> SUBSET Actors]
      /\ seen' \in [Sessions -> [Actors -> Row]]
      /\ \A r \in Sessions, b \in Actors : InReach(seen'[r][b], now')
  BY <1>1, <1>2, <1>3, <1>4, HoldOK
<1>6. SessionsOK'
  BY <1>1, <1>5 DEF SessionsOK, HasTarget
<1> QED BY <1>1, <1>6, ReadOnlyOK

LEMMA StartPassOK ==
    ASSUME DatabaseOK, SessionsOK, NEW s \in Sessions, StartPass(s)
    PROVE  DatabaseOK' /\ SessionsOK'
<1>1. now' = now /\ ReadOnly /\ KeepRows /\ fill' = fill
  BY DEF StartPass
<1>2. pc' \in [Sessions -> Labels]
  BY DEF StartPass, SessionsOK, Goto, Labels
<1>3. batch' \in [Sessions -> Seq(Actors)]
  <2>1. CASE DefaultActor = NoActor
    BY <2>1 DEF StartPass, SessionsOK
  <2>2. CASE DefaultActor # NoActor
    <3>1. <<DefaultActor>> \in Seq(Actors)
      BY <2>2, SessionsAssumption
    <3> QED BY <2>2, <3>1 DEF StartPass, SessionsOK
  <2> QED BY <2>1, <2>2
<1>4. HasTarget'
  <2>1. CASE DefaultActor = NoActor
    BY <2>1 DEF StartPass, SessionsOK, HasTarget, Goto, WorkLabels
  <2>2. CASE DefaultActor # NoActor
    <3>1. batch' = [batch EXCEPT ![s] = <<DefaultActor>>] /\ Goto(s, "default")
      BY <2>2 DEF StartPass
    <3>2. <<DefaultActor>> # <<>>
      OBVIOUS
    <3> QED BY <3>1, <3>2 DEF SessionsOK, HasTarget, Goto
  <2> QED BY <2>1, <2>2
<1>5. SessionsOK'
  BY <1>1, <1>2, <1>3, <1>4, KeptRowsOK DEF SessionsOK
<1> QED BY <1>1, <1>5, ReadOnlyOK

LEMMA TrackDefaultOK ==
    ASSUME DatabaseOK, SessionsOK, now \in Nat, NEW s \in Sessions, TrackDefault(s)
    PROVE  DatabaseOK' /\ SessionsOK'
<1>1. now' = now /\ Expire(s) /\ fill' = fill /\ batch[s] # <<>>
  BY DEF TrackDefault, HasRow
<1> DEFINE a == Target(s)
           row == TrackRequest(seen[s][a], now, FALSE)
<1>2. a \in Actors /\ seen[s][a] \in Row /\ InReach(seen[s][a], now)
  BY <1>1, TargetOK
<1>3. row \in Row /\ InReach(row, now)
  BY <1>2, TrackRequestIsRow
<1>4. row.due = seen[s][a].due \/ ~Tracked(seen[s][a])
  BY DEF TrackRequest
<1>5. ReadOnly \/ Commit(Flush(View(s), a, seen[s][a], row))
  BY DEF TrackDefault
<1> HIDE DEF a, row
<1>6. Flush(View(s), a, seen[s][a], row) \in Tables /\ AllInReach(Flush(View(s), a, seen[s][a], row))
  BY <1>2, <1>3, <1>4, ViewOK, FlushIsTables
<1>7. DatabaseOK'
  BY <1>1, <1>5, <1>6, ReadOnlyOK, CommitOK
<1>8. /\ pc' \in [Sessions -> Labels]
      /\ batch' \in [Sessions -> Seq(Actors)]
      /\ HasTarget'
  <2>1. <<>> \in Seq(Actors)
    OBVIOUS
  <2> QED BY <2>1 DEF TrackDefault, SessionsOK, HasTarget, Goto, WorkLabels, Labels
<1>9. SessionsOK'
  BY <1>1, <1>8, ExpireOK DEF SessionsOK
<1> QED BY <1>7, <1>9

LEMMA SelectOK ==
    ASSUME DatabaseOK, SessionsOK, now \in Nat, NEW s \in Sessions, Select(s)
    PROVE  DatabaseOK' /\ SessionsOK'
<1>1. now' = now /\ ReadOnly /\ fill' = fill /\ Goto(s, "next")
  BY DEF Select
<1>2. PICK q \in Selections(disk.rows, now, BatchSize) :
        /\ batch' = [batch EXCEPT ![s] = q]
        /\ loaded' = [loaded EXCEPT ![s] = {q[i] : i \in DOMAIN q}]
        /\ seen' = [seen EXCEPT ![s] = [a \in Actors |->
              IF a \in {q[i] : i \in DOMAIN q} THEN disk.rows[a] ELSE AbsentRow]]
  BY DEF Select
<1>3. q \in Seq(Actors) /\ {q[i] : i \in DOMAIN q} \in SUBSET Actors
  <2>1. PICK n \in Nat : q \in [1..n -> Actors]
    <3>1. BatchSize \in Nat /\ disk.rows \in [Actors -> Row]
      BY BoundsAssumption DEF DatabaseOK, Tables
    <3> QED BY <1>2, <3>1 DEF Selections
  <2> QED BY <2>1
<1> DEFINE picked == {q[i] : i \in DOMAIN q}
<1>4. \A a \in Actors : disk.rows[a] \in Row /\ InReach(disk.rows[a], now)
  BY DEF DatabaseOK, Tables, AllInReach
<1>5. picked \in SUBSET Actors
  BY <1>3
<1>6. loaded' = [loaded EXCEPT ![s] = picked]
  BY <1>2
<1> DEFINE rows == [a \in Actors |-> IF a \in picked THEN disk.rows[a] ELSE AbsentRow]
<1>7. seen' = [seen EXCEPT ![s] = rows]
  BY <1>2
<1>8. rows \in [Actors -> Row] /\ \A a \in Actors : InReach(rows[a], now)
  BY <1>4, AbsentRowIsRow, AbsentRowInReach
<1> HIDE DEF picked, rows
<1>9. /\ pc' \in [Sessions -> Labels]
      /\ batch' \in [Sessions -> Seq(Actors)]
      /\ HasTarget'
  BY <1>1, <1>2, <1>3 DEF SessionsOK, HasTarget, Goto, WorkLabels, Labels
<1>10. loaded' \in [Sessions -> SUBSET Actors]
  BY <1>5, <1>6 DEF SessionsOK
<1>11. seen' \in [Sessions -> [Actors -> Row]]
  BY <1>7, <1>8 DEF SessionsOK
<1>12. \A r \in Sessions, b \in Actors : InReach(seen'[r][b], now')
  BY <1>1, <1>7, <1>8 DEF SessionsOK
<1>13. SessionsOK'
  BY <1>1, <1>9, <1>10, <1>11, <1>12 DEF SessionsOK
<1> QED BY <1>1, <1>13, ReadOnlyOK

LEMMA EndPassOK ==
    ASSUME DatabaseOK, SessionsOK, now \in Nat, NEW s \in Sessions, EndPass(s)
    PROVE  DatabaseOK' /\ SessionsOK'
BY ReadOnlyOK, CloseOK DEF EndPass

LEMMA ClaimOK ==
    ASSUME DatabaseOK, SessionsOK, now \in Nat, NEW s \in Sessions, Claim(s)
    PROVE  DatabaseOK' /\ SessionsOK'
<1>1. now' = now /\ batch' = batch /\ fill' = fill /\ batch[s] # <<>>
  BY DEF Claim, HasRow
<1> DEFINE a == Target(s)
           held == Claimed(seen[s][a])
           merged == Merge(disk.rows[a], seen[s][a], held)
           row == [merged EXCEPT !.attempts = held.attempts]
<1>2. a \in Actors /\ seen[s][a] \in Row /\ InReach(seen[s][a], now)
  BY <1>1, TargetOK
<1>3. held \in Row /\ held.due = seen[s][a].due
  BY <1>2, ClaimedIsRow
<1>4. disk \in Tables /\ AllInReach(disk)
  BY DEF DatabaseOK
<1>5. disk.rows[a] \in Row /\ InReach(disk.rows[a], now)
  BY <1>2, <1>4 DEF Tables, AllInReach
<1>6. Commit(Put(disk, a, row)) /\ Hold(s, a, held)
  BY DEF Claim
<1>7. Goto(s, "backfill") \/ Goto(s, "todo")
  BY DEF Claim
<1> HIDE DEF a, held
<1>8. merged \in Row /\ merged.due = disk.rows[a].due
  BY <1>2, <1>3, <1>5, MergeIsRow
<1> HIDE DEF merged
<1>9. row \in Row /\ InReach(row, now)
  BY <1>3, <1>5, <1>8 DEF Row, InReach
<1> HIDE DEF row
<1>10. Put(disk, a, row) \in Tables /\ AllInReach(Put(disk, a, row))
  BY <1>2, <1>4, <1>9, PutIsTables, PutInReach
<1>11. DatabaseOK'
  BY <1>1, <1>6, <1>10, CommitOK
<1>12. InReach(held, now)
  BY <1>2, <1>3 DEF InReach
<1>13. /\ loaded' \in [Sessions -> SUBSET Actors]
       /\ seen' \in [Sessions -> [Actors -> Row]]
       /\ \A r \in Sessions, b \in Actors : InReach(seen'[r][b], now')
  BY <1>1, <1>2, <1>3, <1>6, <1>12, HoldOK
<1>14. pc' \in [Sessions -> Labels] /\ HasTarget'
  BY <1>1, <1>7 DEF SessionsOK, HasTarget, Goto, WorkLabels, Labels
<1>15. SessionsOK'
  BY <1>1, <1>13, <1>14 DEF SessionsOK
<1> QED BY <1>11, <1>15

\* The steps that write a row with a new due time.
LEMMA RescheduleOK ==
    ASSUME DatabaseOK, SessionsOK, now \in Nat, NEW s \in Sessions, Reschedule(s)
    PROVE  DatabaseOK' /\ SessionsOK'
<1> DEFINE a == Target(s)
           row == Rescheduled(seen[s][a], now)
<1>1. now' = now /\ NextActor(s) /\ Commit(FlushDue(View(s), a, seen[s][a], row))
  BY DEF Reschedule
<1>2. batch[s] # <<>>
  BY DEF Reschedule, SessionsOK, HasTarget, WorkLabels, Labels
<1>3. a \in Actors /\ seen[s][a] \in Row
  BY <1>2, TargetOK
<1>4. row \in Row /\ InReach(row, now)
  BY <1>3, RescheduledIsRow
<1> HIDE DEF a, row
<1>5. FlushDue(View(s), a, seen[s][a], row) \in Tables
      /\ AllInReach(FlushDue(View(s), a, seen[s][a], row))
  BY <1>3, <1>4, ViewOK, FlushDueIsTables
<1> QED BY <1>1, <1>2, <1>5, CommitOK, NextActorOK

LEMMA StartRequestOK ==
    ASSUME DatabaseOK, SessionsOK, NEW s \in Sessions, NEW a \in Actors,
           NEW prioritize \in BOOLEAN, StartPoll(s, a) \/ StartGet(s, a, prioritize)
    PROVE  DatabaseOK' /\ SessionsOK'
<1>1. /\ now' = now /\ ReadOnly /\ KeepRows /\ fill' = fill
      /\ batch' = [batch EXCEPT ![s] = <<a>>]
      /\ Goto(s, "track") \/ Goto(s, "get") \/ Goto(s, "get_boosted")
  BY DEF StartPoll, StartGet
<1>2. pc' \in [Sessions -> Labels]
  BY <1>1 DEF SessionsOK, Goto, Labels
<1>3. <<a>> \in Seq(Actors) /\ <<a>> # <<>>
  OBVIOUS
<1>4. batch' \in [Sessions -> Seq(Actors)]
  BY <1>1, <1>3 DEF SessionsOK
<1>5. HasTarget'
  BY <1>1, <1>3 DEF SessionsOK, HasTarget, Goto
<1>6. SessionsOK'
  BY <1>1, <1>2, <1>4, <1>5, KeptRowsOK DEF SessionsOK
<1> QED BY <1>1, <1>6, ReadOnlyOK

LEMMA TrackPollOK ==
    ASSUME DatabaseOK, SessionsOK, now \in Nat, NEW s \in Sessions, TrackPoll(s)
    PROVE  DatabaseOK' /\ SessionsOK'
<1>1. /\ now' = now /\ Expire(s) /\ Goto(s, "todo") /\ batch' = batch /\ fill' = fill
      /\ batch[s] # <<>>
  BY DEF TrackPoll, HasRow
<1>2. ReadOnly \/ Write(s, Put(View(s), Target(s), NewRow(now)))
  BY DEF TrackPoll
<1>3. Target(s) \in Actors
  BY <1>1, TargetOK
<1>4. NewRow(now) \in Row /\ InReach(NewRow(now), now)
  BY NewRowIsRow, HorizonIsNat DEF InReach
<1>5. Put(View(s), Target(s), NewRow(now)) \in Tables
      /\ AllInReach(Put(View(s), Target(s), NewRow(now)))
  BY <1>3, <1>4, ViewOK, PutIsTables, PutInReach
<1>6. DatabaseOK'
  BY <1>1, <1>2, <1>5, ReadOnlyOK, WriteOK
<1>7. pc' \in [Sessions -> Labels] /\ HasTarget'
  BY <1>1 DEF SessionsOK, HasTarget, Goto, Labels
<1>8. SessionsOK'
  BY <1>1, <1>7, ExpireOK DEF SessionsOK
<1> QED BY <1>6, <1>8

LEMMA PollTodoOK ==
    ASSUME DatabaseOK, SessionsOK, now \in Nat, NEW s \in Sessions, PollTodo(s)
    PROVE  DatabaseOK' /\ SessionsOK'
<1>1. /\ now' = now /\ Write(s, View(s)) /\ Goto(s, "git") /\ KeepRows
      /\ batch' = batch /\ fill' = fill /\ pc[s] = "todo"
  BY DEF PollTodo
<1>2. pc' \in [Sessions -> Labels] /\ HasTarget'
  BY <1>1 DEF SessionsOK, HasTarget, Goto, WorkLabels, Labels
<1>3. SessionsOK'
  BY <1>1, <1>2, KeptRowsOK DEF SessionsOK
<1> QED BY <1>1, <1>3, ViewOK, WriteOK

LEMMA IndexPassOK ==
    ASSUME DatabaseOK, SessionsOK, now \in Nat, NEW s \in Sessions, IndexPass(s)
    PROVE  DatabaseOK' /\ SessionsOK'
<1> DEFINE a == Target(s)
           held == Indexed(seen[s][a], now)
<1>1. /\ now' = now /\ Goto(s, "reschedule") /\ batch' = batch /\ fill' = fill
      /\ pc[s] = "git"
      /\ Commit(FlushDue(View(s), a, seen[s][a], held)) /\ Hold(s, a, held)
  BY DEF IndexPass
<1>2. batch[s] # <<>>
  BY <1>1 DEF SessionsOK, HasTarget, WorkLabels, Labels
<1>3. a \in Actors /\ seen[s][a] \in Row
  BY <1>2, TargetOK
<1>4. held \in Row /\ InReach(held, now)
  BY <1>3, IndexedIsRow
<1> HIDE DEF a, held
<1>5. FlushDue(View(s), a, seen[s][a], held) \in Tables
      /\ AllInReach(FlushDue(View(s), a, seen[s][a], held))
  BY <1>3, <1>4, ViewOK, FlushDueIsTables
<1>6. /\ loaded' \in [Sessions -> SUBSET Actors]
      /\ seen' \in [Sessions -> [Actors -> Row]]
      /\ \A r \in Sessions, b \in Actors : InReach(seen'[r][b], now')
  BY <1>1, <1>3, <1>4, HoldOK
<1>7. pc' \in [Sessions -> Labels] /\ HasTarget'
  BY <1>1, <1>2 DEF SessionsOK, HasTarget, Goto, Labels
<1>8. SessionsOK'
  BY <1>1, <1>6, <1>7 DEF SessionsOK
<1> QED BY <1>1, <1>5, <1>8, CommitOK

LEMMA IndexPollOK ==
    ASSUME DatabaseOK, SessionsOK, now \in Nat, NEW s \in Sessions, IndexPoll(s)
    PROVE  DatabaseOK' /\ SessionsOK'
<1> DEFINE a == Target(s)
           held == Indexed(View(s).rows[a], now)
<1>1. /\ now' = now /\ Goto(s, "backfill") /\ batch' = batch /\ fill' = fill
      /\ pc[s] = "git"
      /\ Write(s, Put(View(s), a, held)) /\ Hold(s, a, held)
  BY DEF IndexPoll
<1>2. batch[s] # <<>>
  BY <1>1 DEF SessionsOK, HasTarget, WorkLabels, Labels
<1>3. a \in Actors
  BY <1>2, TargetOK
<1>4. held \in Row /\ InReach(held, now)
  <2>1. View(s).rows[a] \in Row
    BY <1>3, ViewOK DEF Tables
  <2> QED BY <2>1, IndexedIsRow
<1> HIDE DEF a, held
<1>5. Put(View(s), a, held) \in Tables /\ AllInReach(Put(View(s), a, held))
  BY <1>3, <1>4, ViewOK, PutIsTables, PutInReach
<1>6. /\ loaded' \in [Sessions -> SUBSET Actors]
      /\ seen' \in [Sessions -> [Actors -> Row]]
      /\ \A r \in Sessions, b \in Actors : InReach(seen'[r][b], now')
  BY <1>1, <1>3, <1>4, HoldOK
<1>7. pc' \in [Sessions -> Labels] /\ HasTarget'
  BY <1>1, <1>2 DEF SessionsOK, HasTarget, Goto, Labels
<1>8. SessionsOK'
  BY <1>1, <1>6, <1>7 DEF SessionsOK
<1> QED BY <1>1, <1>5, <1>8, WriteOK

\* Steps that only move a session to another label.
LEMMA MovesOK ==
    ASSUME DatabaseOK, SessionsOK, NEW s \in Sessions, FetchFails(s) \/ AfterServices(s)
    PROVE  DatabaseOK' /\ SessionsOK'
<1>1. /\ now' = now /\ ReadOnly /\ KeepRows /\ batch' = batch /\ fill' = fill
      /\ Goto(s, "poll_failed") \/ Goto(s, "finish")
      /\ pc[s] \in {"todo", "git", "open"}
  BY DEF FetchFails, AfterServices
<1>2. pc' \in [Sessions -> Labels] /\ HasTarget'
  BY <1>1 DEF SessionsOK, HasTarget, Goto, WorkLabels, Labels
<1>3. SessionsOK'
  BY <1>1, <1>2, KeptRowsOK DEF SessionsOK
<1> QED BY <1>1, <1>3, ReadOnlyOK

LEMMA BeginBackfillOK ==
    ASSUME DatabaseOK, SessionsOK, now \in Nat, NEW s \in Sessions, BeginBackfill(s)
    PROVE  DatabaseOK' /\ SessionsOK'
<1> DEFINE a == Target(s)
           held == [seen[s][a] EXCEPT !.backfill = "in_progress"]
<1>1. /\ now' = now /\ batch' = batch /\ pc[s] = "backfill"
      /\ fill' = [fill EXCEPT ![s] = NoFill]
      /\ Goto(s, "finish") \/ Goto(s, "open")
      /\ KeepRows \/ Hold(s, a, held)
      /\ ReadOnly \/ Write(s, Flush(View(s), a, seen[s][a], held))
  BY DEF BeginBackfill
<1>2. batch[s] # <<>>
  BY <1>1 DEF SessionsOK, HasTarget, WorkLabels, Labels
<1>3. a \in Actors /\ seen[s][a] \in Row /\ InReach(seen[s][a], now)
  BY <1>2, TargetOK
<1>4. held \in Row /\ held.due = seen[s][a].due
  BY <1>3 DEF Row, BackfillStatuses
<1> HIDE DEF a, held
<1>5. InReach(held, now)
  BY <1>3, <1>4 DEF InReach
<1>6. Flush(View(s), a, seen[s][a], held) \in Tables
      /\ AllInReach(Flush(View(s), a, seen[s][a], held))
  BY <1>3, <1>4, <1>5, ViewOK, FlushIsTables
<1>7. DatabaseOK'
  BY <1>1, <1>6, ReadOnlyOK, WriteOK
<1>8. /\ loaded' \in [Sessions -> SUBSET Actors]
      /\ seen' \in [Sessions -> [Actors -> Row]]
      /\ \A r \in Sessions, b \in Actors : InReach(seen'[r][b], now')
  <2>1. CASE KeepRows
    BY <1>1, <2>1 DEF KeepRows, SessionsOK
  <2>2. CASE Hold(s, a, held)
    BY <1>1, <1>3, <1>4, <1>5, <2>2, HoldOK
  <2> QED BY <1>1, <2>1, <2>2
<1>9. /\ pc' \in [Sessions -> Labels]
      /\ HasTarget'
      /\ fill' \in [Sessions -> Fill]
  BY <1>1, <1>2, NoFillIsFill DEF SessionsOK, HasTarget, Goto, Labels
<1>10. SessionsOK'
  BY <1>1, <1>8, <1>9 DEF SessionsOK
<1> QED BY <1>7, <1>10

LEMMA SkipServiceOK ==
    ASSUME DatabaseOK, SessionsOK, NEW s \in Sessions, SkipService(s)
    PROVE  DatabaseOK' /\ SessionsOK'
<1>1. /\ now' = now /\ ReadOnly /\ KeepRows /\ pc' = pc /\ batch' = batch
      /\ fill' = [fill EXCEPT ![s].service = @ + 1] /\ fill[s].service \in Services
  BY DEF SkipService
<1>2. fill' \in [Sessions -> Fill]
  <2>1. fill[s] \in Fill
    BY DEF SessionsOK
  <2>2. [fill[s] EXCEPT !.service = @ + 1] \in Fill
    BY <1>1, <2>1 DEF Fill, Services
  <2> QED BY <1>1, <2>2 DEF SessionsOK
<1>3. SessionsOK'
  BY <1>1, <1>2, KeptRowsOK DEF SessionsOK, HasTarget
<1> QED BY <1>1, <1>3, ReadOnlyOK

LEMMA OpenServiceOK ==
    ASSUME DatabaseOK, SessionsOK, NEW s \in Sessions, OpenService(s)
    PROVE  DatabaseOK' /\ SessionsOK'
<1> DEFINE v == fill[s].service
           fresh == StateOf(s).status = "absent"
           state == IF fresh THEN [AbsentState EXCEPT !.status = "pending"] ELSE StateOf(s)
<1>1. /\ now' = now /\ KeepRows /\ batch' = batch /\ Goto(s, "fetch")
      /\ pc[s] = "open" /\ v \in Services
      /\ ReadOnly \/ Write(s, PutState(View(s), Target(s), v, state))
      /\ fill' = [fill EXCEPT ![s].tries = BatchesPerService,
                              ![s].base = state, ![s].cursor = state.cursor]
  BY DEF OpenService
<1>2. batch[s] # <<>>
  BY <1>1 DEF SessionsOK, HasTarget, WorkLabels, Labels
<1>3. Target(s) \in Actors
  BY <1>2, TargetOK
<1>4. state \in BackfillState
  <2>1. StateOf(s) \in BackfillState
    BY <1>1, <1>3, ViewOK DEF StateOf, Tables
  <2>2. [AbsentState EXCEPT !.status = "pending"] \in BackfillState
    BY BoundsAssumption DEF AbsentState, BackfillState
  <2> QED BY <2>1, <2>2
<1> HIDE DEF v, fresh, state
<1>5. PutState(View(s), Target(s), v, state) \in Tables
      /\ AllInReach(PutState(View(s), Target(s), v, state))
  BY <1>1, <1>3, <1>4, ViewOK, PutStateIsTables
<1>6. DatabaseOK'
  BY <1>1, <1>5, ReadOnlyOK, WriteOK
<1>7. fill' \in [Sessions -> Fill]
  <2>1. fill[s] \in Fill /\ fill \in [Sessions -> Fill]
    BY DEF SessionsOK
  <2>2. BatchesPerService \in 0..BatchesPerService
    BY BoundsAssumption
  <2>3. state.cursor \in 1..(Batches + 1)
    BY <1>4 DEF BackfillState
  <2> DEFINE new == [fill[s] EXCEPT !.tries = BatchesPerService, !.base = state,
                                    !.cursor = state.cursor]
  <2>4. new \in Fill
    BY <1>4, <2>1, <2>2, <2>3 DEF Fill
  <2>5. fill' = [fill EXCEPT ![s] = new]
    BY <1>1, <2>1
  <2> HIDE DEF new
  <2> QED BY <2>1, <2>4, <2>5
<1>8. pc' \in [Sessions -> Labels] /\ HasTarget'
  BY <1>1, <1>2 DEF SessionsOK, HasTarget, Goto, Labels
<1>9. SessionsOK'
  BY <1>1, <1>7, <1>8, KeptRowsOK DEF SessionsOK
<1> QED BY <1>6, <1>9

LEMMA FetchBatchOK ==
    ASSUME DatabaseOK, SessionsOK, HasService, NEW s \in Sessions, FetchBatch(s)
    PROVE  DatabaseOK' /\ SessionsOK'
<1> DEFINE v == fill[s].service
           state == FlushedState(s, StateOf(s))
           stored == Stored(s, View(s))
<1>1. /\ now' = now /\ KeepRows /\ batch' = batch /\ pc[s] = "fetch"
      /\ fill[s].cursor <= Batches
      /\ ReadOnly \/ Write(s, stored) \/ Write(s, PutState(stored, Target(s), v, state))
      /\ \/ Goto(s, "open") /\ fill' = [fill EXCEPT ![s] = [NoFill EXCEPT !.service = v + 1]]
         \/ pc' = pc /\ fill' = [fill EXCEPT ![s].cursor = @ + 1, ![s].tries = @ - 1]
  BY DEF FetchBatch
<1>2. batch[s] # <<>>
  BY <1>1 DEF SessionsOK, HasTarget, WorkLabels, Labels
<1>3. Target(s) \in Actors
  BY <1>2, TargetOK
<1>4. v \in Services /\ fill[s].tries >= 1
  BY <1>1 DEF HasService
<1>5. fill[s] \in Fill /\ fill \in [Sessions -> Fill]
  BY DEF SessionsOK
<1>6. fill[s].cursor + 1 \in 1..(Batches + 1)
  BY <1>1, <1>5, BoundsAssumption DEF Fill
<1>7. state \in BackfillState
  <2>1. StateOf(s) \in BackfillState
    BY <1>3, <1>4, ViewOK DEF StateOf, Tables
  <2> QED BY <1>6, <2>1 DEF FlushedState, Net, BackfillState
<1>8. stored \in Tables /\ AllInReach(stored)
  BY <1>3, <1>4, ViewOK, StoredIsTables
<1> HIDE DEF v, state, stored
<1>9. PutState(stored, Target(s), v, state) \in Tables
      /\ AllInReach(PutState(stored, Target(s), v, state))
  BY <1>3, <1>4, <1>7, <1>8, PutStateIsTables
<1>10. DatabaseOK'
  BY <1>1, <1>8, <1>9, ReadOnlyOK, WriteOK
<1>11. fill' \in [Sessions -> Fill]
  <2>1. [NoFill EXCEPT !.service = v + 1] \in Fill
    BY <1>4, NoFillIsFill DEF Fill, Services
  <2>2. [fill[s] EXCEPT !.cursor = @ + 1, !.tries = @ - 1] \in Fill
    <3>1. fill[s].tries - 1 \in 0..BatchesPerService
      BY <1>4, <1>5, BoundsAssumption DEF Fill
    <3> QED BY <1>5, <1>6, <3>1 DEF Fill
  <2> QED BY <1>1, <1>5, <2>1, <2>2
<1>12. pc' \in [Sessions -> Labels] /\ HasTarget'
  BY <1>1, <1>2 DEF SessionsOK, HasTarget, Goto, Labels
<1>13. SessionsOK'
  BY <1>1, <1>11, <1>12, KeptRowsOK DEF SessionsOK
<1> QED BY <1>10, <1>13

LEMMA FailBatchOK ==
    ASSUME DatabaseOK, SessionsOK, HasService, NEW s \in Sessions, FailBatch(s)
    PROVE  DatabaseOK' /\ SessionsOK'
<1> DEFINE a == Target(s)
           v == fill[s].service
           row == [seen[s][a] EXCEPT !.backfill = "error"]
           state == [StateOf(s) EXCEPT !.status = "error"]
           tables == Flush(View(s), a, seen[s][a], row)
<1>1. /\ now' = now /\ KeepRows /\ batch' = batch /\ fill' = fill /\ pc[s] = "fetch"
      /\ Write(s, PutState(tables, a, v, state)) /\ Goto(s, "backfill_failed")
  BY DEF FailBatch
<1>2. batch[s] # <<>>
  BY <1>1 DEF SessionsOK, HasTarget, WorkLabels, Labels
<1>3. a \in Actors /\ seen[s][a] \in Row /\ InReach(seen[s][a], now)
  BY <1>2, TargetOK
<1>4. v \in Services
  BY <1>1 DEF HasService
<1>5. state \in BackfillState
  <2>1. StateOf(s) \in BackfillState
    BY <1>3, <1>4, ViewOK DEF StateOf, Tables
  <2> QED BY <2>1 DEF BackfillState
<1>6. row \in Row /\ row.due = seen[s][a].due
  BY <1>3 DEF Row, BackfillStatuses
<1> HIDE DEF a, v, row, state
<1>7. InReach(row, now)
  BY <1>3, <1>6 DEF InReach
<1>8. tables \in Tables /\ AllInReach(tables)
  BY <1>3, <1>6, <1>7, ViewOK, FlushIsTables
<1> HIDE DEF tables
<1>9. PutState(tables, a, v, state) \in Tables /\ AllInReach(PutState(tables, a, v, state))
  BY <1>3, <1>4, <1>5, <1>8, PutStateIsTables
<1>10. pc' \in [Sessions -> Labels] /\ HasTarget'
  BY <1>1, <1>2 DEF SessionsOK, HasTarget, Goto, Labels
<1>11. SessionsOK'
  BY <1>1, <1>10, KeptRowsOK DEF SessionsOK
<1> QED BY <1>1, <1>9, <1>11, WriteOK

LEMMA FinishBackfillOK ==
    ASSUME DatabaseOK, SessionsOK, now \in Nat, NEW s \in Sessions, FinishBackfill(s)
    PROVE  DatabaseOK' /\ SessionsOK'
<1> DEFINE a == Target(s)
           held == IF AllComplete(View(s), a)
                   THEN [seen[s][a] EXCEPT !.backfill = "completed"] ELSE seen[s][a]
           tables == Flush(View(s), a, seen[s][a], held)
           due == Rescheduled(held, now)
<1>1. /\ now' = now /\ pc[s] = "finish"
      /\ \/ Commit(FlushDue(tables, a, held, due)) /\ NextActor(s)
         \/ Commit(tables) /\ Close(s)
  BY DEF FinishBackfill
<1>2. batch[s] # <<>>
  BY <1>1 DEF SessionsOK, HasTarget, WorkLabels, Labels
<1>3. a \in Actors /\ seen[s][a] \in Row /\ InReach(seen[s][a], now)
  BY <1>2, TargetOK
<1>4. held \in Row /\ held.due = seen[s][a].due
  BY <1>3 DEF Row, BackfillStatuses
<1> HIDE DEF a, held
<1>5. due \in Row /\ InReach(due, now)
  BY <1>4, RescheduledIsRow
<1>6. InReach(held, now)
  BY <1>3, <1>4 DEF InReach
<1>7. tables \in Tables /\ AllInReach(tables)
  BY <1>3, <1>4, <1>6, ViewOK, FlushIsTables
<1> HIDE DEF tables, due
<1>8. FlushDue(tables, a, held, due) \in Tables /\ AllInReach(FlushDue(tables, a, held, due))
  BY <1>3, <1>4, <1>5, <1>7, FlushDueIsTables
<1> QED BY <1>1, <1>2, <1>7, <1>8, CommitOK, CloseOK, NextActorOK

LEMMA AbandonOK ==
    ASSUME DatabaseOK, SessionsOK, now \in Nat, NEW s \in Sessions, Abandon(s)
    PROVE  DatabaseOK' /\ SessionsOK'
<1>1. now' = now /\ Rollback(s) /\ pc[s] \in {"poll_failed", "backfill_failed"}
  BY DEF Abandon
<1>2. SessionsOK'
  <2>1. CASE Close(s)
    BY <1>1, <2>1, CloseOK
  <2>2. CASE /\ Goto(s, "poll_error") \/ Goto(s, "backfill_error")
             /\ Expire(s)
             /\ fill' = [fill EXCEPT ![s] = NoFill]
             /\ UNCHANGED batch
    <3>1. batch[s] # <<>>
      BY <1>1 DEF SessionsOK, HasTarget, WorkLabels, Labels
    <3>2. /\ pc' \in [Sessions -> Labels] /\ HasTarget'
          /\ fill' \in [Sessions -> Fill]
      BY <2>2, <3>1, NoFillIsFill DEF SessionsOK, HasTarget, Goto, Labels
    <3> QED BY <1>1, <2>2, <3>2, ExpireOK DEF SessionsOK
  <2> QED BY <2>1, <2>2 DEF Abandon
<1> QED BY <1>1, <1>2, RollbackOK

LEMMA RecordErrorOK ==
    ASSUME DatabaseOK, SessionsOK, now \in Nat, NEW s \in Sessions, RecordError(s)
    PROVE  DatabaseOK' /\ SessionsOK'
<1> DEFINE a == Target(s)
           row == Errored(seen[s][a], now)
<1>1. /\ now' = now /\ batch[s] # <<>>
      /\ Commit(FlushDue(View(s), a, seen[s][a], row))
      /\ NextActor(s) \/ Close(s)
  BY DEF RecordError, HasRow
<1>2. a \in Actors /\ seen[s][a] \in Row
  BY <1>1, TargetOK
<1>3. row \in Row /\ InReach(row, now)
  BY <1>2, ErroredIsRow
<1> HIDE DEF a, row
<1>4. FlushDue(View(s), a, seen[s][a], row) \in Tables
      /\ AllInReach(FlushDue(View(s), a, seen[s][a], row))
  BY <1>2, <1>3, ViewOK, FlushDueIsTables
<1> QED BY <1>1, <1>4, CommitOK, CloseOK, NextActorOK

LEMMA InsertFailsOK ==
    ASSUME DatabaseOK, SessionsOK, now \in Nat, NEW s \in Sessions, InsertFails(s)
    PROVE  DatabaseOK' /\ SessionsOK'
BY ReadOnlyOK, CloseOK DEF InsertFails

LEMMA BusyTimeoutOK ==
    ASSUME DatabaseOK, SessionsOK, now \in Nat, NEW s \in Sessions, BusyTimeout(s)
    PROVE  DatabaseOK' /\ SessionsOK'
<1>1. now' = now /\ ReadOnly
  BY DEF BusyTimeout
<1>2. CASE Close(s)
  BY <1>1, <1>2, ReadOnlyOK, CloseOK
<1>3. CASE /\ pc[s] \in {"todo", "backfill", "fetch", "finish"}
           /\ Goto(s, "poll_failed") \/ Goto(s, "backfill_failed")
           /\ KeepRows /\ UNCHANGED <<batch, fill>>
  <2>1. pc' \in [Sessions -> Labels] /\ HasTarget'
    BY <1>3 DEF SessionsOK, HasTarget, Goto, WorkLabels, Labels
  <2>2. SessionsOK'
    BY <1>1, <1>3, <2>1, KeptRowsOK DEF SessionsOK
  <2> QED BY <1>1, <2>2, ReadOnlyOK
<1>4. \/ Close(s)
      \/ /\ pc[s] \in {"todo", "backfill", "fetch", "finish"}
         /\ Goto(s, "poll_failed") \/ Goto(s, "backfill_failed")
         /\ KeepRows /\ UNCHANGED <<batch, fill>>
  <2>1. CASE pc[s] = "todo"
    BY <2>1 DEF BusyTimeout
  <2>2. CASE pc[s] \in {"backfill", "fetch", "finish"}
    BY <2>2 DEF BusyTimeout
  <2>3. CASE pc[s] \notin {"todo", "backfill", "fetch", "finish"}
    BY <2>3 DEF BusyTimeout
  <2> QED BY <2>1, <2>2, <2>3
<1> QED BY <1>2, <1>3, <1>4

LEMMA AnswerGetOK ==
    ASSUME DatabaseOK, SessionsOK, now \in Nat, NEW s \in Sessions, AnswerGet(s)
    PROVE  DatabaseOK' /\ SessionsOK'
<1> DEFINE a == Target(s)
           boost == pc[s] = "get_boosted"
           row == TrackRequest(seen[s][a], now, boost)
<1>1. /\ now' = now /\ batch[s] # <<>> /\ Close(s)
      /\ Commit(IF boost THEN FlushDue(View(s), a, seen[s][a], row)
                          ELSE Flush(View(s), a, seen[s][a], row))
  BY DEF AnswerGet, HasRow
<1>2. a \in Actors /\ seen[s][a] \in Row /\ InReach(seen[s][a], now)
  BY <1>1, TargetOK
<1>3. row \in Row /\ InReach(row, now)
  BY <1>2, TrackRequestIsRow
<1>4. ~boost => row.due = seen[s][a].due \/ ~Tracked(seen[s][a])
  BY DEF TrackRequest
<1> HIDE DEF a, boost, row
<1>5. CASE boost
  <2>1. FlushDue(View(s), a, seen[s][a], row) \in Tables
        /\ AllInReach(FlushDue(View(s), a, seen[s][a], row))
    BY <1>2, <1>3, ViewOK, FlushDueIsTables
  <2> QED BY <1>1, <1>5, <2>1, CommitOK, CloseOK
<1>6. CASE ~boost
  <2>1. Flush(View(s), a, seen[s][a], row) \in Tables
        /\ AllInReach(Flush(View(s), a, seen[s][a], row))
    BY <1>2, <1>3, <1>4, <1>6, ViewOK, FlushIsTables
  <2> QED BY <1>1, <1>6, <2>1, CommitOK, CloseOK
<1> QED BY <1>5, <1>6

LEMMA CrashOK ==
    ASSUME DatabaseOK, SessionsOK, now \in Nat, Crash
    PROVE  DatabaseOK' /\ SessionsOK'
<1>1. now' = now /\ disk' = disk /\ work' = disk /\ lock' = NoSession
  BY DEF Crash
<1>2. DatabaseOK'
  BY <1>1 DEF DatabaseOK, AllInReach
<1>3. SessionsOK'
  BY <1>1, NoFillIsFill, AbsentRowIsRow, AbsentRowInReach
  DEF Crash, SessionsOK, HasTarget, Labels, WorkLabels
<1> QED BY <1>2, <1>3

\* The bound only recedes.
LEMMA TickOK ==
    ASSUME DatabaseOK, SessionsOK, now \in Nat, Tick
    PROVE  DatabaseOK' /\ SessionsOK'
<1>1. /\ now' = now + 1
      /\ UNCHANGED <<disk, work, lock, pc, batch, loaded, seen, fill>>
  BY DEF Tick
<1>2. \A row \in Row : InReach(row, now) => InReach(row, now')
  BY <1>1, HorizonIsNat DEF InReach, Row
<1>3. DatabaseOK'
  BY <1>1, <1>2 DEF DatabaseOK, AllInReach, Tables
<1>4. SessionsOK'
  BY <1>1, <1>2 DEF SessionsOK, HasTarget
<1> QED BY <1>3, <1>4

-----------------------------------------------------------------------------
(* The invariant. *)
LEMMA InitOK == Init => QueueInv
<1> SUFFICES ASSUME Init PROVE QueueInv
  OBVIOUS
<1>1. now \in 0..MaxClock /\ now = 0
  BY MaxClockIsNat DEF Init
<1>2. EmptyTables \in Tables
  BY AbsentRowIsRow, BoundsAssumption
  DEF EmptyTables, Tables, AbsentState, BackfillState
<1>3. AllInReach(EmptyTables)
  BY <1>1, AbsentRowInReach DEF AllInReach, EmptyTables
<1>4. DatabaseOK
  BY <1>2, <1>3 DEF Init, DatabaseOK
<1>5. batch \in [Sessions -> Seq(Actors)]
  <2>1. <<>> \in Seq(Actors)
    OBVIOUS
  <2> QED BY <2>1 DEF Init
<1>6. SessionsOK
  BY <1>1, <1>5, AbsentRowIsRow, AbsentRowInReach, NoFillIsFill
  DEF Init, SessionsOK, HasTarget, WorkLabels, Labels
<1>7. HasService
  BY DEF Init, HasService
<1> QED BY <1>1, <1>4, <1>6, <1>7, Halves

\* A session gets to "fetch" only by OpenService, and stays there only while
\* tries are left.
LEMMA ServiceStep ==
    ASSUME SessionsOK, HasService, [Next]_vars
    PROVE  HasService'
<1> SUFFICES ASSUME NEW r \in Sessions, pc'[r] = "fetch"
             PROVE  fill'[r].service \in Services /\ fill'[r].tries >= 1
  BY DEF HasService
<1> USE DEF SessionsOK, HasService, Goto
<1>1. ASSUME NEW s \in Sessions, Close(s) \/ NextActor(s)
      PROVE  pc'[r] = pc[r] /\ fill'[r] = fill[r]
  BY <1>1 DEF Close, NextActor
<1>2. ASSUME NEW s \in Sessions, PassStep(s) \/ PostStep(s) \/ GetStep(s)
      PROVE  pc'[r] = pc[r] /\ fill'[r] = fill[r]
  BY <1>1, <1>2 DEF PassStep, StartPass, TrackDefault, Select, Claim, IndexPass, Reschedule,
     EndPass, PostStep, StartPoll, TrackPoll, IndexPoll, GetStep, StartGet, AnswerGet
<1>3. ASSUME NEW s \in Sessions, OpenService(s)
      PROVE  fill'[r].service \in Services /\ fill'[r].tries >= 1
  <2>1. CASE r = s
    <3>1. fill[s] \in Fill /\ fill[s].service \in Services
      BY <1>3 DEF OpenService
    <3>2. fill'[s].service = fill[s].service /\ fill'[s].tries = BatchesPerService
      BY <1>3 DEF OpenService, Fill
    <3> QED BY <2>1, <3>1, <3>2, BoundsAssumption
  <2>2. CASE r # s
    BY <1>3, <2>2 DEF OpenService
  <2> QED BY <2>1, <2>2
<1>4. ASSUME NEW s \in Sessions, FetchBatch(s)
      PROVE  fill'[r].service \in Services /\ fill'[r].tries >= 1
  <2>1. CASE r = s
    <3>1. fill[s] \in Fill /\ pc[s] = "fetch"
      BY <1>4 DEF FetchBatch
    <3>2. ~LastBatch(s) /\ fill' = [fill EXCEPT ![s].cursor = @ + 1, ![s].tries = @ - 1]
      BY <1>4, <2>1 DEF FetchBatch
    <3>3. fill'[s].service = fill[s].service /\ fill'[s].tries = fill[s].tries - 1
      BY <3>1, <3>2 DEF Fill
    <3>4. fill[s].tries \in Int /\ fill[s].tries > 1
      BY <3>1, <3>2, BoundsAssumption DEF LastBatch, Fill
    <3> QED BY <2>1, <3>1, <3>3, <3>4
  <2>2. CASE r # s
    BY <1>4, <2>2 DEF FetchBatch
  <2> QED BY <2>1, <2>2
<1>5. ASSUME NEW s \in Sessions, PollStep(s), ~OpenService(s), ~FetchBatch(s)
      PROVE  pc'[r] = pc[r] /\ fill'[r] = fill[r]
  <2>1. CASE PollTodo(s) \/ FetchFails(s) \/ BeginBackfill(s) \/ AfterServices(s)
    BY <2>1 DEF PollTodo, FetchFails, BeginBackfill, AfterServices
  <2>2. CASE SkipService(s)
    BY <2>2 DEF SkipService
  <2>3. CASE FailBatch(s) \/ FinishBackfill(s)
    BY <1>1, <2>3 DEF FailBatch, FinishBackfill
  <2>4. CASE Abandon(s) \/ RecordError(s)
    BY <1>1, <2>4 DEF Abandon, RecordError
  <2> QED BY <1>5, <2>1, <2>2, <2>3, <2>4 DEF PollStep
<1>6. ASSUME NEW s \in Sessions, Load(s) \/ InsertFails(s)
      PROVE  pc'[r] = pc[r] /\ fill'[r] = fill[r]
  BY <1>1, <1>6 DEF Load, InsertFails
<1>7. ASSUME NEW s \in Sessions, BusyTimeout(s)
      PROVE  pc'[r] = pc[r] /\ fill'[r] = fill[r]
  <2>1. CASE pc[s] = "todo"
    BY <1>7, <2>1 DEF BusyTimeout
  <2>2. CASE pc[s] \in {"backfill", "fetch", "finish"}
    BY <1>7, <2>2 DEF BusyTimeout
  <2>3. CASE pc[s] \notin {"todo", "backfill", "fetch", "finish"}
    BY <1>1, <1>7, <2>3 DEF BusyTimeout
  <2> QED BY <2>1, <2>2, <2>3
<1>8. CASE Crash
  BY <1>8 DEF Crash
<1>9. CASE Tick \/ UNCHANGED vars
  BY <1>9 DEF Tick, vars
<1> QED BY <1>2, <1>3, <1>4, <1>5, <1>6, <1>7, <1>8, <1>9 DEF Next, Sessions

LEMMA StepOK == QueueInv /\ [Next]_vars => QueueInv'
<1> SUFFICES ASSUME QueueInv, [Next]_vars PROVE QueueInv'
  OBVIOUS
<1> DEFINE Goal == DatabaseOK' /\ SessionsOK' /\ now' \in 0..MaxClock
<1>1. now \in 0..MaxClock /\ now \in Nat /\ DatabaseOK /\ SessionsOK /\ HasService
  BY Halves, MaxClockIsNat
<1>2. ASSUME NEW s \in Passes, PassStep(s)
      PROVE  DatabaseOK' /\ SessionsOK' /\ now' = now
  <2>1. s \in Sessions
    BY DEF Sessions
  <2>2. now' = now
    BY <1>2 DEF PassStep, StartPass, TrackDefault, Select, Claim, IndexPass, Reschedule, EndPass
  <2> QED BY <1>1, <1>2, <2>1, <2>2, StartPassOK, TrackDefaultOK, SelectOK, ClaimOK,
             IndexPassOK, RescheduleOK, EndPassOK DEF PassStep
<1>3. ASSUME NEW s \in Posts, PostStep(s)
      PROVE  DatabaseOK' /\ SessionsOK' /\ now' = now
  <2>1. s \in Sessions
    BY DEF Sessions
  <2>2. now' = now
    BY <1>3 DEF PostStep, StartPoll, TrackPoll, IndexPoll
  <2> QED BY <1>1, <1>3, <2>1, <2>2, StartRequestOK, TrackPollOK, IndexPollOK DEF PostStep
<1>4. ASSUME NEW s \in Gets, GetStep(s)
      PROVE  DatabaseOK' /\ SessionsOK' /\ now' = now
  <2>1. s \in Sessions
    BY DEF Sessions
  <2>2. now' = now
    BY <1>4 DEF GetStep, StartGet, AnswerGet
  <2> QED BY <1>1, <1>4, <2>1, <2>2, StartRequestOK, AnswerGetOK DEF GetStep
<1>5. ASSUME NEW s \in Passes \cup Posts, PollStep(s)
      PROVE  DatabaseOK' /\ SessionsOK' /\ now' = now
  <2>1. s \in Sessions
    BY DEF Sessions
  <2>2. now' = now
    BY <1>5 DEF PollStep, PollTodo, FetchFails, BeginBackfill, AfterServices, SkipService,
       OpenService, FetchBatch, FailBatch, FinishBackfill, Abandon, RecordError
  <2> QED BY <1>1, <1>5, <2>1, <2>2, PollTodoOK, MovesOK, BeginBackfillOK, SkipServiceOK,
             OpenServiceOK, FetchBatchOK, FailBatchOK, FinishBackfillOK, AbandonOK,
             RecordErrorOK DEF PollStep
<1>6. ASSUME NEW s \in Sessions, Load(s) \/ InsertFails(s) \/ BusyTimeout(s)
      PROVE  DatabaseOK' /\ SessionsOK' /\ now' = now
  BY <1>1, <1>6, LoadOK, InsertFailsOK, BusyTimeoutOK DEF Load, InsertFails, BusyTimeout
<1>7. ASSUME Crash PROVE Goal
  BY <1>1, <1>7, CrashOK DEF Crash
<1>8. ASSUME Tick PROVE Goal
  BY <1>1, <1>8, TickOK, MaxClockIsNat DEF Tick
<1>9. ASSUME UNCHANGED vars PROVE Goal
  BY <1>1, <1>9 DEF vars, DatabaseOK, SessionsOK, AllInReach, HasTarget
<1>10. Goal
  <2> HIDE DEF Goal
  <2>1. ASSUME NEW s \in Sessions,
               \/ s \in Passes /\ PassStep(s)
               \/ s \in Posts /\ PostStep(s)
               \/ s \in Gets /\ GetStep(s)
               \/ s \in Passes \cup Posts /\ PollStep(s)
               \/ Load(s) \/ InsertFails(s) \/ BusyTimeout(s)
        PROVE  Goal
    BY <1>1, <1>2, <1>3, <1>4, <1>5, <1>6, <2>1 DEF Goal
  <2>2. CASE Next
    BY <1>7, <1>8, <2>1, <2>2 DEF Next, Sessions
  <2>3. CASE UNCHANGED vars
    BY <1>9, <2>3
  <2> QED BY <2>2, <2>3
<1>11. HasService'
  BY <1>1, ServiceStep
<1> QED BY <1>10, <1>11 DEF QueueInv, TypeOK, DueInReach, DatabaseOK, SessionsOK

\* The strengthened invariant, of which the next two theorems are parts.
THEOREM QueueInvariant == Spec => []QueueInv
<1> QED BY InitOK, StepOK, PTL DEF Spec

\* Type correctness: every row, backfill state, identity map and local variable
\* of poll_tracked_actors, poll_all and _run_backfill_batches stays in its
\* domain, and a session at work has an actor to work on.
THEOREM TypeCorrect == Spec => []TypeOK
<1>1. QueueInv => TypeOK
  BY DEF QueueInv
<1> QED BY <1>1, QueueInvariant, PTL

\* No actor leaves the queue: next_poll_after, whichever of track_actor_request,
\* _update_tracked_actor_poll_state and _schedule_pending_backfill_or_repoll
\* set it last, with whatever attributes the session held, is at most the
\* longer of the repoll interval and the maximal backoff away.
THEOREM DueBounded == Spec => []DueWithinHorizon
<1>1. QueueInv => DueWithinHorizon
  <2> SUFFICES ASSUME QueueInv, NEW a \in Actors, Tracked(disk.rows[a])
               PROVE  disk.rows[a].due <= now + Horizon
    BY DEF DueWithinHorizon
  <2> QED BY DEF QueueInv, DueInReach, AllInReach, InReach
<1> QED BY <1>1, QueueInvariant, PTL

-----------------------------------------------------------------------------
(***************************************************************************)
(* Transactions are held only where the code means to hold them, and never *)
(* span two actors.  A step of a session either reads, writes to the actor *)
(* it works on, commits or rolls back; one lemma (DatabaseStep) says what  *)
(* each of the four does to the invariant, and the rest shows of every     *)
(* action which of the four it is.                                         *)
(***************************************************************************)
LockInv == LockIsReleased /\ TransactionIsOneActor

\* The tables differ at most in what they say of actor a.
AgreeBut(t1, t2, a) ==
    \A b \in Actors \ {a} :
        t1.rows[b] = t2.rows[b] /\ t1.states[b] = t2.states[b] /\ t1.events[b] = t2.events[b]

\* The four things a step of session s does to the database.
Reads(s) == ReadOnly /\ (lock = s => pc'[s] \in LockLabels /\ batch'[s] = batch[s])
WritesTarget(s) ==
    /\ CanWrite(s)
    /\ batch[s] # <<>> /\ batch'[s] = batch[s]
    /\ pc'[s] \in LockLabels
    /\ \E tables : Write(s, tables) /\ AgreeBut(tables, View(s), Target(s))
Commits == \E tables : Commit(tables)

OthersWait(s) == \A r \in Sessions \ {s} : pc'[r] = pc[r] /\ batch'[r] = batch[r]

LEMMA DatabaseStep ==
    ASSUME LockInv, QueueInv, NEW s \in Sessions, OthersWait(s),
           Reads(s) \/ WritesTarget(s) \/ Commits \/ Rollback(s)
    PROVE  LockInv'
<1> USE DEF LockInv, LockIsReleased, TransactionIsOneActor, Target
<1>0. lock \in Sessions \cup {NoSession} /\ NoSession \notin Sessions
  BY SessionsAssumption DEF QueueInv, TypeOK
<1>1. CASE Reads(s)
  BY <1>0, <1>1 DEF Reads, ReadOnly, OthersWait
<1>2. CASE WritesTarget(s)
  <2>1. PICK tables : Write(s, tables) /\ AgreeBut(tables, View(s), Target(s))
    BY <1>2 DEF WritesTarget
  <2>2. lock' = s /\ work' = tables /\ disk' = disk
    BY <2>1 DEF Write
  <2>3. AgreeBut(View(s), disk, Target(s))
    BY <1>0, <1>2 DEF WritesTarget, CanWrite, View, AgreeBut
  <2>4. AgreeBut(work', disk', Target(s))
    BY <2>1, <2>2, <2>3 DEF AgreeBut
  <2> QED BY <1>0, <1>2, <2>2, <2>4 DEF WritesTarget, AgreeBut
<1>3. CASE Commits
  BY <1>0, <1>3 DEF Commits, Commit
<1>4. CASE Rollback(s)
  BY <1>0, <1>4 DEF Rollback, OthersWait
<1> QED BY <1>1, <1>2, <1>3, <1>4

-----------------------------------------------------------------------------
(* What is written. *)
LEMMA PutAgrees ==
    ASSUME NEW tables \in Tables, NEW a \in Actors, NEW row
    PROVE  AgreeBut(Put(tables, a, row), tables, a)
BY DEF Put, Tables, AgreeBut

LEMMA FlushAgrees ==
    ASSUME NEW tables \in Tables, NEW a \in Actors, NEW base, NEW held
    PROVE  AgreeBut(Flush(tables, a, base, held), tables, a)
BY PutAgrees DEF Flush

LEMMA PutStateAgrees ==
    ASSUME NEW tables, NEW a \in Actors, NEW v, NEW state, NEW old \in Tables,
           tables \in Tables, AgreeBut(tables, old, a)
    PROVE  AgreeBut(PutState(tables, a, v, state), old, a)
BY DEF PutState, Tables, AgreeBut

LEMMA StoredAgrees ==
    ASSUME NEW tables \in Tables, NEW s \in Sessions, Target(s) \in Actors
    PROVE  AgreeBut(Stored(s, tables), tables, Target(s))
BY DEF Stored, Tables, AgreeBut

LEMMA SelfAgrees == ASSUME NEW tables, NEW a PROVE AgreeBut(tables, tables, a)
BY DEF AgreeBut

-----------------------------------------------------------------------------
(* The steps that may leave a transaction open. *)
LEMMA SessionFacts ==
    ASSUME QueueInv, NEW s \in Sessions
    PROVE  /\ pc \in [Sessions -> Labels] /\ batch \in [Sessions -> Seq(Actors)]
           /\ pc[s] \in WorkLabels => batch[s] # <<>> /\ Target(s) \in Actors
           /\ View(s) \in Tables /\ AllInReach(View(s))
<1>1. DatabaseOK /\ SessionsOK
  BY Halves
<1>2. pc[s] \in WorkLabels => batch[s] # <<>>
  BY <1>1 DEF SessionsOK, HasTarget
<1> QED BY <1>1, <1>2, ViewOK, TargetOK DEF SessionsOK

LEMMA TrackPollLock ==
    ASSUME QueueInv, LockInv, NEW s \in Sessions, TrackPoll(s)
    PROVE  OthersWait(s) /\ (Reads(s) \/ WritesTarget(s))
<1>1. pc[s] \in WorkLabels /\ Goto(s, "todo") /\ batch' = batch
  BY DEF TrackPoll, WorkLabels, Labels
<1>2. OthersWait(s) /\ pc'[s] \in LockLabels /\ batch'[s] = batch[s]
  BY <1>1, SessionFacts DEF Goto, OthersWait, LockLabels
<1>3. ReadOnly \/ (CanWrite(s) /\ Write(s, Put(View(s), Target(s), NewRow(now))))
  BY DEF TrackPoll
<1>4. AgreeBut(Put(View(s), Target(s), NewRow(now)), View(s), Target(s))
  BY <1>1, SessionFacts, PutAgrees
<1> QED BY <1>1, <1>2, <1>3, <1>4, SessionFacts DEF Reads, WritesTarget

LEMMA PollTodoLock ==
    ASSUME QueueInv, LockInv, NEW s \in Sessions, PollTodo(s)
    PROVE  OthersWait(s) /\ WritesTarget(s)
<1>1. pc[s] \in WorkLabels /\ Goto(s, "git") /\ batch' = batch
      /\ CanWrite(s) /\ Write(s, View(s))
  BY DEF PollTodo, WorkLabels, Labels
<1>2. OthersWait(s) /\ pc'[s] \in LockLabels /\ batch'[s] = batch[s]
  BY <1>1, SessionFacts DEF Goto, OthersWait, LockLabels
<1> QED BY <1>1, <1>2, SelfAgrees, SessionFacts DEF WritesTarget

LEMMA IndexPollLock ==
    ASSUME QueueInv, LockInv, NEW s \in Sessions, IndexPoll(s)
    PROVE  OthersWait(s) /\ WritesTarget(s)
<1> DEFINE held == Indexed(View(s).rows[Target(s)], now)
<1>1. pc[s] \in WorkLabels /\ Goto(s, "backfill") /\ batch' = batch
      /\ CanWrite(s) /\ Write(s, Put(View(s), Target(s), held))
  BY DEF IndexPoll, WorkLabels, Labels
<1> HIDE DEF held
<1>2. OthersWait(s) /\ pc'[s] \in LockLabels /\ batch'[s] = batch[s]
  BY <1>1, SessionFacts DEF Goto, OthersWait, LockLabels
<1>3. AgreeBut(Put(View(s), Target(s), held), View(s), Target(s))
  BY <1>1, SessionFacts, PutAgrees
<1> QED BY <1>1, <1>2, <1>3, SessionFacts DEF WritesTarget

LEMMA BeginBackfillLock ==
    ASSUME QueueInv, LockInv, NEW s \in Sessions, BeginBackfill(s)
    PROVE  OthersWait(s) /\ (Reads(s) \/ WritesTarget(s))
<1> DEFINE held == [seen[s][Target(s)] EXCEPT !.backfill = "in_progress"]
           tables == Flush(View(s), Target(s), seen[s][Target(s)], held)
<1>1. /\ pc[s] \in WorkLabels /\ batch' = batch
      /\ Goto(s, "finish") \/ Goto(s, "open")
      /\ ReadOnly \/ (CanWrite(s) /\ Write(s, tables))
  BY DEF BeginBackfill, WorkLabels, Labels
<1> HIDE DEF held
<1>2. OthersWait(s) /\ pc'[s] \in LockLabels /\ batch'[s] = batch[s]
  BY <1>1, SessionFacts DEF Goto, OthersWait, LockLabels
<1>3. AgreeBut(tables, View(s), Target(s))
  BY <1>1, SessionFacts, FlushAgrees
<1> QED BY <1>1, <1>2, <1>3, SessionFacts DEF Reads, WritesTarget

LEMMA OpenServiceLock ==
    ASSUME QueueInv, LockInv, NEW s \in Sessions, OpenService(s)
    PROVE  OthersWait(s) /\ (Reads(s) \/ WritesTarget(s))
<1>1. /\ pc[s] \in WorkLabels /\ batch' = batch /\ Goto(s, "fetch")
      /\ \/ ReadOnly
         \/ \E state : CanWrite(s) /\ Write(s, PutState(View(s), Target(s), fill[s].service, state))
  BY DEF OpenService, WorkLabels, Labels
<1>2. OthersWait(s) /\ pc'[s] \in LockLabels /\ batch'[s] = batch[s]
  BY <1>1, SessionFacts DEF Goto, OthersWait, LockLabels
<1>3. \A state :
         AgreeBut(PutState(View(s), Target(s), fill[s].service, state), View(s), Target(s))
  BY <1>1, SessionFacts, SelfAgrees, PutStateAgrees
<1> QED BY <1>1, <1>2, <1>3, SessionFacts DEF Reads, WritesTarget

LEMMA FetchBatchLock ==
    ASSUME QueueInv, LockInv, NEW s \in Sessions, FetchBatch(s)
    PROVE  OthersWait(s) /\ (Reads(s) \/ WritesTarget(s))
<1> DEFINE state == FlushedState(s, StateOf(s))
           stored == Stored(s, View(s))
           tables == PutState(stored, Target(s), fill[s].service, state)
<1>1. /\ pc[s] = "fetch" /\ batch' = batch
      /\ pc' = pc \/ Goto(s, "open")
      /\ ReadOnly \/ (CanWrite(s) /\ (Write(s, stored) \/ Write(s, tables)))
  BY DEF FetchBatch
<1>2. pc[s] \in WorkLabels
  BY <1>1 DEF WorkLabels, Labels
<1>3. OthersWait(s) /\ pc'[s] \in LockLabels /\ batch'[s] = batch[s]
  BY <1>1, SessionFacts DEF Goto, OthersWait, LockLabels
<1> HIDE DEF state
<1>4. AgreeBut(stored, View(s), Target(s))
  BY <1>2, SessionFacts, StoredAgrees
<1>5. stored \in Tables
  BY <1>1, <1>2, SessionFacts, StoredIsTables DEF QueueInv, HasService
<1> HIDE DEF stored
<1>6. AgreeBut(tables, View(s), Target(s))
  BY <1>2, <1>4, <1>5, SessionFacts, PutStateAgrees
<1> QED BY <1>1, <1>2, <1>3, <1>4, <1>6, SessionFacts DEF Reads, WritesTarget

LEMMA FailBatchLock ==
    ASSUME QueueInv, LockInv, NEW s \in Sessions, FailBatch(s)
    PROVE  OthersWait(s) /\ WritesTarget(s)
<1> DEFINE row == [seen[s][Target(s)] EXCEPT !.backfill = "error"]
           state == [StateOf(s) EXCEPT !.status = "error"]
           flushed == Flush(View(s), Target(s), seen[s][Target(s)], row)
           tables == PutState(flushed, Target(s), fill[s].service, state)
<1>1. /\ pc[s] \in WorkLabels /\ batch' = batch /\ Goto(s, "backfill_failed")
      /\ CanWrite(s) /\ Write(s, tables)
  BY DEF FailBatch, WorkLabels, Labels
<1>2. OthersWait(s) /\ pc'[s] \in LockLabels /\ batch'[s] = batch[s]
  BY <1>1, SessionFacts DEF Goto, OthersWait, LockLabels
<1>3. seen[s][Target(s)] \in Row /\ InReach(seen[s][Target(s)], now)
  BY <1>1, SessionFacts, TargetOK, Halves
<1>4. row \in Row /\ row.due = seen[s][Target(s)].due
  BY <1>3 DEF Row, BackfillStatuses
<1> HIDE DEF row, state
<1>5. InReach(row, now)
  BY <1>3, <1>4 DEF InReach
<1>6. flushed \in Tables
  BY <1>1, <1>3, <1>4, <1>5, SessionFacts, FlushIsTables
<1>7. AgreeBut(flushed, View(s), Target(s))
  BY <1>1, SessionFacts, FlushAgrees
<1> HIDE DEF flushed
<1>8. AgreeBut(tables, View(s), Target(s))
  BY <1>1, <1>6, <1>7, SessionFacts, PutStateAgrees
<1> QED BY <1>1, <1>2, <1>8, SessionFacts DEF WritesTarget

-----------------------------------------------------------------------------
(* The steps that end a transaction, or have none. *)
LEMMA OneSession ==
    ASSUME QueueInv, NEW s \in Sessions,
           Close(s) \/ NextActor(s) \/ \E label : Goto(s, label) /\ batch' = batch
    PROVE  OthersWait(s)
BY SessionFacts DEF Close, NextActor, Goto, OthersWait

LEMMA EndsTransaction ==
    ASSUME QueueInv, LockInv, NEW s \in Sessions,
           \/ Claim(s) \/ IndexPass(s) \/ Reschedule(s) \/ FinishBackfill(s)
           \/ Abandon(s) \/ RecordError(s) \/ AnswerGet(s)
    PROVE  OthersWait(s) /\ (Commits \/ Rollback(s))
<1>1. CASE Claim(s) \/ IndexPass(s)
  BY <1>1, OneSession DEF Claim, IndexPass, Commits
<1>2. CASE Reschedule(s)
  BY <1>2, OneSession DEF Reschedule, Commits
<1>3. CASE FinishBackfill(s)
  BY <1>3, OneSession DEF FinishBackfill, Commits
<1>4. CASE Abandon(s)
  BY <1>4, OneSession DEF Abandon
<1>5. CASE RecordError(s) \/ AnswerGet(s)
  BY <1>5, OneSession DEF RecordError, AnswerGet, Commits
<1> QED BY <1>1, <1>2, <1>3, <1>4, <1>5

\* Outside LockLabels a session has no transaction to keep.
LEMMA HasNoTransaction ==
    ASSUME QueueInv, LockInv, NEW s \in Sessions, pc[s] \notin LockLabels
    PROVE  lock # s
BY SessionsAssumption DEF LockInv, LockIsReleased

LEMMA OnlyReads ==
    ASSUME QueueInv, LockInv, NEW s \in Sessions,
           \/ Load(s) \/ StartPass(s) \/ Select(s) \/ EndPass(s)
           \/ (\E a \in Actors : StartPoll(s, a))
           \/ (\E a \in Actors, prioritize \in BOOLEAN : StartGet(s, a, prioritize))
           \/ FetchFails(s) \/ AfterServices(s) \/ SkipService(s)
           \/ InsertFails(s) \/ BusyTimeout(s)
    PROVE  OthersWait(s) /\ Reads(s)
<1>1. CASE Load(s) \/ SkipService(s)
  <2>1. pc' = pc /\ batch' = batch /\ ReadOnly
    BY <1>1 DEF Load, SkipService
  <2> QED BY <2>1, SessionsAssumption DEF OthersWait, Reads, LockInv, LockIsReleased
<1>2. CASE FetchFails(s) \/ AfterServices(s)
  <2>1. /\ batch' = batch /\ ReadOnly
        /\ Goto(s, "poll_failed") \/ Goto(s, "finish")
    BY <1>2 DEF FetchFails, AfterServices
  <2> QED BY <2>1, SessionFacts DEF OthersWait, Reads, Goto, LockLabels
<1>3. CASE \/ StartPass(s) \/ Select(s) \/ EndPass(s)
           \/ (\E a \in Actors : StartPoll(s, a))
           \/ (\E a \in Actors, prioritize \in BOOLEAN : StartGet(s, a, prioritize))
           \/ InsertFails(s)
  <2>1. ReadOnly /\ pc[s] \notin LockLabels
    BY <1>3 DEF StartPass, Select, EndPass, StartPoll, StartGet, InsertFails, LockLabels
  <2>2. OthersWait(s)
    BY <1>3, SessionFacts
    DEF StartPass, Select, EndPass, StartPoll, StartGet, InsertFails, Close, Goto, OthersWait
  <2> QED BY <2>1, <2>2, HasNoTransaction DEF Reads
<1>4. CASE BusyTimeout(s)
  <2>1. ReadOnly /\ lock # s
    BY <1>4 DEF BusyTimeout, CanWrite
  <2>2. OthersWait(s)
    <3>1. CASE pc[s] = "todo"
      BY <1>4, <3>1, OneSession DEF BusyTimeout
    <3>2. CASE pc[s] \in {"backfill", "fetch", "finish"}
      BY <1>4, <3>2, OneSession DEF BusyTimeout
    <3>3. CASE pc[s] \notin {"todo", "backfill", "fetch", "finish"}
      BY <1>4, <3>3, OneSession DEF BusyTimeout
    <3> QED BY <3>1, <3>2, <3>3
  <2> QED BY <2>1, <2>2 DEF Reads
<1> QED BY <1>1, <1>2, <1>3, <1>4

\* The registration of the default actor commits, or finds nothing to do.
LEMMA TrackDefaultLock ==
    ASSUME QueueInv, LockInv, NEW s \in Sessions, TrackDefault(s)
    PROVE  OthersWait(s) /\ (Reads(s) \/ Commits)
<1>1. OthersWait(s)
  BY SessionFacts DEF TrackDefault, Goto, OthersWait
<1>2. pc[s] \notin LockLabels
  BY DEF TrackDefault, LockLabels
<1>3. ReadOnly \/ Commits
  BY DEF TrackDefault, Commits
<1> QED BY <1>1, <1>2, <1>3, HasNoTransaction DEF Reads

-----------------------------------------------------------------------------
LEMMA LockStep == QueueInv /\ LockInv /\ [Next]_vars => LockInv'
<1> SUFFICES ASSUME QueueInv, LockInv, [Next]_vars PROVE LockInv'
  OBVIOUS
<1>1. ASSUME NEW s \in Sessions,
             \/ PassStep(s) \/ PostStep(s) \/ GetStep(s) \/ PollStep(s)
             \/ Load(s) \/ InsertFails(s) \/ BusyTimeout(s)
      PROVE  LockInv'
  <2>1. /\ OthersWait(s)
        /\ Reads(s) \/ WritesTarget(s) \/ Commits \/ Rollback(s)
    <3>1. CASE PassStep(s)
      BY <3>1, OnlyReads, EndsTransaction, TrackDefaultLock DEF PassStep
    <3>2. CASE PostStep(s)
      BY <3>2, OnlyReads, TrackPollLock, IndexPollLock DEF PostStep
    <3>3. CASE GetStep(s)
      BY <3>3, OnlyReads, EndsTransaction DEF GetStep
    <3>4. CASE PollStep(s)
      BY <3>4, OnlyReads, EndsTransaction, PollTodoLock, BeginBackfillLock, OpenServiceLock,
         FetchBatchLock, FailBatchLock DEF PollStep
    <3> QED BY <1>1, <3>1, <3>2, <3>3, <3>4, OnlyReads
  <2> QED BY <2>1, DatabaseStep
<1>2. ASSUME Crash PROVE LockInv'
  BY <1>2 DEF Crash, LockInv, LockIsReleased, TransactionIsOneActor
<1>3. ASSUME Tick \/ UNCHANGED vars PROVE LockInv'
  BY <1>3 DEF Tick, vars, LockInv, LockIsReleased, TransactionIsOneActor, Target
<1>4. CASE Next
  BY <1>1, <1>2, <1>3, <1>4 DEF Next, Sessions
<1> QED BY <1>3, <1>4

LEMMA LockInit == Init => LockInv
BY DEF Init, LockInv, LockIsReleased, TransactionIsOneActor

\* What LockReleased and TransactionOneActor rest on, in every state.
THEOREM LockInvariant == Spec => []LockInv
BY QueueInvariant, LockInit, LockStep, PTL DEF Spec

\* Every way through poll_tracked_actors, poll_actor and the contribution route
\* ends its transaction: no session that reports an error, goes on to the next
\* actor or is at rest keeps the write lock of SQLite from the others.
THEOREM LockReleased == Spec => []LockIsReleased
<1>1. LockInv => LockIsReleased
  BY DEF LockInv
<1> QED BY <1>1, LockInvariant, PTL

\* The rollback in the except branches of poll_tracked_actors and poll_actor,
\* and the loss of an open transaction when the process dies, undo work on the
\* actor that failed and on no other.
THEOREM TransactionOneActor == Spec => []TransactionIsOneActor
<1>1. LockInv => TransactionIsOneActor
  BY DEF LockInv
<1> QED BY <1>1, LockInvariant, PTL
=============================================================================
