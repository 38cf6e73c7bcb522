------------------------- MODULE QueueBackfillProofs -------------------------
(***************************************************************************)
(* What the backfill of the poll queue leaves in the database, for any     *)
(* sets of actors and sessions, any number of batches and any settings:    *)
(* cursors vouch for events, "completed" is true and is final, and no      *)
(* INSERT of a service's state can meet that of another session.           *)
(*                                                                         *)
(* Sessions work with attributes that others may have overwritten since.   *)
(* What saves them is that the committed tables only ever move forward     *)
(* (Later), so that what a session saw is still true of them, if in the    *)
(* past; and that the one that looks at an uncommitted state is the one    *)
(* that has written it (SessionOK).                                        *)
(*                                                                         *)
(* The last part is about claims: where there is one pass and no manual    *)
(* poll, a claimed row is due (ClaimsDue), because nobody else writes over *)
(* the due time that it had when it was claimed.                           *)
(***************************************************************************)
EXTENDS PollQueueProofs

Status(T, a, v) == T.states[a][v].status

Settled(T, a, v) == Status(T, a, v) \in {"absent", "in_progress", "completed"}
Going(T, a, v) == Status(T, a, v) \in {"in_progress", "completed"}
Started(T, a) == \A v \in Services : Status(T, a, v) # "absent"

\* The cursor and the status of a backfill vouch for its events, and the status
\* of the actor for that of the services.
Backed(T, a) ==
    \A v \in Services :
        /\ EventBatches \cap 1..(T.states[a][v].cursor - 1) \subseteq T.events[a][v]
        /\ Status(T, a, v) = "completed" => EventBatches \cap 1..Length(v) \subseteq T.events[a][v]

Complete(T, a) == T.rows[a].backfill = "completed" => AllComplete(T, a)

\* What a transaction leaves when it commits.
TableOK(T, a) ==
    /\ Backed(T, a) /\ Complete(T, a)
    /\ \A v \in Services : Settled(T, a, v)
    /\ T.rows[a].backfill # "pending" => Tracked(T.rows[a]) /\ Started(T, a)

\* The tables move forward from T to U: nothing is lost, reopened or deleted ...
Forward(T, U, a) ==
    /\ Tracked(T.rows[a]) => Tracked(U.rows[a])
    /\ \A v \in Services :
          /\ T.events[a][v] \subseteq U.events[a][v]
          /\ Status(T, a, v) = "completed" => Status(U, a, v) = "completed"
          /\ Status(T, a, v) # "absent" => Status(U, a, v) # "absent"

\* ... and the backfill of the actor remains completed, too.
Later(T, U, a) ==
    /\ Forward(T, U, a)
    /\ T.rows[a].backfill = "completed" => U.rows[a].backfill = "completed"

\* A session that loaded `row` for the actor sees T.
SeenOK(T, row, a) ==
    /\ Tracked(row) => Tracked(T.rows[a])
    /\ row.backfill # "pending" => Started(T, a)

-----------------------------------------------------------------------------
Failed == {"poll_failed", "backfill_failed"}
Backfills == {"open", "fetch", "finish"}

\* The rows that a pass works on are in the table.
PassOK(s) ==
    s \in Passes /\ pc[s] # "default" =>
        /\ \A i \in DOMAIN batch[s] : Tracked(disk.rows[batch[s][i]])
        /\ \A a \in loaded[s] : Tracked(seen[s][a])

\* What a session has seen is not ahead of what it would read now.
SeenIsPast(s) ==
    pc[s] \notin Failed =>
        \A a \in Actors :
            (pc[s] \in Backfills /\ a = Target(s)) \/ SeenOK(View(s), seen[s][a], a)

\* The row of the target was found, or was inserted by the session itself.
HoldsTarget(s) ==
    /\ (s \in Passes /\ pc[s] \in {"todo", "git", "reschedule"}) \/ pc[s] = "backfill"
          => Tracked(seen[s][Target(s)])
    /\ s \in Posts /\ pc[s] \in {"todo", "git"} => Tracked(View(s).rows[Target(s)])

\* Outside the backfill, what a transaction has written could be committed.
WorkOK(s) ==
    pc[s] \notin Failed \cup Backfills /\ lock = s =>
        TableOK(work, Target(s)) /\ Later(disk, work, Target(s))

\* In between the services of a backfill.
ServicesOK(s, V, a) ==
    pc[s] \in {"open", "fetch"} =>
        /\ seen[s][a].backfill = "in_progress"
        /\ lock = s \/ Started(V, a)
        /\ \A v \in Services :
              /\ v < fill[s].service => Going(V, a, v)
              /\ v > fill[s].service \/ pc[s] = "open" => Settled(V, a, v)

\* In between the batches of a service.
BatchesOK(s, V, a) ==
    pc[s] = "fetch" =>
        /\ \/ /\ fill[s].base.status = "pending" /\ lock = s
              /\ Status(V, a, fill[s].service) = "pending"
           \/ fill[s].base.status = "in_progress" /\ Going(V, a, fill[s].service)
        /\ EventBatches \cap 1..(fill[s].cursor - 1) \subseteq V.events[a][fill[s].service]

FinishOK(s, V, a) ==
    pc[s] = "finish" =>
        /\ \A v \in Services : Going(V, a, v)
        /\ seen[s][a].backfill = "completed" /\ disk.rows[a].backfill = "completed"
              => V.rows[a].backfill = "completed"

BackfillOK(s, V, a) ==
    pc[s] \in Backfills =>
        /\ Tracked(V.rows[a]) /\ Tracked(seen[s][a])
        /\ Backed(V, a) /\ Complete(V, a) /\ Forward(disk, V, a)
        /\ ServicesOK(s, V, a) /\ BatchesOK(s, V, a) /\ FinishOK(s, V, a)

SessionOK(s) ==
    /\ PassOK(s) /\ SeenIsPast(s) /\ HoldsTarget(s) /\ WorkOK(s)
    /\ BackfillOK(s, View(s), Target(s))

BackfillInv ==
    /\ \A a \in Actors : TableOK(disk, a)
    /\ \A s \in Sessions : SessionOK(s)

-----------------------------------------------------------------------------
(* Tables. *)
Same(T, U, a) == T.rows[a] = U.rows[a] /\ T.states[a] = U.states[a] /\ T.events[a] = U.events[a]

LEMMA SameActor ==
    ASSUME NEW T, NEW U, NEW a, Same(T, U, a)
    PROVE  TableOK(T, a) => TableOK(U, a) /\ Later(T, U, a)
BY DEF Same, TableOK, Later, Forward, Backed, Complete, AllComplete, Settled, Started, Status

LEMMA LaterSelf ==
    ASSUME NEW T, NEW a
    PROVE  Later(T, T, a)
BY DEF Later, Forward

LEMMA LaterStill ==
    ASSUME NEW T, NEW U, NEW W, NEW a
    PROVE  /\ Forward(T, U, a) /\ Forward(U, W, a) => Forward(T, W, a)
           /\ Later(T, U, a) /\ Later(U, W, a) => Later(T, W, a)
BY DEF Later, Forward

\* What a session has seen remains the past.
LEMMA SeenForward ==
    ASSUME NEW T, NEW U, NEW row, NEW a, SeenOK(T, row, a), Forward(T, U, a)
    PROVE  SeenOK(U, row, a)
BY DEF SeenOK, Forward, Started

LEMMA AbsentIsPast ==
    ASSUME NEW T, NEW a
    PROVE  SeenOK(T, AbsentRow, a)
BY DEF SeenOK, AbsentRow, Tracked

\* Most steps write the row of an actor and leave its backfill alone.
Plain(T, U, a) ==
    /\ AgreeBut(U, T, a) /\ U.states = T.states /\ U.events = T.events
    /\ Tracked(U.rows[a]) /\ U.rows[a].backfill = T.rows[a].backfill

LEMMA PlainFacts ==
    ASSUME NEW T, NEW U, NEW a \in Actors, Plain(T, U, a)
    PROVE  /\ TableOK(T, a) => TableOK(U, a)
           /\ \A b \in Actors : Later(T, U, b)
<1>1. TableOK(T, a) => TableOK(U, a)
  BY DEF Plain, TableOK, Backed, Complete, AllComplete, Settled, Started, Status
<1>2. ASSUME NEW b \in Actors
      PROVE  Later(T, U, b)
  <2>1. Tracked(T.rows[b]) => Tracked(U.rows[b])
    BY DEF Plain, AgreeBut
  <2>2. T.rows[b].backfill = U.rows[b].backfill
    BY DEF Plain, AgreeBut
  <2> QED BY <2>1, <2>2 DEF Plain, Later, Forward, Status
<1> QED BY <1>1, <1>2

\* What a session holds for a row after a call that leaves the backfill alone.
Continues(base, held) ==
    /\ Tracked(held)
    /\ held.backfill = IF Tracked(base) THEN base.backfill ELSE "pending"

LEMMA FlushIsPlain ==
    ASSUME NEW T \in Tables, NEW a \in Actors, NEW base \in Row, NEW held \in Row,
           Continues(base, held), Tracked(base) <=> Tracked(T.rows[a]), TableOK(T, a)
    PROVE  Plain(T, Flush(T, a, base, held), a) /\ Plain(T, FlushDue(T, a, base, held), a)
<1>1. ASSUME NEW row, Tracked(row), row.backfill = T.rows[a].backfill
      PROVE  Plain(T, Put(T, a, row), a)
  <2>1. /\ Put(T, a, row).rows[a] = row /\ Put(T, a, row).states = T.states
        /\ Put(T, a, row).events = T.events
    BY DEF Put, Tables
  <2> QED BY <1>1, <2>1, PutAgrees DEF Plain
<1>2. CASE Tracked(base)
  <2>1. LET row == Merge(T.rows[a], base, held)
        IN  Tracked(row) /\ row.backfill = T.rows[a].backfill
    BY <1>2 DEF Continues, Merge, Net, Tracked
  <2>2. LET row == Stamp(T.rows[a], base, held)
        IN  Tracked(row) /\ row.backfill = T.rows[a].backfill
    BY <2>1 DEF Stamp, Merge, Tracked
  <2> QED BY <1>1, <1>2, <2>1, <2>2 DEF Flush, FlushDue
<1>3. CASE ~Tracked(base)
  <2>1. T.rows[a].backfill = "pending"
    BY <1>3 DEF TableOK
  <2>2. Tracked(held) /\ held.backfill = T.rows[a].backfill
    BY <1>3, <2>1 DEF Continues
  <2> QED BY <1>1, <1>3, <2>2 DEF Flush, FlushDue
<1> QED BY <1>2, <1>3

LEMMA CallsContinue ==
    ASSUME NEW row \in Row, NEW t \in Nat
    PROVE  /\ \A prioritize \in BOOLEAN : Continues(row, TrackRequest(row, t, prioritize))
           /\ Continues(row, Indexed(row, t)) /\ Continues(row, Errored(row, t))
           /\ Continues(row, Rescheduled(row, t))
           /\ Tracked(row) => Continues(row, Claimed(row))
<1>1. /\ NewRow(t) \in Row /\ NewRow(t).state = "queued" /\ NewRow(t).backfill = "pending"
  BY NewRowIsRow, AbsentRowIsRow DEF NewRow, AbsentRow
<1>2. ASSUME NEW prioritize \in BOOLEAN
      PROVE  /\ Continues(row, TrackRequest(row, t, prioritize))
             /\ TrackRequest(row, t, prioritize) \in Row
  <2>1. TrackRequest(row, t, prioritize) \in Row /\ Tracked(TrackRequest(row, t, prioritize))
    BY TrackRequestIsRow
  <2>2. TrackRequest(row, t, prioritize).backfill
           = IF Tracked(row) THEN row.backfill ELSE "pending"
    BY <1>1 DEF TrackRequest, Row
  <2> QED BY <2>1, <2>2 DEF Continues
<1> DEFINE known == TrackRequest(row, t, FALSE)
<1>3. known \in Row /\ known.backfill = IF Tracked(row) THEN row.backfill ELSE "pending"
  BY <1>2 DEF Continues
<1> HIDE DEF known
<1>4. Continues(row, Indexed(row, t))
  BY <1>3 DEF known, Indexed, Continues, Tracked, Row
<1>5. Continues(row, Errored(row, t))
  BY <1>3 DEF known, Errored, Continues, Tracked, Row
<1>6. Continues(row, Rescheduled(row, t))
  BY <1>3 DEF known, Rescheduled, Continues, Tracked, Row
<1>7. Tracked(row) => Continues(row, Claimed(row))
  BY DEF Claimed, Continues, Tracked, Row
<1> QED BY <1>2, <1>4, <1>5, <1>6, <1>7

-----------------------------------------------------------------------------
(* What the database is to a session, and what it does to the others. *)
AllInv == QueueInv /\ LockInv /\ BackfillInv

OthersSame(s) ==
    \A r \in Sessions \ {s} :
        /\ pc'[r] = pc[r] /\ batch'[r] = batch[r] /\ loaded'[r] = loaded[r]
        /\ seen'[r] = seen[r] /\ fill'[r] = fill[r]

DbStep(s) ==
    \/ ReadOnly
    \/ CanWrite(s) /\ \E T : Write(s, T)
    \/ CanWrite(s) /\ \E T : Commit(T) /\ \A a \in Actors : TableOK(T, a) /\ Later(disk, T, a)
    \/ Rollback(s)

DiskForward == \A a \in Actors : TableOK(disk', a) /\ Later(disk, disk', a)

LEMMA StateFacts ==
    ASSUME AllInv, NEW s \in Sessions
    PROVE  /\ now \in Nat /\ disk \in Tables /\ work \in Tables /\ View(s) \in Tables
           /\ pc \in [Sessions -> Labels] /\ batch \in [Sessions -> Seq(Actors)]
           /\ loaded \in [Sessions -> SUBSET Actors] /\ seen \in [Sessions -> [Actors -> Row]]
           /\ fill \in [Sessions -> Fill]
           /\ lock \in Sessions \cup {NoSession} /\ NoSession \notin Sessions
           /\ pc[s] \in WorkLabels => batch[s] # <<>> /\ Target(s) \in Actors
           /\ batch[s] # <<>> => Target(s) \in Actors
           /\ lock = s => pc[s] \in LockLabels
           /\ \A a \in Actors : TableOK(disk, a)
           /\ SessionOK(s)
<1>1. QueueInv /\ DatabaseOK /\ SessionsOK /\ now \in 0..MaxClock
  BY Halves DEF AllInv
<1>2. batch[s] # <<>> => Target(s) \in Actors
  BY <1>1, TargetOK
<1>3. lock = s => pc[s] \in LockLabels
  BY SessionsAssumption DEF AllInv, LockInv, LockIsReleased
<1> QED BY <1>1, <1>2, <1>3, SessionFacts, MaxClockIsNat, SessionsAssumption
        DEF AllInv, BackfillInv, DatabaseOK, SessionsOK

\* Outside its target, a session sees what is committed.
LEMMA ElsewhereSame ==
    ASSUME AllInv, NEW s \in Sessions, NEW b \in Actors, lock # s \/ b # Target(s)
    PROVE  Same(disk, View(s), b)
<1>1. CASE lock = s
  <2>1. lock # NoSession
    BY <1>1, SessionsAssumption
  <2> QED BY <1>1, <2>1 DEF AllInv, LockInv, TransactionIsOneActor, View, Same
<1>2. CASE lock # s
  BY <1>2 DEF View, Same
<1> QED BY <1>1, <1>2

LEMMA AtRest ==
    ASSUME AllInv, NEW s \in Sessions, pc[s] \notin Failed \cup Backfills
    PROVE  \A b \in Actors : TableOK(View(s), b) /\ Later(disk, View(s), b)
<1> SUFFICES ASSUME NEW b \in Actors PROVE TableOK(View(s), b) /\ Later(disk, View(s), b)
  OBVIOUS
<1>1. TableOK(disk, b) /\ SessionOK(s)
  BY StateFacts
<1>2. CASE lock # s \/ b # Target(s)
  BY <1>1, <1>2, ElsewhereSame, SameActor
<1>3. CASE lock = s /\ b = Target(s)
  BY <1>1, <1>3 DEF SessionOK, WorkOK, View
<1> QED BY <1>2, <1>3

LEMMA OthersOK ==
    ASSUME AllInv, NEW s \in Sessions, OthersSame(s), DbStep(s)
    PROVE  DiskForward /\ \A r \in Sessions \ {s} : SessionOK(r)'
<1>1. DiskForward
  <2>1. CASE disk' = disk
    BY <2>1, StateFacts, LaterSelf DEF DiskForward
  <2>2. CASE disk' # disk
    BY <2>2 DEF DbStep, ReadOnly, Write, Rollback, Commit, DiskForward
  <2> QED BY <2>1, <2>2
<1> SUFFICES ASSUME NEW r \in Sessions \ {s} PROVE SessionOK(r)'
  BY <1>1
<1>2. /\ pc'[r] = pc[r] /\ batch'[r] = batch[r] /\ loaded'[r] = loaded[r]
      /\ seen'[r] = seen[r] /\ fill'[r] = fill[r]
  BY DEF OthersSame
<1>3. /\ SessionOK(r) /\ r # NoSession /\ batch \in [Sessions -> Seq(Actors)]
      /\ loaded \in [Sessions -> SUBSET Actors]
      /\ pc[r] \in WorkLabels => Target(r) \in Actors
  BY StateFacts
<1>4. CASE lock = r
  <2>1. UNCHANGED <<disk, work, lock>>
    BY <1>3, <1>4 DEF DbStep, ReadOnly, CanWrite, Rollback
  <2> QED BY <1>2, <1>3, <2>1 DEF SessionOK, PassOK, SeenIsPast, HoldsTarget, WorkOK, BackfillOK,
          ServicesOK, BatchesOK, FinishOK, View, Target
<1>5. CASE lock # r
  <2>1. lock' # r /\ View(r) = disk /\ View(r)' = disk'
    BY <1>3, <1>5 DEF DbStep, ReadOnly, CanWrite, Write, Commit, Rollback, View
  <2>2. \A a \in Actors : TableOK(disk', a) /\ Later(disk, disk', a) /\ Forward(disk, disk', a)
    BY <1>1 DEF DiskForward, Later
  <2>3. PassOK(r)'
    <3>1. \A i \in DOMAIN batch[r] : batch[r][i] \in Actors
      BY <1>3, ElementOfSeq
    <3> QED BY <1>2, <1>3, <2>2, <3>1 DEF SessionOK, PassOK, Forward
  <2>4. SeenIsPast(r)'
    <3>1. \A a \in Actors : SeenOK(disk, seen[r][a], a) => SeenOK(disk', seen[r][a], a)
      BY <2>2, SeenForward
    <3> QED BY <1>2, <1>3, <2>1, <3>1 DEF SessionOK, SeenIsPast, Target
  <2>5. HoldsTarget(r)'
    <3>1. pc[r] \in {"todo", "git"} => Target(r) \in Actors
      BY <1>3 DEF WorkLabels, Labels
    <3> QED BY <1>2, <1>3, <2>1, <2>2, <3>1 DEF SessionOK, HoldsTarget, Target, Forward
  <2>6. WorkOK(r)'
    BY <2>1 DEF WorkOK
  <2>7. BackfillOK(r, View(r), Target(r))'
    <3> SUFFICES ASSUME pc[r] \in Backfills PROVE BackfillOK(r, View(r), Target(r))'
      BY <1>2 DEF BackfillOK
    <3>1. PICK a \in Actors : a = Target(r) /\ Target(r)' = a
      BY <1>2, <1>3 DEF Target, WorkLabels, Labels, Backfills
    <3>2. BackfillOK(r, disk, a)
      BY <1>3, <2>1, <3>1 DEF SessionOK
    <3>3. TableOK(disk', a) /\ Forward(disk, disk', a) /\ Later(disk', disk', a)
      BY <2>2, <3>1, LaterSelf
    <3>4. /\ Tracked(disk'.rows[a]) /\ Tracked(seen'[r][a])
          /\ Backed(disk', a) /\ Complete(disk', a) /\ Forward(disk', disk', a)
      BY <1>2, <3>2, <3>3 DEF BackfillOK, TableOK, Forward, Later
    <3>5. \A v \in Services : Going(disk, a, v) => Going(disk', a, v)
      BY <3>3 DEF Going, TableOK, Settled, Forward
    <3>6. ServicesOK(r, disk, a)'
      BY <1>2, <1>5, <2>1, <3>2, <3>3, <3>5
      DEF BackfillOK, ServicesOK, TableOK, Started, Forward
    <3>7. BatchesOK(r, disk, a)'
      <4>1. pc[r] = "fetch" => fill[r].service \in Services
        BY DEF AllInv, QueueInv, HasService
      <4> QED BY <1>2, <1>5, <2>1, <3>2, <3>3, <3>5, <4>1 DEF BackfillOK, BatchesOK, Forward
    <3>8. FinishOK(r, disk, a)'
      BY <1>2, <2>1, <3>2, <3>3, <3>5 DEF BackfillOK, FinishOK
    <3> QED BY <1>2, <2>1, <3>1, <3>4, <3>6, <3>7, <3>8
            DEF BackfillOK, ServicesOK, BatchesOK, FinishOK
  <2> QED BY <2>3, <2>4, <2>5, <2>6, <2>7 DEF SessionOK
<1> QED BY <1>4, <1>5

-----------------------------------------------------------------------------
(* Parts of the steps. *)
Resting == Labels \ (Failed \cup Backfills)

SessionStep(s) == OthersSame(s) /\ DbStep(s) /\ SessionOK(s)'

LEMMA PlainStep ==
    ASSUME AllInv, NEW s \in Sessions, pc[s] \in Resting, CanWrite(s), Target(s) \in Actors,
           NEW T, Plain(View(s), T, Target(s)), Commit(T) \/ Write(s, T)
    PROVE  /\ DbStep(s) /\ View(s)' = T
           /\ \A b \in Actors : TableOK(T, b) /\ Later(disk, T, b) /\ Forward(View(s), T, b)
<1>1. \A b \in Actors : TableOK(View(s), b) /\ Later(disk, View(s), b)
  BY AtRest DEF Resting
<1>2. TableOK(T, Target(s)) /\ \A b \in Actors : Later(View(s), T, b)
  BY <1>1, PlainFacts
<1>3. ASSUME NEW b \in Actors
      PROVE  TableOK(T, b) /\ Later(disk, T, b) /\ Forward(View(s), T, b)
  <2>1. b # Target(s) => Same(View(s), T, b)
    BY DEF Plain, AgreeBut, Same
  <2>2. TableOK(T, b)
    BY <1>1, <1>2, <2>1, SameActor
  <2> QED BY <1>1, <1>2, <2>2, LaterStill DEF Later
<1>4. View(s)' = T
  BY StateFacts DEF Commit, Write, View
<1> QED BY <1>3, <1>4 DEF DbStep

LEMMA ReadStep ==
    ASSUME AllInv, NEW s \in Sessions, ReadOnly
    PROVE  DbStep(s) /\ View(s)' = View(s) /\ disk' = disk /\ lock' = lock
BY DEF ReadOnly, DbStep, View

\* A session that holds no transaction sees what is committed.
LEMMA NoTransaction ==
    ASSUME AllInv, NEW s \in Sessions, pc[s] \notin LockLabels
    PROVE  lock # s /\ View(s) = disk
BY StateFacts DEF View

LEMMA SeenKept ==
    ASSUME AllInv, NEW s \in Sessions, pc[s] \in Resting, seen'[s] = seen[s],
           \A b \in Actors : Forward(View(s), View(s)', b)
    PROVE  SeenIsPast(s)'
<1>1. \A a \in Actors : SeenOK(View(s), seen[s][a], a)
  BY StateFacts DEF SessionOK, SeenIsPast, Resting
<1>2. \A a \in Actors : SeenOK(View(s)', seen[s][a], a)
  BY <1>1, SeenForward
<1> QED BY <1>2 DEF SeenIsPast

LEMMA SeenExpired ==
    ASSUME AllInv, NEW s \in Sessions, Expire(s)
    PROVE  SeenIsPast(s)' /\ loaded'[s] = {}
<1>1. loaded'[s] = {} /\ \A a \in Actors : seen'[s][a] = AbsentRow
  BY StateFacts DEF Expire
<1> QED BY <1>1, AbsentIsPast DEF SeenIsPast

LEMMA SeenHeld ==
    ASSUME AllInv, NEW s \in Sessions, pc[s] \in Resting, NEW a \in Actors, NEW row,
           Hold(s, a, row), SeenOK(View(s)', row, a),
           \A b \in Actors : Forward(View(s), View(s)', b)
    PROVE  SeenIsPast(s)' /\ seen'[s][a] = row
<1>1. \A b \in Actors : seen'[s][b] = IF b = a THEN row ELSE seen[s][b]
  BY StateFacts DEF Hold
<1>2. \A b \in Actors : SeenOK(View(s), seen[s][b], b)
  BY StateFacts DEF SessionOK, SeenIsPast, Resting
<1>3. \A b \in Actors : SeenOK(View(s)', seen'[s][b], b)
  BY <1>1, <1>2, SeenForward
<1> QED BY <1>1, <1>3 DEF SeenIsPast

\* A pass that stays with its actors.
LEMMA PassStays ==
    ASSUME AllInv, NEW s \in Sessions, pc[s] # "default", OthersSame(s), DbStep(s),
           batch'[s] = batch[s],
           (loaded'[s] = loaded[s] /\ seen'[s] = seen[s]) \/ loaded'[s] = {}
    PROVE  PassOK(s)'
<1>1. DiskForward /\ SessionOK(s)
  BY OthersOK, StateFacts
<1>2. \A i \in DOMAIN batch[s] : batch[s][i] \in Actors
  BY StateFacts, ElementOfSeq
<1>3. \A a \in Actors : Tracked(disk.rows[a]) => Tracked(disk'.rows[a])
  BY <1>1 DEF DiskForward, Later, Forward
<1> QED BY <1>1, <1>2, <1>3 DEF SessionOK, PassOK

LEMMA PassHolds ==
    ASSUME AllInv, NEW s \in Sessions, pc[s] # "default", OthersSame(s), DbStep(s),
           batch'[s] = batch[s], NEW a \in Actors, NEW row, Hold(s, a, row),
           s \in Passes => Tracked(row)
    PROVE  PassOK(s)'
<1>1. DiskForward /\ SessionOK(s)
  BY OthersOK, StateFacts
<1>2. \A i \in DOMAIN batch[s] : batch[s][i] \in Actors
  BY StateFacts, ElementOfSeq
<1>3. \A b \in Actors : Tracked(disk.rows[b]) => Tracked(disk'.rows[b])
  BY <1>1 DEF DiskForward, Later, Forward
<1>4. /\ loaded'[s] = loaded[s] \cup {a} /\ loaded[s] \subseteq Actors
      /\ \A b \in Actors : seen'[s][b] = IF b = a THEN row ELSE seen[s][b]
  BY StateFacts DEF Hold
<1> QED BY <1>1, <1>2, <1>3, <1>4 DEF SessionOK, PassOK

LEMMA CloseStep ==
    ASSUME AllInv, NEW s \in Sessions, Close(s), lock' # s
    PROVE  OthersSame(s) /\ SessionOK(s)'
<1>1. pc'[s] \in {"ended", "idle"} /\ batch'[s] = <<>> /\ OthersSame(s) /\ Expire(s)
  BY StateFacts DEF Close, Goto, Expire, OthersSame
<1>2. SeenIsPast(s)' /\ loaded'[s] = {}
  BY <1>1, SeenExpired
<1>3. PassOK(s)'
  <2>1. DOMAIN <<>> = {}
    OBVIOUS
  <2> QED BY <1>1, <1>2, <2>1 DEF PassOK
<1> QED BY <1>1, <1>2, <1>3 DEF SessionOK, HoldsTarget, WorkOK, BackfillOK, Backfills

LEMMA NextStep ==
    ASSUME AllInv, NEW s \in Passes, NextActor(s), pc[s] \notin Failed \cup {"default"},
           batch[s] # <<>>, lock' # s, DiskForward
    PROVE  OthersSame(s) /\ SessionOK(s)'
<1> DEFINE a == Target(s)
<1>0. s \in Sessions /\ a \in Actors /\ batch[s] \in Seq(Actors)
  BY StateFacts DEF Sessions
<1>1. /\ pc'[s] = "next" /\ batch'[s] = Tail(batch[s]) /\ OthersSame(s)
      /\ loaded'[s] = loaded[s] \ {a}
      /\ \A b \in Actors : seen'[s][b] = IF b = a THEN AbsentRow ELSE seen[s][b]
  BY <1>0, StateFacts DEF NextActor, Goto, OthersSame
<1>2. PassOK(s)'
  <2>1. \A i \in DOMAIN batch'[s] : i + 1 \in DOMAIN batch[s] /\ batch'[s][i] = batch[s][i + 1]
                                   /\ batch[s][i + 1] \in Actors
    BY <1>0, <1>1, ElementOfSeq, HeadTailProperties, LenProperties
  <2>2. \A b \in Actors : Tracked(disk.rows[b]) => Tracked(disk'.rows[b])
    BY DEF DiskForward, Later, Forward
  <2>3. PassOK(s) /\ loaded[s] \subseteq Actors
    BY <1>0, StateFacts DEF SessionOK
  <2> QED BY <1>1, <2>1, <2>2, <2>3 DEF PassOK
<1>3. SeenIsPast(s)'
  <2> SUFFICES ASSUME NEW b \in Actors, b # a PROVE SeenOK(disk', seen[s][b], b)
    BY <1>1, AbsentIsPast DEF SeenIsPast, View
  <2>1. SeenOK(View(s), seen[s][b], b)
    BY <1>0, StateFacts DEF SessionOK, SeenIsPast
  <2>2. Same(disk, View(s), b)
    BY <1>0, ElsewhereSame
  <2>3. SeenOK(disk, seen[s][b], b)
    BY <2>1, <2>2 DEF Same, SeenOK, Started, Status
  <2> QED BY <2>3, SeenForward DEF DiskForward, Later
<1> QED BY <1>1, <1>2, <1>3 DEF SessionOK, HoldsTarget, WorkOK, BackfillOK, Backfills

-----------------------------------------------------------------------------
(* The steps that begin something. *)
LEMMA StartPassStep ==
    ASSUME AllInv, NEW s \in Passes, StartPass(s)
    PROVE  SessionStep(s)
<1>0. s \in Sessions /\ pc[s] = "idle" /\ pc[s] \in Resting
  BY DEF StartPass, Sessions, Resting, Labels, Failed, Backfills
<1>1. /\ OthersSame(s) /\ ReadOnly /\ seen'[s] = seen[s] /\ loaded'[s] = loaded[s]
      /\ pc'[s] = "default" \/ (pc'[s] = "select" /\ batch'[s] = batch[s])
  BY <1>0, StateFacts DEF StartPass, Goto, KeepRows, OthersSame
<1>2. DbStep(s) /\ View(s)' = View(s) /\ lock' # s
  BY <1>0, <1>1, ReadStep, NoTransaction DEF LockLabels
<1>3. PassOK(s)'
  BY <1>0, <1>1, <1>2, PassStays DEF PassOK
<1>4. SeenIsPast(s)'
  BY <1>0, <1>1, <1>2, SeenKept, LaterSelf DEF Later
<1> QED BY <1>1, <1>2, <1>3, <1>4 DEF SessionStep, SessionOK, HoldsTarget, WorkOK, BackfillOK, Backfills

LEMMA NotAPass ==
    ASSUME NEW s \in Posts \cup Gets
    PROVE  s \in Sessions /\ s \notin Passes
BY SessionsAssumption DEF Sessions

LEMMA StartRequestStep ==
    ASSUME AllInv, NEW s \in Posts \cup Gets,
           \/ \E a \in Actors : StartPoll(s, a)
           \/ \E a \in Actors, prioritize \in BOOLEAN : StartGet(s, a, prioritize)
    PROVE  SessionStep(s)
<1>0. s \in Sessions /\ s \notin Passes /\ pc[s] = "idle" /\ pc[s] \in Resting
  BY NotAPass DEF StartPoll, StartGet, Resting, Labels, Failed, Backfills
<1>1. /\ OthersSame(s) /\ ReadOnly /\ seen'[s] = seen[s]
      /\ pc'[s] \in {"track", "get", "get_boosted"}
  BY <1>0, StateFacts DEF StartPoll, StartGet, Goto, KeepRows, OthersSame
<1>2. DbStep(s) /\ View(s)' = View(s) /\ lock' # s
  BY <1>0, <1>1, ReadStep, NoTransaction DEF LockLabels
<1>3. SeenIsPast(s)'
  BY <1>0, <1>1, <1>2, SeenKept, LaterSelf DEF Later
<1> QED BY <1>0, <1>1, <1>2, <1>3
        DEF SessionStep, SessionOK, PassOK, HoldsTarget, WorkOK, BackfillOK, Backfills

LEMMA LoadStep ==
    ASSUME AllInv, NEW s \in Sessions, Load(s)
    PROVE  SessionStep(s)
<1>0. pc[s] \in LoadLabels /\ pc[s] \in Resting /\ pc[s] \notin LockLabels /\ batch[s] # <<>>
  BY DEF Load, LoadLabels, Resting, Labels, Failed, Backfills, LockLabels
<1>1. Target(s) \in Actors /\ lock # s /\ View(s) = disk /\ batch[s] \in Seq(Actors)
  BY <1>0, StateFacts, NoTransaction
<1> DEFINE a == Target(s)
           row == disk.rows[a]
<1>2. /\ OthersSame(s) /\ ReadOnly /\ pc'[s] = pc[s] /\ batch'[s] = batch[s]
      /\ Hold(s, a, row)
  BY <1>1, StateFacts DEF Load, Hold, OthersSame
<1>3. DbStep(s) /\ View(s)' = View(s) /\ disk' = disk /\ lock' = lock
  BY <1>2, ReadStep
<1>4. SeenOK(disk, row, a)
  BY <1>1, StateFacts DEF SeenOK, TableOK
<1>5. SeenIsPast(s)'
  BY <1>0, <1>1, <1>2, <1>3, <1>4, SeenHeld, LaterSelf DEF Later
<1>6. PassOK(s)'
  <2>1. CASE pc[s] = "default"
    BY <1>2, <2>1 DEF PassOK
  <2>2. CASE pc[s] # "default"
    <3>1. s \in Passes => Tracked(row)
      <4>1. 1 \in DOMAIN batch[s] /\ batch[s][1] = a
        BY <1>0, <1>1 DEF Target
      <4> QED BY <2>2, <4>1, StateFacts DEF SessionOK, PassOK
    <3> HIDE DEF row
    <3> QED BY <1>1, <1>2, <1>3, <2>2, <3>1, PassHolds
  <2> QED BY <2>1, <2>2
<1>7. pc'[s] \notin {"todo", "git", "reschedule", "backfill"} \cup Backfills
  BY <1>0, <1>2 DEF LoadLabels, Backfills
<1>8. lock' # s
  BY <1>1, <1>3
<1>9. HoldsTarget(s)' /\ WorkOK(s)' /\ BackfillOK(s, View(s), Target(s))'
  BY <1>7, <1>8 DEF HoldsTarget, WorkOK, BackfillOK
<1> QED BY <1>2, <1>3, <1>5, <1>6, <1>9 DEF SessionStep, SessionOK

LEMMA SelectStep ==
    ASSUME AllInv, NEW s \in Passes, Select(s)
    PROVE  SessionStep(s)
<1>0. s \in Sessions /\ pc[s] = "select" /\ disk \in Tables
  BY StateFacts DEF Select, Sessions
<1>1. PICK q \in Selections(disk.rows, now, BatchSize) :
        /\ batch' = [batch EXCEPT ![s] = q]
        /\ loaded' = [loaded EXCEPT ![s] = {q[i] : i \in DOMAIN q}]
        /\ seen' = [seen EXCEPT ![s] = [a \in Actors |->
              IF a \in {q[i] : i \in DOMAIN q} THEN disk.rows[a] ELSE AbsentRow]]
  BY DEF Select
<1>2. \A i \in DOMAIN q : q[i] \in Actors /\ Tracked(disk.rows[q[i]])
  <2>1. disk.rows \in [Actors -> Row] /\ BatchSize \in Nat
    BY <1>0, BoundsAssumption DEF Tables
  <2> DEFINE due == {a \in Actors : IsDue(disk.rows[a], now)}
  <2>2. PICK n \in Nat : q \in [1..n -> due]
    BY <1>1, <2>1 DEF Selections
  <2> QED BY <2>2 DEF IsDue
<1> DEFINE picked == {q[i] : i \in DOMAIN q}
<1>3. /\ OthersSame(s) /\ pc'[s] = "next" /\ batch'[s] = q /\ loaded'[s] = picked
      /\ \A a \in Actors : seen'[s][a] = IF a \in picked THEN disk.rows[a] ELSE AbsentRow
  BY <1>0, <1>1, StateFacts DEF Select, Goto, OthersSame
<1>4. picked \subseteq Actors /\ \A a \in picked : Tracked(disk.rows[a])
  BY <1>2
<1> HIDE DEF picked
<1>5. DbStep(s) /\ disk' = disk /\ lock' # s /\ View(s)' = disk
  BY <1>0, ReadStep, NoTransaction DEF Select, LockLabels
<1>6. PassOK(s)'
  BY <1>2, <1>3, <1>4, <1>5 DEF PassOK
<1>7. SeenIsPast(s)'
  <2>1. \A a \in Actors : SeenOK(disk, disk.rows[a], a)
    BY <1>0, StateFacts DEF SeenOK, TableOK
  <2> QED BY <1>3, <1>5, <2>1, AbsentIsPast DEF SeenIsPast
<1> QED BY <1>3, <1>5, <1>6, <1>7 DEF SessionStep, SessionOK, HoldsTarget, WorkOK, BackfillOK, Backfills

-----------------------------------------------------------------------------
(* The steps that end something without a write. *)
LEMMA GiveUpStep ==
    ASSUME AllInv, NEW s \in Sessions, ReadOnly, KeepRows, UNCHANGED <<batch, fill>>,
           pc[s] # "default", NEW label \in Failed, Goto(s, label)
    PROVE  SessionStep(s)
<1>1. OthersSame(s) /\ pc'[s] \in Failed /\ UNCHANGED <<batch, loaded, seen>>
  BY StateFacts DEF Goto, KeepRows, OthersSame
<1>2. DbStep(s)
  BY ReadStep
<1>3. PassOK(s)'
  BY <1>1, <1>2, PassStays
<1> QED BY <1>1, <1>2, <1>3 DEF SessionStep, SessionOK, SeenIsPast, HoldsTarget, WorkOK, BackfillOK,
        Backfills, Failed

LEMMA LeaveStep ==
    ASSUME AllInv, NEW s \in Sessions,
           EndPass(s) \/ InsertFails(s) \/ BusyTimeout(s) \/ FetchFails(s)
    PROVE  SessionStep(s)
<1>1. ASSUME ReadOnly, lock # s, Close(s)
      PROVE  SessionStep(s)
  BY <1>1, ReadStep, CloseStep DEF SessionStep
<1>2. CASE EndPass(s)
  BY <1>1, <1>2, NoTransaction DEF EndPass, LockLabels
<1>3. CASE InsertFails(s)
  BY <1>1, <1>3, NoTransaction DEF InsertFails, LockLabels
<1>4. CASE BusyTimeout(s)
  <2>1. lock # s /\ ReadOnly
    BY <1>4 DEF BusyTimeout, CanWrite
  <2>2. CASE pc[s] = "todo"
    BY <1>4, <2>1, <2>2, GiveUpStep DEF BusyTimeout, Failed
  <2>3. CASE pc[s] \in {"backfill", "fetch", "finish"}
    BY <1>4, <2>1, <2>3, GiveUpStep DEF BusyTimeout, Failed
  <2>4. CASE pc[s] \notin {"todo", "backfill", "fetch", "finish"}
    BY <1>1, <1>4, <2>1, <2>4 DEF BusyTimeout
  <2> QED BY <2>2, <2>3, <2>4
<1>5. CASE FetchFails(s)
  BY <1>5, GiveUpStep DEF FetchFails, Failed
<1> QED BY <1>2, <1>3, <1>4, <1>5

LEMMA AbandonStep ==
    ASSUME AllInv, NEW s \in Sessions, Abandon(s)
    PROVE  SessionStep(s)
<1>1. DbStep(s) /\ disk' = disk /\ lock' # s
  BY StateFacts DEF Abandon, Rollback, DbStep
<1>2. CASE Close(s)
  BY <1>1, <1>2, CloseStep DEF SessionStep
<1>3. CASE ~Close(s)
  <2>1. /\ OthersSame(s) /\ Expire(s) /\ batch' = batch
        /\ pc[s] \in Failed /\ pc'[s] \in {"poll_error", "backfill_error"}
    BY <1>3, StateFacts DEF Abandon, Goto, Expire, OthersSame, Failed
  <2>2. SeenIsPast(s)' /\ loaded'[s] = {}
    BY <2>1, SeenExpired
  <2>3. PassOK(s)'
    BY <1>1, <2>1, <2>2, PassStays DEF Failed
  <2> QED BY <1>1, <2>1, <2>2, <2>3 DEF SessionStep, SessionOK, HoldsTarget, WorkOK, BackfillOK, Backfills
<1> QED BY <1>2, <1>3

-----------------------------------------------------------------------------
(* The steps that write the row of the target and leave its backfill alone. *)
LEMMA PlainFlush ==
    ASSUME AllInv, NEW s \in Sessions, pc[s] \in Resting, Target(s) \in Actors,
           NEW held \in Row, Continues(seen[s][Target(s)], held),
           ~Conflict(s) \/ Tracked(seen[s][Target(s)])
    PROVE  /\ Plain(View(s), Flush(View(s), Target(s), seen[s][Target(s)], held), Target(s))
           /\ Plain(View(s), FlushDue(View(s), Target(s), seen[s][Target(s)], held), Target(s))
<1> DEFINE a == Target(s)
           base == seen[s][a]
<1>1. View(s) \in Tables /\ a \in Actors /\ base \in Row
  BY StateFacts
<1>2. TableOK(View(s), a)
  BY <1>1, AtRest DEF Resting
<1>3. SeenOK(View(s), base, a)
  BY <1>1, StateFacts DEF SessionOK, SeenIsPast, Resting
<1>4. Tracked(base) <=> Tracked(View(s).rows[a])
  BY <1>3 DEF SeenOK, Conflict
<1> HIDE DEF base, a
<1>5. Continues(base, held)
  BY DEF base, a
<1>6. Plain(View(s), Flush(View(s), a, base, held), a) /\ Plain(View(s), FlushDue(View(s), a, base, held), a)
  BY <1>1, <1>2, <1>4, <1>5, FlushIsPlain
<1> QED BY <1>6 DEF base, a

LEMMA TrackDefaultStep ==
    ASSUME AllInv, NEW s \in Passes, TrackDefault(s)
    PROVE  SessionStep(s)
<1>0. /\ s \in Sessions /\ pc[s] = "default" /\ pc[s] \in Resting /\ pc[s] \notin LockLabels
      /\ batch[s] # <<>>
  BY DEF TrackDefault, HasRow, Sessions, Resting, Labels, Failed, Backfills, LockLabels
<1>1. Target(s) \in Actors /\ lock # s /\ now \in Nat /\ seen[s][Target(s)] \in Row
  BY <1>0, StateFacts, NoTransaction
<1> DEFINE row == TrackRequest(seen[s][Target(s)], now, FALSE)
           T == Flush(View(s), Target(s), seen[s][Target(s)], row)
<1>2. ReadOnly \/ (CanWrite(s) /\ ~Conflict(s) /\ Commit(T))
  BY DEF TrackDefault
<1>3. row \in Row /\ Continues(seen[s][Target(s)], row)
  BY <1>1, TrackRequestIsRow, CallsContinue
<1> HIDE DEF row
<1>4. DbStep(s) /\ lock' # s
  <2>1. CASE ReadOnly
    BY <1>0, <1>1, <2>1, ReadStep
  <2>2. CASE CanWrite(s) /\ ~Conflict(s) /\ Commit(T)
    <3>1. Plain(View(s), T, Target(s))
      BY <1>0, <1>1, <1>3, <2>2, PlainFlush
    <3> HIDE DEF T
    <3>2. DbStep(s)
      BY <1>0, <1>1, <2>2, <3>1, PlainStep
    <3> QED BY <1>0, <2>2, <3>2, StateFacts DEF Commit
  <2> QED BY <1>2, <2>1, <2>2
<1>5. /\ OthersSame(s) /\ pc'[s] = "select" /\ batch'[s] = <<>> /\ Expire(s)
  BY <1>0, StateFacts DEF TrackDefault, Goto, Expire, OthersSame
<1>6. SeenIsPast(s)' /\ loaded'[s] = {}
  BY <1>0, <1>5, SeenExpired
<1>7. PassOK(s)'
  <2>1. DOMAIN <<>> = {}
    OBVIOUS
  <2> QED BY <1>5, <1>6, <2>1 DEF PassOK
<1> QED BY <1>4, <1>5, <1>6, <1>7 DEF SessionStep, SessionOK, HoldsTarget, WorkOK, BackfillOK, Backfills

LEMMA ClaimStep ==
    ASSUME AllInv, NEW s \in Passes, Claim(s)
    PROVE  SessionStep(s)
<1> DEFINE a == Target(s)
           base == seen[s][a]
           held == Claimed(base)
           merged == Merge(disk.rows[a], base, held)
           row == [merged EXCEPT !.attempts = held.attempts]
           T == Put(disk, a, row)
<1>0. /\ s \in Sessions /\ pc[s] = "next" /\ pc[s] \in Resting /\ pc[s] \notin LockLabels
      /\ batch[s] # <<>> /\ a \in loaded[s] /\ CanWrite(s) /\ Commit(T) /\ Hold(s, a, held)
  BY DEF Claim, HasRow, Sessions, Resting, Labels, Failed, Backfills, LockLabels
<1>1. /\ a \in Actors /\ lock # s /\ View(s) = disk /\ base \in Row /\ Tracked(base)
      /\ disk \in Tables /\ SeenOK(disk, base, a) /\ TableOK(disk, a) /\ SessionOK(s)
  <2>1. a \in Actors /\ lock # s /\ View(s) = disk /\ SessionOK(s)
    BY <1>0, StateFacts, NoTransaction
  <2>2. Tracked(base) /\ SeenOK(disk, base, a)
    BY <1>0, <2>1 DEF SessionOK, PassOK, SeenIsPast, Resting
  <2> QED BY <1>0, <2>1, <2>2, StateFacts
<1>2. Continues(base, held) /\ held \in Row
  BY <1>1, StateFacts, CallsContinue, ClaimedIsRow
<1>3. Plain(disk, T, a)
  <2>1. merged \in Row /\ Tracked(merged) /\ merged.backfill = disk.rows[a].backfill
    <3>1. disk.rows[a] \in Row
      BY <1>1 DEF Tables
    <3>2. merged \in Row
      BY <1>1, <1>2, <3>1, MergeIsRow
    <3>3. Tracked(disk.rows[a])
      BY <1>1 DEF SeenOK
    <3> QED BY <1>1, <1>2, <3>2, <3>3 DEF Continues, Merge, Net, Tracked
  <2>2. Tracked(row) /\ row.backfill = disk.rows[a].backfill
    BY <2>1 DEF Tracked, Row
  <2> HIDE DEF row
  <2>3. T.rows[a] = row /\ T.states = disk.states /\ T.events = disk.events
    BY <1>1 DEF Put, Tables
  <2> QED BY <1>1, <2>2, <2>3, PutAgrees DEF Plain
<1> HIDE DEF T, held
<1>4. /\ DbStep(s) /\ View(s)' = T
      /\ \A b \in Actors : TableOK(T, b) /\ Later(disk, T, b) /\ Forward(disk, T, b)
  BY <1>0, <1>1, <1>3, PlainStep
<1>5. /\ OthersSame(s) /\ pc'[s] \in {"todo", "backfill"} /\ batch' = batch /\ lock' # s
  BY <1>0, StateFacts DEF Claim, Goto, Hold, OthersSame, Commit
<1>6. SeenOK(T, held, a)
  <2>1. SeenOK(disk, held, a)
    BY <1>1, <1>2 DEF SeenOK, Continues
  <2> QED BY <1>1, <1>4, <2>1, SeenForward
<1>7. SeenIsPast(s)' /\ seen'[s][a] = held
  BY <1>0, <1>1, <1>4, <1>6, SeenHeld
<1>8. PassOK(s)'
  BY <1>0, <1>1, <1>2, <1>4, <1>5, PassHolds DEF Continues
<1>9. HoldsTarget(s)'
  <2>1. Target(s)' = a
    BY <1>5 DEF Target
  <2>2. s \notin Posts
    BY SessionsAssumption
  <2> QED BY <1>2, <1>5, <1>7, <2>1, <2>2 DEF HoldsTarget, Continues
<1> QED BY <1>4, <1>5, <1>7, <1>8, <1>9 DEF SessionStep, SessionOK, WorkOK, BackfillOK, Backfills

\* A transaction that ends the work on the target.
LEMMA EndStep ==
    ASSUME AllInv, NEW s \in Sessions, OthersSame(s), DbStep(s), lock' # s, batch[s] # <<>>,
           pc[s] \notin Failed \cup {"default"},
           (s \in Passes /\ NextActor(s)) \/ Close(s)
    PROVE  SessionStep(s)
BY OthersOK, NextStep, CloseStep DEF SessionStep

LEMMA SessionEnds ==
    ASSUME AllInv, NEW s \in Sessions, NextActor(s) \/ Close(s)
    PROVE  OthersSame(s)
BY StateFacts DEF NextActor, Close, Goto, Expire, OthersSame

LEMMA ReportStep ==
    ASSUME AllInv, NEW s \in Sessions,
           (Reschedule(s) /\ s \in Passes) \/ RecordError(s) \/ AnswerGet(s)
    PROVE  SessionStep(s)
<1> DEFINE a == Target(s)
           base == seen[s][a]
           boost == pc[s] = "get_boosted"
           T(held) == IF pc[s] = "get" THEN Flush(View(s), a, base, held)
                                       ELSE FlushDue(View(s), a, base, held)
<1>0. /\ pc[s] \in {"reschedule", "poll_error", "backfill_error", "get", "get_boosted"}
      /\ pc[s] \in Resting /\ batch[s] # <<>> /\ CanWrite(s)
  <2>1. CASE Reschedule(s)
    BY <2>1, StateFacts DEF Reschedule, Resting, Labels, Failed, Backfills, WorkLabels
  <2>2. CASE RecordError(s) \/ AnswerGet(s)
    BY <2>2 DEF RecordError, AnswerGet, HasRow, Resting, Labels, Failed, Backfills
  <2> QED BY <2>1, <2>2
<1>1. a \in Actors /\ base \in Row /\ now \in Nat
  BY <1>0, StateFacts
<1>2. \E held \in Row :
        /\ Continues(base, held) /\ Commit(T(held))
        /\ ~Conflict(s) \/ Tracked(base)
  <2>1. CASE Reschedule(s) /\ s \in Passes
    <3>1. Commit(T(Rescheduled(base, now))) /\ pc[s] = "reschedule"
      BY <2>1 DEF Reschedule
    <3>2. Tracked(base)
      BY <2>1, <3>1, StateFacts DEF SessionOK, HoldsTarget
    <3> QED BY <1>1, <3>1, <3>2, RescheduledIsRow, CallsContinue
  <2>2. CASE RecordError(s)
    <3>1. Commit(T(Errored(base, now))) /\ ~Conflict(s)
      BY <2>2 DEF RecordError
    <3> QED BY <1>1, <3>1, ErroredIsRow, CallsContinue
  <2>3. CASE AnswerGet(s)
    <3>1. Commit(T(TrackRequest(base, now, boost))) /\ ~Conflict(s) /\ boost \in BOOLEAN
      BY <2>3 DEF AnswerGet
    <3> QED BY <1>1, <3>1, TrackRequestIsRow, CallsContinue
  <2> QED BY <2>1, <2>2, <2>3
<1>3. PICK held \in Row :
        /\ Continues(base, held) /\ Commit(T(held))
        /\ ~Conflict(s) \/ Tracked(base)
  BY <1>2
<1>4. Plain(View(s), T(held), a)
  BY <1>0, <1>1, <1>3, PlainFlush
<1>5. DbStep(s) /\ lock' # s
  <2>1. lock' # s
    BY <1>3, StateFacts DEF Commit
  <2> HIDE DEF T
  <2> QED BY <1>0, <1>1, <1>3, <1>4, <2>1, PlainStep
<1>6. (s \in Passes /\ NextActor(s)) \/ Close(s)
  BY DEF Reschedule, RecordError, AnswerGet
<1>7. OthersSame(s)
  BY <1>6, SessionEnds
<1> QED BY <1>0, <1>5, <1>6, <1>7, EndStep DEF Failed

LEMMA IndexPassStep ==
    ASSUME AllInv, NEW s \in Passes, IndexPass(s)
    PROVE  SessionStep(s)
<1> DEFINE a == Target(s)
           base == seen[s][a]
           held == Indexed(base, now)
           T == FlushDue(View(s), a, base, held)
<1>0. /\ s \in Sessions /\ pc[s] = "git" /\ pc[s] \in Resting /\ CanWrite(s)
      /\ Commit(T) /\ Hold(s, a, held)
  BY DEF IndexPass, Sessions, Resting, Labels, Failed, Backfills
<1>1. a \in Actors /\ base \in Row /\ now \in Nat /\ SessionOK(s)
  BY <1>0, StateFacts DEF WorkLabels, Labels
<1>2. Tracked(base) /\ SeenOK(View(s), base, a)
  BY <1>0, <1>1 DEF SessionOK, HoldsTarget, SeenIsPast, Resting
<1>3. held \in Row /\ Continues(base, held)
  BY <1>1, IndexedIsRow, CallsContinue
<1> HIDE DEF held
<1>4. Plain(View(s), T, a)
  BY <1>0, <1>1, <1>2, <1>3, PlainFlush
<1> HIDE DEF T
<1>5. DbStep(s) /\ View(s)' = T /\ \A b \in Actors : Forward(View(s), T, b)
  BY <1>0, <1>1, <1>4, PlainStep
<1>6. OthersSame(s) /\ pc'[s] = "reschedule" /\ batch' = batch /\ lock' # s
  BY <1>0, StateFacts DEF IndexPass, Goto, Hold, OthersSame, Commit
<1>7. SeenIsPast(s)' /\ seen'[s][a] = held
  <2>1. SeenOK(View(s), held, a)
    BY <1>2, <1>3 DEF SeenOK, Continues
  <2>2. SeenOK(T, held, a)
    BY <1>1, <1>5, <2>1, SeenForward
  <2> QED BY <1>0, <1>1, <1>5, <2>2, SeenHeld
<1>8. PassOK(s)'
  BY <1>0, <1>1, <1>3, <1>5, <1>6, PassHolds DEF Continues
<1>9. HoldsTarget(s)'
  <2>1. Target(s)' = a
    BY <1>6 DEF Target
  <2> QED BY <1>3, <1>6, <1>7, <2>1 DEF HoldsTarget, Continues
<1> QED BY <1>5, <1>6, <1>7, <1>8, <1>9 DEF SessionStep, SessionOK, WorkOK, BackfillOK, Backfills

-----------------------------------------------------------------------------
(* The same in a transaction that goes on. *)
LEMMA PlainWrite ==
    ASSUME AllInv, NEW s \in Sessions, pc[s] \in Resting, CanWrite(s), Target(s) \in Actors,
           NEW T, Plain(View(s), T, Target(s)), Write(s, T), batch' = batch
    PROVE  /\ DbStep(s) /\ View(s)' = T /\ WorkOK(s)' /\ Target(s)' = Target(s)
           /\ \A b \in Actors : Forward(View(s), T, b)
<1>1. /\ DbStep(s) /\ View(s)' = T
      /\ \A b \in Actors : TableOK(T, b) /\ Later(disk, T, b) /\ Forward(View(s), T, b)
  BY PlainStep
<1>2. PICK a \in Actors : a = Target(s) /\ Target(s)' = a
  BY DEF Target
<1>3. WorkOK(s)'
  BY <1>1, <1>2 DEF WorkOK, Write
<1> QED BY <1>1, <1>2, <1>3

LEMMA TrackPollStep ==
    ASSUME AllInv, NEW s \in Posts, TrackPoll(s)
    PROVE  SessionStep(s)
<1> DEFINE a == Target(s)
           T == Put(View(s), a, NewRow(now))
<1>0. /\ s \in Sessions /\ s \notin Passes /\ pc[s] = "track" /\ pc[s] \in Resting
      /\ pc[s] \notin LockLabels /\ batch[s] # <<>>
  BY NotAPass DEF TrackPoll, HasRow, Resting, Labels, Failed, Backfills, LockLabels
<1>1. a \in Actors /\ lock # s /\ now \in Nat /\ View(s) \in Tables /\ SessionOK(s)
  BY <1>0, StateFacts, NoTransaction
<1>2. OthersSame(s) /\ pc'[s] = "todo" /\ batch' = batch /\ Expire(s)
  BY <1>0, StateFacts DEF TrackPoll, Goto, Expire, OthersSame
<1>3. SeenIsPast(s)' /\ loaded'[s] = {}
  BY <1>0, <1>2, SeenExpired
<1>4. DbStep(s) /\ WorkOK(s)' /\ HoldsTarget(s)'
  <2>1. CASE ReadOnly /\ Tracked(seen[s][a])
    <3>1. DbStep(s) /\ View(s)' = View(s) /\ lock' # s
      BY <1>0, <1>1, <2>1, ReadStep
    <3>2. Tracked(View(s).rows[a])
      BY <1>0, <1>1, <2>1 DEF SessionOK, SeenIsPast, SeenOK, Resting
    <3>3. Target(s)' = a
      BY <1>2 DEF Target
    <3> QED BY <1>0, <1>2, <3>1, <3>2, <3>3 DEF HoldsTarget, WorkOK
  <2>2. CASE ~Tracked(seen[s][a]) /\ CanWrite(s) /\ ~Conflict(s) /\ Write(s, T)
    <3>1. ~Tracked(View(s).rows[a])
      BY <2>2 DEF Conflict
    <3>2. View(s).rows[a].backfill = "pending"
      BY <1>0, <1>1, <3>1, AtRest DEF TableOK, Resting
    <3>3. Tracked(NewRow(now)) /\ NewRow(now).backfill = "pending"
      BY DEF NewRow, AbsentRow, Tracked
    <3>4. /\ T.rows[a] = NewRow(now) /\ T.states = View(s).states /\ T.events = View(s).events
          /\ AgreeBut(T, View(s), a)
      BY <1>1, PutAgrees DEF Put, Tables
    <3>5. Plain(View(s), T, a) /\ Tracked(T.rows[a])
      BY <3>2, <3>3, <3>4 DEF Plain
    <3> HIDE DEF T
    <3>6. DbStep(s) /\ View(s)' = T /\ WorkOK(s)' /\ Target(s)' = a
      BY <1>0, <1>1, <1>2, <2>2, <3>5, PlainWrite
    <3> QED BY <1>0, <1>2, <3>5, <3>6 DEF HoldsTarget
  <2> QED BY <2>1, <2>2 DEF TrackPoll
<1> QED BY <1>0, <1>2, <1>3, <1>4 DEF SessionStep, SessionOK, PassOK, BackfillOK, Backfills

LEMMA PollTodoStep ==
    ASSUME AllInv, NEW s \in Passes \cup Posts, PollTodo(s)
    PROVE  SessionStep(s)
<1> DEFINE a == Target(s)
<1>0. s \in Sessions /\ pc[s] = "todo" /\ pc[s] \in Resting /\ CanWrite(s) /\ Write(s, View(s))
  BY DEF PollTodo, Sessions, Resting, Labels, Failed, Backfills
<1>1. a \in Actors /\ SessionOK(s)
  BY <1>0, StateFacts DEF WorkLabels, Labels
<1>2. Tracked(View(s).rows[a])
  <2>1. CASE s \in Passes
    BY <1>0, <1>1, <2>1 DEF SessionOK, HoldsTarget, SeenIsPast, SeenOK, Resting
  <2>2. CASE s \in Posts
    BY <1>0, <1>1, <2>2 DEF SessionOK, HoldsTarget
  <2> QED BY <2>1, <2>2
<1>3. Plain(View(s), View(s), a)
  BY <1>2, SelfAgrees DEF Plain
<1>4. /\ OthersSame(s) /\ pc'[s] = "git" /\ batch' = batch
      /\ loaded'[s] = loaded[s] /\ seen'[s] = seen[s]
  BY <1>0, StateFacts DEF PollTodo, Goto, KeepRows, OthersSame
<1>5. /\ DbStep(s) /\ View(s)' = View(s) /\ WorkOK(s)' /\ Target(s)' = a
      /\ \A b \in Actors : Forward(View(s), View(s)', b)
  BY <1>0, <1>1, <1>3, <1>4, PlainWrite
<1>6. PassOK(s)' /\ SeenIsPast(s)'
  BY <1>0, <1>4, <1>5, PassStays, SeenKept
<1>7. HoldsTarget(s)'
  <2>1. s \in Passes => Tracked(seen[s][a])
    BY <1>0, <1>1 DEF SessionOK, HoldsTarget
  <2> QED BY <1>2, <1>4, <1>5, <2>1 DEF HoldsTarget
<1> QED BY <1>4, <1>5, <1>6, <1>7 DEF SessionStep, SessionOK, BackfillOK, Backfills

LEMMA IndexPollStep ==
    ASSUME AllInv, NEW s \in Posts, IndexPoll(s)
    PROVE  SessionStep(s)
<1> DEFINE a == Target(s)
           base == View(s).rows[a]
           held == Indexed(base, now)
           T == Put(View(s), a, held)
<1>0. /\ s \in Sessions /\ s \notin Passes /\ pc[s] = "git" /\ pc[s] \in Resting /\ CanWrite(s)
      /\ Write(s, T) /\ Hold(s, a, held)
  BY NotAPass DEF IndexPoll, Resting, Labels, Failed, Backfills
<1>1. a \in Actors /\ now \in Nat /\ View(s) \in Tables /\ base \in Row /\ SessionOK(s)
  BY <1>0, StateFacts DEF WorkLabels, Labels, Tables
<1>2. Tracked(base) /\ TableOK(View(s), a)
  BY <1>0, <1>1, AtRest DEF SessionOK, HoldsTarget, Resting
<1>3. held \in Row /\ Tracked(held) /\ held.backfill = base.backfill
  BY <1>1, <1>2, IndexedIsRow, CallsContinue DEF Continues
<1> HIDE DEF held
<1>4. Plain(View(s), T, a) /\ T.rows[a] = held
  <2>1. T.rows[a] = held /\ T.states = View(s).states /\ T.events = View(s).events
    BY <1>1 DEF Put, Tables
  <2> QED BY <1>1, <1>3, <2>1, PutAgrees DEF Plain
<1>5. OthersSame(s) /\ pc'[s] = "backfill" /\ batch' = batch
  BY <1>0, StateFacts DEF IndexPoll, Goto, Hold, OthersSame
<1> HIDE DEF T
<1>6. /\ DbStep(s) /\ View(s)' = T /\ WorkOK(s)' /\ Target(s)' = a
      /\ \A b \in Actors : Forward(View(s), T, b)
  BY <1>0, <1>1, <1>4, <1>5, PlainWrite
<1>7. SeenIsPast(s)' /\ seen'[s][a] = held
  <2>1. SeenOK(View(s), held, a)
    BY <1>2, <1>3 DEF SeenOK, TableOK
  <2>2. SeenOK(T, held, a)
    BY <1>1, <1>6, <2>1, SeenForward
  <2> QED BY <1>0, <1>1, <1>6, <2>2, SeenHeld
<1> QED BY <1>0, <1>3, <1>5, <1>6, <1>7
        DEF SessionStep, SessionOK, PassOK, HoldsTarget, BackfillOK, Backfills

-----------------------------------------------------------------------------
(* The backfill, step by step. *)
LEMMA BackfillGoesOn ==
    ASSUME AllInv, NEW s \in Sessions, pc[s] \in {"backfill"} \cup Backfills,
           pc'[s] \in Backfills, OthersSame(s), DbStep(s), batch'[s] = batch[s],
           NEW a \in Actors, a = Target(s), NEW V, V = View(s)', AgreeBut(V, View(s), a),
           \/ loaded'[s] = loaded[s] /\ seen'[s] = seen[s]
           \/ \E row : Hold(s, a, row) /\ Tracked(row),
           BackfillOK(s, V, a)'
    PROVE  SessionStep(s)
<1>1. PassOK(s)'
  BY PassStays, PassHolds DEF Backfills
<1>2. Target(s)' = a
  BY DEF Target
<1>3. SeenIsPast(s)'
  <2> SUFFICES ASSUME NEW b \in Actors, b # a PROVE SeenOK(V, seen'[s][b], b)
    BY <1>2 DEF SeenIsPast
  <2>1. SeenOK(View(s), seen[s][b], b)
    BY StateFacts DEF SessionOK, SeenIsPast, Failed, Backfills
  <2>2. seen'[s][b] = seen[s][b]
    BY StateFacts DEF Hold
  <2> QED BY <2>1, <2>2 DEF AgreeBut, SeenOK, Started, Status
<1>4. BackfillOK(s, View(s), Target(s))'
  BY <1>2 DEF BackfillOK, ServicesOK, BatchesOK, FinishOK
<1> QED BY <1>1, <1>3, <1>4 DEF SessionStep, SessionOK, HoldsTarget, WorkOK, Backfills, Failed

\* What holds in the middle of a backfill.
LEMMA InBackfill ==
    ASSUME AllInv, NEW s \in Sessions, pc[s] \in Backfills
    PROVE  /\ Target(s) \in Actors /\ View(s) \in Tables /\ fill[s] \in Fill
           /\ seen[s][Target(s)] \in Row /\ now \in Nat /\ batch[s] # <<>>
           /\ BackfillOK(s, View(s), Target(s)) /\ TableOK(disk, Target(s))
<1>1. pc[s] \in WorkLabels
  BY DEF WorkLabels, Labels, Backfills
<1>2. batch[s] # <<>> /\ Target(s) \in Actors
  BY <1>1, StateFacts
<1>3. BackfillOK(s, View(s), Target(s))
  BY StateFacts DEF SessionOK
<1> QED BY <1>2, <1>3, StateFacts

LEMMA BeginBackfillStep ==
    ASSUME AllInv, NEW s \in Passes \cup Posts, BeginBackfill(s)
    PROVE  SessionStep(s)
<1>0. /\ s \in Sessions /\ pc[s] = "backfill" /\ pc[s] \in Resting /\ pc[s] \in WorkLabels
      /\ pc[s] \notin Failed \cup Backfills
  BY DEF BeginBackfill, Sessions, Resting, Labels, Failed, Backfills, WorkLabels
<1>1. PICK a \in Actors : a = Target(s)
  BY <1>0, StateFacts
<1>2. PICK V \in Tables : V = View(s)
  BY <1>0, StateFacts
<1>3. PICK base \in Row : base = seen[s][a]
  BY <1>0, StateFacts
<1>4. Tracked(base) /\ SeenOK(V, base, a)
  BY <1>0, <1>1, <1>2, <1>3, StateFacts DEF SessionOK, HoldsTarget, SeenIsPast
<1>5. TableOK(V, a) /\ Later(disk, V, a) /\ Tracked(V.rows[a])
  BY <1>0, <1>2, <1>4, AtRest DEF SeenOK
<1>6. /\ OthersSame(s) /\ batch' = batch /\ fill'[s] = NoFill
      /\ pc'[s] = IF base.backfill = "completed" THEN "finish" ELSE "open"
  BY <1>0, <1>1, <1>3, StateFacts DEF BeginBackfill, Goto, Hold, KeepRows, OthersSame
<1>7. CASE base.backfill = "completed"
  <2>1. ReadOnly /\ loaded'[s] = loaded[s] /\ seen'[s] = seen[s]
    BY <1>1, <1>3, <1>7 DEF BeginBackfill, KeepRows
  <2>2. DbStep(s) /\ View(s)' = V /\ disk' = disk
    BY <1>0, <1>2, <2>1, ReadStep
  <2>3. FinishOK(s, V, a)'
    BY <1>3, <1>4, <1>5, <1>7, <2>2
    DEF FinishOK, TableOK, Later, Settled, Going, SeenOK, Started
  <2>4. BackfillOK(s, V, a)'
    BY <1>3, <1>4, <1>5, <1>6, <1>7, <2>1, <2>2, <2>3
    DEF BackfillOK, ServicesOK, BatchesOK, TableOK, Later
  <2> QED BY <1>0, <1>1, <1>2, <1>6, <1>7, <2>1, <2>2, <2>4, SelfAgrees, BackfillGoesOn
          DEF Backfills
<1>8. CASE base.backfill # "completed"
  <2>1. PICK held \in Row : held = [base EXCEPT !.backfill = "in_progress"]
    BY DEF Row, BackfillStatuses
  <2>2. /\ Hold(s, a, held) /\ Tracked(held) /\ held.backfill = "in_progress"
        /\ held.state = base.state
    BY <1>1, <1>3, <1>4, <1>8, <2>1 DEF BeginBackfill, Tracked, Row
  <2>3. PICK T : T = Flush(V, a, base, held)
    OBVIOUS
  <2>4. (held = base /\ ReadOnly) \/ (held # base /\ CanWrite(s) /\ Write(s, T))
    BY <1>1, <1>2, <1>3, <1>8, <2>1, <2>3 DEF BeginBackfill
  <2>5. seen'[s][a] = held /\ pc'[s] = "open" /\ fill'[s].service = 1
    BY <1>0, <1>6, <1>8, <2>2, StateFacts DEF Hold, NoFill
  <2>6. CASE held = base /\ ReadOnly
    <3>1. DbStep(s) /\ View(s)' = V /\ disk' = disk
      BY <1>0, <1>2, <2>6, ReadStep
    <3>2. Started(V, a)
      BY <1>4, <2>2, <2>6 DEF SeenOK
    <3>3. ServicesOK(s, V, a)'
      BY <1>5, <2>2, <2>5, <3>2 DEF ServicesOK, TableOK, Services
    <3>4. BackfillOK(s, V, a)'
      BY <1>5, <2>2, <2>5, <3>1, <3>3 DEF BackfillOK, BatchesOK, FinishOK, TableOK, Later
    <3> QED BY <1>0, <1>1, <1>2, <1>6, <2>2, <2>5, <3>1, <3>4, SelfAgrees, BackfillGoesOn
            DEF Backfills
  <2>7. CASE held # base /\ CanWrite(s) /\ Write(s, T)
    <3>1. DbStep(s) /\ View(s)' = T /\ disk' = disk /\ lock' = s
      BY <2>7 DEF DbStep, Write, View
    <3>2. base.backfill # "in_progress"
      BY <2>1, <2>7 DEF Row
    <3>3. PICK row : row = Merge(V.rows[a], base, held)
      OBVIOUS
    <3>4. row.state = V.rows[a].state /\ row.backfill = "in_progress"
      BY <2>2, <3>2, <3>3 DEF Merge, Net
    <3>5. T = Put(V, a, row)
      BY <1>4, <2>3, <3>3 DEF Flush
    <3>6. /\ T.rows[a] = row /\ T.states = V.states /\ T.events = V.events
          /\ AgreeBut(T, V, a)
      BY <3>5, PutAgrees DEF Put, Tables
    <3>7. /\ Tracked(T.rows[a]) /\ Backed(T, a) /\ Complete(T, a) /\ Forward(disk, T, a)
          /\ \A v \in Services : Settled(T, a, v)
      BY <1>5, <3>4, <3>6
      DEF Tracked, TableOK, Backed, Complete, Later, Forward, Settled, Status
    <3>8. ServicesOK(s, T, a)'
      BY <2>2, <2>5, <3>1, <3>7 DEF ServicesOK, Services
    <3>9. BackfillOK(s, T, a)'
      BY <2>2, <2>5, <3>1, <3>7, <3>8 DEF BackfillOK, BatchesOK, FinishOK
    <3> QED BY <1>0, <1>1, <1>2, <1>6, <2>2, <2>5, <3>1, <3>6, <3>9, BackfillGoesOn DEF Backfills
  <2> QED BY <2>4, <2>6, <2>7
<1> QED BY <1>7, <1>8

LEMMA WalkStep ==
    ASSUME AllInv, NEW s \in Passes \cup Posts, AfterServices(s) \/ SkipService(s)
    PROVE  SessionStep(s)
<1>0. s \in Sessions /\ pc[s] = "open" /\ pc[s] \in Backfills
  BY DEF AfterServices, SkipService, Sessions, Backfills
<1>1. PICK a \in Actors : a = Target(s)
  BY <1>0, InBackfill
<1>2. PICK V \in Tables : V = View(s)
  BY <1>0, InBackfill
<1>3. /\ OthersSame(s) /\ batch' = batch /\ ReadOnly
      /\ loaded'[s] = loaded[s] /\ seen'[s] = seen[s]
  BY <1>0, StateFacts DEF AfterServices, SkipService, Goto, KeepRows, OthersSame
<1>4. DbStep(s) /\ View(s)' = V /\ disk' = disk /\ lock' = lock
  BY <1>0, <1>2, <1>3, ReadStep
<1>5. BackfillOK(s, V, a) /\ ServicesOK(s, V, a) /\ fill[s] \in Fill
  BY <1>0, <1>1, <1>2, InBackfill DEF BackfillOK
<1>6. CASE AfterServices(s)
  <2>1. pc'[s] = "finish" /\ fill[s].service > 2
    BY <1>0, <1>6, StateFacts DEF AfterServices, Goto
  <2>2. FinishOK(s, V, a)'
    BY <1>0, <1>3, <1>5, <2>1 DEF FinishOK, ServicesOK, Services, Fill
  <2>3. BackfillOK(s, V, a)'
    BY <1>0, <1>3, <1>4, <1>5, <2>1, <2>2 DEF BackfillOK, ServicesOK, BatchesOK
  <2> QED BY <1>0, <1>1, <1>2, <1>3, <1>4, <2>1, <2>3, SelfAgrees, BackfillGoesOn DEF Backfills
<1>7. CASE SkipService(s)
  <2>1. /\ pc'[s] = "open" /\ fill'[s].service = fill[s].service + 1
        /\ fill[s].service \in Services
        /\ Status(V, a, fill[s].service) = "completed"
    BY <1>0, <1>1, <1>2, <1>5, <1>7, StateFacts DEF SkipService, StateOf, Status, Fill
  <2>2. ServicesOK(s, V, a)'
    BY <1>0, <1>3, <1>4, <1>5, <2>1 DEF ServicesOK, Services, Going
  <2>3. BackfillOK(s, V, a)'
    BY <1>0, <1>3, <1>4, <1>5, <2>1, <2>2 DEF BackfillOK, BatchesOK, FinishOK
  <2> QED BY <1>0, <1>1, <1>2, <1>3, <1>4, <2>1, <2>3, SelfAgrees, BackfillGoesOn DEF Backfills
<1> QED BY <1>6, <1>7

LEMMA OpenServiceStep ==
    ASSUME AllInv, NEW s \in Passes \cup Posts, OpenService(s)
    PROVE  SessionStep(s)
<1>0. s \in Sessions /\ pc[s] = "open" /\ pc[s] \in Backfills
  BY DEF OpenService, Sessions, Backfills
<1>1. PICK a \in Actors : a = Target(s)
  BY <1>0, InBackfill
<1>2. PICK V \in Tables : V = View(s)
  BY <1>0, InBackfill
<1>3. PICK w \in Services : w = fill[s].service
  BY DEF OpenService
<1>4. /\ OthersSame(s) /\ batch' = batch /\ pc'[s] = "fetch"
      /\ loaded'[s] = loaded[s] /\ seen'[s] = seen[s]
  BY <1>0, StateFacts DEF OpenService, Goto, KeepRows, OthersSame
<1>5. /\ BackfillOK(s, V, a) /\ ServicesOK(s, V, a) /\ fill[s] \in Fill
      /\ Tracked(V.rows[a]) /\ Tracked(seen[s][a])
      /\ Backed(V, a) /\ Complete(V, a) /\ Forward(disk, V, a)
  BY <1>0, <1>1, <1>2, InBackfill DEF BackfillOK
<1>6. Settled(V, a, w) /\ Status(V, a, w) # "completed"
  BY <1>0, <1>1, <1>2, <1>3, <1>5 DEF ServicesOK, OpenService, StateOf, Status
<1>7. CASE Status(V, a, w) = "absent"
  <2>1. PICK state : state = [AbsentState EXCEPT !.status = "pending"]
    OBVIOUS
  <2>2. PICK T : T = PutState(V, a, w, state)
    OBVIOUS
  <2>3. /\ CanWrite(s) /\ Write(s, T) /\ fill'[s].service = w /\ fill'[s].base = state
        /\ fill'[s].cursor = state.cursor
    BY <1>0, <1>1, <1>2, <1>3, <1>5, <1>7, <2>1, <2>2, StateFacts
    DEF OpenService, StateOf, Status, Fill
  <2>4. DbStep(s) /\ View(s)' = T /\ disk' = disk /\ lock' = s
    BY <2>3 DEF DbStep, Write, View
  <2>5. state.status = "pending" /\ state.cursor = 1
    BY <2>1 DEF AbsentState
  <2>6. /\ T.rows = V.rows /\ T.events = V.events
        /\ \A v \in Services : T.states[a][v] = IF v = w THEN state ELSE V.states[a][v]
        /\ AgreeBut(T, V, a)
    BY <2>2, PutStateAgrees, SelfAgrees DEF PutState, Tables
  <2>7. /\ Tracked(T.rows[a]) /\ Backed(T, a) /\ Forward(disk, T, a)
    BY <1>5, <1>7, <2>5, <2>6 DEF Backed, Forward, Status
  <2>8. Complete(T, a)
    BY <1>5, <1>7, <2>6 DEF Complete, AllComplete, Status
  <2>9. ServicesOK(s, T, a)'
    <3>1. \A v \in Services \ {w} : Status(T, a, v) = Status(V, a, v)
      BY <2>6 DEF Status
    <3> QED BY <1>0, <1>3, <1>4, <1>5, <2>3, <2>4, <3>1
            DEF ServicesOK, Going, Settled, Services
  <2>10. BatchesOK(s, T, a)'
    BY <1>4, <2>3, <2>4, <2>5, <2>6 DEF BatchesOK, Status
  <2>11. BackfillOK(s, T, a)'
    BY <1>4, <1>5, <2>4, <2>7, <2>8, <2>9, <2>10 DEF BackfillOK, FinishOK
  <2> QED BY <1>0, <1>1, <1>4, <2>4, <2>6, <2>11, <1>2, BackfillGoesOn DEF Backfills
<1>8. CASE Status(V, a, w) # "absent"
  <2>1. /\ ReadOnly /\ fill'[s].service = w /\ fill'[s].base = V.states[a][w]
        /\ fill'[s].cursor = V.states[a][w].cursor
    BY <1>0, <1>1, <1>2, <1>3, <1>5, <1>8, StateFacts DEF OpenService, StateOf, Status, Fill
  <2>2. DbStep(s) /\ View(s)' = V /\ disk' = disk /\ lock' = lock
    BY <1>0, <1>2, <2>1, ReadStep
  <2>3. ServicesOK(s, V, a)'
    BY <1>0, <1>3, <1>4, <1>5, <2>1, <2>2 DEF ServicesOK
  <2>4. BatchesOK(s, V, a)'
    BY <1>4, <1>5, <1>6, <1>8, <2>1, <2>2 DEF BatchesOK, Settled, Going, Backed, Status
  <2>5. BackfillOK(s, V, a)'
    BY <1>4, <1>5, <2>2, <2>3, <2>4 DEF BackfillOK, FinishOK
  <2> QED BY <1>0, <1>1, <1>2, <1>4, <2>2, <2>5, SelfAgrees, BackfillGoesOn DEF Backfills
<1> QED BY <1>7, <1>8

\* A batch in the transaction: its events, then perhaps the state.
LEMMA StoredFacts ==
    ASSUME AllInv, NEW s \in Sessions, pc[s] = "fetch", NEW a \in Actors, a = Target(s),
           NEW w \in Services, w = fill[s].service, NEW V \in Tables, V = View(s),
           NEW S, S = Stored(s, V)
    PROVE  /\ S \in Tables /\ S.rows = V.rows /\ S.states = V.states /\ AgreeBut(S, V, a)
           /\ \A v \in Services : V.events[a][v] \subseteq S.events[a][v]
           /\ EventBatches \cap 1..fill[s].cursor \subseteq S.events[a][w]
<1> DEFINE c == fill[s].cursor
<1>1. /\ c \in Nat /\ BackfillOK(s, V, a) /\ AllInReach(V) /\ EventBatches \subseteq Nat
      /\ c \in EventBatches => c \in 1..Batches
  BY InBackfill, SessionFacts, BoundsAssumption DEF Backfills, Fill, AllInv
<1>2. S \in Tables /\ AgreeBut(S, V, a)
  BY <1>1, StoredIsTables, StoredAgrees
<1>3. EventBatches \cap 1..(c - 1) \subseteq V.events[a][w]
  BY <1>1 DEF BackfillOK, BatchesOK, Backfills
<1>4. CASE c \in EventBatches
  <2>1. PICK e : e = V.events[a][w] \cup {c}
    OBVIOUS
  <2>2. /\ S.rows = V.rows /\ S.states = V.states
        /\ \A v \in Services : S.events[a][v] = IF v = w THEN e ELSE V.events[a][v]
    <3>1. S = [V EXCEPT !.events[a][w] = e]
      BY <1>4, <2>1 DEF Stored, Tables
    <3> HIDE DEF c
    <3> QED BY <3>1 DEF Tables
  <2>3. \A x \in 1..c : x = c \/ x \in 1..(c - 1)
    BY <1>1
  <2> HIDE DEF c
  <2> QED BY <1>2, <1>3, <2>1, <2>2, <2>3 DEF c
<1>5. CASE c \notin EventBatches
  <2>1. S = V
    BY <1>5 DEF Stored
  <2>2. \A x \in EventBatches : x \in 1..c => x \in 1..(c - 1)
    BY <1>1, <1>5
  <2> HIDE DEF c
  <2> QED BY <1>2, <1>3, <2>1, <2>2 DEF c
<1> QED BY <1>4, <1>5

\* The status that is flushed after the last batch.
LEMMA FlushedFacts ==
    ASSUME NEW s, NEW stored \in BackfillState, NEW c \in 1..Batches, c = fill[s].cursor,
           NEW base, base = fill[s].base.status,
           \/ base = "pending" /\ stored.status = "pending"
           \/ base = "in_progress" /\ stored.status \in {"in_progress", "completed"}
    PROVE  LET state == FlushedState(s, stored)
           IN  /\ state.status \in {"in_progress", "completed"} /\ state.cursor = c + 1
               /\ stored.status = "completed" => state.status = "completed"
               /\ state.status = "completed" => BatchComplete(s) \/ stored.status = "completed"
BY DEF FlushedState, Net

LEMMA FetchBatchStep ==
    ASSUME AllInv, NEW s \in Passes \cup Posts, FetchBatch(s)
    PROVE  SessionStep(s)
<1>0. s \in Sessions /\ pc[s] = "fetch" /\ pc[s] \in Backfills
  BY DEF FetchBatch, Sessions, Backfills
<1>1. PICK a \in Actors : a = Target(s)
  BY <1>0, InBackfill
<1>2. PICK V \in Tables : V = View(s)
  BY <1>0, InBackfill
<1>3. PICK w \in Services : w = fill[s].service
  BY <1>0 DEF AllInv, QueueInv, HasService
<1>4. /\ OthersSame(s) /\ batch' = batch
      /\ loaded'[s] = loaded[s] /\ seen'[s] = seen[s]
  BY <1>0, StateFacts DEF FetchBatch, Goto, KeepRows, OthersSame
<1>5. /\ BackfillOK(s, V, a) /\ ServicesOK(s, V, a) /\ BatchesOK(s, V, a) /\ fill[s] \in Fill
      /\ Tracked(V.rows[a]) /\ Tracked(seen[s][a])
      /\ Backed(V, a) /\ Complete(V, a) /\ Forward(disk, V, a)
  BY <1>0, <1>1, <1>2, InBackfill DEF BackfillOK
<1>6. PICK c \in 1..Batches : c = fill[s].cursor
  BY <1>5 DEF FetchBatch, Fill
<1>7. PICK S : S = Stored(s, V)
  OBVIOUS
<1>8. /\ S \in Tables /\ S.rows = V.rows /\ S.states = V.states /\ AgreeBut(S, V, a)
      /\ \A v \in Services : V.events[a][v] \subseteq S.events[a][v]
      /\ EventBatches \cap 1..c \subseteq S.events[a][w]
  BY <1>0, <1>1, <1>2, <1>3, <1>6, <1>7, StoredFacts
<1>9. CASE LastBatch(s)
  <2>1. PICK state : state = FlushedState(s, V.states[a][w])
    OBVIOUS
  <2>2. PICK T : T = PutState(S, a, w, state)
    OBVIOUS
  <2>3. /\ CanWrite(s) /\ Write(s, T) /\ pc'[s] = "open" /\ fill'[s].service = w + 1
    BY <1>0, <1>1, <1>2, <1>3, <1>7, <1>9, <2>1, <2>2, StateFacts
    DEF FetchBatch, StateOf, Goto, NoFill
  <2>4. DbStep(s) /\ View(s)' = T /\ disk' = disk /\ lock' = s
    BY <2>3 DEF DbStep, Write, View
  <2>5. /\ state.status \in {"in_progress", "completed"} /\ state.cursor = c + 1
        /\ Status(V, a, w) = "completed" => state.status = "completed"
        /\ state.status = "completed" => BatchComplete(s) \/ Status(V, a, w) = "completed"
    <3>1. V.states[a][w] \in BackfillState
      BY DEF Tables
    <3>2. \/ fill[s].base.status = "pending" /\ Status(V, a, w) = "pending"
          \/ fill[s].base.status = "in_progress" /\ Going(V, a, w)
      BY <1>0, <1>3, <1>5 DEF BatchesOK
    <3> QED BY <1>6, <2>1, <3>1, <3>2, FlushedFacts DEF Going, Status
  <2>6. /\ T.rows = V.rows /\ T.events = S.events
        /\ \A v \in Services : T.states[a][v] = IF v = w THEN state ELSE V.states[a][v]
        /\ AgreeBut(T, V, a)
    BY <1>8, <2>2, PutStateAgrees DEF PutState, Tables
  <2>7. Backed(T, a)
    <3>1. state.status = "completed" => EventBatches \cap 1..Length(w) \subseteq S.events[a][w]
      <4>1. CASE BatchComplete(s)
        <5>1. 1..Length(w) \subseteq 1..c
          BY <1>3, <1>6, <4>1, BoundsAssumption DEF BatchComplete, Length
        <5> QED BY <1>8, <5>1
      <4>2. CASE Status(V, a, w) = "completed"
        BY <1>5, <1>8, <4>2 DEF Backed
      <4> QED BY <2>5, <4>1, <4>2
    <3>2. (c + 1) - 1 = c
      OBVIOUS
    <3>3. ASSUME NEW v \in Services, v # w
          PROVE  /\ EventBatches \cap 1..(T.states[a][v].cursor - 1) \subseteq T.events[a][v]
                 /\ Status(T, a, v) = "completed"
                       => EventBatches \cap 1..Length(v) \subseteq T.events[a][v]
      <4>1. T.states[a][v] = V.states[a][v]
        BY <2>6, <3>3
      <4> QED BY <1>5, <1>8, <2>6, <4>1 DEF Backed, Status
    <3> QED BY <1>8, <2>5, <2>6, <3>1, <3>2, <3>3 DEF Backed, Status
  <2>8. Complete(T, a)
    BY <1>5, <2>5, <2>6 DEF Complete, AllComplete, Status
  <2>9. Forward(disk, T, a)
    BY <1>5, <1>8, <2>5, <2>6 DEF Forward, Status
  <2>10. ServicesOK(s, T, a)'
    <3>1. \A v \in Services \ {w} : Status(T, a, v) = Status(V, a, v)
      BY <2>6 DEF Status
    <3>2. Going(T, a, w) /\ Settled(T, a, w)
      BY <2>5, <2>6 DEF Going, Settled, Status
    <3> QED BY <1>0, <1>3, <1>4, <1>5, <2>3, <2>4, <3>1, <3>2
            DEF ServicesOK, Going, Settled, Services
  <2>11. BackfillOK(s, T, a)'
    BY <1>4, <1>5, <2>3, <2>4, <2>6, <2>7, <2>8, <2>9, <2>10 DEF BackfillOK, BatchesOK, FinishOK
  <2> QED BY <1>0, <1>1, <1>2, <1>4, <2>3, <2>4, <2>6, <2>11, BackfillGoesOn DEF Backfills
<1>10. CASE ~LastBatch(s)
  <2>1. /\ ReadOnly \/ (CanWrite(s) /\ Write(s, S))
        /\ ReadOnly => S = V
        /\ pc'[s] = "fetch" /\ fill'[s].service = w /\ fill'[s].base = fill[s].base
        /\ fill'[s].cursor = c + 1
    BY <1>0, <1>2, <1>3, <1>5, <1>6, <1>7, <1>10, StateFacts
    DEF FetchBatch, Stored, Write, ReadOnly, View, Fill
  <2>2. DbStep(s) /\ View(s)' = S /\ disk' = disk /\ (lock = s => lock' = s) /\ lock' \in {lock, s}
    <3>1. CASE ReadOnly
      BY <1>0, <1>2, <2>1, <3>1, ReadStep
    <3>2. CASE CanWrite(s) /\ Write(s, S)
      BY <3>2 DEF DbStep, Write, View
    <3> QED BY <2>1, <3>1, <3>2
  <2>3. \A v \in Services : Status(S, a, v) = Status(V, a, v)
    BY <1>8 DEF Status
  <2>4. Backed(S, a) /\ Complete(S, a) /\ Forward(disk, S, a)
    BY <1>5, <1>8 DEF Backed, Complete, AllComplete, Forward, Status
  <2>5. ServicesOK(s, S, a)'
    BY <1>0, <1>3, <1>4, <1>5, <2>1, <2>2, <2>3 DEF ServicesOK, Going, Settled, Started
  <2>6. BatchesOK(s, S, a)'
    <3>1. (c + 1) - 1 = c
      OBVIOUS
    <3> QED BY <1>0, <1>3, <1>5, <1>8, <2>1, <2>2, <2>3, <3>1 DEF BatchesOK, Going
  <2>7. BackfillOK(s, S, a)'
    BY <1>4, <1>5, <1>8, <2>1, <2>2, <2>4, <2>5, <2>6 DEF BackfillOK, FinishOK
  <2> QED BY <1>0, <1>1, <1>2, <1>4, <1>8, <2>1, <2>2, <2>7, BackfillGoesOn DEF Backfills
<1> QED BY <1>9, <1>10

LEMMA FailBatchStep ==
    ASSUME AllInv, NEW s \in Passes \cup Posts, FailBatch(s)
    PROVE  SessionStep(s)
<1>0. s \in Sessions /\ pc[s] = "fetch"
  BY DEF FailBatch, Sessions
<1>1. /\ OthersSame(s) /\ batch' = batch /\ pc'[s] = "backfill_failed"
      /\ loaded'[s] = loaded[s] /\ seen'[s] = seen[s]
  BY <1>0, StateFacts DEF FailBatch, Goto, KeepRows, OthersSame
<1>2. DbStep(s)
  BY DEF FailBatch, DbStep
<1>3. PassOK(s)'
  BY <1>0, <1>1, <1>2, PassStays
<1> QED BY <1>1, <1>2, <1>3
        DEF SessionStep, SessionOK, SeenIsPast, HoldsTarget, WorkOK, BackfillOK, Failed, Backfills

\* What the end of a backfill writes.
LEMMA FinishWrites ==
    ASSUME NEW T \in Tables, NEW a \in Actors, NEW base \in Row, NEW t \in Nat,
           Tracked(base), Tracked(T.rows[a]),
           NEW held, held = IF AllComplete(T, a) THEN [base EXCEPT !.backfill = "completed"]
                                                 ELSE base,
           NEW U, \/ U = Flush(T, a, base, held)
                  \/ U = FlushDue(Flush(T, a, base, held), a, held, Rescheduled(held, t))
    PROVE  /\ AgreeBut(U, T, a) /\ U.states = T.states /\ U.events = T.events
           /\ Tracked(U.rows[a])
           /\ U.rows[a].backfill = IF AllComplete(T, a) /\ base.backfill # "completed"
                                   THEN "completed" ELSE T.rows[a].backfill
<1>1. /\ held \in Row /\ held.state = base.state /\ Tracked(held)
      /\ held.backfill = IF AllComplete(T, a) THEN "completed" ELSE base.backfill
  BY DEF Row, BackfillStatuses, Tracked
<1>2. PICK row : row = Merge(T.rows[a], base, held)
  OBVIOUS
<1>3. /\ row \in Row /\ Tracked(row)
      /\ row.backfill = IF AllComplete(T, a) /\ base.backfill # "completed"
                        THEN "completed" ELSE T.rows[a].backfill
  <2>1. row \in Row
    BY <1>1, <1>2, MergeIsRow DEF Tables
  <2> QED BY <1>1, <1>2, <2>1 DEF Merge, Net, Tracked
<1>4. PICK F : F = Flush(T, a, base, held)
  OBVIOUS
<1>5. /\ F \in Tables /\ F.rows[a] = row /\ F.states = T.states /\ F.events = T.events
      /\ AgreeBut(F, T, a)
  <2>1. F = Put(T, a, row)
    BY <1>2, <1>4 DEF Flush
  <2> QED BY <1>3, <2>1, PutIsTables, PutAgrees DEF Put, Tables
<1>6. CASE U = F
  BY <1>3, <1>5, <1>6
<1>7. CASE U = FlushDue(F, a, held, Rescheduled(held, t))
  <2>1. PICK next : next = Rescheduled(held, t)
    OBVIOUS
  <2>2. Tracked(next) /\ next.backfill = held.backfill
    <3>1. Continues(held, next)
      BY <1>1, <2>1, CallsContinue
    <3> QED BY <1>1, <3>1 DEF Continues
  <2>3. PICK last : last = Stamp(row, held, next)
    OBVIOUS
  <2>4. Tracked(last) /\ last.backfill = row.backfill
    BY <1>3, <2>2, <2>3 DEF Stamp, Merge, Net, Tracked
  <2>5. U = Put(F, a, last)
    BY <1>1, <1>5, <1>7, <2>1, <2>3 DEF FlushDue
  <2>6. /\ U.rows[a] = last /\ U.states = F.states /\ U.events = F.events
        /\ AgreeBut(U, F, a)
    BY <1>5, <2>5, PutAgrees DEF Put, Tables
  <2> QED BY <1>3, <1>5, <2>4, <2>6 DEF AgreeBut
<1> QED BY <1>4, <1>6, <1>7

LEMMA FinishBackfillStep ==
    ASSUME AllInv, NEW s \in Passes \cup Posts, FinishBackfill(s)
    PROVE  SessionStep(s)
<1>0. s \in Sessions /\ pc[s] = "finish" /\ pc[s] \in Backfills
  BY DEF FinishBackfill, Sessions, Backfills
<1>1. PICK a \in Actors : a = Target(s)
  BY <1>0, InBackfill
<1>2. PICK V \in Tables : V = View(s)
  BY <1>0, InBackfill
<1>3. PICK base \in Row : base = seen[s][a]
  BY <1>0, <1>1, InBackfill
<1>4. /\ now \in Nat /\ batch[s] # <<>> /\ TableOK(disk, a) /\ Tracked(V.rows[a]) /\ Tracked(base)
      /\ Backed(V, a) /\ Complete(V, a) /\ Forward(disk, V, a) /\ FinishOK(s, V, a)
  BY <1>0, <1>1, <1>2, <1>3, InBackfill DEF BackfillOK
<1>5. PICK held : held = IF AllComplete(V, a) THEN [base EXCEPT !.backfill = "completed"]
                                              ELSE base
  OBVIOUS
<1>6. \E U : /\ \/ U = Flush(V, a, base, held)
                \/ U = FlushDue(Flush(V, a, base, held), a, held, Rescheduled(held, now))
             /\ Commit(U) /\ CanWrite(s)
  BY <1>1, <1>2, <1>3, <1>5 DEF FinishBackfill
<1>7. PICK U : /\ \/ U = Flush(V, a, base, held)
                  \/ U = FlushDue(Flush(V, a, base, held), a, held, Rescheduled(held, now))
               /\ Commit(U) /\ CanWrite(s)
  BY <1>6
<1>8. /\ AgreeBut(U, V, a) /\ U.states = V.states /\ U.events = V.events
      /\ Tracked(U.rows[a])
      /\ U.rows[a].backfill = IF AllComplete(V, a) /\ base.backfill # "completed"
                              THEN "completed" ELSE V.rows[a].backfill
  BY <1>4, <1>5, <1>7, FinishWrites
<1>9. TableOK(U, a)
  <2>1. \A v \in Services : Settled(U, a, v) /\ Status(U, a, v) # "absent"
    BY <1>0, <1>4, <1>8 DEF FinishOK, Going, Settled, Status
  <2>2. Backed(U, a) /\ Complete(U, a)
    BY <1>4, <1>8 DEF Backed, Complete, AllComplete, Status
  <2> QED BY <1>8, <2>1, <2>2 DEF TableOK, Started
<1>10. Later(disk, U, a)
  <2>1. Forward(disk, U, a)
    BY <1>4, <1>8 DEF Forward, Status
  <2>2. ASSUME disk.rows[a].backfill = "completed"
        PROVE  U.rows[a].backfill = "completed"
    <3>1. AllComplete(V, a)
      BY <1>4, <2>2 DEF TableOK, Complete, AllComplete, Forward, Status
    <3>2. base.backfill = "completed" => V.rows[a].backfill = "completed"
      BY <1>0, <1>3, <1>4, <2>2 DEF FinishOK
    <3> QED BY <1>8, <3>1, <3>2
  <2> QED BY <2>1, <2>2 DEF Later
<1>11. ASSUME NEW b \in Actors
       PROVE  TableOK(U, b) /\ Later(disk, U, b)
  <2>1. CASE b = a
    BY <1>9, <1>10, <2>1
  <2>2. CASE b # a
    <3>1. Same(disk, V, b)
      BY <1>0, <1>1, <1>2, <2>2, ElsewhereSame
    <3>2. Same(disk, U, b)
      BY <1>8, <2>2, <3>1 DEF AgreeBut, Same
    <3> QED BY <1>0, <3>2, SameActor, StateFacts
  <2> QED BY <2>1, <2>2
<1>12. DbStep(s) /\ lock' # s
  BY <1>0, <1>7, <1>11, StateFacts DEF DbStep, Commit
<1>13. (s \in Passes /\ NextActor(s)) \/ Close(s)
  BY DEF FinishBackfill
<1> QED BY <1>0, <1>4, <1>12, <1>13, SessionEnds, EndStep DEF Failed

-----------------------------------------------------------------------------
LEMMA BackfillInit == Init => BackfillInv
<1> SUFFICES ASSUME Init PROVE BackfillInv
  OBVIOUS
<1>1. ASSUME NEW a \in Actors
      PROVE  TableOK(disk, a)
  <2>1. /\ disk.rows[a] = AbsentRow /\ ~Tracked(AbsentRow) /\ AbsentRow.backfill = "pending"
        /\ \A v \in Services : disk.states[a][v] = AbsentState
    BY DEF Init, EmptyTables, AbsentRow, Tracked
  <2>2. AbsentState.status = "absent" /\ AbsentState.cursor = 1
    BY DEF AbsentState
  <2> QED BY <2>1, <2>2 DEF TableOK, Backed, Complete, Settled, Status
<1>2. ASSUME NEW s \in Sessions
      PROVE  SessionOK(s)
  <2>1. /\ pc[s] = "idle" /\ batch[s] = <<>> /\ loaded[s] = {} /\ lock # s
        /\ \A a \in Actors : seen[s][a] = AbsentRow
    BY <1>2, SessionsAssumption DEF Init
  <2>2. DOMAIN <<>> = {}
    OBVIOUS
  <2> QED BY <2>1, <2>2, AbsentIsPast
          DEF SessionOK, PassOK, SeenIsPast, HoldsTarget, WorkOK, BackfillOK, Backfills
<1> QED BY <1>1, <1>2 DEF BackfillInv

LEMMA EverySessionStep ==
    ASSUME AllInv, NEW s \in Sessions,
           \/ s \in Passes /\ PassStep(s)
           \/ s \in Posts /\ PostStep(s)
           \/ s \in Gets /\ GetStep(s)
           \/ s \in Passes \cup Posts /\ PollStep(s)
           \/ Load(s) \/ InsertFails(s) \/ BusyTimeout(s)
    PROVE  SessionStep(s)
<1>1. CASE s \in Passes /\ PassStep(s)
  BY <1>1, StartPassStep, TrackDefaultStep, SelectStep, ClaimStep, IndexPassStep, ReportStep,
     LeaveStep DEF PassStep
<1>2. CASE s \in Posts /\ PostStep(s)
  BY <1>2, StartRequestStep, TrackPollStep, IndexPollStep DEF PostStep
<1>3. CASE s \in Gets /\ GetStep(s)
  BY <1>3, StartRequestStep, ReportStep DEF GetStep
<1>4. CASE s \in Passes \cup Posts /\ PollStep(s)
  BY <1>4, PollTodoStep, LeaveStep, BeginBackfillStep, WalkStep, OpenServiceStep,
     FetchBatchStep, FailBatchStep, FinishBackfillStep, AbandonStep, ReportStep DEF PollStep
<1>5. CASE Load(s) \/ InsertFails(s) \/ BusyTimeout(s)
  BY <1>5, LoadStep, LeaveStep
<1> QED BY <1>1, <1>2, <1>3, <1>4, <1>5

\* A step leaves the invariant, and moves the committed tables forward.
LEMMA BackfillStep == AllInv /\ [Next]_vars => BackfillInv' /\ DiskForward
<1> SUFFICES ASSUME AllInv, [Next]_vars PROVE BackfillInv' /\ DiskForward
  OBVIOUS
<1>1. ASSUME NEW s \in Sessions, SessionStep(s)
      PROVE  BackfillInv' /\ DiskForward
  BY <1>1, OthersOK DEF SessionStep, BackfillInv, DiskForward
<1>2. ASSUME disk' = disk
      PROVE  DiskForward
  BY <1>2, LaterSelf DEF AllInv, BackfillInv, DiskForward
<1>3. ASSUME Crash
      PROVE  BackfillInv' /\ DiskForward
  <2>1. ASSUME NEW s \in Sessions
        PROVE  SessionOK(s)'
    <3>1. /\ pc'[s] = "idle" /\ batch'[s] = <<>> /\ loaded'[s] = {} /\ lock' # s
          /\ \A a \in Actors : seen'[s][a] = AbsentRow
      BY <1>3, <2>1, SessionsAssumption DEF Crash
    <3>2. DOMAIN <<>> = {}
      OBVIOUS
    <3> QED BY <3>1, <3>2, AbsentIsPast
            DEF SessionOK, PassOK, SeenIsPast, HoldsTarget, WorkOK, BackfillOK, Backfills
  <2> QED BY <1>2, <1>3, <2>1 DEF Crash, AllInv, BackfillInv
<1>4. ASSUME Tick \/ UNCHANGED vars
      PROVE  BackfillInv' /\ DiskForward
  <2>1. UNCHANGED <<disk, work, lock, pc, batch, loaded, seen, fill>>
    BY <1>4 DEF Tick, vars
  <2>2. ASSUME NEW s \in Sessions
        PROVE  SessionOK(s)'
    BY <2>1, <2>2 DEF AllInv, BackfillInv, SessionOK, PassOK, SeenIsPast, HoldsTarget, WorkOK,
       BackfillOK, ServicesOK, BatchesOK, FinishOK, View, Target
  <2> QED BY <1>2, <2>1, <2>2 DEF AllInv, BackfillInv
<1>5. CASE Next
  <2>1. ASSUME NEW s \in Sessions, SessionStep(s)
        PROVE  BackfillInv' /\ DiskForward
    BY <1>1, <2>1
  <2> QED BY <1>3, <1>4, <1>5, <2>1, EverySessionStep DEF Next, Sessions
<1> QED BY <1>4, <1>5

LEMMA BackfillInvariant == Spec => [](AllInv)
<1>1. QueueInv /\ LockInv /\ BackfillInv <=> AllInv
  BY DEF AllInv
<1>2. AllInv /\ [Next]_vars => BackfillInv'
  BY BackfillStep
<1> QED BY <1>1, <1>2, BackfillInit, QueueInvariant, LockInvariant, PTL DEF Spec

\* _load_or_create_backfill_state selects a row and inserts it when there is
\* none: the session that finds none holds the write lock of SQLite by then, so
\* the unique constraint on actor and service cannot fail.
THEOREM StateInsertSafe == Spec => []StateInsertIsSafe
<1>1. ASSUME AllInv, NEW s \in Passes \cup Posts, pc[s] = "open",
             fill[s].service \in Services, StateOf(s).status = "absent"
      PROVE  lock = s
  <2>1. s \in Sessions /\ pc[s] \in Backfills
    BY <1>1 DEF Sessions, Backfills
  <2>2. ServicesOK(s, View(s), Target(s))
    BY <1>1, <2>1, InBackfill DEF BackfillOK
  <2> QED BY <1>1, <2>2 DEF ServicesOK, StateOf, Started, Status
<1>2. AllInv => StateInsertIsSafe
  BY <1>1 DEF StateInsertIsSafe
<1> QED BY <1>2, BackfillInvariant, PTL

\* The cursor of service_backfill_states and the events it stands for are
\* committed by one transaction, by every way through _run_backfill_scope, its
\* failures and the death of the process included.
THEOREM CursorBacked == Spec => []CursorIsBacked
<1>1. AllInv => CursorIsBacked
  BY DEF AllInv, BackfillInv, TableOK, Backed, CursorIsBacked
<1> QED BY <1>1, BackfillInvariant, PTL

\* recent_backfill_status reads "completed" only with both services completed,
\* and the state of a service only with the events of all its batches stored,
\* although a session decides so from attributes it loaded long before.
THEOREM CompletedComplete == Spec => []CompletedIsComplete
<1>1. AllInv => CompletedIsComplete
  BY DEF AllInv, BackfillInv, TableOK, Backed, Complete, AllComplete, Status, CompletedIsComplete
<1> QED BY <1>1, BackfillInvariant, PTL

\* A session that loaded a row or a state before another completed it writes
\* only the attributes that it has changed itself: "completed" stays.
THEOREM CompletedFinal == Spec => CompletedIsFinal
<1>1. DiskForward =>
        \A a \in Actors :
          /\ disk.rows[a].backfill = "completed" => disk'.rows[a].backfill = "completed"
          /\ \A v \in Services :
                disk.states[a][v].status = "completed" => disk'.states[a][v].status = "completed"
  BY DEF DiskForward, Later, Forward, Status
<1>2. AllInv /\ [Next]_vars =>
        [\A a \in Actors :
          /\ disk.rows[a].backfill = "completed" => disk'.rows[a].backfill = "completed"
          /\ \A v \in Services :
                disk.states[a][v].status = "completed"
                    => disk'.states[a][v].status = "completed"]_vars
  BY <1>1, BackfillStep
<1> QED BY <1>2, BackfillInvariant, PTL DEF Spec, CompletedIsFinal
-----------------------------------------------------------------------------
(* The claim of a pass that died, on an actor that no two passes or manual *)
(* polls have before them at once.  Of two that have, one may put off what *)
(* the other claims: each writes only the columns that it has changed.     *)
Workers == Passes \cup Posts

ClaimIsDue(row) == row.state = "in_progress" => row.due <= now

\* Who has read the row of the actor has the actor before it, once, and knows of
\* every claim on it, its own or one of the dead, so that it will clear it.
KnowsClaim(s, a) ==
    /\ \A i, j \in DOMAIN batch[s] : batch[s][i] = a /\ batch[s][j] = a => i = j
    /\ pc[s] = "idle" => batch[s] = <<>>
    /\ Tracked(seen[s][a]) => WorksOn(s, a)
    /\ Tracked(seen[s][a]) /\ View(s).rows[a].state = "in_progress"
          => seen[s][a].state = "in_progress"

\* A pass that has yet to claim the actor will find it due.
FindsDue(s, a) ==
    s \in Passes =>
        \A i \in DOMAIN batch[s] :
            batch[s][i] = a => (i = 1 /\ pc[s] # "next") \/ disk.rows[a].due <= now

ClaimInv(a) ==
    /\ ClaimIsDue(disk.rows[a]) /\ ClaimIsDue(work.rows[a])
    /\ \A s \in Workers : KnowsClaim(s, a) /\ FindsDue(s, a)

AtWork(s, a) == batch[s] # <<>> /\ a = Target(s)

\* What a session writes claims nothing, and puts off at most its own target.
Tame(s, T, a) ==
    /\ T.rows[a].state = "in_progress" => View(s).rows[a].state = "in_progress"
    /\ T.rows[a].state = "in_progress" \/ ~(s \in Workers /\ AtWork(s, a))
          => T.rows[a].due \in {View(s).rows[a].due, now}

TameWrite(s, a) ==
    /\ CanWrite(s)
    /\ s \in Workers \/ lock # s
    /\ \E T : (Write(s, T) \/ Commit(T)) /\ Tame(s, T, a)

LEMMA ClaimFacts ==
    ASSUME AllInv, NEW a \in Actors, ClaimInv(a), NEW s \in Sessions
    PROVE  /\ now \in Nat /\ {disk.rows[a].due, work.rows[a].due, View(s).rows[a].due} \subseteq Nat
           /\ ClaimIsDue(disk.rows[a]) /\ ClaimIsDue(View(s).rows[a])
           /\ s \in Workers => KnowsClaim(s, a) /\ FindsDue(s, a)
           /\ AtWork(s, a) => 1 \in DOMAIN batch[s] /\ batch[s][1] = a /\ WorksOn(s, a)
           /\ lock # s \/ ~AtWork(s, a) => View(s).rows[a] = disk.rows[a]
<1>1. /\ now \in Nat /\ disk \in Tables /\ work \in Tables /\ View(s) \in Tables
      /\ batch[s] \in Seq(Actors)
  BY StateFacts
<1>2. AtWork(s, a) => 1 \in DOMAIN batch[s] /\ batch[s][1] = a
  BY <1>1 DEF AtWork, Target
<1>3. AtWork(s, a) => WorksOn(s, a)
  BY <1>2 DEF WorksOn
<1>4. ASSUME lock # s \/ ~AtWork(s, a)
      PROVE  View(s).rows[a] = disk.rows[a]
  <2>1. lock = s => batch[s] # <<>>
    BY StateFacts DEF LockLabels, WorkLabels, Labels
  <2>2. lock # s \/ a # Target(s)
    BY <1>4, <2>1 DEF AtWork
  <2> QED BY <2>2, ElsewhereSame DEF Same
<1>5. {disk.rows[a].due, work.rows[a].due, View(s).rows[a].due} \subseteq Nat
  BY <1>1 DEF Tables, Row
<1>6. ClaimIsDue(View(s).rows[a])
  BY DEF ClaimInv, View
<1> QED BY <1>1, <1>2, <1>3, <1>4, <1>5, <1>6 DEF ClaimInv

\* What a step does to the claims, but for what the session itself then knows.
LEMMA OthersKeep ==
    ASSUME AllInv, NEW a \in Actors, ClaimInv(a), Alone(a), NEW s \in Sessions, OthersSame(s),
           now' = now, ReadOnly \/ Rollback(s) \/ TameWrite(s, a),
           s \in Workers => KnowsClaim(s, a)' /\ FindsDue(s, a)'
    PROVE  ClaimInv(a)'
<1>1. ClaimIsDue(disk.rows[a]) /\ ClaimIsDue(work.rows[a]) /\ ClaimIsDue(View(s).rows[a])
      /\ now \in Nat /\ {disk.rows[a].due, work.rows[a].due, View(s).rows[a].due} \subseteq Nat
  BY ClaimFacts DEF ClaimInv
<1>2. ClaimIsDue(disk.rows[a])' /\ ClaimIsDue(work.rows[a])'
  <2>1. CASE ReadOnly \/ Rollback(s)
    BY <1>1, <2>1 DEF ReadOnly, Rollback, ClaimIsDue
  <2>2. CASE TameWrite(s, a)
    <3>1. PICK T : (Write(s, T) \/ Commit(T)) /\ Tame(s, T, a)
      BY <2>2 DEF TameWrite
    <3>2. T.rows[a].state = "in_progress" => T.rows[a].due <= now
      BY <1>1, <3>1 DEF Tame, ClaimIsDue
    <3> QED BY <1>1, <3>1, <3>2 DEF Write, Commit, ClaimIsDue
  <2> QED BY <2>1, <2>2
<1>3. ASSUME NEW r \in Workers, r # s
      PROVE  KnowsClaim(r, a)' /\ FindsDue(r, a)'
  <2>1. /\ r \in Sessions /\ pc'[r] = pc[r] /\ batch'[r] = batch[r] /\ seen'[r] = seen[r]
        /\ KnowsClaim(r, a) /\ FindsDue(r, a)
    BY <1>3, ClaimFacts DEF OthersSame, Workers, Sessions
  <2>2. /\ WorksOn(r, a)' <=> WorksOn(r, a)
        /\ Tracked(seen[r][a]) => WorksOn(r, a)
        /\ \A i \in DOMAIN batch[r] : batch[r][i] = a => WorksOn(r, a)
    BY <2>1 DEF WorksOn, KnowsClaim
  <2>3. WorksOn(r, a) =>
          /\ View(r)'.rows[a].state = "in_progress" => View(r).rows[a].state = "in_progress"
          /\ disk'.rows[a].due \in {disk.rows[a].due, now}
    <3> SUFFICES ASSUME WorksOn(r, a)
                 PROVE  /\ View(r)'.rows[a].state = "in_progress" => View(r).rows[a].state = "in_progress"
                        /\ disk'.rows[a].due \in {disk.rows[a].due, now}
      OBVIOUS
    <3>1. CASE ReadOnly \/ Rollback(s)
      BY <1>3, <2>1, <3>1, StateFacts DEF ReadOnly, Rollback, View
    <3>2. CASE TameWrite(s, a)
      <4>1. ~AtWork(s, a) \/ s \notin Workers
        BY <1>3, ClaimFacts DEF Alone, Workers
      <4>2. View(s).rows[a] = disk.rows[a] /\ View(r) = disk
        BY <1>3, <2>1, <3>2, <4>1, ClaimFacts, StateFacts DEF TameWrite, CanWrite, View
      <4>3. PICK T : (Write(s, T) \/ Commit(T)) /\ Tame(s, T, a)
        BY <3>2 DEF TameWrite
      <4>4. T.rows[a].state = "in_progress" => disk.rows[a].state = "in_progress"
        BY <4>2, <4>3 DEF Tame
      <4>5. CASE Write(s, T)
        BY <1>3, <2>1, <4>2, <4>5, StateFacts DEF Write, View
      <4>6. CASE Commit(T)
        BY <2>1, <4>1, <4>2, <4>3, <4>4, <4>6, StateFacts DEF Commit, View, Tame
      <4> QED BY <4>3, <4>5, <4>6
    <3> QED BY <3>1, <3>2
  <2>4. KnowsClaim(r, a)'
    BY <2>1, <2>2, <2>3 DEF KnowsClaim
  <2>5. FindsDue(r, a)'
    BY <1>1, <2>1, <2>2, <2>3 DEF FindsDue
  <2> QED BY <2>4, <2>5
<1> QED BY <1>2, <1>3 DEF ClaimInv

\* What the session holds of the row is what it held or would read, or nothing;
\* or the row is no longer claimed.
Remembers(s, a) ==
    \/ ~Tracked(seen'[s][a])
    \/ seen'[s][a].state = seen[s][a].state
    \/ AtWork(s, a) /\ seen'[s][a].state = View(s).rows[a].state
    \/ AtWork(s, a) /\ View(s)'.rows[a].state # "in_progress"

LEMMA ViewAfter ==
    ASSUME AllInv, NEW s \in Sessions, NEW T, Write(s, T) \/ Commit(T)
    PROVE  View(s)' = T
BY StateFacts DEF Write, Commit, View

\* The session stays with its actors.
LEMMA StaysDue ==
    ASSUME AllInv, NEW a \in Actors, ClaimInv(a), Alone(a), NEW s \in Sessions, OthersSame(s),
           now' = now, ReadOnly \/ TameWrite(s, a), batch'[s] = batch[s],
           pc'[s] \notin {"next", "idle"} \/ (pc'[s] = pc[s] /\ ReadOnly), Remembers(s, a)
    PROVE  ClaimInv(a)'
<1> SUFFICES ASSUME s \in Workers PROVE KnowsClaim(s, a)' /\ FindsDue(s, a)'
  BY OthersKeep
<1>1. /\ KnowsClaim(s, a) /\ FindsDue(s, a) /\ now \in Nat
      /\ AtWork(s, a) => 1 \in DOMAIN batch[s] /\ batch[s][1] = a /\ WorksOn(s, a)
  BY ClaimFacts
<1>2. WorksOn(s, a)' <=> WorksOn(s, a)
  BY DEF WorksOn
<1>3. View(s)'.rows[a].state = "in_progress" => View(s).rows[a].state = "in_progress"
  <2>1. CASE ReadOnly
    BY <2>1 DEF ReadOnly, View
  <2>2. CASE TameWrite(s, a)
    BY <2>2, ViewAfter DEF TameWrite, Tame
  <2> QED BY <2>1, <2>2
<1>4. KnowsClaim(s, a)'
  <2>1. Tracked(seen'[s][a]) => WorksOn(s, a)
    BY <1>1 DEF Remembers, KnowsClaim, Tracked
  <2>2. Tracked(seen'[s][a]) /\ View(s)'.rows[a].state = "in_progress"
           => seen'[s][a].state = "in_progress"
    BY <1>1, <1>3 DEF Remembers, KnowsClaim, Tracked
  <2>3. pc'[s] = "idle" => batch'[s] = <<>>
    BY <1>1 DEF KnowsClaim
  <2> QED BY <1>1, <1>2, <2>1, <2>2, <2>3 DEF KnowsClaim
<1>5. FindsDue(s, a)'
  <2> SUFFICES ASSUME s \in Passes, NEW i \in DOMAIN batch[s], batch[s][i] = a
               PROVE  (i = 1 /\ pc'[s] # "next") \/ disk'.rows[a].due <= now
    BY DEF FindsDue
  <2>1. (i = 1 /\ pc[s] # "next") \/ disk.rows[a].due <= now
    BY <1>1 DEF FindsDue
  <2>2. CASE ReadOnly
    BY <2>1, <2>2 DEF ReadOnly
  <2>3. CASE TameWrite(s, a) /\ pc'[s] # "next" /\ i # 1
    <3>1. ~AtWork(s, a)
      BY <1>1, <2>3 DEF KnowsClaim
    <3>2. View(s).rows[a] = disk.rows[a]
      BY <3>1, ClaimFacts
    <3>3. disk'.rows[a].due \in {disk.rows[a].due, now}
      BY <2>3, <3>1, <3>2 DEF TameWrite, Tame, Write, Commit
    <3> QED BY <1>1, <2>1, <2>3, <3>3
  <2> QED BY <2>2, <2>3
<1> QED BY <1>4, <1>5

\* The session is done with all of them.
LEMMA LeavesDue ==
    ASSUME AllInv, NEW a \in Actors, ClaimInv(a), Alone(a), NEW s \in Sessions, OthersSame(s),
           now' = now, ReadOnly \/ Rollback(s) \/ TameWrite(s, a), batch'[s] = <<>>, Expire(s)
    PROVE  ClaimInv(a)'
<1>1. ~Tracked(seen'[s][a])
  BY StateFacts DEF Expire, AbsentRow, Tracked
<1>2. DOMAIN batch'[s] = {}
  OBVIOUS
<1>3. KnowsClaim(s, a)' /\ FindsDue(s, a)'
  BY <1>1, <1>2 DEF KnowsClaim, FindsDue
<1> QED BY <1>3, OthersKeep

\* A pass is done with its target.
LEMMA AdvancesDue ==
    ASSUME AllInv, NEW a \in Actors, ClaimInv(a), Alone(a), NEW s \in Passes, OthersSame(s),
           now' = now, TameWrite(s, a), NextActor(s), batch[s] # <<>>
    PROVE  ClaimInv(a)'
<1>0. s \in Sessions /\ s \in Workers /\ batch[s] \in Seq(Actors) /\ Target(s) \in Actors
  BY StateFacts DEF Sessions, Workers
<1>1. /\ KnowsClaim(s, a) /\ FindsDue(s, a) /\ now \in Nat
      /\ AtWork(s, a) => 1 \in DOMAIN batch[s] /\ batch[s][1] = a
      /\ ~AtWork(s, a) => View(s).rows[a] = disk.rows[a]
  BY <1>0, ClaimFacts
<1>2. /\ pc'[s] = "next" /\ batch'[s] = Tail(batch[s])
      /\ \A b \in Actors : seen'[s][b] = IF b = Target(s) THEN AbsentRow ELSE seen[s][b]
  BY <1>0, StateFacts DEF NextActor, Goto
<1>3. /\ \A i \in DOMAIN batch'[s] : /\ i \in Nat /\ i + 1 \in DOMAIN batch[s] /\ i + 1 # 1
                                     /\ batch'[s][i] = batch[s][i + 1]
      /\ \A i \in DOMAIN batch[s] : i = 1 \/ (i - 1 \in DOMAIN batch'[s] /\ batch'[s][i - 1] = batch[s][i])
  BY <1>0, <1>2, ElementOfSeq, HeadTailProperties, LenProperties
<1>4. CASE AtWork(s, a)
  <2>1. ~Tracked(seen'[s][a])
    BY <1>2, <1>4 DEF AtWork, AbsentRow, Tracked
  <2>2. \A i \in DOMAIN batch'[s] : batch'[s][i] # a
    BY <1>1, <1>3, <1>4 DEF KnowsClaim
  <2>3. KnowsClaim(s, a)' /\ FindsDue(s, a)'
    BY <1>2, <2>1, <2>2 DEF KnowsClaim, FindsDue
  <2> QED BY <1>0, <2>3, OthersKeep
<1>5. CASE ~AtWork(s, a)
  <2>1. seen'[s][a] = seen[s][a] /\ batch[s][1] # a
    BY <1>0, <1>2, <1>5 DEF AtWork, Target
  <2>2. View(s)'.rows[a].state = "in_progress" => View(s).rows[a].state = "in_progress"
    BY <1>0, ViewAfter DEF TameWrite, Tame
  <2>3. disk'.rows[a].due \in {disk.rows[a].due, now}
    BY <1>1, <1>5 DEF TameWrite, Tame, Write, Commit
  <2>4. WorksOn(s, a) => WorksOn(s, a)'
    <3> SUFFICES ASSUME NEW i \in DOMAIN batch[s], batch[s][i] = a
                 PROVE  \E j \in DOMAIN batch'[s] : batch'[s][j] = a
      BY DEF WorksOn
    <3> QED BY <1>3, <2>1
  <2>5. \A i, j \in DOMAIN batch'[s] : batch'[s][i] = a /\ batch'[s][j] = a => i = j
    <3> SUFFICES ASSUME NEW i \in DOMAIN batch'[s], NEW j \in DOMAIN batch'[s],
                        batch'[s][i] = a, batch'[s][j] = a
                 PROVE  i = j
      OBVIOUS
    <3>1. i + 1 = j + 1
      BY <1>1, <1>3 DEF KnowsClaim
    <3> QED BY <1>3, <3>1
  <2>6. KnowsClaim(s, a)'
    BY <1>1, <1>2, <2>1, <2>2, <2>4, <2>5 DEF KnowsClaim
  <2>7. ASSUME NEW i \in DOMAIN batch'[s], batch'[s][i] = a
        PROVE  disk'.rows[a].due <= now
    <3>1. disk.rows[a].due <= now
      BY <1>0, <1>1, <1>3, <2>7 DEF FindsDue
    <3> QED BY <1>1, <2>3, <3>1
  <2>8. FindsDue(s, a)'
    BY <2>7 DEF FindsDue
  <2> QED BY <1>0, <2>6, <2>8, OthersKeep
<1> QED BY <1>4, <1>5

-----------------------------------------------------------------------------
(* The steps at which a session reads, begins or leaves. *)
LEMMA LoadDue ==
    ASSUME AllInv, NEW a \in Actors, ClaimInv(a), Alone(a), NEW s \in Sessions, OthersSame(s),
           Load(s)
    PROVE  ClaimInv(a)'
<1>1. batch[s] # <<>> /\ Target(s) \in Actors /\ ReadOnly
  BY StateFacts DEF Load
<1>2. \A b \in Actors : seen'[s][b] = IF b = Target(s) THEN View(s).rows[b] ELSE seen[s][b]
  BY <1>1, StateFacts DEF Load, Hold
<1>3. Remembers(s, a)
  BY <1>1, <1>2 DEF Remembers, AtWork
<1>4. now' = now /\ batch' = batch /\ pc' = pc
  BY DEF Load
<1> QED BY <1>1, <1>3, <1>4, StaysDue

LEMMA StartDue ==
    ASSUME AllInv, NEW a \in Actors, ClaimInv(a), Alone(a), NEW s \in Sessions, OthersSame(s),
           \/ StartPass(s)
           \/ s \in Posts /\ \E b \in Actors : StartPoll(s, b)
           \/ s \in Gets /\ \E b \in Actors, prioritize \in BOOLEAN : StartGet(s, b, prioritize)
    PROVE  ClaimInv(a)'
<1>1. ReadOnly /\ now' = now /\ pc[s] = "idle" /\ seen' = seen
  BY DEF StartPass, StartPoll, StartGet, KeepRows
<1> SUFFICES ASSUME s \in Workers PROVE KnowsClaim(s, a)' /\ FindsDue(s, a)'
  BY <1>1, OthersKeep
<1>2. ~Tracked(seen'[s][a])
  <2>1. batch[s] = <<>> /\ DOMAIN <<>> = {}
    BY <1>1, ClaimFacts DEF KnowsClaim
  <2> QED BY <1>1, <2>1, ClaimFacts DEF KnowsClaim, WorksOn
<1>3. batch[s] = <<>>
  BY <1>1, ClaimFacts DEF KnowsClaim
<1>4. s \notin Gets
  BY SessionsAssumption DEF Workers
<1>5. \/ batch'[s] = <<>>
      \/ \E b : batch'[s] = <<b>> /\ (s \in Posts \/ pc'[s] = "default")
  <2>1. CASE StartPass(s)
    BY <1>3, <2>1, StateFacts DEF StartPass, Goto
  <2>2. CASE s \in Posts /\ \E b \in Actors : StartPoll(s, b)
    BY <2>2, StateFacts DEF StartPoll
  <2> QED BY <1>4, <2>1, <2>2
<1>6. pc'[s] # "idle"
  <2>1. CASE StartPass(s)
    BY <2>1, StateFacts DEF StartPass, Goto
  <2>2. CASE s \in Posts /\ \E b \in Actors : StartPoll(s, b)
    BY <2>2, StateFacts DEF StartPoll, Goto
  <2> QED BY <1>4, <2>1, <2>2
<1>7. s \in Posts => s \notin Passes
  BY SessionsAssumption
<1>8. CASE batch'[s] = <<>>
  <2>1. DOMAIN batch'[s] = {}
    BY <1>8
  <2> QED BY <1>2, <1>8, <2>1 DEF KnowsClaim, FindsDue
<1>9. CASE \E b : batch'[s] = <<b>> /\ (s \in Posts \/ pc'[s] = "default")
  <2>1. DOMAIN batch'[s] = {1}
    BY <1>9
  <2> QED BY <1>2, <1>6, <1>7, <1>9, <2>1 DEF KnowsClaim, FindsDue
<1> QED BY <1>5, <1>8, <1>9

\* The selection takes due actors, each of them once.
LEMMA SelectDue ==
    ASSUME AllInv, NEW a \in Actors, ClaimInv(a), Alone(a), NEW s \in Passes, OthersSame(s),
           Select(s)
    PROVE  ClaimInv(a)'
<1>0. s \in Sessions /\ disk \in Tables /\ now' = now /\ ReadOnly
  BY StateFacts DEF Select, Sessions
<1>1. PICK q \in Selections(disk.rows, now, BatchSize) :
        /\ batch' = [batch EXCEPT ![s] = q]
        /\ seen' = [seen EXCEPT ![s] = [b \in Actors |->
              IF b \in {q[i] : i \in DOMAIN q} THEN disk.rows[b] ELSE AbsentRow]]
  BY DEF Select
<1>2. /\ \A i \in DOMAIN q : q[i] \in Actors /\ disk.rows[q[i]].due <= now
      /\ \A i, j \in DOMAIN q : q[i] = q[j] => i = j
  <2>1. disk.rows \in [Actors -> Row] /\ BatchSize \in Nat
    BY <1>0, BoundsAssumption DEF Tables
  <2> DEFINE due == {b \in Actors : IsDue(disk.rows[b], now)}
  <2>2. PICK n \in Nat : q \in [1..n -> due]
    BY <1>1, <2>1 DEF Selections
  <2>3. \A i \in DOMAIN q : \A j \in 1..(i - 1) : q[j] # q[i]
    BY <1>1 DEF Selections
  <2>4. ASSUME NEW i \in DOMAIN q, NEW j \in DOMAIN q, q[i] = q[j]
        PROVE  i = j
    <3>1. i \in 1..n /\ j \in 1..n
      BY <2>2
    <3>2. i < j => i \in 1..(j - 1)
      BY <3>1
    <3>3. j < i => j \in 1..(i - 1)
      BY <3>1
    <3> QED BY <2>3, <2>4, <3>1, <3>2, <3>3
  <2> QED BY <2>2, <2>4 DEF IsDue
<1>3. /\ batch'[s] = q /\ pc'[s] = "next"
      /\ \A b \in Actors : seen'[s][b] = IF b \in {q[i] : i \in DOMAIN q} THEN disk.rows[b]
                                                                     ELSE AbsentRow
  BY <1>0, <1>1, StateFacts DEF Select, Goto
<1>4. WorksOn(s, a)' <=> a \in {q[i] : i \in DOMAIN q}
  BY <1>3 DEF WorksOn
<1>5. View(s)' = disk
  BY <1>0, NoTransaction DEF Select, ReadOnly, View, LockLabels
<1>6. KnowsClaim(s, a)'
  <2>1. CASE a \in {q[i] : i \in DOMAIN q}
    BY <1>2, <1>3, <1>4, <1>5, <2>1 DEF KnowsClaim
  <2>2. CASE a \notin {q[i] : i \in DOMAIN q}
    <3>1. ~Tracked(seen'[s][a])
      BY <1>3, <2>2 DEF AbsentRow, Tracked
    <3> QED BY <1>2, <1>3, <3>1 DEF KnowsClaim
  <2> QED BY <2>1, <2>2
<1>7. FindsDue(s, a)'
  BY <1>0, <1>2, <1>3 DEF FindsDue, ReadOnly
<1> QED BY <1>0, <1>6, <1>7, OthersKeep

LEMMA LeaveDue ==
    ASSUME AllInv, NEW a \in Actors, ClaimInv(a), Alone(a), NEW s \in Sessions, OthersSame(s),
           EndPass(s) \/ InsertFails(s) \/ BusyTimeout(s) \/ FetchFails(s) \/ Abandon(s)
    PROVE  ClaimInv(a)'
<1>1. now' = now
  BY DEF EndPass, InsertFails, BusyTimeout, FetchFails, Abandon
<1>2. ReadOnly \/ Rollback(s)
  BY DEF EndPass, InsertFails, BusyTimeout, FetchFails, Abandon
<1>3. \/ Close(s)
      \/ ReadOnly /\ KeepRows /\ batch' = batch /\ \E label \in Failed : Goto(s, label)
      \/ Expire(s) /\ batch' = batch /\ \E label \in {"poll_error", "backfill_error"} : Goto(s, label)
  BY DEF EndPass, InsertFails, BusyTimeout, FetchFails, Abandon, Failed
<1>4. CASE Close(s)
  <2>1. batch'[s] = <<>> /\ Expire(s)
    BY <1>4, StateFacts DEF Close
  <2> QED BY <1>1, <1>2, <2>1, LeavesDue
<1>5. CASE ReadOnly /\ KeepRows /\ batch' = batch /\ \E label \in Failed : Goto(s, label)
  <2>1. seen'[s] = seen[s] /\ pc'[s] \notin {"next", "idle"}
    BY <1>5, StateFacts DEF KeepRows, Goto, Failed
  <2> QED BY <1>1, <1>5, <2>1, StaysDue DEF Remembers
<1>6. CASE Expire(s) /\ batch' = batch /\ \E label \in {"poll_error", "backfill_error"} : Goto(s, label)
  <2>1. pc'[s] \notin {"next", "idle"}
    BY <1>6, StateFacts DEF Goto
  <2>2. ~Tracked(seen'[s][a])
    BY <1>6, StateFacts DEF Expire, AbsentRow, Tracked
  <2> SUFFICES ASSUME s \in Workers PROVE KnowsClaim(s, a)' /\ FindsDue(s, a)'
    BY <1>1, <1>2, OthersKeep
  <2>3. KnowsClaim(s, a)'
    BY <1>6, <2>1, <2>2, ClaimFacts DEF KnowsClaim
  <2>4. disk' = disk /\ FindsDue(s, a)
    BY <1>2, ClaimFacts DEF ReadOnly, Rollback
  <2>5. FindsDue(s, a)'
    BY <1>1, <1>6, <2>1, <2>4 DEF FindsDue
  <2> QED BY <2>3, <2>5
<1> QED BY <1>3, <1>4, <1>5, <1>6

-----------------------------------------------------------------------------
(* The steps that write. *)
LEMMA Worker ==
    ASSUME NEW s \in Workers
    PROVE  s \in Sessions
BY DEF Workers, Sessions

\* A write that leaves the row, or clears a claim, is tame.
LEMMA TameWrites ==
    ASSUME AllInv, NEW a \in Actors, NEW s \in Sessions, s \in Workers \/ lock # s, CanWrite(s),
           NEW T, Write(s, T) \/ Commit(T),
           \/ /\ T.rows[a].state = View(s).rows[a].state
              /\ T.rows[a].due \in {View(s).rows[a].due, now}
           \/ s \in Workers /\ AtWork(s, a) /\ T.rows[a].state # "in_progress"
           \/ ~AtWork(s, a) /\ AgreeBut(T, View(s), Target(s)) /\ batch[s] # <<>>
    PROVE  TameWrite(s, a)
<1>1. Tame(s, T, a)
  <2>1. CASE ~AtWork(s, a) /\ AgreeBut(T, View(s), Target(s)) /\ batch[s] # <<>>
    BY <2>1 DEF AgreeBut, AtWork, Tame
  <2> QED BY <2>1 DEF Tame
<1> QED BY <1>1 DEF TameWrite

\* The status of the backfill is flushed, and nothing else.
LEMMA StatusFlush ==
    ASSUME NEW T \in Tables, NEW a \in Actors, NEW base \in Row, Tracked(base),
           NEW status \in BackfillStatuses, NEW held, held = [base EXCEPT !.backfill = status]
    PROVE  /\ Flush(T, a, base, held) \in Tables
           /\ \A b \in Actors : /\ Flush(T, a, base, held).rows[b].state = T.rows[b].state
                                /\ Flush(T, a, base, held).rows[b].due = T.rows[b].due
<1>1. held \in Row /\ held.state = base.state /\ held.due = base.due
  BY DEF Row
<1>2. PICK row : row = Merge(T.rows[a], base, held)
  OBVIOUS
<1>3. row \in Row /\ row.state = T.rows[a].state /\ row.due = T.rows[a].due
  <2>1. row \in Row
    BY <1>1, <1>2, MergeIsRow DEF Tables
  <2> QED BY <1>1, <1>2, <2>1 DEF Merge, Net
<1>4. Flush(T, a, base, held) = Put(T, a, row)
  BY <1>2 DEF Flush
<1>5. Put(T, a, row) \in Tables /\ Put(T, a, row).rows = [T.rows EXCEPT ![a] = row]
  BY <1>3, PutIsTables
<1> QED BY <1>3, <1>4, <1>5 DEF Tables

LEMMA WalkDue ==
    ASSUME AllInv, NEW a \in Actors, ClaimInv(a), Alone(a), NEW s \in Workers, OthersSame(s),
           PollTodo(s) \/ AfterServices(s) \/ SkipService(s) \/ OpenService(s) \/ FetchBatch(s)
    PROVE  ClaimInv(a)'
<1>0. s \in Sessions
  BY Worker
<1>1. /\ now' = now /\ batch' = batch /\ seen'[s] = seen[s]
  BY DEF PollTodo, AfterServices, SkipService, OpenService, FetchBatch, KeepRows
<1>2. pc'[s] \notin {"next", "idle"}
  BY <1>0, StateFacts DEF PollTodo, AfterServices, SkipService, OpenService, FetchBatch, Goto
<1>3. \A T \in Tables : \A b, v, state : PutState(T, b, v, state).rows = T.rows
  BY DEF PutState, Tables
<1>4. View(s) \in Tables /\ Stored(s, View(s)).rows = View(s).rows
  BY <1>0, StateFacts DEF Stored, Tables
<1>5. ReadOnly \/ (CanWrite(s) /\ \E T : Write(s, T) /\ T.rows = View(s).rows)
  <2>1. CASE PollTodo(s)
    BY <2>1 DEF PollTodo
  <2>2. CASE AfterServices(s) \/ SkipService(s)
    BY <2>2 DEF AfterServices, SkipService
  <2>3. CASE OpenService(s)
    BY <1>3, <1>4, <2>3 DEF OpenService
  <2>4. CASE FetchBatch(s)
    <3>1. Stored(s, View(s)) \in Tables
      <4>1. pc[s] = "fetch" /\ Target(s) \in Actors /\ fill[s].service \in Services
        BY <1>0, <2>4, StateFacts DEF FetchBatch, WorkLabels, Labels, AllInv, QueueInv, HasService
      <4>2. AllInReach(View(s))
        BY <1>0, SessionFacts DEF AllInv
      <4> QED BY <1>0, <1>4, <4>1, <4>2, StoredIsTables
    <3> QED BY <1>3, <1>4, <2>4, <3>1 DEF FetchBatch
  <2> QED BY <2>1, <2>2, <2>3, <2>4
<1>6. ReadOnly \/ TameWrite(s, a)
  BY <1>0, <1>5, TameWrites
<1> QED BY <1>0, <1>1, <1>2, <1>6, StaysDue DEF Remembers

LEMMA FailBatchDue ==
    ASSUME AllInv, NEW a \in Actors, ClaimInv(a), Alone(a), NEW s \in Workers, OthersSame(s),
           FailBatch(s)
    PROVE  ClaimInv(a)'
<1>0. s \in Sessions /\ pc[s] = "fetch" /\ pc[s] \in Backfills /\ CanWrite(s)
  BY Worker DEF FailBatch, Backfills
<1>1. PICK b \in Actors : b = Target(s)
  BY <1>0, InBackfill
<1>2. PICK base \in Row : base = seen[s][b]
  BY <1>0, <1>1, InBackfill
<1>3. View(s) \in Tables /\ Tracked(base)
  BY <1>0, <1>1, <1>2, InBackfill DEF BackfillOK
<1>4. PICK held : held = [base EXCEPT !.backfill = "error"]
  OBVIOUS
<1>5. PICK state : Write(s, PutState(Flush(View(s), b, base, held), b, fill[s].service, state))
  BY <1>1, <1>2, <1>4 DEF FailBatch
<1>6. PICK F : F = Flush(View(s), b, base, held)
  OBVIOUS
<1>7. F \in Tables /\ F.rows[a].state = View(s).rows[a].state /\ F.rows[a].due = View(s).rows[a].due
  BY <1>3, <1>4, <1>6, StatusFlush DEF BackfillStatuses
<1>8. PICK T : T = PutState(F, b, fill[s].service, state)
  OBVIOUS
<1>9. T.rows = F.rows /\ Write(s, T)
  BY <1>5, <1>6, <1>7, <1>8 DEF PutState, Tables
<1>10. /\ now' = now /\ batch' = batch /\ seen'[s] = seen[s] /\ pc'[s] \notin {"next", "idle"}
  BY <1>0, StateFacts DEF FailBatch, KeepRows, Goto
<1>11. TameWrite(s, a)
  BY <1>0, <1>7, <1>9, TameWrites
<1> QED BY <1>0, <1>10, <1>11, StaysDue DEF Remembers

LEMMA BeginBackfillDue ==
    ASSUME AllInv, NEW a \in Actors, ClaimInv(a), Alone(a), NEW s \in Workers, OthersSame(s),
           BeginBackfill(s)
    PROVE  ClaimInv(a)'
<1>0. s \in Sessions /\ pc[s] = "backfill" /\ pc[s] \in WorkLabels
  BY Worker DEF BeginBackfill, WorkLabels, Labels
<1>1. PICK b \in Actors : b = Target(s)
  BY <1>0, StateFacts
<1>2. PICK base \in Row : base = seen[s][b]
  BY <1>0, <1>1, StateFacts
<1>3. View(s) \in Tables /\ Tracked(base)
  BY <1>0, <1>1, <1>2, StateFacts DEF SessionOK, HoldsTarget
<1>4. PICK held : held = [base EXCEPT !.backfill = "in_progress"]
  OBVIOUS
<1>5. \/ ReadOnly /\ KeepRows
      \/ Hold(s, b, held) /\ (ReadOnly \/ (CanWrite(s) /\ Write(s, Flush(View(s), b, base, held))))
  BY <1>1, <1>2, <1>4 DEF BeginBackfill
<1>6. now' = now /\ batch' = batch /\ pc'[s] \notin {"next", "idle"}
  BY <1>0, StateFacts DEF BeginBackfill, Goto
<1>7. seen'[s][a].state = seen[s][a].state
  <2>1. CASE KeepRows
    BY <2>1 DEF KeepRows
  <2>2. CASE Hold(s, b, held)
    <3>1. held.state = base.state
      BY <1>4 DEF Row
    <3>2. seen'[s][a] = IF a = b THEN held ELSE seen[s][a]
      BY <1>0, <2>2, StateFacts DEF Hold
    <3> QED BY <1>2, <3>1, <3>2
  <2> QED BY <1>5, <2>1, <2>2
<1>8. ReadOnly \/ TameWrite(s, a)
  <2>1. PICK F : F = Flush(View(s), b, base, held)
    OBVIOUS
  <2>2. F.rows[a].state = View(s).rows[a].state /\ F.rows[a].due = View(s).rows[a].due
    BY <1>3, <1>4, <2>1, StatusFlush DEF BackfillStatuses
  <2> QED BY <1>0, <1>5, <2>1, <2>2, TameWrites
<1> QED BY <1>0, <1>6, <1>7, <1>8, StaysDue DEF Remembers

-----------------------------------------------------------------------------
(* The steps that give the row of the target a new schedule. *)
\* What a session writes for its target is no claim, once it holds `held`: a claim
\* in the table is one that it knows of, and overwrites.
LEMMA Unclaimed ==
    ASSUME NEW T \in Tables, NEW a \in Actors, NEW base \in Row, NEW held \in Row,
           held.state # "in_progress",
           Tracked(base) /\ T.rows[a].state = "in_progress" => base.state = "in_progress"
    PROVE  FlushDue(T, a, base, held).rows[a].state # "in_progress"
<1>1. PICK row : row = IF Tracked(base) THEN Stamp(T.rows[a], base, held) ELSE held
  OBVIOUS
<1>2. row.state # "in_progress"
  BY <1>1 DEF Stamp, Merge, Net
<1>3. FlushDue(T, a, base, held) = Put(T, a, row)
  BY <1>1 DEF FlushDue
<1> QED BY <1>2, <1>3 DEF Put, Tables

LEMMA CallsUnclaim ==
    ASSUME NEW row \in Row, NEW t \in Nat
    PROVE  /\ Indexed(row, t).state # "in_progress"
           /\ Errored(row, t).state # "in_progress"
           /\ Rescheduled(row, t).state # "in_progress"
<1>1. PICK known : known = TrackRequest(row, t, FALSE)
  OBVIOUS
<1>2. known \in Row
  BY <1>1, TrackRequestIsRow
<1> QED BY <1>1, <1>2 DEF Indexed, Errored, Rescheduled, Row

\* The poll has an outcome.
LEMMA OutcomeTame ==
    ASSUME AllInv, NEW a \in Actors, ClaimInv(a), NEW s \in Workers, batch[s] # <<>>, CanWrite(s),
           NEW T, Write(s, T) \/ Commit(T), AgreeBut(T, View(s), Target(s)),
           T.rows[Target(s)].state # "in_progress"
    PROVE  TameWrite(s, a)
BY Worker, TameWrites DEF AtWork

\* What a session knows of its target, when it comes to write it.
LEMMA TargetKnown ==
    ASSUME AllInv, NEW a \in Actors, ClaimInv(a), NEW s \in Workers, a = Target(s)
    PROVE  Tracked(seen[s][a]) /\ View(s).rows[a].state = "in_progress"
              => seen[s][a].state = "in_progress"
BY Worker, ClaimFacts DEF KnowsClaim

LEMMA OutcomeDue ==
    ASSUME AllInv, NEW a \in Actors, ClaimInv(a), Alone(a), NEW s \in Workers, OthersSame(s),
           IndexPass(s) \/ (Reschedule(s) /\ s \in Passes) \/ RecordError(s)
    PROVE  ClaimInv(a)'
<1>0. s \in Sessions /\ batch[s] # <<>> /\ Target(s) \in Actors /\ CanWrite(s)
  BY Worker, StateFacts DEF IndexPass, Reschedule, RecordError, HasRow, WorkLabels, Labels
<1>1. PICK b \in Actors : b = Target(s)
  BY <1>0
<1>2. PICK base \in Row : base = seen[s][b]
  BY <1>0, <1>1, StateFacts
<1>3. View(s) \in Tables /\ now \in Nat /\ now' = now
  BY <1>0, StateFacts DEF IndexPass, Reschedule, RecordError
<1>4. PICK held \in Row : held.state # "in_progress" /\ Commit(FlushDue(View(s), b, base, held))
                          /\ (IndexPass(s) => Hold(s, b, held))
  <2>1. CASE IndexPass(s)
    <3>1. PICK held : held = Indexed(base, now)
      OBVIOUS
    <3>2. Commit(FlushDue(View(s), b, base, held)) /\ Hold(s, b, held)
      BY <1>1, <1>2, <2>1, <3>1 DEF IndexPass
    <3> QED BY <1>3, <3>1, <3>2, IndexedIsRow, CallsUnclaim
  <2>2. CASE Reschedule(s)
    <3>1. PICK held : held = Rescheduled(base, now)
      OBVIOUS
    <3>2. Commit(FlushDue(View(s), b, base, held)) /\ ~IndexPass(s)
      BY <1>1, <1>2, <2>2, <3>1 DEF Reschedule, IndexPass
    <3> QED BY <1>3, <3>1, <3>2, RescheduledIsRow, CallsUnclaim
  <2>3. CASE RecordError(s)
    <3>1. PICK held : held = Errored(base, now)
      OBVIOUS
    <3>2. Commit(FlushDue(View(s), b, base, held)) /\ ~IndexPass(s)
      BY <1>1, <1>2, <2>3, <3>1 DEF RecordError, IndexPass
    <3> QED BY <1>3, <3>1, <3>2, ErroredIsRow, CallsUnclaim
  <2> QED BY <2>1, <2>2, <2>3
<1>5. PICK T : T = FlushDue(View(s), b, base, held)
  OBVIOUS
<1>6. AgreeBut(T, View(s), b)
  <2>1. \E row : T = Put(View(s), b, row)
    BY <1>5 DEF FlushDue
  <2> QED BY <1>3, <2>1, PutAgrees
<1>7. a = b => T.rows[b].state # "in_progress"
  <2>1. a = b => (Tracked(base) /\ View(s).rows[b].state = "in_progress" => base.state = "in_progress")
    BY <1>1, <1>2, TargetKnown
  <2> QED BY <1>3, <1>4, <1>5, <2>1, Unclaimed
<1>8. TameWrite(s, a)
  BY <1>0, <1>1, <1>4, <1>5, <1>6, <1>7, TameWrites DEF AtWork
<1>9. CASE IndexPass(s)
  <2>1. View(s)' = T
    BY <1>0, <1>4, <1>5, ViewAfter
  <2>2. batch' = batch /\ pc'[s] \notin {"next", "idle"}
    BY <1>0, <1>9, StateFacts DEF IndexPass, Goto
  <2>3. seen'[s][a] = IF a = b THEN held ELSE seen[s][a]
    BY <1>0, <1>4, <1>9, StateFacts DEF Hold
  <2>4. Remembers(s, a)
    BY <1>0, <1>1, <1>7, <2>1, <2>3 DEF Remembers, AtWork
  <2> QED BY <1>0, <1>3, <1>8, <2>2, <2>4, StaysDue
<1>10. CASE s \in Passes /\ NextActor(s)
  BY <1>0, <1>3, <1>8, <1>10, AdvancesDue
<1>11. CASE Close(s)
  <2>1. batch'[s] = <<>> /\ Expire(s)
    BY <1>0, <1>11, StateFacts DEF Close
  <2> QED BY <1>0, <1>3, <1>8, <2>1, LeavesDue
<1> QED BY <1>9, <1>10, <1>11 DEF Reschedule, RecordError

LEMMA FinishDue ==
    ASSUME AllInv, NEW a \in Actors, ClaimInv(a), Alone(a), NEW s \in Workers, OthersSame(s),
           FinishBackfill(s)
    PROVE  ClaimInv(a)'
<1>0. s \in Sessions /\ pc[s] = "finish" /\ pc[s] \in Backfills /\ CanWrite(s) /\ now' = now
  BY Worker DEF FinishBackfill, Backfills
<1>1. PICK b \in Actors : b = Target(s)
  BY <1>0, InBackfill
<1>2. PICK V \in Tables : V = View(s)
  BY <1>0, InBackfill
<1>3. PICK base \in Row : base = seen[s][b]
  BY <1>0, <1>1, InBackfill
<1>4. now \in Nat /\ batch[s] # <<>> /\ Tracked(base)
  BY <1>0, <1>1, <1>2, <1>3, InBackfill DEF BackfillOK
<1>5. PICK held : held = IF AllComplete(V, b) THEN [base EXCEPT !.backfill = "completed"]
                                              ELSE base
  OBVIOUS
<1>6. held \in Row /\ held.state = base.state /\ held.due = base.due
  BY <1>5 DEF Row, BackfillStatuses
<1>7. PICK F : F = Flush(V, b, base, held)
  OBVIOUS
<1>8. F \in Tables /\ F.rows[b].state = V.rows[b].state /\ F.rows[b].due = V.rows[b].due
      /\ AgreeBut(F, V, b)
  <2>1. PICK row : row = Merge(V.rows[b], base, held)
    OBVIOUS
  <2>2. row \in Row
    BY <1>6, <2>1, MergeIsRow DEF Tables
  <2>3. row.state = V.rows[b].state /\ row.due = V.rows[b].due
    BY <1>6, <2>1 DEF Merge, Net
  <2>4. F = Put(V, b, row)
    BY <1>4, <1>7, <2>1 DEF Flush
  <2>5. F \in Tables /\ F.rows = [V.rows EXCEPT ![b] = row]
    BY <2>2, <2>4, PutIsTables
  <2> QED BY <2>3, <2>4, <2>5, PutAgrees DEF Tables
<1>9. CASE s \notin Passes
  <2>1. Commit(F) /\ Close(s)
    BY <1>1, <1>2, <1>3, <1>5, <1>7, <1>9 DEF FinishBackfill
  <2>2. F.rows[a].state = V.rows[a].state /\ F.rows[a].due = V.rows[a].due
    BY <1>8 DEF AgreeBut
  <2>3. TameWrite(s, a)
    BY <1>0, <1>2, <2>1, <2>2, TameWrites
  <2>4. batch'[s] = <<>> /\ Expire(s)
    BY <1>0, <2>1, StateFacts DEF Close
  <2> QED BY <1>0, <2>3, <2>4, LeavesDue
<1>10. CASE s \in Passes
  <2>1. PICK next : next = Rescheduled(held, now)
    OBVIOUS
  <2>2. PICK U : U = FlushDue(F, b, held, next) /\ Commit(U) /\ NextActor(s)
    BY <1>1, <1>2, <1>3, <1>5, <1>7, <1>10, <2>1 DEF FinishBackfill
  <2>3. a = b => U.rows[b].state # "in_progress"
    <3>1. next \in Row /\ next.state # "in_progress"
      BY <1>4, <1>6, <2>1, RescheduledIsRow, CallsUnclaim
    <3>2. a = b => (F.rows[b].state = "in_progress" => held.state = "in_progress")
      BY <1>1, <1>2, <1>3, <1>4, <1>6, <1>8, TargetKnown
    <3> QED BY <1>6, <1>8, <2>2, <3>1, <3>2, Unclaimed
  <2>4. AgreeBut(U, V, b)
    <3>1. \E row : U = Put(F, b, row)
      BY <2>2 DEF FlushDue
    <3>2. AgreeBut(U, F, b)
      BY <1>8, <3>1, PutAgrees
    <3> QED BY <1>8, <3>2 DEF AgreeBut
  <2>5. TameWrite(s, a)
    BY <1>0, <1>1, <1>2, <1>4, <2>2, <2>3, <2>4, TameWrites DEF AtWork
  <2> QED BY <1>0, <1>4, <1>10, <2>2, <2>5, AdvancesDue
<1> QED BY <1>9, <1>10

\* A manual poll inserts the actor, or holds no row when it sets the outcome.
LEMMA PollDue ==
    ASSUME AllInv, NEW a \in Actors, ClaimInv(a), Alone(a), NEW s \in Workers, OthersSame(s),
           TrackPoll(s) \/ IndexPoll(s)
    PROVE  ClaimInv(a)'
<1>0. /\ s \in Sessions /\ batch[s] # <<>> /\ now' = now /\ batch' = batch
      /\ pc'[s] \notin {"next", "idle"} /\ now \in Nat /\ View(s) \in Tables
  BY Worker, StateFacts DEF TrackPoll, IndexPoll, WorkLabels, Labels, Goto
<1>1. PICK b \in Actors : b = Target(s)
  BY <1>0, StateFacts
<1>2. ASSUME CanWrite(s), NEW row, row.state # "in_progress", Write(s, Put(View(s), b, row))
      PROVE  TameWrite(s, a) /\ View(s)'.rows[b].state # "in_progress"
  <2>1. PICK T : T = Put(View(s), b, row)
    OBVIOUS
  <2>2. AgreeBut(T, View(s), b) /\ T.rows[b] = row
    BY <1>0, <2>1, PutAgrees DEF Put, Tables
  <2>3. View(s)' = T
    BY <1>0, <1>2, <2>1, ViewAfter
  <2>4. T.rows[b].state # "in_progress" /\ Write(s, T)
    BY <1>2, <2>1, <2>2
  <2> QED BY <1>0, <1>1, <1>2, <2>2, <2>3, <2>4, OutcomeTame
<1>3. CASE TrackPoll(s)
  <2>1. ~Tracked(seen'[s][a])
    BY <1>0, <1>3, StateFacts DEF TrackPoll, Expire, AbsentRow, Tracked
  <2>2. NewRow(now).state # "in_progress"
    BY <1>0 DEF NewRow, AbsentRow
  <2>3. PICK row : row = NewRow(now)
    OBVIOUS
  <2>4. ReadOnly \/ (CanWrite(s) /\ Write(s, Put(View(s), b, row)))
    BY <1>1, <1>3, <2>3 DEF TrackPoll
  <2>5. ReadOnly \/ TameWrite(s, a)
    BY <1>2, <2>2, <2>3, <2>4
  <2> QED BY <1>0, <2>1, <2>5, StaysDue DEF Remembers
<1>4. CASE IndexPoll(s)
  <2>1. PICK held : held = Indexed(View(s).rows[b], now)
    OBVIOUS
  <2>2. CanWrite(s) /\ Write(s, Put(View(s), b, held)) /\ Hold(s, b, held)
    BY <1>1, <1>4, <2>1 DEF IndexPoll
  <2>3. held.state # "in_progress"
    BY <1>0, <2>1, CallsUnclaim DEF Tables
  <2>4. TameWrite(s, a) /\ View(s)'.rows[b].state # "in_progress"
    BY <1>2, <2>2, <2>3
  <2>5. seen'[s][a] = IF a = b THEN held ELSE seen[s][a]
    BY <1>0, <2>2, StateFacts DEF Hold
  <2>6. Remembers(s, a)
    BY <1>0, <1>1, <2>4, <2>5 DEF Remembers, AtWork
  <2> QED BY <1>0, <2>4, <2>6, StaysDue
<1> QED BY <1>3, <1>4

\* A request for an actor: it claims nothing, and what it changes it makes due.
LEMMA RequestClaimsNothing ==
    ASSUME NEW T \in Tables, NEW a \in Actors, NEW base \in Row, NEW t \in Nat,
           NEW prioritize \in BOOLEAN, NEW held, held = TrackRequest(base, t, prioritize),
           Tracked(base) \/ ~Tracked(T.rows[a]),
           NEW U, U = Flush(T, a, base, held) \/ (prioritize /\ U = FlushDue(T, a, base, held))
    PROVE  \A b \in Actors : /\ U.rows[b].state = "in_progress" => T.rows[b].state = "in_progress"
                             /\ U.rows[b].due \in {T.rows[b].due, t}
<1>1. /\ NewRow(t) \in Row /\ NewRow(t).state = "queued" /\ NewRow(t).due = t
  BY NewRowIsRow DEF NewRow, AbsentRow
<1>2. /\ held \in Row
      /\ held.state = IF Tracked(base) THEN base.state ELSE "queued"
      /\ held.due = IF prioritize \/ ~Tracked(base) THEN t ELSE base.due
  <2>1. held \in Row
    BY TrackRequestIsRow
  <2>2. CASE Tracked(base)
    BY <2>1, <2>2 DEF TrackRequest, Row
  <2>3. CASE ~Tracked(base)
    BY <1>1, <2>1, <2>3 DEF TrackRequest, Row
  <2> QED BY <2>1, <2>2, <2>3
<1>3. \E row : /\ U = Put(T, a, row)
               /\ row.state = "in_progress" => T.rows[a].state = "in_progress"
               /\ row.due \in {T.rows[a].due, t}
  <2>1. CASE ~Tracked(base)
    <3>1. U = Put(T, a, held)
      BY <2>1 DEF Flush, FlushDue
    <3> QED BY <1>2, <2>1, <3>1
  <2>2. CASE Tracked(base) /\ U = Flush(T, a, base, held)
    <3>1. PICK row : row = Merge(T.rows[a], base, held)
      OBVIOUS
    <3>2. U = Put(T, a, row)
      BY <2>2, <3>1 DEF Flush
    <3>3. row.state = T.rows[a].state /\ row.due \in {T.rows[a].due, t}
      BY <1>2, <2>2, <3>1 DEF Merge, Net
    <3> QED BY <3>2, <3>3
  <2>3. CASE Tracked(base) /\ prioritize /\ U = FlushDue(T, a, base, held)
    <3>1. PICK row : row = Stamp(T.rows[a], base, held)
      OBVIOUS
    <3>2. U = Put(T, a, row)
      BY <2>3, <3>1 DEF FlushDue
    <3>3. row.state = T.rows[a].state /\ row.due = t
      BY <1>2, <2>3, <3>1 DEF Stamp, Merge, Net
    <3> QED BY <3>2, <3>3
  <2> QED BY <2>1, <2>2, <2>3
<1>4. PICK row : /\ U = Put(T, a, row)
                 /\ row.state = "in_progress" => T.rows[a].state = "in_progress"
                 /\ row.due \in {T.rows[a].due, t}
  BY <1>3
<1> QED BY <1>4 DEF Put, Tables

LEMMA RequestDue ==
    ASSUME AllInv, NEW a \in Actors, ClaimInv(a), Alone(a), NEW s \in Sessions, OthersSame(s),
           (TrackDefault(s) /\ s \in Passes) \/ AnswerGet(s)
    PROVE  ClaimInv(a)'
<1>0. batch[s] # <<>> /\ Target(s) \in Actors /\ lock # s
  BY StateFacts, NoTransaction DEF TrackDefault, AnswerGet, HasRow, LockLabels
<1>1. PICK b \in Actors : b = Target(s)
  BY <1>0
<1>2. PICK base \in Row : base = seen[s][b]
  BY <1>1, StateFacts
<1>3. View(s) \in Tables /\ now \in Nat /\ now' = now /\ batch'[s] = <<>> /\ Expire(s)
  BY StateFacts DEF TrackDefault, AnswerGet, Close
<1>4. ASSUME CanWrite(s), ~Conflict(s), NEW prioritize \in BOOLEAN,
             NEW held, held = TrackRequest(base, now, prioritize), NEW U, Commit(U),
             \/ U = Flush(View(s), b, base, held)
             \/ prioritize /\ U = FlushDue(View(s), b, base, held)
      PROVE  TameWrite(s, a)
  <2>1. Tracked(base) \/ ~Tracked(View(s).rows[b])
    BY <1>1, <1>2, <1>4 DEF Conflict
  <2>2. /\ U.rows[a].state = "in_progress" => View(s).rows[a].state = "in_progress"
        /\ U.rows[a].due \in {View(s).rows[a].due, now}
    BY <1>3, <1>4, <2>1, RequestClaimsNothing
  <2> QED BY <1>0, <1>4, <2>2 DEF TameWrite, Tame
<1>5. ReadOnly \/ TameWrite(s, a)
  <2>1. CASE TrackDefault(s)
    <3>1. PICK held : held = TrackRequest(base, now, FALSE)
      OBVIOUS
    <3>2. ReadOnly \/ (CanWrite(s) /\ ~Conflict(s) /\ Commit(Flush(View(s), b, base, held)))
      BY <1>1, <1>2, <2>1, <3>1 DEF TrackDefault
    <3>3. PICK U : U = Flush(View(s), b, base, held)
      OBVIOUS
    <3> QED BY <1>4, <3>1, <3>2, <3>3
  <2>2. CASE AnswerGet(s)
    <3>1. PICK boost \in BOOLEAN : boost = (pc[s] = "get_boosted")
      OBVIOUS
    <3>2. PICK held : held = TrackRequest(base, now, boost)
      OBVIOUS
    <3>3. PICK U : U = IF boost THEN FlushDue(View(s), b, base, held)
                                ELSE Flush(View(s), b, base, held)
      OBVIOUS
    <3>4. CanWrite(s) /\ ~Conflict(s) /\ Commit(U)
      BY <1>1, <1>2, <2>2, <3>1, <3>2, <3>3 DEF AnswerGet
    <3> QED BY <1>4, <3>2, <3>3, <3>4
  <2> QED BY <2>1, <2>2
<1> QED BY <1>3, <1>5, LeavesDue

\* The claim: the actor was due when the pass came to it, and remains so.
LEMMA ClaimDue ==
    ASSUME AllInv, NEW a \in Actors, ClaimInv(a), Alone(a), NEW s \in Passes, OthersSame(s),
           Claim(s)
    PROVE  ClaimInv(a)'
<1>0. /\ s \in Sessions /\ s \in Workers /\ pc[s] = "next" /\ batch[s] # <<>> /\ now' = now
      /\ batch' = batch
  BY DEF Claim, HasRow, Sessions, Workers
<1>1. disk \in Tables /\ now \in Nat
  BY <1>0, StateFacts
<1>2. PICK b \in Actors : b = Target(s)
  BY <1>0, StateFacts
<1>3. PICK base \in Row : base = seen[s][b]
  BY <1>0, <1>2, StateFacts
<1>4. PICK held : held = Claimed(base)
  OBVIOUS
<1>5. PICK merged : merged = Merge(disk.rows[b], base, held)
  OBVIOUS
<1>6. PICK row : row = [merged EXCEPT !.attempts = held.attempts]
  OBVIOUS
<1>7. Commit(Put(disk, b, row)) /\ Hold(s, b, held)
  BY <1>2, <1>3, <1>4, <1>5, <1>6 DEF Claim
<1>8. held \in Row /\ held.due = base.due /\ held.state = "in_progress"
  BY <1>3, <1>4, ClaimedIsRow DEF Claimed, Row
<1>9. merged \in Row /\ merged.due = disk.rows[b].due
  BY <1>1, <1>5, <1>8, MergeIsRow DEF Tables
<1>10. /\ work' = disk' /\ disk'.rows[a].due = disk.rows[a].due
       /\ a # b => disk'.rows[a].state = disk.rows[a].state
  <2>1. row.due = disk.rows[b].due
    BY <1>6, <1>9 DEF Row
  <2> QED BY <1>1, <1>7, <2>1 DEF Commit, Put, Tables
<1>11. /\ KnowsClaim(s, a) /\ FindsDue(s, a) /\ ClaimIsDue(disk.rows[a])
       /\ \A r \in Workers : KnowsClaim(r, a) /\ FindsDue(r, a)
       /\ AtWork(s, a) => 1 \in DOMAIN batch[s] /\ batch[s][1] = a /\ WorksOn(s, a)
  BY <1>0, ClaimFacts DEF ClaimInv
<1>12. pc'[s] \in {"backfill", "todo"}
  BY <1>0, StateFacts DEF Claim, Goto
<1>13. View(s) = disk /\ View(s)' = disk' /\ \A r \in Sessions : View(r)' = disk'
  BY <1>0, <1>7, <1>10, NoTransaction, StateFacts DEF Commit, View, LockLabels
<1>14. CASE a # b
  <2>1. PICK T : T = Put(disk, b, row)
    OBVIOUS
  <2>2. AgreeBut(T, View(s), b) /\ Commit(T) /\ CanWrite(s)
    BY <1>1, <1>7, <1>13, <2>1, PutAgrees DEF Claim
  <2>3. TameWrite(s, a)
    BY <1>0, <1>2, <1>14, <2>2, TameWrites DEF AtWork
  <2>4. seen'[s][a] = seen[s][a]
    BY <1>0, <1>7, <1>14, StateFacts DEF Hold
  <2> QED BY <1>0, <1>12, <2>3, <2>4, StaysDue DEF Remembers
<1>15. CASE a = b
  <2>1. AtWork(s, a) /\ WorksOn(s, a)
    BY <1>0, <1>2, <1>11, <1>15 DEF AtWork
  <2>2. disk.rows[a].due <= now
    BY <1>0, <1>11, <2>1 DEF FindsDue
  <2>3. ClaimIsDue(disk.rows[a])' /\ ClaimIsDue(work.rows[a])'
    BY <1>0, <1>10, <2>2 DEF ClaimIsDue
  <2>4. seen'[s][a] = held
    BY <1>0, <1>7, <1>15, StateFacts DEF Hold
  <2>5. WorksOn(s, a)'
    BY <1>0, <2>1 DEF WorksOn
  <2>6. KnowsClaim(s, a)'
    BY <1>0, <1>8, <1>11, <1>12, <2>4, <2>5 DEF KnowsClaim
  <2>7. FindsDue(s, a)'
    BY <1>0, <1>10, <2>2 DEF FindsDue
  <2>8. ASSUME NEW r \in Workers, r # s
        PROVE  KnowsClaim(r, a)' /\ FindsDue(r, a)'
    <3>1. /\ r \in Sessions /\ pc'[r] = pc[r] /\ batch'[r] = batch[r] /\ seen'[r] = seen[r]
      BY <2>8, Worker DEF OthersSame
    <3>2. ~WorksOn(r, a)
      BY <1>0, <2>1, <2>8 DEF Alone, Workers
    <3>3. ~Tracked(seen[r][a]) /\ \A i \in DOMAIN batch[r] : batch[r][i] # a
      BY <1>11, <2>8, <3>2 DEF KnowsClaim, WorksOn
    <3> QED BY <1>11, <2>8, <3>1, <3>3 DEF KnowsClaim, FindsDue
  <2> QED BY <2>3, <2>6, <2>7, <2>8 DEF ClaimInv
<1> QED BY <1>14, <1>15

-----------------------------------------------------------------------------
LEMMA ClaimInit == ASSUME NEW a \in Actors PROVE Init => ClaimInv(a)
<1> SUFFICES ASSUME Init PROVE ClaimInv(a)
  OBVIOUS
<1>1. disk.rows[a].state = "absent" /\ work.rows[a].state = "absent"
  BY DEF Init, EmptyTables, AbsentRow
<1>2. \A s \in Workers : batch[s] = <<>> /\ ~Tracked(seen[s][a])
  BY Worker DEF Init, AbsentRow, Tracked
<1>3. DOMAIN <<>> = {}
  OBVIOUS
<1> QED BY <1>1, <1>2, <1>3 DEF ClaimInv, ClaimIsDue, KnowsClaim, FindsDue

LEMMA ClaimStays ==
    ASSUME NEW a \in Actors
    PROVE  AllInv /\ ClaimInv(a) /\ Alone(a) /\ [Next]_vars => ClaimInv(a)'
<1> SUFFICES ASSUME AllInv, ClaimInv(a), Alone(a), [Next]_vars PROVE ClaimInv(a)'
  OBVIOUS
<1>1. ASSUME NEW s \in Passes, PassStep(s)
      PROVE  ClaimInv(a)'
  <2>1. s \in Sessions /\ s \in Workers
    BY DEF Sessions, Workers
  <2>2. OthersSame(s)
    BY <1>1, <2>1, EverySessionStep DEF SessionStep
  <2> QED BY <1>1, <2>1, <2>2, StartDue, RequestDue, SelectDue, ClaimDue, OutcomeDue, LeaveDue
          DEF PassStep
<1>2. ASSUME NEW s \in Gets, GetStep(s)
      PROVE  ClaimInv(a)'
  <2>1. s \in Sessions
    BY DEF Sessions
  <2>2. OthersSame(s)
    BY <1>2, <2>1, EverySessionStep DEF SessionStep
  <2> QED BY <1>2, <2>1, <2>2, StartDue, RequestDue DEF GetStep
<1>3. ASSUME NEW s \in Posts, PostStep(s)
      PROVE  ClaimInv(a)'
  <2>1. s \in Sessions /\ s \in Workers
    BY DEF Sessions, Workers
  <2>2. OthersSame(s)
    BY <1>3, <2>1, EverySessionStep DEF SessionStep
  <2> QED BY <1>3, <2>1, <2>2, StartDue, PollDue DEF PostStep
<1>4. ASSUME NEW s \in Passes \cup Posts, PollStep(s)
      PROVE  ClaimInv(a)'
  <2>1. s \in Sessions /\ s \in Workers
    BY DEF Sessions, Workers
  <2>2. OthersSame(s)
    BY <1>4, <2>1, EverySessionStep DEF SessionStep
  <2> QED BY <1>4, <2>1, <2>2, WalkDue, LeaveDue, BeginBackfillDue, FailBatchDue, FinishDue,
             OutcomeDue DEF PollStep
<1>5. ASSUME NEW s \in Sessions, Load(s) \/ InsertFails(s) \/ BusyTimeout(s)
      PROVE  ClaimInv(a)'
  <2>1. OthersSame(s)
    BY <1>5, EverySessionStep DEF SessionStep
  <2> QED BY <1>5, <2>1, LoadDue, LeaveDue
<1>6. CASE Crash
  <2>1. /\ work' = disk /\ disk' = disk /\ now' = now
        /\ \A s \in Workers : batch'[s] = <<>> /\ ~Tracked(seen'[s][a])
    BY <1>6, Worker DEF Crash, AbsentRow, Tracked
  <2>2. DOMAIN <<>> = {}
    OBVIOUS
  <2> QED BY <2>1, <2>2 DEF ClaimInv, ClaimIsDue, KnowsClaim, FindsDue
<1>7. CASE Tick \/ UNCHANGED vars
  <2>1. /\ UNCHANGED <<disk, work, lock, pc, batch, loaded, seen, fill>>
        /\ now' \in {now, now + 1}
    BY <1>7 DEF Tick, vars
  <2>2. now \in Nat /\ disk.rows[a].due \in Nat /\ work.rows[a].due \in Nat
    BY Halves, MaxClockIsNat DEF AllInv, DatabaseOK, Tables, Row
  <2>3. now <= now' /\ now' \in Nat
    BY <2>1, <2>2
  <2>4. ClaimIsDue(disk.rows[a])' /\ ClaimIsDue(work.rows[a])'
    BY <2>1, <2>2, <2>3 DEF ClaimInv, ClaimIsDue
  <2>5. \A s \in Workers : KnowsClaim(s, a)'
    BY <2>1 DEF ClaimInv, KnowsClaim, WorksOn, View
  <2>6. \A s \in Workers : FindsDue(s, a)'
    BY <2>1, <2>2, <2>3 DEF ClaimInv, FindsDue
  <2> QED BY <2>4, <2>5, <2>6 DEF ClaimInv
<1> QED BY <1>1, <1>2, <1>3, <1>4, <1>5, <1>6, <1>7 DEF Next

\* A pass commits the claim before it polls, and leaves the due time alone: if
\* it dies in between, the next one finds the actor due.  Passes and manual
\* polls may overlap as they like, only not on this very actor.
THEOREM DeadClaimDue == Spec => DeadClaimIsDue
<1> SUFFICES ASSUME NEW a \in Actors
             PROVE  Spec => ([]Alone(a) => [](DeadClaim(a) => disk.rows[a].due <= now))
  BY DEF DeadClaimIsDue
<1>1. AllInv /\ ClaimInv(a) /\ Alone(a) /\ [Next]_vars => ClaimInv(a)'
  BY ClaimStays
<1>2. ClaimInv(a) => (DeadClaim(a) => disk.rows[a].due <= now)
  BY DEF ClaimInv, ClaimIsDue, DeadClaim
<1>3. Init => ClaimInv(a)
  BY ClaimInit
<1> QED BY <1>1, <1>2, <1>3, BackfillInvariant, PTL DEF Spec

=============================================================================
