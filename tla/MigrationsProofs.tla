-------------------------- MODULE MigrationsProofs --------------------------
(***************************************************************************)
(* The migrations, for any number of deaths: the program serves the schema *)
(* of its models and nothing else, and the rows of a table that is rebuilt *)
(* survive.                                                                *)
(*                                                                         *)
(* The invariant is about the schema between two statements.  Committed,   *)
(* it has what every migration up to its version creates (Sound).  What    *)
(* the connection sees has in addition what the statements run so far      *)
(* create (Underway); only between the DROP and the RENAME of a rebuild is *)
(* a table missing, and those two are always in one transaction.           *)
(***************************************************************************)
EXTENDS Migrations, SequenceTheorems, TLAPS

Rebuilds == {1, 4}                   \* the migrations with a rebuild,
Rebuilt(m) == IF m = 1 THEN Repositories ELSE Backfills    \* and of which table
TwoForms == {Repositories, Backfills}

Everything == Models \cup UNION {{Legacy(t), Draft(t)} : t \in TwoForms}

\* A thing is there, if with an older form of the table.
Has(S, x) == x \in S \/ (x[2] \in {"table", "legacy"} /\ {Table(x[1]), Legacy(x[1])} \cap S # {})

Databases == [version : 0..HeadVersion, schema : SUBSET Everything,
              nulls : SUBSET Statuses, rows : SUBSET Everything]

WellFormed(db) == db \in Databases /\ db.rows \subseteq db.schema

\* A committed database.
Sound(db) ==
    /\ WellFormed(db)
    /\ \A m \in 1..db.version : \A i \in Creates(m) : Has(db.schema, Migration[m][i].on)
    /\ \A t \in TwoForms : Draft(t) \in db.schema => Legacy(t) \in db.schema
    /\ Legacy(Repositories) \in db.schema => db.version = 0
    /\ Legacy(Backfills) \in db.schema => db.version \in {2, 3}

\* The last statement of a migration.
Last(m) == Len(Script(m))

HasRows(db, t) == {Legacy(t), Table(t)} \cap db.rows # {}

\* The table has been dropped, and the draft is yet to take its name.
Between(m, t) == m \in Rebuilds /\ 9 \in todo /\ 8 \notin todo /\ t = Rebuilt(m)

\* How far the rebuild of a migration, its statements 6 to 9, has got.
Rebuilding(m, db) ==
    LET t == Rebuilt(m)
    IN  /\ \A i \in 6..8 : i \in todo => i + 1 \in todo
        /\ 8 \in todo <=> Legacy(t) \in db.schema
        /\ 7 \in todo /\ 6 \notin todo => Draft(t) \in db.schema
        /\ 8 \in todo /\ 7 \notin todo => open /\ Draft(t) \in db.rows
        /\ Between(m, t) => open /\ Draft(t) \in db.rows

\* The database that migration m works on.
Underway(m, db) ==
    /\ WellFormed(db)
    /\ \A k \in 1..m : \A i \in Creates(k) :
          LET x == Migration[k][i].on
          IN  k < m \/ i \notin todo => Has(db.schema, x) \/ Between(m, x[1])
    /\ \A t \in TwoForms : Draft(t) \in db.schema => Legacy(t) \in db.schema \/ Between(m, t)
    /\ Legacy(Repositories) \in db.schema => m = 1
    /\ Legacy(Backfills) \in db.schema => m \in {3, 4}
    /\ m \in Rebuilds => Rebuilding(m, db)
    /\ \A t \in TwoForms : HasRows(disk, t) => HasRows(db, t) \/ Between(m, t)

Resting ==
    /\ ~open /\ work = disk
    /\ process = "serving" => disk.version = HeadVersion

Working ==
    LET m == disk.version + 1
    IN  /\ process = "upgrading" /\ disk.version < HeadVersion
        /\ todo \subseteq DOMAIN Script(m) /\ Last(m) \in todo
        /\ work.version = disk.version
        /\ ~open => work = disk
        /\ Underway(m, work)

Finished ==
    /\ process = "upgrading" /\ open
    /\ disk.version < HeadVersion /\ work.version = disk.version + 1
    /\ Sound(work)
    /\ \A t \in TwoForms : HasRows(disk, t) => HasRows(work, t)

MigrationInv ==
    /\ open \in BOOLEAN /\ process \in {"down", "upgrading", "serving"}
    /\ Sound(disk)
    /\ IF todo # {} THEN Working ELSE Resting \/ Finished

-----------------------------------------------------------------------------
(* The migrations, one by one. *)
LEMMA Forms ==
    ASSUME NEW a, NEW b
    PROVE  /\ Table(a) = Table(b) => a = b
           /\ Legacy(a) = Legacy(b) => a = b
           /\ Draft(a) = Draft(b) => a = b
           /\ Table(a) # Legacy(b) /\ Table(a) # Draft(b) /\ Legacy(a) # Draft(b)
           /\ Table(a)[1] = a /\ Legacy(a)[1] = a /\ Draft(a)[1] = a
           /\ Table(a)[2] = "table" /\ Legacy(a)[2] = "legacy" /\ Draft(a)[2] = "draft"
BY DEF Table, Legacy, Draft

LEMMA Chain ==
    /\ HeadVersion = 7
    /\ Migration[1] = Initial /\ Migration[2] = TrackedActors /\ Migration[3] = BackfillState
    /\ Migration[4] = RecentBackfillScope /\ Migration[5] = DiscoveredRepositories
    /\ Migration[6] = QueueScheduling /\ Migration[7] = PriorityBoost
<1> DEFINE M == <<Initial, TrackedActors, BackfillState, RecentBackfillScope,
                  DiscoveredRepositories, QueueScheduling, PriorityBoost>>
<1>1. Migration = M
  BY DEF Migration
<1>2. Len(M) = 7
  OBVIOUS
<1> QED BY <1>1, <1>2 DEF HeadVersion

\* A statement that creates something in migration m.
Creation(m, s) ==
    /\ s.op = "create" /\ s.on \in Everything
    /\ \A t : s.on # Draft(t)
    /\ s.on # Legacy(Repositories) /\ (s.on = Legacy(Backfills) => m = 3)
    /\ s.on[1] \in TwoForms => s.on[2] \in {"table", "legacy"}

Harmless(s) == s.op \in {"fill", "update"}

LEMMA TableCreation ==
    ASSUME NEW m, NEW t \in {"contribution_events", "sync_states", Repositories, "actor_aliases",
                             "tracked_actors", "discovered_repositories"}
    PROVE  Creation(m, Create(Table(t)))
BY DEF Creation, Create, Everything, Models, Table, Legacy, Draft

LEMMA IndexCreation ==
    ASSUME NEW m, NEW i \in {"actor_occurred_at", "service_occurred_at"}
    PROVE  Creation(m, Create(Index(i)))
BY DEF Creation, Create, Everything, Models, Index, Legacy, Draft, TwoForms, Repositories, Backfills

Columns == {"backfill_status", "backfill_started_at", "backfill_completed_at",
            "last_backfill_error", "recent_backfill_status", "recent_backfill_started_at",
            "recent_backfill_completed_at", "last_recent_backfill_error",
            "discovery_state", "queued_for_discovery_at", "next_poll_after",
            "last_claimed_at", "poll_attempts", "priority_boosted_at"}

LEMMA ColumnCreation ==
    ASSUME NEW m, NEW c \in Columns
    PROVE  Creation(m, Add(c)) /\ Harmless(Fill(c)) /\ Harmless(Update(c))
<1>1. Column(c) \in Everything
  BY DEF Columns, Everything, Models
<1>2. \A t : Column(c) # Draft(t) /\ Column(c) # Legacy(t)
  BY DEF Column, Draft, Legacy, Columns
<1>3. Column(c)[1] \notin TwoForms
  BY DEF Column, TwoForms, Repositories, Backfills
<1> QED BY <1>1, <1>2, <1>3 DEF Creation, Add, Harmless, Fill, Update

LEMMA LegacyCreation == Creation(3, Create(Legacy(Backfills)))
BY DEF Creation, Create, Everything, Models, Table, Legacy, Draft, TwoForms, Repositories, Backfills

\* What statement i of migration m is.
Known(m, i, s) ==
    \/ (Creation(m, s) \/ Harmless(s)) /\ (m \in Rebuilds => i \notin 6..9)
    \/ m \in Rebuilds /\ i = 6 /\ s = Redraft(Rebuilt(m))
    \/ m \in Rebuilds /\ i = 7 /\ s = Copy(Rebuilt(m))
    \/ m \in Rebuilds /\ i = 8 /\ s = Drop(Rebuilt(m))
    \/ m \in Rebuilds /\ i = 9 /\ s = Rename(Rebuilt(m))

LEMMA InitialIs ==
    /\ Len(Initial) = 10
    /\ Initial[1] = Create(Table("contribution_events"))
    /\ Initial[2] = Create(Index("actor_occurred_at"))
    /\ Initial[3] = Create(Index("service_occurred_at"))
    /\ Initial[4] = Create(Table("sync_states"))
    /\ Initial[5] = Create(Table(Repositories))
    /\ Initial[6] = Redraft(Repositories)
    /\ Initial[7] = Copy(Repositories)
    /\ Initial[8] = Drop(Repositories)
    /\ Initial[9] = Rename(Repositories)
    /\ Initial[10] = Create(Table("actor_aliases"))
BY DEF Initial

LEMMA InitialKnown ==
    ASSUME NEW i \in 1..10
    PROVE  Known(1, i, Initial[i])
<1>1. CASE i \in {1, 4, 5, 10}
  BY <1>1, InitialIs, TableCreation DEF Known, Rebuilds
<1>2. CASE i \in {2, 3}
  BY <1>2, InitialIs, IndexCreation DEF Known, Rebuilds
<1>3. CASE i \in 6..9
  <2>1. i \in {6, 7, 8, 9}
    BY <1>3
  <2> QED BY <2>1, InitialIs DEF Known, Rebuilds, Rebuilt
<1> QED BY <1>1, <1>2, <1>3

LEMMA RecentIs ==
    /\ Len(RecentBackfillScope) = 9
    /\ RecentBackfillScope[1] = Add("recent_backfill_status")
    /\ RecentBackfillScope[2] = Fill("recent_backfill_status")
    /\ RecentBackfillScope[3] = Add("recent_backfill_started_at")
    /\ RecentBackfillScope[4] = Add("recent_backfill_completed_at")
    /\ RecentBackfillScope[5] = Add("last_recent_backfill_error")
    /\ RecentBackfillScope[6] = Redraft(Backfills)
    /\ RecentBackfillScope[7] = Copy(Backfills)
    /\ RecentBackfillScope[8] = Drop(Backfills)
    /\ RecentBackfillScope[9] = Rename(Backfills)
BY DEF RecentBackfillScope

LEMMA RecentKnown ==
    ASSUME NEW i \in 1..9
    PROVE  Known(4, i, RecentBackfillScope[i])
<1>1. CASE i \in {1, 2, 3, 4, 5}
  BY <1>1, RecentIs, ColumnCreation DEF Known, Rebuilds, Columns
<1>2. CASE i \in 6..9
  <2>1. i \in {6, 7, 8, 9}
    BY <1>2
  <2> QED BY <2>1, RecentIs DEF Known, Rebuilds, Rebuilt, Repositories, Backfills
<1> QED BY <1>1, <1>2

LEMMA OthersAre ==
    /\ Len(TrackedActors) = 1 /\ TrackedActors[1] = Create(Table("tracked_actors"))
    /\ Len(DiscoveredRepositories) = 1
    /\ DiscoveredRepositories[1] = Create(Table("discovered_repositories"))
    /\ Len(PriorityBoost) = 1 /\ PriorityBoost[1] = Add("priority_boosted_at")
    /\ Len(BackfillState) = 6
    /\ BackfillState[1] = Add("backfill_status") /\ BackfillState[2] = Fill("backfill_status")
    /\ BackfillState[3] = Add("backfill_started_at")
    /\ BackfillState[4] = Add("backfill_completed_at")
    /\ BackfillState[5] = Add("last_backfill_error")
    /\ BackfillState[6] = Create(Legacy(Backfills))
    /\ Len(QueueScheduling) = 8
    /\ QueueScheduling[1] = Add("discovery_state")
    /\ QueueScheduling[2] = Add("queued_for_discovery_at")
    /\ QueueScheduling[3] = Add("next_poll_after") /\ QueueScheduling[4] = Add("last_claimed_at")
    /\ QueueScheduling[5] = Add("poll_attempts") /\ QueueScheduling[6] = Update("discovery_state")
    /\ QueueScheduling[7] = Update("queued_for_discovery_at")
    /\ QueueScheduling[8] = Update("next_poll_after")
BY DEF TrackedActors, DiscoveredRepositories, PriorityBoost, BackfillState, QueueScheduling

LEMMA OthersKnown ==
    /\ Len(TrackedActors) = 1 /\ Known(2, 1, TrackedActors[1])
    /\ Len(BackfillState) = 6 /\ \A i \in 1..6 : Known(3, i, BackfillState[i])
    /\ Len(DiscoveredRepositories) = 1 /\ Known(5, 1, DiscoveredRepositories[1])
    /\ Len(QueueScheduling) = 8 /\ \A i \in 1..8 : Known(6, i, QueueScheduling[i])
    /\ Len(PriorityBoost) = 1 /\ Known(7, 1, PriorityBoost[1])
<1>1. ASSUME NEW m \in {2, 3, 5, 6, 7}, NEW i, NEW s, Creation(m, s) \/ Harmless(s)
      PROVE  Known(m, i, s)
  BY <1>1 DEF Known, Rebuilds
<1>2. Known(2, 1, TrackedActors[1]) /\ Known(5, 1, DiscoveredRepositories[1])
  BY <1>1, OthersAre, TableCreation
<1>3. Known(7, 1, PriorityBoost[1])
  BY <1>1, OthersAre, ColumnCreation DEF Columns
<1>4. ASSUME NEW i \in 1..6
      PROVE  Known(3, i, BackfillState[i])
  <2>1. i \in {1, 2, 3, 4, 5, 6}
    OBVIOUS
  <2>2. Creation(3, BackfillState[i]) \/ Harmless(BackfillState[i])
    BY <2>1, OthersAre, ColumnCreation, LegacyCreation DEF Columns
  <2> QED BY <1>1, <2>2
<1>5. ASSUME NEW i \in 1..8
       PROVE  Known(6, i, QueueScheduling[i])
  <2>1. i \in {1, 2, 3, 4, 5, 6, 7, 8}
    OBVIOUS
  <2>2. Creation(6, QueueScheduling[i]) \/ Harmless(QueueScheduling[i])
    BY <2>1, OthersAre, ColumnCreation DEF Columns
  <2> QED BY <1>1, <2>2
<1> QED BY <1>2, <1>3, <1>4, <1>5, OthersAre

\* Each is a sequence over some set of statements.
LEMMA TuplesAreSequences ==
    ASSUME NEW a, NEW b, NEW c, NEW d, NEW e, NEW f, NEW g, NEW h, NEW i, NEW j
    PROVE  \E S : /\ <<a>> \in Seq(S) /\ <<a, b, c, d, e, f>> \in Seq(S)
                  /\ <<a, b, c, d, e, f, g, h>> \in Seq(S)
                  /\ <<a, b, c, d, e, f, g, h, i>> \in Seq(S)
                  /\ <<a, b, c, d, e, f, g, h, i, j>> \in Seq(S)
<1> DEFINE S == {a, b, c, d, e, f, g, h, i, j}
<1>1. /\ <<a>> \in Seq(S) /\ <<a, b, c, d, e, f>> \in Seq(S)
      /\ <<a, b, c, d, e, f, g, h>> \in Seq(S)
      /\ <<a, b, c, d, e, f, g, h, i>> \in Seq(S)
      /\ <<a, b, c, d, e, f, g, h, i, j>> \in Seq(S)
  OBVIOUS
<1> HIDE DEF S
<1> QED BY <1>1

LEMMA MigrationsAreSequences == \A m \in 1..7 : \E S : Migration[m] \in Seq(S)
<1>1. \E S : Initial \in Seq(S)
  BY TuplesAreSequences DEF Initial
<1>2. \E S : RecentBackfillScope \in Seq(S)
  BY TuplesAreSequences DEF RecentBackfillScope
<1>3. (\E S : BackfillState \in Seq(S)) /\ (\E S : QueueScheduling \in Seq(S))
  BY TuplesAreSequences DEF BackfillState, QueueScheduling
<1>4. (\E S : TrackedActors \in Seq(S)) /\ (\E S : DiscoveredRepositories \in Seq(S)) /\ (\E S : PriorityBoost \in Seq(S))
  BY TuplesAreSequences DEF TrackedActors, DiscoveredRepositories, PriorityBoost
<1> QED BY <1>1, <1>2, <1>3, <1>4, Chain

\* The script of a migration: its statements, and then the version.
LEMMA Scripts ==
    ASSUME NEW m \in 1..HeadVersion
    PROVE  /\ Len(Script(m)) \in Nat \ {0} /\ DOMAIN Script(m) = 1..Len(Script(m))
           /\ DOMAIN Migration[m] = 1..(Len(Script(m)) - 1)
           /\ Script(m)[Len(Script(m))] = Version
           /\ \A i \in DOMAIN Migration[m] : /\ Script(m)[i] = Migration[m][i]
                                             /\ Known(m, i, Migration[m][i])
           /\ m \in Rebuilds => 6..9 \subseteq DOMAIN Migration[m]
<1>1. HeadVersion = 7
  BY Chain
<1>2. PICK S : Migration[m] \in Seq(S)
  BY <1>1, MigrationsAreSequences
<1>3. PICK q \in Seq(S) : q = Migration[m]
  BY <1>2
<1>4. DOMAIN q = 1..Len(q) /\ Len(q) \in Nat
  BY LenProperties
<1>5. /\ Append(q, Version) \in Seq(S \cup {Version})
      /\ Len(Append(q, Version)) = Len(q) + 1
      /\ \A i \in 1..Len(q) : Append(q, Version)[i] = q[i]
      /\ Append(q, Version)[Len(q) + 1] = Version
  <2>1. q \in Seq(S \cup {Version})
    BY <1>4
  <2> QED BY <2>1, AppendProperties
<1>6. DOMAIN Append(q, Version) = 1..(Len(q) + 1)
  BY <1>5, LenProperties
<1>7. \A i \in 1..Len(q) : Known(m, i, q[i])
  <2>1. m \in {1, 2, 3, 4, 5, 6, 7}
    BY <1>1
  <2>2. CASE m = 1
    BY <1>3, <2>2, Chain, InitialIs, InitialKnown
  <2>3. CASE m = 4
    BY <1>3, <2>3, Chain, RecentIs, RecentKnown
  <2>4. CASE m \in {3, 6}
    BY <1>3, <2>4, Chain, OthersKnown
  <2>5. CASE m \in {2, 5, 7}
    <3>1. Len(q) = 1 /\ Known(m, 1, q[1])
      BY <1>3, <2>5, Chain, OthersKnown
    <3> QED BY <3>1
  <2> QED BY <2>1, <2>2, <2>3, <2>4, <2>5
<1>8. ASSUME m \in Rebuilds
      PROVE  6..9 \subseteq 1..Len(q)
  <2>1. CASE m = 1
    <3>1. Len(q) = 10
      BY <1>3, <2>1, Chain, InitialIs
    <3> QED BY <3>1
  <2>2. CASE m = 4
    <3>1. Len(q) = 9
      BY <1>3, <2>2, Chain, RecentIs
    <3> QED BY <3>1
  <2> QED BY <1>8, <2>1, <2>2 DEF Rebuilds
<1> QED BY <1>3, <1>4, <1>5, <1>6, <1>7, <1>8 DEF Script

-----------------------------------------------------------------------------
(* The databases that there are at first. *)
LEMMA CreatesThings ==
    ASSUME NEW m \in 1..HeadVersion, NEW i \in Creates(m)
    PROVE  i \in DOMAIN Migration[m] /\ Creation(m, Migration[m][i])
<1>1. i \in DOMAIN Migration[m] /\ Migration[m][i].op = "create"
  BY DEF Creates
<1>2. Known(m, i, Migration[m][i])
  BY <1>1, Scripts
<1>3. PICK s : s = Migration[m][i]
  OBVIOUS
<1>4. Creation(m, s)
  BY <1>1, <1>2, <1>3 DEF Known, Harmless, Redraft, Copy, Drop, Rename
<1> QED BY <1>1, <1>3, <1>4

LEMMA SchemaFacts ==
    ASSUME NEW v \in 0..HeadVersion
    PROVE  /\ SchemaOf(v) \subseteq Everything
           /\ \A m \in 1..v : \A i \in Creates(m) : Has(SchemaOf(v), Migration[m][i].on)
           /\ \A t : Draft(t) \notin SchemaOf(v)
           /\ Legacy(Repositories) \notin SchemaOf(v)
           /\ Legacy(Backfills) \in SchemaOf(v) => v = 3
<1> DEFINE made == UNION {{Migration[m][i].on : i \in Creates(m)} : m \in 1..v}
<1>1. SchemaOf(v) = IF v < 4 THEN made ELSE (made \ {Legacy(Backfills)}) \cup {Table(Backfills)}
  BY DEF SchemaOf
<1>2. \A x \in made : \E m \in 1..v : \E i \in Creates(m) : x = Migration[m][i].on
  OBVIOUS
<1>3. \A m \in 1..v : \A i \in Creates(m) : Migration[m][i].on \in made
  OBVIOUS
<1> HIDE DEF made
<1>4. 1..v \subseteq 1..HeadVersion /\ v \in Nat
  BY Chain
<1>5. ASSUME NEW x \in made
      PROVE  /\ x \in Everything /\ \A t : x # Draft(t)
             /\ x # Legacy(Repositories) /\ (x = Legacy(Backfills) => v >= 3)
  <2>1. PICK m \in 1..v : \E i \in Creates(m) : x = Migration[m][i].on
    BY <1>2
  <2>2. PICK i \in Creates(m) : x = Migration[m][i].on
    BY <2>1
  <2>3. PICK s : s = Migration[m][i]
    OBVIOUS
  <2>4. Creation(m, s)
    BY <1>4, <2>3, CreatesThings
  <2> QED BY <2>2, <2>3, <2>4 DEF Creation
<1>6. Table(Backfills) \in Everything
  BY DEF Everything, Models
<1>7. SchemaOf(v) \subseteq Everything
  BY <1>1, <1>5, <1>6
<1>8. ASSUME NEW t
      PROVE  Draft(t) \notin SchemaOf(v)
  BY <1>1, <1>5, Forms
<1>9. Legacy(Repositories) \notin SchemaOf(v) /\ (Legacy(Backfills) \in SchemaOf(v) => v = 3)
  BY <1>1, <1>4, <1>5, Forms
<1>10. ASSUME NEW x \in made
       PROVE  Has(SchemaOf(v), x)
  <2>1. CASE x \in SchemaOf(v)
    BY <2>1 DEF Has
  <2>2. CASE x \notin SchemaOf(v)
    <3>1. x = Legacy(Backfills) /\ Table(Backfills) \in SchemaOf(v)
      BY <1>1, <2>2
    <3>2. x[1] = Backfills /\ x[2] = "legacy"
      BY <3>1, Forms
    <3> QED BY <3>1, <3>2 DEF Has
  <2> QED BY <2>1, <2>2
<1> QED BY <1>3, <1>7, <1>8, <1>9, <1>10

LEMMA InitMigrates == ASSUME Init PROVE MigrationInv
<1>1. PICK v \in 0..HeadVersion :
          \E schema \in {SchemaOf(v), Unversioned} :
             /\ schema = Unversioned => v = 0
             /\ disk = [version |-> v, schema |-> schema, nulls |-> {},
                        rows |-> schema \cap {Legacy(Repositories), Legacy(Backfills)}]
  BY DEF Init
<1>2. PICK schema \in {SchemaOf(v), Unversioned} :
          /\ schema = Unversioned => v = 0
          /\ disk = [version |-> v, schema |-> schema, nulls |-> {},
                     rows |-> schema \cap {Legacy(Repositories), Legacy(Backfills)}]
  BY <1>1
<1>3. disk.version = v /\ disk.schema = schema /\ disk.rows \subseteq disk.schema
  BY <1>2
<1>4. Legacy(Repositories) \in Everything
  BY DEF Everything, TwoForms
<1>5. /\ schema \subseteq Everything /\ \A t : Draft(t) \notin schema
      /\ \A m \in 1..v : \A i \in Creates(m) : Has(schema, Migration[m][i].on)
      /\ Legacy(Repositories) \in schema => v = 0
      /\ Legacy(Backfills) \in schema => v = 3
  <2>1. CASE schema = SchemaOf(v)
    BY <2>1, SchemaFacts
  <2>2. CASE schema = Unversioned
    <3>1. v = 0
      BY <1>2, <2>2
    <3>2. 1 \in 0..HeadVersion
      BY Chain
    <3>3. /\ schema \subseteq SchemaOf(1) \cup {Legacy(Repositories)}
      BY <2>2 DEF Unversioned
    <3>4. Legacy(Backfills) \notin schema
      BY <3>2, <3>3, SchemaFacts, Forms DEF Repositories, Backfills
    <3>5. \A t : Draft(t) \notin schema
      BY <3>2, <3>3, SchemaFacts, Forms
    <3>6. schema \subseteq Everything
      BY <1>4, <3>2, <3>3, SchemaFacts
    <3> QED BY <3>1, <3>4, <3>5, <3>6
  <2> QED BY <1>2, <2>1, <2>2
<1>6. WellFormed(disk)
  BY <1>2, <1>3, <1>5 DEF WellFormed, Databases
<1>7. Sound(disk)
  BY <1>3, <1>5, <1>6 DEF Sound
<1> QED BY <1>7 DEF Init, MigrationInv, Resting

-----------------------------------------------------------------------------
(* What a statement does to a database. *)
LEMMA EffectOfCreate ==
    ASSUME NEW db \in Databases, NEW s, s.op \in {"create", "draft"}, s.on \in Everything
    PROVE  /\ Effect(s, db) \in Databases
           /\ Effect(s, db).schema = db.schema \cup {s.on}
           /\ Effect(s, db).rows = db.rows
           /\ Effect(s, db).version = db.version
<1>1. PICK n : n = IF actors THEN db.nulls \cup ({s.on} \cap Statuses) ELSE db.nulls
  OBVIOUS
<1>2. PICK z : z = db.schema \cup {s.on}
  OBVIOUS
<1>3. Effect(s, db) = [db EXCEPT !.schema = z, !.nulls = n]
  BY <1>1, <1>2 DEF Effect
<1>4. n \in SUBSET Statuses /\ z \in SUBSET Everything
  BY <1>1, <1>2 DEF Databases
<1> QED BY <1>2, <1>3, <1>4 DEF Databases

LEMMA EffectOfUpdate ==
    ASSUME NEW db \in Databases, NEW s, s.op \in {"fill", "update"}
    PROVE  /\ Effect(s, db) \in Databases
           /\ Effect(s, db).schema = db.schema /\ Effect(s, db).rows = db.rows
           /\ Effect(s, db).version = db.version
<1>1. CASE s.op = "fill"
  <2>1. PICK n : n = db.nulls \ {s.on}
    OBVIOUS
  <2>2. Effect(s, db) = [db EXCEPT !.nulls = n]
    BY <1>1, <2>1 DEF Effect
  <2> QED BY <2>1, <2>2 DEF Databases
<1>2. CASE s.op = "update"
  <2>1. Effect(s, db) = db
    BY <1>2 DEF Effect
  <2> QED BY <2>1
<1> QED BY <1>1, <1>2

LEMMA EffectOfCopy ==
    ASSUME NEW db \in Databases, NEW t \in TwoForms
    PROVE  /\ Effect(Copy(t), db) \in Databases
           /\ Effect(Copy(t), db).schema = db.schema
           /\ Effect(Copy(t), db).rows = db.rows \cup {Draft(t)}
           /\ Effect(Copy(t), db).version = db.version
<1>1. PICK r : r = db.rows \cup {Draft(t)}
  OBVIOUS
<1>2. Effect(Copy(t), db) = [db EXCEPT !.rows = r]
  BY <1>1 DEF Effect, Copy
<1>3. r \in SUBSET Everything
  BY <1>1 DEF Databases, Everything
<1> QED BY <1>1, <1>2, <1>3 DEF Databases

LEMMA EffectOfDrop ==
    ASSUME NEW db \in Databases, NEW t \in TwoForms
    PROVE  /\ Effect(Drop(t), db) \in Databases
           /\ Effect(Drop(t), db).schema = db.schema \ {Legacy(t)}
           /\ Effect(Drop(t), db).rows = db.rows \ {Legacy(t)}
           /\ Effect(Drop(t), db).version = db.version
<1>1. PICK z, r : z = db.schema \ {Legacy(t)} /\ r = db.rows \ {Legacy(t)}
  OBVIOUS
<1>2. Effect(Drop(t), db) = [db EXCEPT !.schema = z, !.rows = r]
  BY <1>1 DEF Effect, Drop
<1>3. z \in SUBSET Everything /\ r \in SUBSET Everything
  BY <1>1 DEF Databases
<1> QED BY <1>1, <1>2, <1>3 DEF Databases

LEMMA EffectOfRename ==
    ASSUME NEW db \in Databases, NEW t \in TwoForms
    PROVE  /\ Effect(Rename(t), db) \in Databases
           /\ Effect(Rename(t), db).schema = (db.schema \ {Draft(t)}) \cup {Table(t)}
           /\ Effect(Rename(t), db).rows = (db.rows \ {Draft(t)}) \cup {Table(t)}
           /\ Effect(Rename(t), db).version = db.version
<1>1. PICK z, r : /\ z = (db.schema \ {Draft(t)}) \cup {Table(t)}
                  /\ r = (db.rows \ {Draft(t)}) \cup {Table(t)}
  OBVIOUS
<1>2. Table(t)[1] = t
  BY Forms
<1>3. Rename(t).on = Table(t) /\ Rename(t).op = "rename"
  BY DEF Rename
<1>4. Effect(Rename(t), db) = [db EXCEPT !.schema = z, !.rows = r]
  BY <1>1, <1>2, <1>3 DEF Effect
<1>5. Table(t) \in Everything
  BY DEF Everything, Models, TwoForms
<1>6. z \in SUBSET Everything /\ r \in SUBSET Everything
  BY <1>1, <1>5 DEF Databases
<1> QED BY <1>1, <1>4, <1>6 DEF Databases

LEMMA EffectOfVersion ==
    ASSUME NEW db \in Databases, db.version < HeadVersion
    PROVE  /\ Effect(Version, db) \in Databases
           /\ Effect(Version, db).schema = db.schema
           /\ Effect(Version, db).rows = db.rows
           /\ Effect(Version, db).version = db.version + 1
<1>1. PICK v : v = db.version + 1
  OBVIOUS
<1>2. Effect(Version, db) = [db EXCEPT !.version = v]
  BY <1>1 DEF Effect, Version
<1>3. v \in 0..HeadVersion
  BY <1>1, Chain DEF Databases
<1> QED BY <1>1, <1>2, <1>3 DEF Databases

(* What is known of a statement that is run. *)
LEMMA RunFacts ==
    ASSUME MigrationInv, NEW i \in todo, Run(i),
           NEW m, m = disk.version + 1, NEW s, s = Statement(i)
    PROVE  /\ Sound(disk) /\ Working /\ Underway(m, work) /\ m \in 1..HeadVersion
           /\ todo \subseteq DOMAIN Script(m) /\ Last(m) \in todo
           /\ todo \subseteq Nat /\ \A j \in todo : i <= j
           /\ \A j \in todo : j <= Last(m)
           /\ Possible(s) /\ work' = Effect(s, work) /\ open' = Transactional(s)
           /\ disk' = IF Transactional(s) THEN disk ELSE work'
           /\ todo' = todo \ {i} /\ process' = process
           /\ \/ i = Last(m) /\ s = Version
              \/ i < Last(m) /\ Known(m, i, s)
           /\ m \in Rebuilds => Last(m) > 9
<1>1. Working /\ Sound(disk)
  BY DEF MigrationInv
<1>2. Underway(m, work) /\ todo \subseteq DOMAIN Script(m) /\ Last(m) \in todo
  BY <1>1 DEF Working
<1>3. m \in 1..HeadVersion
  BY <1>1, Chain DEF Working, Sound, WellFormed, Databases
<1>4. PICK n : n = Last(m)
  OBVIOUS
<1>5. n \in Nat /\ DOMAIN Script(m) = 1..n
  BY <1>3, <1>4, Scripts DEF Last
<1>6. DOMAIN Migration[m] = 1..(n - 1)
  BY <1>3, <1>4, Scripts DEF Last
<1>7. s = Script(m)[i] /\ i \in 1..n
  BY <1>2, <1>5 DEF Statement
<1>8. \/ i = n /\ s = Version
      \/ i < n /\ Known(m, i, s)
  <2>1. CASE i = n
    BY <1>3, <1>4, <1>7, <2>1, Scripts DEF Last
  <2>2. CASE i # n
    <3>1. i \in DOMAIN Migration[m] /\ i < n
      BY <1>5, <1>6, <1>7, <2>2
    <3>2. s = Migration[m][i] /\ Known(m, i, Migration[m][i])
      BY <1>3, <1>7, <3>1, Scripts
    <3> QED BY <3>1, <3>2
  <2> QED BY <2>1, <2>2
<1>9. m \in Rebuilds => n > 9
  BY <1>3, <1>5, <1>6, Scripts
<1>10. todo \subseteq Nat /\ \A j \in todo : j <= n
  BY <1>2, <1>5
<1>11. /\ Possible(s) /\ work' = Effect(s, work) /\ open' = Transactional(s)
       /\ disk' = IF Transactional(s) THEN disk ELSE work'
       /\ todo' = todo \ {i} /\ process' = process /\ \A j \in todo : i <= j
  BY DEF Run, IsNext
<1> QED BY <1>1, <1>2, <1>3, <1>4, <1>8, <1>9, <1>10, <1>11

-----------------------------------------------------------------------------
(* A migration goes on after each statement; the version is its last. *)
LEMMA StillWorking ==
    ASSUME MigrationInv, NEW i \in todo, Run(i), NEW m, m = disk.version + 1,
           i < Last(m), Sound(disk)', disk'.version = disk.version,
           work'.version = work.version, ~open' => work' = disk', Underway(m, work)',
           open' \in BOOLEAN
    PROVE  MigrationInv'
<1>1. PICK s : s = Statement(i)
  OBVIOUS
<1>2. PICK n : n = Last(m)
  OBVIOUS
<1>3. Working /\ n \in todo /\ todo \subseteq DOMAIN Script(m) /\ todo' = todo \ {i}
      /\ process' = process /\ i < n /\ i \in Nat
  BY <1>1, <1>2, RunFacts
<1>4. n \in todo'
  BY <1>3
<1>5. Working'
  <2>1. process' = "upgrading" /\ disk'.version < HeadVersion /\ work'.version = disk'.version
    BY <1>3 DEF Working
  <2>2. m = disk'.version + 1
    OBVIOUS
  <2>3. todo' \subseteq DOMAIN Script(m) /\ Last(m) \in todo'
    BY <1>2, <1>3, <1>4
  <2> QED BY <2>1, <2>2, <2>3 DEF Working
<1> QED BY <1>3, <1>4, <1>5 DEF MigrationInv

LEMMA RunVersion ==
    ASSUME MigrationInv, NEW i \in todo, Run(i), NEW m, m = disk.version + 1,
           i = Last(m), Statement(i) = Version
    PROVE  MigrationInv' /\ disk'.rows = disk.rows
<1>1. PICK s : s = Statement(i)
  OBVIOUS
<1>2. /\ Sound(disk) /\ Working /\ Underway(m, work) /\ m \in 1..HeadVersion
      /\ todo \subseteq Nat /\ \A j \in todo : i <= j
      /\ \A j \in todo : j <= i /\ todo' = todo \ {i} /\ process' = process
      /\ work' = Effect(Version, work)
      /\ m \in Rebuilds => i > 9
  BY <1>1, RunFacts
<1>3. Transactional(s)
  BY <1>1 DEF Transactional, Version
<1>4. open' = TRUE /\ disk' = disk
  BY <1>1, <1>3, RunFacts
<1>5. todo = {i} /\ todo' = {}
  <2>1. ASSUME NEW j \in todo
        PROVE  j = i
    <3>1. j \in Nat /\ i \in Nat /\ i <= j /\ j <= i
      BY <1>2
    <3> QED BY <3>1
  <2> QED BY <1>2, <2>1
<1>6. WellFormed(work) /\ work.version = disk.version /\ disk.version < HeadVersion
  BY <1>2 DEF Underway, Working
<1>7. /\ work' \in Databases /\ work'.schema = work.schema /\ work'.rows = work.rows
      /\ work'.version = m
  BY <1>2, <1>6, EffectOfVersion DEF WellFormed
<1>8. \A t : ~Between(m, t)
  <2>1. ASSUME m \in Rebuilds
        PROVE  i # 9
    <3>1. i > 9 /\ i \in Nat
      BY <1>2, <2>1
    <3> QED BY <3>1
  <2> QED BY <1>5, <2>1 DEF Between
<1>9. \A k \in 1..m : \A j \in Creates(k) : Has(work.schema, Migration[k][j].on)
  <2>1. SUFFICES ASSUME NEW k \in 1..m, NEW j \in Creates(k)
                 PROVE  Has(work.schema, Migration[k][j].on)
    OBVIOUS
  <2>2. k < m \/ j \notin todo
    <3>1. CASE k = m
      <4>1. PICK n : n = Last(m)
        OBVIOUS
      <4>2. DOMAIN Migration[m] = 1..(n - 1) /\ n \in Nat
        BY <1>2, <4>1, Scripts DEF Last
      <4>3. j \in DOMAIN Migration[m]
        BY <1>2, <3>1, CreatesThings
      <4> QED BY <1>5, <4>1, <4>2, <4>3
    <3> QED BY <3>1, <1>2
  <2> QED BY <1>2, <1>8, <2>2 DEF Underway
<1>10. \A t \in TwoForms : Draft(t) \in work.schema => Legacy(t) \in work.schema
  BY <1>2, <1>8 DEF Underway
<1>11. m \in Rebuilds => Legacy(Rebuilt(m)) \notin work.schema
  <2>1. ASSUME m \in Rebuilds
        PROVE  i # 8
    <3>1. i > 9 /\ i \in Nat
      BY <1>2, <2>1
    <3> QED BY <3>1
  <2>2. m \in Rebuilds => 8 \notin todo
    BY <1>5, <2>1
  <2> QED BY <1>2, <2>2 DEF Underway, Rebuilding
<1>12. Legacy(Repositories) \notin work.schema
  BY <1>2, <1>11 DEF Underway, Rebuilds, Rebuilt
<1>13. Legacy(Backfills) \in work.schema => m = 3
  BY <1>2, <1>11 DEF Underway, Rebuilds, Rebuilt
<1>14. Sound(work)'
  <2>1. WellFormed(work)'
    BY <1>6, <1>7 DEF WellFormed
  <2> QED BY <1>7, <1>9, <1>10, <1>12, <1>13, <2>1 DEF Sound
<1>15. \A t \in TwoForms : HasRows(disk, t) => HasRows(work, t)
  BY <1>2, <1>8 DEF Underway
<1>16. \A t \in TwoForms : HasRows(disk, t)' => HasRows(work, t)'
  BY <1>4, <1>7, <1>15 DEF HasRows
<1>17. Finished'
  BY <1>2, <1>4, <1>6, <1>7, <1>14, <1>16 DEF Finished, Working
<1>18. Sound(disk)' /\ process' = "upgrading" /\ disk'.rows = disk.rows
  BY <1>2, <1>4 DEF Working
<1> QED BY <1>4, <1>5, <1>17, <1>18 DEF MigrationInv

\* A statement that creates something, or only updates rows, leaves a rebuild
\* where it is.
LEMMA OutsideRebuild ==
    ASSUME MigrationInv, NEW i \in todo, Run(i), NEW m, m = disk.version + 1, i < Last(m),
           NEW s, s = Statement(i), Creation(m, s) \/ Harmless(s), m \in Rebuilds => i \notin 6..9,
           work'.rows = work.rows, open => open',
           Legacy(Rebuilt(m)) \in work'.schema <=> Legacy(Rebuilt(m)) \in work.schema,
           work.schema \subseteq work'.schema
    PROVE  /\ m \in Rebuilds => Rebuilding(m, work)'
           /\ \A t : Between(m, t) <=> Between(m, t)'
<1>1. Underway(m, work) /\ todo' = todo \ {i}
  BY RunFacts
<1>2. CASE m \notin Rebuilds
  BY <1>2 DEF Between
<1>3. CASE m \in Rebuilds
  <2>1. \A j \in 6..9 : j \in todo' <=> j \in todo
    BY <1>1, <1>3
  <2>2. /\ 6 \in todo' <=> 6 \in todo
        /\ 7 \in todo' <=> 7 \in todo
        /\ 8 \in todo' <=> 8 \in todo
        /\ 9 \in todo' <=> 9 \in todo
    BY <2>1
  <2>3. \A t : Between(m, t) <=> Between(m, t)'
    BY <2>2 DEF Between
  <2>4. PICK t : t = Rebuilt(m)
    OBVIOUS
  <2>5. /\ \A j \in 6..8 : j \in todo => j + 1 \in todo
        /\ 8 \in todo <=> Legacy(t) \in work.schema
        /\ 7 \in todo /\ 6 \notin todo => Draft(t) \in work.schema
        /\ 8 \in todo /\ 7 \notin todo => open /\ Draft(t) \in work.rows
        /\ Between(m, t) => open /\ Draft(t) \in work.rows
    BY <1>1, <1>3, <2>4 DEF Underway, Rebuilding
  <2>6. \A j \in 6..8 : j \in todo' => j + 1 \in todo'
    BY <2>1, <2>5
  <2>7. /\ 8 \in todo' <=> Legacy(t) \in work'.schema
        /\ 7 \in todo' /\ 6 \notin todo' => Draft(t) \in work'.schema
        /\ 8 \in todo' /\ 7 \notin todo' => open' /\ Draft(t) \in work'.rows
        /\ Between(m, t)' => open' /\ Draft(t) \in work'.rows
    BY <2>2, <2>3, <2>4, <2>5
  <2>8. Rebuilding(m, work)'
    BY <2>4, <2>6, <2>7 DEF Rebuilding
  <2> QED BY <2>3, <2>8
<1> QED BY <1>2, <1>3

LEMMA RunCreation ==
    ASSUME MigrationInv, NEW i \in todo, Run(i), NEW m, m = disk.version + 1, i < Last(m),
           NEW s, s = Statement(i), Creation(m, s), m \in Rebuilds => i \notin 6..9
    PROVE  MigrationInv' /\ disk'.rows = disk.rows
<1>1. /\ Sound(disk) /\ Working /\ Underway(m, work) /\ m \in 1..HeadVersion
      /\ todo' = todo \ {i} /\ todo \subseteq Nat /\ i \in Nat
      /\ work' = Effect(s, work) /\ open' = Transactional(s)
      /\ disk' = IF Transactional(s) THEN disk ELSE work'
  BY RunFacts
<1>2. Transactional(s) <=> open
  BY DEF Transactional, Creation
<1>3. WellFormed(work) /\ work.version = disk.version /\ (~open => work = disk)
  BY <1>1 DEF Underway, Working
<1>4. /\ s.op = "create" /\ s.on \in Everything /\ (\A t : s.on # Draft(t))
      /\ s.on # Legacy(Repositories) /\ (s.on = Legacy(Backfills) => m = 3)
  BY DEF Creation
<1>5. /\ work' \in Databases /\ work'.schema = work.schema \cup {s.on}
      /\ work'.rows = work.rows /\ work'.version = work.version
  BY <1>1, <1>3, <1>4, EffectOfCreate DEF WellFormed
<1>6. open \in BOOLEAN /\ open' = open
  BY <1>1, <1>2 DEF MigrationInv, Transactional
<1>7. disk'.rows = disk.rows /\ disk'.version = disk.version
  BY <1>1, <1>2, <1>3, <1>5
<1>8. WellFormed(work)'
  BY <1>3, <1>5 DEF WellFormed
<1>9. \A x : Has(work.schema, x) => Has(work'.schema, x)
  BY <1>5 DEF Has
<1>10. /\ \A t : Draft(t) \in work'.schema => Draft(t) \in work.schema
       /\ Legacy(Repositories) \in work'.schema => Legacy(Repositories) \in work.schema
       /\ Legacy(Backfills) \in work'.schema => Legacy(Backfills) \in work.schema \/ m = 3
  BY <1>4, <1>5
<1>11. Sound(disk)'
  <2>1. CASE open
    <3>1. disk' = disk
      BY <1>1, <1>2, <2>1
    <3> QED BY <1>1, <3>1 DEF Sound, WellFormed
  <2>2. CASE ~open
    <3>1. disk' = work' /\ work = disk
      BY <1>1, <1>2, <1>3, <2>2
    <3>2. WellFormed(disk)'
      BY <1>8, <3>1 DEF WellFormed
    <3>3. m = 3 => disk.version = 2
      BY <1>1 DEF Working, Sound, WellFormed, Databases
    <3>4. disk'.schema = work'.schema
      BY <3>1
    <3>5. \A k \in 1..disk.version : \A j \in Creates(k) : Has(disk'.schema, Migration[k][j].on)
      BY <1>1, <1>9, <3>1, <3>4 DEF Sound
    <3>6. \A t \in TwoForms : Draft(t) \in disk'.schema => Legacy(t) \in disk'.schema
      BY <1>1, <1>5, <1>10, <3>1, <3>4 DEF Sound
    <3>7. /\ Legacy(Repositories) \in disk'.schema => disk.version = 0
          /\ Legacy(Backfills) \in disk'.schema => disk.version \in {2, 3}
      BY <1>1, <1>10, <3>1, <3>3, <3>4 DEF Sound
    <3> QED BY <1>7, <3>2, <3>5, <3>6, <3>7 DEF Sound
  <2> QED BY <1>6, <2>1, <2>2
<1>12. /\ m \in Rebuilds => Rebuilding(m, work)'
       /\ \A t : Between(m, t) <=> Between(m, t)'
  <2>1. CASE m \in Rebuilds
    <3>1. Legacy(Rebuilt(m)) \in work'.schema <=> Legacy(Rebuilt(m)) \in work.schema
      BY <1>4, <1>5, <2>1 DEF Rebuilt, Rebuilds
    <3> QED BY <1>5, <1>6, <3>1, OutsideRebuild
  <2>2. CASE m \notin Rebuilds
    BY <2>2 DEF Between
  <2> QED BY <2>1, <2>2
<1>13. ASSUME NEW k \in 1..m, NEW j \in Creates(k), k < m \/ j \notin todo'
       PROVE  LET x == Migration[k][j].on
              IN  Has(work'.schema, x) \/ Between(m, x[1])'
  <2>1. PICK x : x = Migration[k][j].on
    OBVIOUS
  <2>2. CASE k < m \/ j \notin todo
    <3>1. Has(work.schema, x) \/ Between(m, x[1])
      BY <1>1, <2>1, <2>2 DEF Underway
    <3> QED BY <1>9, <1>12, <2>1, <3>1
  <2>3. CASE k = m /\ j = i
    <3>1. x = s.on
      <4>1. j \in DOMAIN Migration[m]
        BY <1>1, <2>3, CreatesThings
      <4> QED BY <1>1, <2>1, <2>3, <4>1, Scripts DEF Statement
    <3>2. Has(work'.schema, x)
      BY <1>5, <3>1 DEF Has
    <3> QED BY <2>1, <3>2
  <2>4. \/ k < m \/ j \notin todo
        \/ k = m /\ j = i
    BY <1>1, <1>13
  <2> QED BY <2>2, <2>3, <2>4
<1>14. Underway(m, work)'
  <2>1. \A t \in TwoForms : Draft(t) \in work'.schema => Legacy(t) \in work'.schema \/ Between(m, t)'
    BY <1>1, <1>5, <1>10, <1>12 DEF Underway
  <2>2. /\ Legacy(Repositories) \in work'.schema => m = 1
        /\ Legacy(Backfills) \in work'.schema => m \in {3, 4}
    BY <1>1, <1>10 DEF Underway
  <2>3. \A t \in TwoForms : HasRows(disk, t)' => HasRows(work, t)' \/ Between(m, t)'
    BY <1>1, <1>5, <1>7, <1>12 DEF Underway, HasRows
  <2> QED BY <1>8, <1>12, <1>13, <2>1, <2>2, <2>3 DEF Underway
<1>15. ~open' => work' = disk'
  BY <1>1, <1>2, <1>6
<1> QED BY <1>5, <1>6, <1>7, <1>11, <1>14, <1>15, StillWorking

\* In a transaction the committed database stays.
LEMMA InTransaction ==
    ASSUME MigrationInv, NEW i \in todo, Run(i), NEW m, m = disk.version + 1, i < Last(m),
           Transactional(Statement(i)), work'.version = work.version, Underway(m, work)'
    PROVE  MigrationInv' /\ disk'.rows = disk.rows
<1>1. PICK s : s = Statement(i)
  OBVIOUS
<1>2. Sound(disk) /\ open' /\ disk' = disk /\ open' \in BOOLEAN
  BY <1>1, RunFacts DEF Transactional
<1>3. Sound(disk)'
  BY <1>2 DEF Sound, WellFormed
<1> QED BY <1>2, <1>3, StillWorking

LEMMA RunHarmless ==
    ASSUME MigrationInv, NEW i \in todo, Run(i), NEW m, m = disk.version + 1, i < Last(m),
           NEW s, s = Statement(i), Harmless(s), m \in Rebuilds => i \notin 6..9
    PROVE  MigrationInv' /\ disk'.rows = disk.rows
<1>1. /\ Underway(m, work) /\ m \in 1..HeadVersion
      /\ todo' = todo \ {i} /\ work' = Effect(s, work) /\ open' = Transactional(s)
      /\ disk' = IF Transactional(s) THEN disk ELSE work'
  BY RunFacts
<1>2. WellFormed(work)
  BY <1>1 DEF Underway
<1>3. /\ work' \in Databases /\ work'.schema = work.schema /\ work'.rows = work.rows
      /\ work'.version = work.version
  BY <1>1, <1>2, EffectOfUpdate DEF WellFormed, Harmless
<1>4. Transactional(s)
  BY DEF Transactional, Harmless
<1>5. open' /\ disk' = disk
  BY <1>1, <1>4
<1>6. /\ m \in Rebuilds => Rebuilding(m, work)'
      /\ \A t : Between(m, t) <=> Between(m, t)'
  BY <1>3, <1>5, OutsideRebuild
<1>7. ASSUME NEW k \in 1..m, NEW j \in Creates(k), k < m \/ j \notin todo'
      PROVE  LET x == Migration[k][j].on
             IN  Has(work'.schema, x) \/ Between(m, x[1])'
  <2>1. PICK x : x = Migration[k][j].on
    OBVIOUS
  <2>2. k < m \/ j \notin todo
    <3>1. CASE k = m /\ j = i
      <4>1. j \in DOMAIN Migration[m] /\ Creation(m, Migration[m][j])
        BY <1>1, <3>1, CreatesThings
      <4>2. s = Migration[m][j]
        BY <1>1, <3>1, <4>1, Scripts DEF Statement
      <4>3. s.op = "create"
        BY <4>1, <4>2 DEF Creation
      <4> QED BY <4>3 DEF Harmless
    <3> QED BY <1>1, <1>7, <3>1
  <2>3. Has(work.schema, x) \/ Between(m, x[1])
    BY <1>1, <2>1, <2>2 DEF Underway
  <2> QED BY <1>3, <1>6, <2>1, <2>3
<1>8. Underway(m, work)'
  <2>1. WellFormed(work)'
    BY <1>2, <1>3 DEF WellFormed
  <2>2. \A t \in TwoForms : Draft(t) \in work'.schema => Legacy(t) \in work'.schema \/ Between(m, t)'
    BY <1>1, <1>3, <1>6 DEF Underway
  <2>3. /\ Legacy(Repositories) \in work'.schema => m = 1
        /\ Legacy(Backfills) \in work'.schema => m \in {3, 4}
    BY <1>1, <1>3 DEF Underway
  <2>4. \A t \in TwoForms : HasRows(disk, t)' => HasRows(work, t)' \/ Between(m, t)'
    BY <1>1, <1>3, <1>5, <1>6 DEF Underway, HasRows
  <2> QED BY <1>6, <1>7, <2>1, <2>2, <2>3, <2>4 DEF Underway
<1> QED BY <1>3, <1>4, <1>8, InTransaction

-----------------------------------------------------------------------------
(* The four statements of a rebuild. *)
LEMMA RebuildFacts ==
    ASSUME MigrationInv, NEW i \in todo, Run(i), NEW m, m = disk.version + 1, i < Last(m),
           m \in Rebuilds, i \in 6..9
    PROVE  /\ Rebuilt(m) \in TwoForms /\ WellFormed(work) /\ work.version = disk.version
           /\ \A j \in Creates(m) : j # i
           /\ \A j : j < i => j \notin todo
           /\ \A j \in i..9 : j \in todo
           /\ \A k \in 1..m : \A j \in Creates(k) : k < m \/ j \notin todo' => k < m \/ j \notin todo
           /\ \A t : Between(m, t)' <=> i = 8 /\ t = Rebuilt(m)
           /\ \A t : Between(m, t) <=> i = 9 /\ t = Rebuilt(m)
<1>1. PICK s : s = Statement(i)
  OBVIOUS
<1>2. /\ Working /\ Underway(m, work) /\ m \in 1..HeadVersion /\ todo' = todo \ {i}
      /\ todo \subseteq Nat /\ (\A j \in todo : i <= j) /\ Known(m, i, s)
      /\ i \in {6, 7, 8, 9}
  <2>1. /\ Working /\ Underway(m, work) /\ m \in 1..HeadVersion /\ todo' = todo \ {i}
        /\ todo \subseteq Nat /\ (\A j \in todo : i <= j)
    BY <1>1, RunFacts
  <2>2. PICK n : n = Last(m)
    OBVIOUS
  <2>3. i = n \/ Known(m, i, s)
    BY <1>1, <2>2, RunFacts
  <2>4. i # n
    BY <2>2
  <2> QED BY <2>1, <2>3, <2>4
<1>3. Rebuilt(m) \in TwoForms
  BY DEF Rebuilt, TwoForms
<1>4. WellFormed(work) /\ work.version = disk.version
  BY <1>2 DEF Underway, Working
<1>5. ASSUME NEW j \in Creates(m)
      PROVE  j # i
  <2>1. SUFFICES ASSUME j = i
                 PROVE  FALSE
    OBVIOUS
  <2>2. j \in DOMAIN Migration[m] /\ Migration[m][j].op = "create"
    BY DEF Creates
  <2>3. s = Migration[m][j]
    BY <1>1, <1>2, <2>1, <2>2, Scripts DEF Statement
  <2>4. s.op = "create"
    BY <2>2, <2>3
  <2> QED BY <1>2, <2>4 DEF Known, Harmless, Redraft, Copy, Drop, Rename
<1>6. ASSUME NEW j, j \in todo, j < i
      PROVE  FALSE
  <2>1. i <= j /\ i \in Nat /\ j \in Nat
    BY <1>2, <1>6
  <2> QED BY <1>6, <2>1
<1>7. \A j \in 6..8 : j \in todo => j + 1 \in todo
  BY <1>2 DEF Underway, Rebuilding
<1>8. /\ 6 \in todo => 7 \in todo
      /\ 7 \in todo => 8 \in todo
      /\ 8 \in todo => 9 \in todo
  BY <1>7
<1>9. \A j \in i..9 : j \in todo
  <2>1. ASSUME NEW j \in i..9
        PROVE  j \in {6, 7, 8, 9} /\ j >= i
    BY <1>2
  <2> QED BY <1>2, <1>8, <2>1
<1>10. \A k \in 1..m : \A j \in Creates(k) : k < m \/ j \notin todo' => k < m \/ j \notin todo
  <2>1. SUFFICES ASSUME NEW k \in 1..m, NEW j \in Creates(k), ~(k < m), j \notin todo'
                 PROVE  j \notin todo
    OBVIOUS
  <2>2. k = m
    BY <1>2, <2>1
  <2> QED BY <1>2, <1>5, <2>1, <2>2
<1>11. i # 9 => 8 \in todo
  BY <1>2, <1>8
<1>12. i = 9 => 8 \notin todo
  BY <1>6
<1>13. 9 \in todo
  BY <1>2, <1>8
<1>14. ASSUME NEW t
       PROVE  Between(m, t) <=> i = 9 /\ t = Rebuilt(m)
  BY <1>11, <1>12, <1>13 DEF Between
<1>15. ASSUME NEW t
       PROVE  Between(m, t)' <=> i = 8 /\ t = Rebuilt(m)
  BY <1>2, <1>11, <1>12, <1>13 DEF Between
<1> QED BY <1>3, <1>4, <1>5, <1>6, <1>9, <1>10, <1>14, <1>15

LEMMA RunDraft ==
    ASSUME MigrationInv, NEW i \in todo, Run(i), NEW m, m = disk.version + 1, i < Last(m),
           m \in Rebuilds, i = 6, NEW t, t = Rebuilt(m), Statement(i) = Redraft(t)
    PROVE  MigrationInv' /\ disk'.rows = disk.rows
<1>1. PICK s : s = Statement(i)
  OBVIOUS
<1>2. /\ Sound(disk) /\ Working /\ Underway(m, work) /\ m \in 1..HeadVersion
      /\ todo' = todo \ {i} /\ work' = Effect(s, work) /\ open' = Transactional(s)
      /\ disk' = IF Transactional(s) THEN disk ELSE work'
  BY <1>1, RunFacts
<1>3. /\ t \in TwoForms /\ WellFormed(work) /\ work.version = disk.version
      /\ \A k \in 1..m : \A j \in Creates(k) : k < m \/ j \notin todo' => k < m \/ j \notin todo
      /\ \A u : ~Between(m, u)' /\ ~Between(m, u)
  <2>1. i \in 6..9 /\ i # 8 /\ i # 9
    OBVIOUS
  <2> QED BY <2>1, RebuildFacts
<1>4. 6 \in todo /\ 7 \in todo /\ 8 \in todo /\ 9 \in todo
  <2>1. i \in 6..9
    OBVIOUS
  <2>2. \A j \in i..9 : j \in todo
    BY <2>1, RebuildFacts
  <2> QED BY <2>2
<1>5. s.op = "draft" /\ s.on = Draft(t)
  BY <1>1 DEF Redraft
<1>6. Draft(t) \in Everything
  BY <1>3 DEF Everything
<1>7. /\ work' \in Databases /\ work'.schema = work.schema \cup {Draft(t)}
      /\ work'.rows = work.rows /\ work'.version = work.version
  BY <1>2, <1>3, <1>5, <1>6, EffectOfCreate DEF WellFormed
<1>8. Transactional(s) <=> open
  BY <1>5 DEF Transactional
<1>9. open \in BOOLEAN /\ open' = open /\ (~open => work = disk)
  BY <1>2, <1>8 DEF MigrationInv, Transactional, Working
<1>10. \A x : Has(work.schema, x) => Has(work'.schema, x)
  BY <1>7 DEF Has
<1>11. \A u : Legacy(u) \in work'.schema <=> Legacy(u) \in work.schema
  BY <1>7, Forms
<1>12. Legacy(t) \in work.schema
  BY <1>2, <1>4 DEF Underway, Rebuilding
<1>13. \A u \in TwoForms : Draft(u) \in work'.schema => Legacy(u) \in work'.schema
  <2>1. \A u : Draft(u) \in work'.schema => Draft(u) \in work.schema \/ u = t
    BY <1>7, Forms
  <2> QED BY <1>2, <1>3, <1>11, <1>12, <2>1 DEF Underway
<1>14. WellFormed(work)'
  BY <1>3, <1>7 DEF WellFormed
<1>15. disk'.rows = disk.rows /\ disk'.version = disk.version
  BY <1>2, <1>3, <1>7, <1>8, <1>9
<1>16. Sound(disk)'
  <2>1. CASE open
    <3>1. disk' = disk
      BY <1>2, <1>8, <2>1
    <3> QED BY <1>2, <3>1 DEF Sound, WellFormed
  <2>2. CASE ~open
    <3>1. disk' = work' /\ work = disk
      BY <1>2, <1>8, <1>9, <2>2
    <3>2. disk'.schema = work'.schema /\ WellFormed(disk)'
      BY <1>14, <3>1 DEF WellFormed
    <3>3. \A k \in 1..disk.version : \A j \in Creates(k) : Has(disk'.schema, Migration[k][j].on)
      BY <1>2, <1>10, <3>1, <3>2 DEF Sound
    <3>4. /\ Legacy(Repositories) \in disk'.schema => disk.version = 0
          /\ Legacy(Backfills) \in disk'.schema => disk.version \in {2, 3}
      BY <1>2, <1>11, <3>1, <3>2 DEF Sound
    <3> QED BY <1>13, <1>15, <3>2, <3>3, <3>4 DEF Sound
  <2> QED BY <1>9, <2>1, <2>2
<1>17. Rebuilding(m, work)'
  <2>1. 6 \notin todo' /\ 7 \in todo' /\ 8 \in todo' /\ 9 \in todo'
    BY <1>2, <1>4
  <2>2. Draft(t) \in work'.schema /\ Legacy(t) \in work'.schema
    BY <1>7, <1>11, <1>12
  <2>3. \A j \in 6..8 : j \in todo' => j + 1 \in todo'
    BY <2>1
  <2> QED BY <1>3, <2>1, <2>2, <2>3 DEF Rebuilding
<1>18. Underway(m, work)'
  <2>1. \A k \in 1..m : \A j \in Creates(k) :
           k < m \/ j \notin todo' => Has(work'.schema, Migration[k][j].on)
    BY <1>2, <1>3, <1>10 DEF Underway
  <2>2. /\ Legacy(Repositories) \in work'.schema => m = 1
        /\ Legacy(Backfills) \in work'.schema => m \in {3, 4}
    BY <1>2, <1>11 DEF Underway
  <2>3. \A u \in TwoForms : HasRows(disk, u)' => HasRows(work, u)'
    BY <1>2, <1>3, <1>7, <1>15 DEF Underway, HasRows
  <2> QED BY <1>13, <1>14, <1>17, <2>1, <2>2, <2>3 DEF Underway
<1>19. ~open' => work' = disk'
  BY <1>2, <1>8, <1>9
<1> QED BY <1>7, <1>9, <1>15, <1>16, <1>18, <1>19, StillWorking

LEMMA RunCopy ==
    ASSUME MigrationInv, NEW i \in todo, Run(i), NEW m, m = disk.version + 1, i < Last(m),
           m \in Rebuilds, i = 7, NEW t, t = Rebuilt(m), Statement(i) = Copy(t)
    PROVE  MigrationInv' /\ disk'.rows = disk.rows
<1>1. PICK s : s = Statement(i)
  OBVIOUS
<1>2. /\ Underway(m, work) /\ m \in 1..HeadVersion
      /\ todo' = todo \ {i} /\ work' = Effect(s, work) /\ open' = Transactional(s)
      /\ disk' = IF Transactional(s) THEN disk ELSE work'
  BY <1>1, RunFacts
<1>3. /\ t \in TwoForms /\ WellFormed(work) /\ work.version = disk.version
      /\ \A k \in 1..m : \A j \in Creates(k) : k < m \/ j \notin todo' => k < m \/ j \notin todo
      /\ \A u : ~Between(m, u)' /\ ~Between(m, u)
      /\ 6 \notin todo
  <2>1. i \in 6..9 /\ i # 8 /\ i # 9 /\ 6 < i
    OBVIOUS
  <2> QED BY <2>1, RebuildFacts
<1>4. 7 \in todo /\ 8 \in todo /\ 9 \in todo
  <2>1. i \in 6..9
    OBVIOUS
  <2>2. \A j \in i..9 : j \in todo
    BY <2>1, RebuildFacts
  <2> QED BY <2>2
<1>5. s = Copy(t)
  BY <1>1
<1>6. /\ work' \in Databases /\ work'.schema = work.schema
      /\ work'.rows = work.rows \cup {Draft(t)} /\ work'.version = work.version
  BY <1>2, <1>3, <1>5, EffectOfCopy DEF WellFormed
<1>7. Transactional(Statement(i))
  BY DEF Transactional, Copy
<1>8. open' /\ disk' = disk
  BY <1>1, <1>2, <1>7
<1>9. Draft(t) \in work.schema /\ Legacy(t) \in work.schema
  BY <1>2, <1>3, <1>4 DEF Underway, Rebuilding
<1>10. Rebuilding(m, work)'
  <2>1. 6 \notin todo' /\ 7 \notin todo' /\ 8 \in todo' /\ 9 \in todo'
    BY <1>2, <1>3, <1>4
  <2>2. \A j \in 6..8 : j \in todo' => j + 1 \in todo'
    BY <2>1
  <2> QED BY <1>3, <1>6, <1>8, <1>9, <2>1, <2>2 DEF Rebuilding
<1>11. Underway(m, work)'
  <2>1. WellFormed(work)'
    BY <1>3, <1>6, <1>9 DEF WellFormed
  <2>2. \A k \in 1..m : \A j \in Creates(k) :
           k < m \/ j \notin todo' => Has(work'.schema, Migration[k][j].on)
    BY <1>2, <1>3, <1>6 DEF Underway
  <2>3. /\ \A u \in TwoForms : Draft(u) \in work'.schema => Legacy(u) \in work'.schema
        /\ Legacy(Repositories) \in work'.schema => m = 1
        /\ Legacy(Backfills) \in work'.schema => m \in {3, 4}
    BY <1>2, <1>3, <1>6 DEF Underway
  <2>4. \A u \in TwoForms : HasRows(disk, u)' => HasRows(work, u)'
    BY <1>2, <1>3, <1>6, <1>8 DEF Underway, HasRows
  <2> QED BY <1>10, <2>1, <2>2, <2>3, <2>4 DEF Underway
<1> QED BY <1>6, <1>7, <1>11, InTransaction

LEMMA RunDrop ==
    ASSUME MigrationInv, NEW i \in todo, Run(i), NEW m, m = disk.version + 1, i < Last(m),
           m \in Rebuilds, i = 8, NEW t, t = Rebuilt(m), Statement(i) = Drop(t)
    PROVE  MigrationInv' /\ disk'.rows = disk.rows
<1>1. PICK s : s = Statement(i)
  OBVIOUS
<1>2. /\ Underway(m, work) /\ m \in 1..HeadVersion
      /\ todo' = todo \ {i} /\ work' = Effect(s, work) /\ open' = Transactional(s)
      /\ disk' = IF Transactional(s) THEN disk ELSE work'
  BY <1>1, RunFacts
<1>3. /\ t \in TwoForms /\ WellFormed(work) /\ work.version = disk.version
      /\ \A k \in 1..m : \A j \in Creates(k) : k < m \/ j \notin todo' => k < m \/ j \notin todo
      /\ \A u : ~Between(m, u) /\ (Between(m, u)' <=> u = t)
      /\ 6 \notin todo /\ 7 \notin todo
  <2>1. i \in 6..9 /\ i # 9 /\ 6 < i /\ 7 < i
    OBVIOUS
  <2> QED BY <2>1, RebuildFacts
<1>4. 8 \in todo /\ 9 \in todo
  <2>1. i \in 6..9
    OBVIOUS
  <2>2. \A j \in i..9 : j \in todo
    BY <2>1, RebuildFacts
  <2> QED BY <2>2
<1>5. /\ work' \in Databases /\ work'.schema = work.schema \ {Legacy(t)}
      /\ work'.rows = work.rows \ {Legacy(t)} /\ work'.version = work.version
  BY <1>1, <1>2, <1>3, EffectOfDrop DEF WellFormed
<1>6. open /\ Draft(t) \in work.rows /\ Legacy(t) \in work.schema
  BY <1>2, <1>3, <1>4 DEF Underway, Rebuilding
<1>7. Transactional(Statement(i))
  BY <1>6 DEF Transactional
<1>8. open' /\ disk' = disk
  BY <1>1, <1>2, <1>7
<1>9. Rebuilding(m, work)'
  <2>1. 6 \notin todo' /\ 7 \notin todo' /\ 8 \notin todo' /\ 9 \in todo'
    BY <1>2, <1>3, <1>4
  <2>2. \A j \in 6..8 : j \in todo' => j + 1 \in todo'
    BY <2>1
  <2>3. Draft(t) \in work'.rows /\ Legacy(t) \notin work'.schema
    BY <1>5, <1>6, Forms
  <2> QED BY <1>3, <1>8, <2>1, <2>2, <2>3 DEF Rebuilding
<1>10. ASSUME NEW x, Has(work.schema, x), x[1] # t
       PROVE  Has(work'.schema, x)
  <2>1. PICK a : a = x[1]
    OBVIOUS
  <2>2. x # Legacy(t) /\ Table(a) # Legacy(t) /\ Legacy(a) # Legacy(t)
    BY <1>10, <2>1, Forms
  <2> QED BY <1>5, <1>10, <2>1, <2>2 DEF Has
<1>11. Underway(m, work)'
  <2>1. WellFormed(work)'
    BY <1>3, <1>5 DEF WellFormed
  <2>2. ASSUME NEW k \in 1..m, NEW j \in Creates(k), k < m \/ j \notin todo'
        PROVE  LET x == Migration[k][j].on
               IN  Has(work'.schema, x) \/ Between(m, x[1])'
    <3>1. PICK x : x = Migration[k][j].on
      OBVIOUS
    <3>2. Has(work.schema, x)
      BY <1>2, <1>3, <2>2, <3>1 DEF Underway
    <3>3. Has(work'.schema, x) \/ x[1] = t
      BY <1>10, <3>2
    <3> QED BY <1>3, <3>1, <3>3
  <2>3. \A u \in TwoForms : Draft(u) \in work'.schema => Legacy(u) \in work'.schema \/ Between(m, u)'
    <3>1. \A u : u # t => Legacy(u) # Legacy(t)
      BY Forms
    <3> QED BY <1>2, <1>3, <1>5, <3>1 DEF Underway
  <2>4. /\ Legacy(Repositories) \in work'.schema => m = 1
        /\ Legacy(Backfills) \in work'.schema => m \in {3, 4}
    BY <1>2, <1>5 DEF Underway
  <2>5. \A u \in TwoForms : HasRows(disk, u)' => HasRows(work, u)' \/ Between(m, u)'
    <3>1. SUFFICES ASSUME NEW u \in TwoForms, HasRows(disk, u), u # t
                   PROVE  HasRows(work, u)'
      BY <1>3, <1>8 DEF HasRows
    <3>2. HasRows(work, u)
      BY <1>2, <1>3, <3>1 DEF Underway
    <3>3. Legacy(u) # Legacy(t) /\ Table(u) # Legacy(t)
      BY <3>1, Forms
    <3> QED BY <1>5, <3>2, <3>3 DEF HasRows
  <2> QED BY <1>9, <2>1, <2>2, <2>3, <2>4, <2>5 DEF Underway
<1> QED BY <1>5, <1>7, <1>11, InTransaction

LEMMA RunRename ==
    ASSUME MigrationInv, NEW i \in todo, Run(i), NEW m, m = disk.version + 1, i < Last(m),
           m \in Rebuilds, i = 9, NEW t, t = Rebuilt(m), Statement(i) = Rename(t)
    PROVE  MigrationInv' /\ disk'.rows = disk.rows
<1>1. PICK s : s = Statement(i)
  OBVIOUS
<1>2. /\ Underway(m, work) /\ m \in 1..HeadVersion
      /\ todo' = todo \ {i} /\ work' = Effect(s, work) /\ open' = Transactional(s)
      /\ disk' = IF Transactional(s) THEN disk ELSE work'
  BY <1>1, RunFacts
<1>3. /\ t \in TwoForms /\ WellFormed(work) /\ work.version = disk.version
      /\ \A k \in 1..m : \A j \in Creates(k) : k < m \/ j \notin todo' => k < m \/ j \notin todo
      /\ \A u : ~Between(m, u)' /\ (Between(m, u) <=> u = t)
      /\ 6 \notin todo /\ 7 \notin todo /\ 8 \notin todo
  <2>1. i \in 6..9 /\ i # 8 /\ 6 < i /\ 7 < i /\ 8 < i
    OBVIOUS
  <2> QED BY <2>1, RebuildFacts
<1>4. 9 \in todo
  OBVIOUS
<1>5. /\ work' \in Databases /\ work'.schema = (work.schema \ {Draft(t)}) \cup {Table(t)}
      /\ work'.rows = (work.rows \ {Draft(t)}) \cup {Table(t)} /\ work'.version = work.version
  BY <1>1, <1>2, <1>3, EffectOfRename DEF WellFormed
<1>6. open /\ Legacy(t) \notin work.schema
  BY <1>2, <1>3 DEF Underway, Rebuilding
<1>7. Transactional(Statement(i))
  BY <1>6 DEF Transactional
<1>8. open' /\ disk' = disk
  BY <1>1, <1>2, <1>7
<1>9. \A u : Legacy(u) \in work'.schema <=> Legacy(u) \in work.schema
  BY <1>5, Forms
<1>10. Rebuilding(m, work)'
  <2>1. 6 \notin todo' /\ 7 \notin todo' /\ 8 \notin todo' /\ 9 \notin todo'
    BY <1>2, <1>3
  <2>2. \A j \in 6..8 : j \in todo' => j + 1 \in todo'
    BY <2>1
  <2>3. Legacy(t) \notin work'.schema
    BY <1>6, <1>9
  <2> QED BY <1>3, <2>1, <2>2, <2>3 DEF Rebuilding
<1>11. ASSUME NEW x, Has(work.schema, x), x[1] # t
       PROVE  Has(work'.schema, x)
  <2>1. PICK a : a = x[1]
    OBVIOUS
  <2>2. x # Draft(t) /\ Table(a) # Draft(t) /\ Legacy(a) # Draft(t)
    BY <1>11, <2>1, Forms
  <2> QED BY <1>5, <1>11, <2>1, <2>2 DEF Has
<1>12. ASSUME NEW k \in 1..m, NEW j \in Creates(k), k < m \/ j \notin todo'
       PROVE  Has(work'.schema, Migration[k][j].on)
  <2>1. PICK x : x = Migration[k][j].on
    OBVIOUS
  <2>2. Has(work.schema, x) \/ x[1] = t
    BY <1>2, <1>3, <1>12, <2>1 DEF Underway
  <2>3. CASE x[1] = t
    <3>1. k \in 1..HeadVersion
      BY <1>2, Chain
    <3>2. PICK s2 : s2 = Migration[k][j]
      OBVIOUS
    <3>3. Creation(k, s2)
      BY <3>1, <3>2, CreatesThings
    <3>4. x[2] \in {"table", "legacy"}
      BY <1>3, <2>1, <2>3, <3>2, <3>3 DEF Creation
    <3> QED BY <1>5, <2>1, <2>3, <3>4 DEF Has
  <2>4. CASE x[1] # t
    BY <1>11, <2>1, <2>2, <2>4
  <2> QED BY <2>3, <2>4
<1>13. Underway(m, work)'
  <2>1. WellFormed(work)'
    BY <1>3, <1>5 DEF WellFormed
  <2>2. \A u \in TwoForms : Draft(u) \in work'.schema => Legacy(u) \in work'.schema
    <3>1. \A u : Draft(u) \in work'.schema => Draft(u) \in work.schema /\ u # t
      BY <1>5, Forms
    <3> QED BY <1>2, <1>3, <1>9, <3>1 DEF Underway
  <2>3. /\ Legacy(Repositories) \in work'.schema => m = 1
        /\ Legacy(Backfills) \in work'.schema => m \in {3, 4}
    BY <1>2, <1>9 DEF Underway
  <2>4. \A u \in TwoForms : HasRows(disk, u)' => HasRows(work, u)'
    <3>1. HasRows(work, t)'
      BY <1>5 DEF HasRows
    <3>2. SUFFICES ASSUME NEW u \in TwoForms, HasRows(disk, u), u # t
                   PROVE  HasRows(work, u)'
      BY <1>8, <3>1 DEF HasRows
    <3>3. HasRows(work, u)
      BY <1>2, <1>3, <3>2 DEF Underway
    <3>4. Legacy(u) # Draft(t) /\ Table(u) # Draft(t)
      BY Forms
    <3> QED BY <1>5, <3>3, <3>4 DEF HasRows
  <2> QED BY <1>10, <1>12, <2>1, <2>2, <2>3, <2>4 DEF Underway
<1> QED BY <1>5, <1>7, <1>13, InTransaction

LEMMA RunStep ==
    ASSUME MigrationInv, NEW i \in todo, Run(i)
    PROVE  MigrationInv' /\ disk'.rows = disk.rows
<1>1. PICK m : m = disk.version + 1
  OBVIOUS
<1>2. PICK s : s = Statement(i)
  OBVIOUS
<1>3. \/ i = Last(m) /\ s = Version
      \/ i < Last(m) /\ Known(m, i, s)
  BY <1>1, <1>2, RunFacts
<1>4. CASE i = Last(m) /\ s = Version
  BY <1>1, <1>2, <1>4, RunVersion
<1>5. CASE i < Last(m) /\ Known(m, i, s)
  <2>1. CASE Creation(m, s) /\ (m \in Rebuilds => i \notin 6..9)
    BY <1>1, <1>2, <1>5, <2>1, RunCreation
  <2>2. CASE Harmless(s) /\ (m \in Rebuilds => i \notin 6..9)
    BY <1>1, <1>2, <1>5, <2>2, RunHarmless
  <2>3. CASE m \in Rebuilds /\ i = 6 /\ s = Redraft(Rebuilt(m))
    BY <1>1, <1>2, <1>5, <2>3, RunDraft
  <2>4. CASE m \in Rebuilds /\ i = 7 /\ s = Copy(Rebuilt(m))
    BY <1>1, <1>2, <1>5, <2>4, RunCopy
  <2>5. CASE m \in Rebuilds /\ i = 8 /\ s = Drop(Rebuilt(m))
    BY <1>1, <1>2, <1>5, <2>5, RunDrop
  <2>6. CASE m \in Rebuilds /\ i = 9 /\ s = Rename(Rebuilt(m))
    BY <1>1, <1>2, <1>5, <2>6, RunRename
  <2> QED BY <1>5, <2>1, <2>2, <2>3, <2>4, <2>5, <2>6 DEF Known
<1> QED BY <1>3, <1>4, <1>5

-----------------------------------------------------------------------------
(* The other steps. *)
LEMMA BeginMigrationStep ==
    ASSUME MigrationInv, BeginMigration
    PROVE  MigrationInv'
<1>1. /\ process = "upgrading" /\ todo = {} /\ ~open /\ disk.version < HeadVersion
      /\ UNCHANGED <<disk, work, open, process>>
  BY DEF BeginMigration, Upgrading
<1>2. Sound(disk) /\ work = disk
  BY <1>1 DEF MigrationInv, Resting, Finished
<1>3. PICK m : m = disk.version + 1
  OBVIOUS
<1>4. m \in 1..HeadVersion
  BY <1>1, <1>2, <1>3, Chain DEF Sound, WellFormed, Databases
<1>5. PICK n : n = Last(m)
  OBVIOUS
<1>6. todo' = Plan(m) \cup {n}
  BY <1>3, <1>5 DEF BeginMigration, Last
<1>7. /\ n \in Nat \ {0} /\ DOMAIN Script(m) = 1..n /\ DOMAIN Migration[m] = 1..(n - 1)
      /\ m \in Rebuilds => 6..9 \subseteq DOMAIN Migration[m]
      /\ \A j \in DOMAIN Migration[m] : Known(m, j, Migration[m][j])
  BY <1>4, <1>5, Scripts DEF Last
<1>8. \A j \in DOMAIN Migration[m] : j # n /\ j \in 1..n
  BY <1>7
<1>9. \A j \in DOMAIN Migration[m] : j \in todo' <=> Applies(Migration[m][j])
  BY <1>6, <1>8 DEF Plan
<1>10. todo' \subseteq DOMAIN Script(m) /\ n \in todo' /\ todo' # {}
  <2>1. Plan(m) \subseteq DOMAIN Migration[m] /\ n \in 1..n
    BY <1>7 DEF Plan
  <2> QED BY <1>6, <1>7, <1>8, <2>1
<1>11. ASSUME NEW t
       PROVE  ~Between(m, t)' /\ (m \in Rebuilds => Rebuilding(m, work)')
  <2>1. CASE m \notin Rebuilds
    BY <2>1 DEF Between
  <2>2. CASE m \in Rebuilds
    <3>1. PICK u : u = Rebuilt(m)
      OBVIOUS
    <3>2. 6 \in DOMAIN Migration[m] /\ 7 \in DOMAIN Migration[m] /\ 8 \in DOMAIN Migration[m]
          /\ 9 \in DOMAIN Migration[m]
      BY <1>7, <2>2
    <3>3. /\ Migration[m][6] = Redraft(u) /\ Migration[m][7] = Copy(u)
          /\ Migration[m][8] = Drop(u) /\ Migration[m][9] = Rename(u)
      BY <2>2, <3>1, Chain, InitialIs, RecentIs DEF Rebuilds, Rebuilt
    <3>4. /\ Applies(Redraft(u)) <=> Legacy(u) \in disk.schema
          /\ Applies(Copy(u)) <=> Legacy(u) \in disk.schema
          /\ Applies(Drop(u)) <=> Legacy(u) \in disk.schema
          /\ Applies(Rename(u)) <=> Legacy(u) \in disk.schema
      BY Forms DEF Applies, Outdated, Redraft, Copy, Drop, Rename
    <3>5. /\ 6 \in todo' <=> Legacy(u) \in disk.schema
          /\ 7 \in todo' <=> Legacy(u) \in disk.schema
          /\ 8 \in todo' <=> Legacy(u) \in disk.schema
          /\ 9 \in todo' <=> Legacy(u) \in disk.schema
      BY <1>9, <3>2, <3>3, <3>4
    <3>6. \A z : ~Between(m, z)'
      BY <3>5 DEF Between
    <3>7. \A j \in 6..8 : j \in todo' => j + 1 \in todo'
      BY <3>5
    <3>8. work'.schema = disk.schema
      BY <1>1, <1>2
    <3>9. Rebuilding(m, work)'
      BY <3>1, <3>5, <3>6, <3>7, <3>8 DEF Rebuilding
    <3> QED BY <3>6, <3>9
  <2> QED BY <2>1, <2>2
<1>12. Underway(m, work)'
  <2>1. WellFormed(work)' /\ work' = disk /\ disk' = disk
    BY <1>1, <1>2 DEF Sound, WellFormed
  <2>2. ASSUME NEW k \in 1..m, NEW j \in Creates(k), k < m \/ j \notin todo'
        PROVE  Has(disk.schema, Migration[k][j].on)
    <3>1. CASE k < m
      <4>1. k \in 1..disk.version
        BY <1>2, <1>3, <3>1 DEF Sound, WellFormed, Databases
      <4> QED BY <1>2, <4>1 DEF Sound
    <3>2. CASE k = m /\ j \notin todo'
      <4>1. PICK s : s = Migration[m][j]
        OBVIOUS
      <4>2. j \in DOMAIN Migration[m] /\ s.op = "create"
        BY <3>2, <4>1 DEF Creates
      <4>3. ~Applies(s)
        BY <1>9, <3>2, <4>1, <4>2
      <4>4. Present(s.on)
        BY <4>2, <4>3 DEF Applies
      <4>5. Has(disk.schema, s.on)
        BY <4>4 DEF Present, Has
      <4> QED BY <3>2, <4>1, <4>5
    <3> QED BY <1>4, <2>2, <3>1, <3>2
  <2>3. \A t \in TwoForms : Draft(t) \in disk.schema => Legacy(t) \in disk.schema
    BY <1>2 DEF Sound
  <2>4. /\ Legacy(Repositories) \in disk.schema => m = 1
        /\ Legacy(Backfills) \in disk.schema => m \in {3, 4}
    BY <1>2, <1>3 DEF Sound
  <2>5. \A t \in TwoForms : HasRows(disk, t)' => HasRows(work, t)'
    BY <2>1 DEF HasRows
  <2> QED BY <1>11, <2>1, <2>2, <2>3, <2>4, <2>5 DEF Underway
<1>13. Working'
  <2>1. m = disk'.version + 1 /\ disk' = disk /\ work' = disk'
    BY <1>1, <1>2, <1>3
  <2> QED BY <1>1, <1>5, <1>10, <1>12, <2>1 DEF Working
<1>14. Sound(disk)' /\ process' = "upgrading" /\ open' \in BOOLEAN
  BY <1>1, <1>2 DEF Sound, WellFormed, MigrationInv
<1> QED BY <1>10, <1>13, <1>14 DEF MigrationInv

LEMMA StopStep ==
    ASSUME MigrationInv, Stop, disk' = disk
    PROVE  MigrationInv'
<1>1. Sound(disk)'
  BY DEF MigrationInv, Sound, WellFormed
<1> QED BY <1>1 DEF Stop, MigrationInv, Resting

LEMMA CommitMigrationStep ==
    ASSUME MigrationInv, CommitMigration
    PROVE  MigrationInv' /\ \A t \in TwoForms : Kept(t) => Kept(t)'
<1>1. /\ process = "upgrading" /\ process' = process /\ todo = {} /\ todo' = {} /\ open
      /\ disk' = work /\ work' = work /\ open' = FALSE
  BY DEF CommitMigration, Upgrading
<1>2. Sound(work) /\ \A t \in TwoForms : HasRows(disk, t) => HasRows(work, t)
  BY <1>1 DEF MigrationInv, Resting, Finished
<1>3. Sound(disk)'
  BY <1>1, <1>2 DEF Sound, WellFormed
<1>4. Resting'
  BY <1>1 DEF Resting
<1>5. \A t \in TwoForms : Kept(t) => Kept(t)'
  BY <1>1, <1>2 DEF Kept, HasRows
<1> QED BY <1>1, <1>3, <1>4, <1>5 DEF MigrationInv

LEMMA NextMigrates ==
    ASSUME MigrationInv, [Next]_vars
    PROVE  MigrationInv' /\ \A t \in TwoForms : Kept(t) => Kept(t)'
<1>1. ASSUME disk'.rows = disk.rows
      PROVE  \A t \in TwoForms : Kept(t) => Kept(t)'
  BY <1>1 DEF Kept
<1>2. CASE Boot
  <2>1. Sound(disk)' /\ Resting' /\ todo' = {} /\ disk' = disk
    BY <1>2 DEF Boot, MigrationInv, Working, Finished, Resting, Sound, WellFormed
  <2> QED BY <1>1, <1>2, <2>1 DEF Boot, MigrationInv
<1>3. CASE BeginMigration
  <2>1. disk' = disk
    BY <1>3 DEF BeginMigration
  <2> QED BY <1>1, <1>3, <2>1, BeginMigrationStep
<1>4. CASE \E i \in todo : Run(i)
  BY <1>1, <1>4, RunStep
<1>5. CASE CommitMigration
  BY <1>5, CommitMigrationStep
<1>6. CASE Serve
  <2>1. Sound(disk)' /\ Resting' /\ todo' = {} /\ disk' = disk
    BY <1>6 DEF Serve, MigrationInv, Working, Finished, Resting, Sound, WellFormed
  <2> QED BY <1>1, <1>6, <2>1 DEF Serve, MigrationInv
<1>7. CASE Fail \/ Crash
  <2>1. Stop /\ disk' = disk
    BY <1>7 DEF Fail, Crash
  <2> QED BY <1>1, <2>1, StopStep
<1>8. CASE UNCHANGED vars
  <2>1. disk' = disk /\ work' = work /\ open' = open /\ todo' = todo /\ process' = process
    BY <1>8 DEF vars
  <2>2. Sound(disk)' <=> Sound(disk)
    BY <2>1 DEF Sound, WellFormed
  <2>3. Resting' <=> Resting
    BY <2>1 DEF Resting
  <2>4. Finished' <=> Finished
    BY <2>1 DEF Finished, Sound, WellFormed, HasRows
  <2>5. Working' <=> Working
    <3>1. \A m, t : Between(m, t)' <=> Between(m, t)
      BY <2>1 DEF Between
    <3>2. \A m : Rebuilding(m, work)' <=> Rebuilding(m, work)
      BY <2>1, <3>1 DEF Rebuilding
    <3>3. \A m : Underway(m, work)' <=> Underway(m, work)
      BY <2>1, <3>1, <3>2 DEF Underway, WellFormed, HasRows
    <3> QED BY <2>1, <3>3 DEF Working
  <2>6. MigrationInv'
    BY <2>1, <2>2, <2>3, <2>4, <2>5 DEF MigrationInv
  <2> QED BY <1>1, <2>1, <2>6
<1> QED BY <1>2, <1>3, <1>4, <1>5, <1>6, <1>7, <1>8 DEF Next

-----------------------------------------------------------------------------
\* The invariant of this module.
THEOREM Migrates == Spec => []MigrationInv
<1>1. Init => MigrationInv
  BY InitMigrates
<1>2. MigrationInv /\ [Next]_vars => MigrationInv'
  BY NextMigrates
<1> QED BY <1>1, <1>2, PTL DEF Spec

\* The version of the database that a connection works on is ahead of the
\* committed one by at most the migration that it is about to commit, and what
\* is not in a transaction is committed.
THEOREM MigrationTypes == Spec => []TypeOK
<1>1. MigrationInv => TypeOK
  <2>1. SUFFICES ASSUME MigrationInv
                 PROVE  TypeOK
    OBVIOUS
  <2>2. WellFormed(disk) /\ disk.version \in 0..HeadVersion
    BY <2>1 DEF MigrationInv, Sound, WellFormed, Databases
  <2>3. /\ WellFormed(work) /\ work.version - disk.version \in 0..1 /\ (~open => work = disk)
        /\ todo # {} => disk.version < HeadVersion /\ todo \subseteq DOMAIN Script(disk.version + 1)
    <3>1. CASE Working /\ todo # {}
      BY <2>2, <3>1 DEF Working, Underway, WellFormed, Databases
    <3>2. CASE Resting /\ todo = {}
      BY <2>2, <3>2 DEF Resting
    <3>3. CASE Finished /\ todo = {}
      BY <2>2, <3>3 DEF Finished, Sound
    <3> QED BY <2>1, <3>1, <3>2, <3>3 DEF MigrationInv
  <2>4. ASSUME NEW db \in {disk, work}
        PROVE  /\ db.schema \subseteq Everything /\ db.rows \subseteq db.schema
               /\ db.nulls \subseteq Statuses
    BY <2>2, <2>3 DEF WellFormed, Databases
  <2>5. Everything = Models \cup UNION {{Legacy(t), Draft(t)} : t \in {Repositories, Backfills}}
    BY DEF Everything, TwoForms
  <2>6. open \in BOOLEAN /\ process \in {"down", "upgrading", "serving"}
    BY <2>1 DEF MigrationInv
  <2> QED BY <2>2, <2>3, <2>4, <2>5, <2>6 DEF TypeOK
<1> QED BY <1>1, Migrates, PTL

\* Everything the models describe is created by some migration; only the table
\* of the backfill states first has an older form.
LEMMA ModelsAreCreated ==
    ASSUME NEW x \in Models
    PROVE  \E m \in 1..7 : \E i \in Creates(m) :
              \/ Migration[m][i].on = x
              \/ x = Table(Backfills) /\ Migration[m][i].on = Legacy(Backfills)
<1> DEFINE Made(y) == \E m \in 1..7 : \E i \in Creates(m) : Migration[m][i].on = y
<1>1. ASSUME NEW m \in 1..7, NEW i \in DOMAIN Migration[m], NEW y, Migration[m][i] = Create(y)
      PROVE  Made(y)
  <2>1. PICK s : s = Migration[m][i]
    OBVIOUS
  <2>2. s.op = "create" /\ s.on = y
    BY <1>1, <2>1 DEF Create
  <2>3. i \in Creates(m)
    BY <2>1, <2>2 DEF Creates
  <2> QED BY <2>1, <2>2, <2>3
<1> HIDE DEF Made
<1>2. \A c : Add(c) = Create(Column(c))
  BY DEF Add, Create
<1>3. /\ DOMAIN Migration[1] = 1..10 /\ DOMAIN Migration[2] = 1..1
      /\ DOMAIN Migration[3] = 1..6 /\ DOMAIN Migration[4] = 1..9
      /\ DOMAIN Migration[5] = 1..1 /\ DOMAIN Migration[6] = 1..8
      /\ DOMAIN Migration[7] = 1..1
  <2>1. ASSUME NEW m \in 1..7
        PROVE  DOMAIN Migration[m] = 1..Len(Migration[m])
    <3>1. PICK S : Migration[m] \in Seq(S)
      BY MigrationsAreSequences
    <3> QED BY <3>1, LenProperties
  <2> QED BY <2>1, Chain, InitialIs, RecentIs, OthersAre
<1>4. /\ Made(Table("contribution_events")) /\ Made(Index("actor_occurred_at"))
      /\ Made(Index("service_occurred_at")) /\ Made(Table("sync_states"))
      /\ Made(Table(Repositories)) /\ Made(Table("actor_aliases"))
  BY <1>1, <1>3, Chain, InitialIs
<1>5. /\ Made(Table("tracked_actors")) /\ Made(Table("discovered_repositories"))
      /\ Made(Column("priority_boosted_at"))
  BY <1>1, <1>2, <1>3, Chain, OthersAre
<1>6. /\ Made(Column("backfill_status")) /\ Made(Column("backfill_started_at"))
      /\ Made(Column("backfill_completed_at")) /\ Made(Column("last_backfill_error"))
      /\ Made(Legacy(Backfills))
  BY <1>1, <1>2, <1>3, Chain, OthersAre
<1>7. /\ Made(Column("recent_backfill_status")) /\ Made(Column("recent_backfill_started_at"))
      /\ Made(Column("recent_backfill_completed_at"))
      /\ Made(Column("last_recent_backfill_error"))
  BY <1>1, <1>2, <1>3, Chain, RecentIs
<1>8. /\ Made(Column("discovery_state")) /\ Made(Column("queued_for_discovery_at"))
      /\ Made(Column("next_poll_after")) /\ Made(Column("last_claimed_at"))
      /\ Made(Column("poll_attempts"))
  BY <1>1, <1>2, <1>3, Chain, OthersAre
<1>9. Made(x) \/ (x = Table(Backfills) /\ Made(Legacy(Backfills)))
  BY <1>4, <1>5, <1>6, <1>7, <1>8 DEF Models
<1> QED BY <1>9 DEF Made

LEMMA ModelsHaveNoOldForms ==
    /\ \A t : Legacy(t) \notin Models
    /\ \A x \in Models : x[2] \in {"table", "legacy"} => x = Table(x[1])
<1>1. ASSUME NEW x \in Models
      PROVE  /\ \A t : x # Legacy(t)
             /\ x[2] \in {"table", "legacy"} => x = Table(x[1])
  <2>1. CASE \E t : x = Table(t)
    BY <2>1, Forms
  <2>2. CASE x \in {Index("actor_occurred_at"), Index("service_occurred_at")}
    BY <2>2 DEF Index, Legacy
  <2>3. CASE \E c \in Columns : x = Column(c)
    BY <2>3 DEF Column, Columns, Legacy
  <2> QED BY <2>1, <2>2, <2>3 DEF Models, Columns
<1> QED BY <1>1

\* ServesCompleteSchema: at the last version nothing is left of an old form, so
\* what the migrations have created is there as the models describe it.
THEOREM CompleteSchemaServed == Spec => []ServesCompleteSchema
<1>1. MigrationInv => ServesCompleteSchema
  <2>1. SUFFICES ASSUME MigrationInv, process = "serving"
                 PROVE  disk.schema = Models
    BY DEF ServesCompleteSchema
  <2>2. Sound(disk) /\ disk.version = 7
    BY <2>1, Chain DEF MigrationInv, Working, Finished, Resting
  <2>3. disk.schema \subseteq Everything
    BY <2>2 DEF Sound, WellFormed, Databases
  <2>4. Legacy(Repositories) \notin disk.schema /\ Legacy(Backfills) \notin disk.schema
    BY <2>2 DEF Sound
  <2>5. \A t \in TwoForms : Legacy(t) \notin disk.schema /\ Draft(t) \notin disk.schema
    BY <2>2, <2>4 DEF Sound, TwoForms
  <2>6. disk.schema \subseteq Models
    BY <2>3, <2>5 DEF Everything
  <2>7. ASSUME NEW x \in Models
        PROVE  x \in disk.schema
    <3>1. PICK m \in 1..7 : \E i \in Creates(m) :
                 \/ Migration[m][i].on = x
                 \/ x = Table(Backfills) /\ Migration[m][i].on = Legacy(Backfills)
      BY ModelsAreCreated
    <3>2. PICK i \in Creates(m) :
                 \/ Migration[m][i].on = x
                 \/ x = Table(Backfills) /\ Migration[m][i].on = Legacy(Backfills)
      BY <3>1
    <3>3. PICK y : y = Migration[m][i].on
      OBVIOUS
    <3>4. Has(disk.schema, y)
      BY <2>2, <3>3 DEF Sound
    <3>5. y \in disk.schema \/ (y[2] \in {"table", "legacy"} /\ Table(y[1]) \in disk.schema)
      BY <2>6, <3>4, ModelsHaveNoOldForms DEF Has
    <3>6. Legacy(Backfills)[1] = Backfills /\ Legacy(Backfills) \notin disk.schema
      BY <2>4, Forms
    <3> QED BY <3>2, <3>3, <3>5, <3>6, ModelsHaveNoOldForms
  <2> QED BY <2>6, <2>7
<1> QED BY <1>1, Migrates, PTL

\* RowsSurvive: a rebuild drops the old form in the transaction in which its
\* draft takes the name of the table.
THEOREM RowsKept == Spec => RowsSurvive
<1>1. MigrationInv /\ [Next]_vars =>
         [\A t \in {Repositories, Backfills} : Kept(t) => Kept(t)']_vars
  BY NextMigrates DEF TwoForms
<1> QED BY <1>1, Migrates, PTL DEF Spec, RowsSurvive

=============================================================================
