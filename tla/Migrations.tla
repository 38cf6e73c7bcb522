----------------------------- MODULE Migrations -----------------------------
(***************************************************************************)
(* The container upgrades its database before it serves (alembic upgrade   *)
(* head), and is restarted whenever it ends.  A migration looks at the     *)
(* schema, decides what to do and runs its statements.  They are not one   *)
(* transaction: in the SQLite driver a CREATE or ALTER outside of a        *)
(* transaction is committed at once, the first INSERT or UPDATE begins a   *)
(* transaction, and alembic commits after it has written the version.      *)
(* Whoever dies in between leaves a schema that the next attempt has to    *)
(* cope with.                                                              *)
(***************************************************************************)
EXTENDS Naturals, Sequences

CONSTANT MaxCrashes      \* bound

ASSUME CrashesAssumption == MaxCrashes \in Nat

(***************************************************************************)
(* The things that a schema is made of, by table.  A table that is rebuilt *)
(* has two more forms: the one it had before and the draft of the new one. *)
(***************************************************************************)
Table(t) == <<t, "table">>
Legacy(t) == <<t, "legacy">>
Draft(t) == <<t, "draft">>
Column(c) == <<"tracked_actors", c>>
Index(i) == <<"contribution_events", i>>

\* Statements.
Create(x) == [op |-> "create", on |-> x]
Add(c) == [op |-> "create", on |-> Column(c)]
Fill(c) == [op |-> "fill", on |-> Column(c)]      \* UPDATE ... WHERE c IS NULL
Update(c) == [op |-> "update", on |-> Column(c)]  \* UPDATE, whatever there was
Version == [op |-> "version", on |-> Table("alembic_version")]

\* The four statements that rebuild a table.
Redraft(t) == [op |-> "draft", on |-> Draft(t)]
Copy(t) == [op |-> "copy", on |-> Draft(t)]
Drop(t) == [op |-> "drop", on |-> Legacy(t)]
Rename(t) == [op |-> "rename", on |-> Table(t)]

Repositories == "tracked_repositories"
Backfills == "service_backfill_states"

Initial == <<Create(Table("contribution_events")),
             Create(Index("actor_occurred_at")), Create(Index("service_occurred_at")),
             Create(Table("sync_states")), Create(Table(Repositories)),
             Redraft(Repositories), Copy(Repositories), Drop(Repositories),
             Rename(Repositories), Create(Table("actor_aliases"))>>
TrackedActors == <<Create(Table("tracked_actors"))>>
BackfillState == <<Add("backfill_status"), Fill("backfill_status"),
                   Add("backfill_started_at"), Add("backfill_completed_at"),
                   Add("last_backfill_error"), Create(Legacy(Backfills))>>
RecentBackfillScope == <<Add("recent_backfill_status"), Fill("recent_backfill_status"),
                         Add("recent_backfill_started_at"),
                         Add("recent_backfill_completed_at"),
                         Add("last_recent_backfill_error"), Redraft(Backfills),
                         Copy(Backfills), Drop(Backfills), Rename(Backfills)>>
DiscoveredRepositories == <<Create(Table("discovered_repositories"))>>
QueueScheduling == <<Add("discovery_state"), Add("queued_for_discovery_at"),
                     Add("next_poll_after"), Add("last_claimed_at"), Add("poll_attempts"),
                     Update("discovery_state"), Update("queued_for_discovery_at"),
                     Update("next_poll_after")>>
PriorityBoost == <<Add("priority_boosted_at")>>

Migration == <<Initial, TrackedActors, BackfillState, RecentBackfillScope,
               DiscoveredRepositories, QueueScheduling, PriorityBoost>>
HeadVersion == Len(Migration)

\* The version is written last.
Script(m) == Append(Migration[m], Version)

\* What the program expects.
Models ==
    {Table(t) : t \in {"contribution_events", "sync_states", Repositories, "actor_aliases",
                       "tracked_actors", "discovered_repositories", Backfills}}
    \cup {Index("actor_occurred_at"), Index("service_occurred_at")}
    \cup {Column(c) : c \in
            {"backfill_status", "backfill_started_at", "backfill_completed_at",
             "last_backfill_error", "recent_backfill_status", "recent_backfill_started_at",
             "recent_backfill_completed_at", "last_recent_backfill_error",
             "discovery_state", "queued_for_discovery_at", "next_poll_after",
             "last_claimed_at", "poll_attempts", "priority_boosted_at"}}

\* The statuses that no row may leave empty; the other columns may be NULL or
\* have a default.
Statuses == {Column("backfill_status"), Column("recent_backfill_status")}

-----------------------------------------------------------------------------
VARIABLES
    disk,     \* the committed database: its version, its schema, which forms of a
              \* rebuilt table hold its old rows, which statuses are NULL in a row
    work,     \* the database that the connection sees
    open,     \* a transaction is open
    todo,     \* what is left to run of the script under way
    process,  \* "down", "upgrading" or "serving"
    actors,   \* there are tracked actors
    crashes

vars == <<disk, work, open, todo, process, actors, crashes>>

Creates(m) == {i \in DOMAIN Migration[m] : Migration[m][i].op = "create"}

\* The schema of a database that was upgraded to version v and no further.
SchemaOf(v) ==
    LET made == UNION {{Migration[m][i].on : i \in Creates(m)} : m \in 1..v}
    IN  IF v < 4 THEN made ELSE (made \ {Legacy(Backfills)}) \cup {Table(Backfills)}

\* The database of a program older than its migrations.
Unversioned == (SchemaOf(1) \ {Table(Repositories)}) \cup {Legacy(Repositories)}

\* A database that does not exist, one without a version, or a deployed one.
Init ==
    /\ \E v \in 0..HeadVersion : \E schema \in {SchemaOf(v), Unversioned} :
          /\ schema = Unversioned => v = 0
          /\ disk = [version |-> v, schema |-> schema, nulls |-> {},
                     rows |-> schema \cap {Legacy(Repositories), Legacy(Backfills)}]
          /\ actors \in {FALSE, v > 1}
    /\ work = disk /\ open = FALSE /\ todo = {}
    /\ process = "down" /\ crashes = 0

-----------------------------------------------------------------------------
\* A form of a table other than its draft, or a column or an index, is there.
Present(x) ==
    \/ x \in disk.schema
    \/ x[2] \in {"table", "legacy"} /\ {Table(x[1]), Legacy(x[1])} \cap disk.schema # {}

\* _tracked_repositories_needs_upgrade, _service_backfill_needs_upgrade.
Outdated(t) == Legacy(t) \in disk.schema

\* What a migration does depends on what it finds.
Applies(s) ==
    /\ s.op \in {"create", "fill"} => ~Present(s.on)
    /\ s.op \in {"draft", "copy", "drop", "rename"} => Outdated(s.on[1])

\* Mutants: a migration that was begun is taken for done; the guards are missing.
Plan_IfNotBegun(m) ==
    IF Present(Migration[m][1].on) THEN {} ELSE {i \in DOMAIN Migration[m] : Applies(Migration[m][i])}
Plan_Unguarded(m) == DOMAIN Migration[m]

\* It looks before it runs anything.
Plan(m) == {i \in DOMAIN Migration[m] : Applies(Migration[m][i])}

\* "table already exists": a draft is created without a look at what there is.
Possible(s) == s.op \in {"create", "draft"} => s.on \notin work.schema

Effect(s, db) ==
    LET t == s.on[1]
    IN  CASE s.op \in {"create", "draft"} ->
                 [db EXCEPT !.schema = @ \cup {s.on},
                            !.nulls = IF actors THEN @ \cup ({s.on} \cap Statuses) ELSE @]
          [] s.op = "fill" -> [db EXCEPT !.nulls = @ \ {s.on}]
          [] s.op = "copy" -> [db EXCEPT !.rows = @ \cup {s.on}]
          [] s.op = "drop" -> [db EXCEPT !.schema = @ \ {s.on}, !.rows = @ \ {s.on}]
          [] s.op = "rename" ->
                 [db EXCEPT !.schema = (@ \ {Draft(t)}) \cup {s.on},
                            !.rows = (@ \ {Draft(t)}) \cup {s.on}]
          [] s.op = "version" -> [db EXCEPT !.version = @ + 1]
          [] OTHER -> db

\* Mutant: every CREATE, DROP or ALTER is committed at once.
Transactional_NoDdl(s) == s.op \in {"fill", "copy", "update", "version"}

\* The statements that begin a transaction, or are part of one.
Transactional(s) == open \/ s.op \in {"fill", "copy", "update", "version"}

-----------------------------------------------------------------------------
Boot ==
    /\ process = "down"
    /\ process' = "upgrading"
    /\ UNCHANGED <<disk, work, open, todo, actors, crashes>>

Upgrading == process = "upgrading"

BeginMigration ==
    /\ Upgrading /\ todo = {} /\ ~open
    /\ disk.version < HeadVersion
    /\ todo' = Plan(disk.version + 1) \cup {Len(Script(disk.version + 1))}
    /\ UNCHANGED <<disk, work, open, process, actors, crashes>>

Statement(i) == Script(disk.version + 1)[i]
IsNext(i) == i \in todo /\ \A j \in todo : i <= j

Run(i) ==
    /\ Upgrading /\ IsNext(i)
    /\ LET s == Statement(i)
       IN  /\ Possible(s)
           /\ work' = Effect(s, work)
           /\ open' = Transactional(s)
           /\ disk' = IF Transactional(s) THEN disk ELSE work'
    /\ todo' = todo \ {i}
    /\ UNCHANGED <<process, actors, crashes>>

\* Mutant: what is left open is not committed.
CommitMigration_Forgotten ==
    /\ Upgrading /\ todo = {} /\ open
    /\ open' = FALSE
    /\ UNCHANGED <<disk, work, todo, process, actors, crashes>>

CommitMigration ==
    /\ Upgrading /\ todo = {} /\ open
    /\ disk' = work /\ open' = FALSE
    /\ UNCHANGED <<work, todo, process, actors, crashes>>

Serve ==
    /\ Upgrading /\ todo = {} /\ ~open
    /\ disk.version = HeadVersion
    /\ process' = "serving"
    /\ UNCHANGED <<disk, work, open, todo, actors, crashes>>

Stop == process' = "down" /\ todo' = {} /\ open' = FALSE /\ work' = disk

\* The upgrade ends, and the container with it.
Fail ==
    /\ Upgrading /\ \E i \in todo : IsNext(i) /\ ~Possible(Statement(i))
    /\ Stop
    /\ UNCHANGED <<disk, actors, crashes>>

Crash ==
    /\ process # "down" /\ crashes < MaxCrashes
    /\ Stop
    /\ crashes' = crashes + 1
    /\ UNCHANGED <<disk, actors>>

Next == Boot \/ BeginMigration \/ (\E i \in todo : Run(i)) \/ CommitMigration \/ Serve \/ Fail \/ Crash

\* A stopped container is started again, and what runs goes on.
Spec == Init /\ [][Next]_vars /\ WF_vars(Next)

-----------------------------------------------------------------------------
TypeOK ==
    /\ disk.version \in 0..HeadVersion /\ work.version - disk.version \in 0..1
    /\ \A db \in {disk, work} :
          /\ db.schema \subseteq Models \cup UNION {{Legacy(t), Draft(t)} : t \in {Repositories, Backfills}}
          /\ db.rows \subseteq db.schema
          /\ db.nulls \subseteq Statuses
    /\ todo # {} => disk.version < HeadVersion /\ todo \subseteq DOMAIN Script(disk.version + 1)
    /\ open \in BOOLEAN /\ process \in {"down", "upgrading", "serving"}
    /\ ~open => work = disk

\* The program never meets a schema that is not the one its models describe,
\* however often and wherever the upgrade was cut off before.
ServesCompleteSchema == process = "serving" => disk.schema = Models

\* The rows of a table that is rebuilt are in one of its two forms, never only
\* in the draft or nowhere.
Kept(t) == {Legacy(t), Table(t)} \cap disk.rows # {}
RowsSurvive == [][\A t \in {Repositories, Backfills} : Kept(t) => Kept(t)']_vars

\* The upgrade comes to an end, and the program serves, unless a death has left
\* a draft behind: every later attempt fails on it.
UpgradeEnds ==
    process = "down" ~>
        \/ process = "serving"
        \/ \E t \in {Repositories, Backfills} : Draft(t) \in disk.schema

-----------------------------------------------------------------------------
(***************************************************************************)
(* What the code declares, and a crash breaks.                             *)
(***************************************************************************)
\* models.py, schemas.py: the backfill status of an actor is never NULL.
StatusIsNeverNull ==
    process = "serving" => Column("recent_backfill_status") \notin disk.nulls
=============================================================================
