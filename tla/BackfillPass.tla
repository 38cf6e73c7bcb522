---------------------------- MODULE BackfillPass ----------------------------
(***************************************************************************)
(* A pass over one service of the backfill: the part of                    *)
(* _run_backfill_scope that does not depend on the service, in the         *)
(* transaction of poll_recent_backfill.  It starts from the committed      *)
(* cursor, fetches a few batches, and commits the last cursor with all the *)
(* events, or is rolled back.  TodoBackfill and GitBackfill say what a     *)
(* batch is; PollQueue says how several passes get along.                  *)
(***************************************************************************)
EXTENDS Integers

CONSTANTS
    Start,               \* when the backfill starts
    BatchesPerService,   \* RECENT_BACKFILL_BATCHES_PER_SERVICE
    MaxFailures          \* bound: passes that fail

ASSUME PassAssumption ==
    /\ Start \in Nat
    /\ BatchesPerService \in Nat \ {0}
    /\ MaxFailures \in Nat

VARIABLES
    since,      \* the start of the window, as of the last pass begun
    saved,      \* the committed cursor (cursor_json)
    stored,     \* the committed events
    status,     \* the committed status
    running,    \* a pass is under way
    tries,      \* the batches it may still fetch
    state,      \* its cursor; the committed one when no pass is under way
    fetched,    \* its events
    complete,   \* what its last batch reported
    failures    \* passes that have failed

committed == <<saved, stored, status>>
passVars == <<since, committed, running, tries, state, fetched, complete, failures>>

PassTypeOK(State, Events) ==
    /\ since \in 0..Start
    /\ saved \in State /\ state \in State
    /\ stored \subseteq Events /\ fetched \subseteq Events
    /\ status \in {"in_progress", "completed"}
    /\ running \in BOOLEAN /\ complete \in BOOLEAN
    /\ tries \in 0..BatchesPerService
    /\ failures \in 0..MaxFailures

PassInit(first) ==
    /\ since \in 0..Start
    /\ saved = first /\ stored = {} /\ status = "in_progress"
    /\ running = FALSE /\ tries = 0 /\ state = first /\ fetched = {} /\ complete = FALSE
    /\ failures = 0

\* The window starts later every time: RETENTION_DAYS before the pass.
Begin ==
    /\ ~running /\ status = "in_progress"
    /\ running' = TRUE
    /\ since' \in since..Start
    /\ tries' = BatchesPerService /\ state' = saved
    /\ UNCHANGED <<committed, fetched, complete, failures>>

\* Mutant: a pass goes on until the backfill is complete.
MayFetch_Unbounded == running /\ ~complete

MayFetch == running /\ tries > 0 /\ ~complete

\* A batch is fetched: its events, the next cursor, and whether that is all.
Return(events, next, done) ==
    /\ MayFetch
    /\ fetched' = fetched \cup events
    /\ state' = next
    /\ complete' = done
    /\ tries' = tries - 1
    /\ UNCHANGED <<since, committed, running, failures>>

Rest == running' = FALSE /\ tries' = 0 /\ state' = saved' /\ fetched' = {} /\ complete' = FALSE

\* Mutant: the JSON of the cursor is changed in place, which the session does
\* not see as a change.
Commit_InPlace ==
    /\ running
    /\ tries = 0 \/ complete
    /\ stored' = stored \cup fetched
    /\ status' = IF complete THEN "completed" ELSE "in_progress"
    /\ UNCHANGED <<since, saved, failures>>
    /\ Rest

Commit ==
    /\ running
    /\ tries = 0 \/ complete
    /\ saved' = state
    /\ stored' = stored \cup fetched
    /\ status' = IF complete THEN "completed" ELSE "in_progress"
    /\ Rest
    /\ UNCHANGED <<since, failures>>

\* A batch cannot be fetched, or the process dies: the pass is rolled back.
Fail ==
    /\ running
    /\ failures < MaxFailures
    /\ failures' = failures + 1
    /\ UNCHANGED <<since, committed>>
    /\ Rest
=============================================================================
