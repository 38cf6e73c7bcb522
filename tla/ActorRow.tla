------------------------------ MODULE ActorRow ------------------------------
(***************************************************************************)
(* A row of the tracked_actors table and what the poller does to one: the  *)
(* pure part of PollerService.  Every operator maps the attributes a       *)
(* session holds for the row, at time t, to the attributes it holds after  *)
(* the call.  Merge is the unit of work of the ORM: of the attributes the  *)
(* session holds, only the ones that differ from what it loaded reach the  *)
(* table.                                                                  *)
(***************************************************************************)
EXTENDS Integers

CONSTANTS
    RepollSeconds,       \* indexed_actor_repoll_seconds
    BackoffSeconds,      \* discovery_error_backoff_seconds
    BackoffMaxSeconds,   \* discovery_error_backoff_max_seconds
    AttemptCap           \* bound of the model: poll_attempts saturates here

ASSUME SettingsAssumption ==
    /\ RepollSeconds \in Nat
    /\ BackoffSeconds \in Nat
    /\ BackoffMaxSeconds \in Nat

\* From AttemptCap on the backoff is its maximum, so larger values of
\* poll_attempts behave as AttemptCap does.
ASSUME AttemptCapAssumption ==
    /\ AttemptCap \in Nat \ {0}
    /\ BackoffSeconds * AttemptCap >= BackoffMaxSeconds

Never == -1              \* NULL in priority_boosted_at

(***************************************************************************)
(* "absent" stands for a row that is not in the table.                     *)
(***************************************************************************)
DiscoveryStates == {"absent", "queued", "in_progress", "indexed", "error"}
BackfillStatuses == {"pending", "in_progress", "completed", "error"}

Row == [state    : DiscoveryStates,      \* discovery_state
        boosted  : Nat \cup {Never},     \* priority_boosted_at
        due      : Nat,                  \* next_poll_after
        attempts : 0..AttemptCap,        \* poll_attempts
        polled   : BOOLEAN,              \* last_polled_at is not None
        backfill : BackfillStatuses]     \* recent_backfill_status

AbsentRow == [state |-> "absent", boosted |-> Never, due |-> 0,
              attempts |-> 0, polled |-> FALSE, backfill |-> "pending"]

Tracked(row) == row.state # "absent"

-----------------------------------------------------------------------------
NewRow(t) == [AbsentRow EXCEPT !.state = "queued", !.due = t]

\* track_actor_request: register the actor if need be, boost it if asked to.
TrackRequest(row, t, prioritize) ==
    LET known == IF Tracked(row) THEN row ELSE NewRow(t)
    IN  IF prioritize
        THEN [known EXCEPT !.boosted = t, !.due = t]
        ELSE known

\* Mutant: the claim doubles as a lease and moves the due time.
Claimed_Deferred(row) ==
    [row EXCEPT !.state = "in_progress", !.due = @ + BackoffSeconds,
                !.attempts = IF @ < AttemptCap THEN @ + 1 ELSE AttemptCap]

\* The claim of a scheduled pass.
Claimed(row) ==
    [row EXCEPT !.state = "in_progress",
                !.attempts = IF @ < AttemptCap THEN @ + 1 ELSE AttemptCap]

\* _update_tracked_actor_poll_state with status "indexed".
Indexed(row, t) ==
    [TrackRequest(row, t, FALSE) EXCEPT
        !.state = "indexed", !.polled = TRUE, !.due = t + RepollSeconds,
        !.boosted = Never, !.attempts = 0]

\* Mutants: a backoff into the past; a backoff without its maximum.
Backoff_Negative(attempts) == -BackoffSeconds
Backoff_Uncapped(attempts) == BackoffSeconds * (IF attempts < 1 THEN 1 ELSE attempts)

Backoff(attempts) ==
    LET linear == BackoffSeconds * (IF attempts < 1 THEN 1 ELSE attempts)
    IN  IF linear < BackoffMaxSeconds THEN linear ELSE BackoffMaxSeconds

\* Mutant: a failed poll marks the backfill as failed, too.
Errored_WithBackfill(row, t) ==
    LET known == TrackRequest(row, t, FALSE)
    IN  [known EXCEPT !.state = "error", !.boosted = Never, !.backfill = "error",
                      !.due = t + Backoff(known.attempts)]

\* Mutant: the failure counts as one more attempt.
Errored_Counted(row, t) ==
    LET known == TrackRequest(row, t, FALSE)
    IN  [known EXCEPT !.state = "error", !.boosted = Never, !.attempts = @ + 1,
                      !.due = t + Backoff(known.attempts)]

\* _update_tracked_actor_poll_state with status "error".
Errored(row, t) ==
    LET known == TrackRequest(row, t, FALSE)
    IN  [known EXCEPT !.state = "error", !.boosted = Never,
                      !.due = t + Backoff(known.attempts)]

\* _schedule_pending_backfill_or_repoll.
Rescheduled(row, t) ==
    [TrackRequest(row, t, FALSE) EXCEPT
        !.state = "indexed", !.boosted = Never, !.attempts = 0,
        !.due = IF row.backfill = "completed" THEN t + RepollSeconds ELSE t]

\* The farthest a row's due time may lie in the future.
Horizon == IF RepollSeconds < BackoffMaxSeconds
           THEN BackoffMaxSeconds ELSE RepollSeconds

-----------------------------------------------------------------------------
\* Mutant: once polled, an actor is backfilled for good.
BackfillOnly_Always(row) == row.polled

\* A scheduled pass only advances the backfill of an actor polled before.
BackfillOnly(row) == row.polled /\ row.backfill # "completed"

IsDue(row, t) == Tracked(row) /\ row.due <= t

\* Mutant: the actor that became due last comes first.
Ahead_LatestFirst(r1, r2) ==
    \/ r1.boosted > r2.boosted
    \/ r1.boosted = r2.boosted /\ r1.due > r2.due

\* The ORDER BY of the selection; rows it does not separate (the code goes on
\* with queued_for_discovery_at and the name) may come in either order.
Ahead(r1, r2) ==
    \/ r1.boosted > r2.boosted
    \/ r1.boosted = r2.boosted /\ r1.due < r2.due

\* The sequences the selection may return from a table of rows: the first
\* `limit` due actors in order.
Selections(rows, t, limit) ==
    LET due == {a \in DOMAIN rows : IsDue(rows[a], t)}
    IN  {q \in UNION {[1..n -> due] : n \in 0..limit} :
            /\ DOMAIN q = 1..limit \/ \A b \in due : \E j \in DOMAIN q : q[j] = b
            /\ \A i \in DOMAIN q :
                  /\ \A j \in 1..(i - 1) : q[j] # q[i]
                  /\ \A b \in due :
                        Ahead(rows[b], rows[q[i]]) => \E j \in 1..(i - 1) : q[j] = b}

-----------------------------------------------------------------------------
\* What the table holds for an attribute after a session that loaded `base`
\* for it and now holds `held` flushes over the current value `stored`.
Net(stored, base, held) == IF held # base THEN held ELSE stored

Merge(stored, base, held) ==
    [state    |-> Net(stored.state, base.state, held.state),
     boosted  |-> Net(stored.boosted, base.boosted, held.boosted),
     due      |-> Net(stored.due, base.due, held.due),
     attempts |-> Net(stored.attempts, base.attempts, held.attempts),
     polled   |-> Net(stored.polled, base.polled, held.polled),
     backfill |-> Net(stored.backfill, base.backfill, held.backfill)]

\* The same after a call that has set next_poll_after: a new timestamp, unlike
\* the model's clock, always differs from the one that was loaded.
Stamp(stored, base, held) ==
    [Merge(stored, base, held) EXCEPT
        !.due = held.due,
        !.boosted = IF held.boosted = Never THEN @ ELSE held.boosted]
=============================================================================
