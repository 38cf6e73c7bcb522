---------------------------- MODULE BackfillScan ----------------------------
(***************************************************************************)
(* What the poller relies on when it drives the backfill of one service by *)
(* fetch_recent_backfill_batch, whatever the cursor looks like: passes     *)
(* only add events to what is committed, and the backfill is reported      *)
(* complete only when everything it promises is.                           *)
(***************************************************************************)
CONSTANT Events          \* the contributions there may be

VARIABLES
    stored,     \* the events committed
    window,     \* the events a complete backfill has to have
    status      \* ServiceBackfillState.status

scanVars == <<stored, window, status>>

ScanInit ==
    /\ stored = {}
    /\ window \in SUBSET Events
    /\ status = "in_progress"

\* A pass commits; it may have found nothing.
CommitPass ==
    /\ status = "in_progress"
    /\ stored' \in SUBSET Events
    /\ stored \subseteq stored'
    /\ UNCHANGED window
    /\ status' \in {"in_progress", "completed"}
    /\ status' = "completed" => window \subseteq stored'

\* Events fall out of the window as time passes, and out of the promise.
Shrink ==
    /\ window' \in SUBSET window
    /\ UNCHANGED <<stored, status>>

ScanNext == CommitPass \/ Shrink

ScanSpec == ScanInit /\ [][ScanNext]_scanVars
=============================================================================
