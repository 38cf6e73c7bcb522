----------------------------- MODULE MCCalendar -----------------------------
(***************************************************************************)
(* Instances of Calendar for TLC: two events on the first day, of which    *)
(* the window loses one before the other; two at the same instant, of      *)
(* which the backfill may miss one; one on the last day.                   *)
(***************************************************************************)
EXTENDS Calendar, TLC

CONSTANTS early, issue, comment, touched, late

MCAt == early :> 0 @@ issue :> 1 @@ comment :> 2 @@ touched :> 2 @@ late :> 5
MCBatchOf == early :> 1 @@ issue :> 2 @@ comment :> 1 @@ late :> 2
=============================================================================
