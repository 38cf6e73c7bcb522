--------------------------- MODULE MCTodoBackfill ---------------------------
(***************************************************************************)
(* Instances of TodoBackfill for TLC: three trackers, of which one has     *)
(* several pages of tickets and one has none, and tickets of several pages *)
(* of events.                                                              *)
(***************************************************************************)
EXTENDS TodoBackfill

MCTrackerOf == <<1, 1, 1, 3>>
MCWorld == <<<<0, 1, 2>>, <<0, 1>>, <<1, 1, 2>>, <<2>>>>
=============================================================================
