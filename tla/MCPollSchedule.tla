--------------------------- MODULE MCPollSchedule ---------------------------
(***************************************************************************)
(* Instances of PollSchedule for TLC: more actors than a pass takes.       *)
(***************************************************************************)
EXTENDS PollSchedule

CONSTANTS a1, a2

MCFile == <<a1, a2>>
=============================================================================
