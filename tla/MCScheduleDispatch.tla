------------------------- MODULE MCScheduleDispatch -------------------------
(* The instance TLC runs: the jobs are those of the occurrences. *)
EXTENDS ScheduleDispatch

MCOccurrences == Schedules \X (1 .. MaxTime)
=============================================================================
