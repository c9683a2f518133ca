---------------------------- MODULE MCRtSchedule ----------------------------
(* RtSchedule on a small clock: a period of three units with a busy tail of  *)
(* one unit, and enough time for steps that overrun by two periods.          *)
EXTENDS RtSchedule
=============================================================================
