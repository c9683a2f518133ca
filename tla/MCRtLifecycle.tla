--------------------------- MODULE MCRtLifecycle ----------------------------
(* RtLifecycle with a step counter of three values: enough to tell the old,  *)
(* the new and the next publication apart.                                   *)
EXTENDS RtLifecycle
=============================================================================
