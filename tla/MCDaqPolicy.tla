---------------------------- MODULE MCDaqPolicy -----------------------------
(* Constants are in MCDaqPolicy.cfg: bursts shorter than an event, as long    *)
(* as one and longer all fit on the wire.                                     *)
EXTENDS DaqPolicy
=============================================================================
