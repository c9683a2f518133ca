------------------------ MODULE MCNetworkTransaction -------------------------
(* Constants are in MCNetworkTransaction.cfg (a change is requested when the *)
(* last one is over) and MCNetworkOverlap.cfg (at any time).                 *)
EXTENDS NetworkTransaction
=============================================================================
