--------------------------- MODULE MCHostController ---------------------------
(* Constants are in MCHostController.cfg and MCHostStream.cfg (an uncertain  *)
(* stream keeps its Stop).                                                   *)
EXTENDS HostController
=============================================================================
