---------------------------- MODULE MCXcpSession ----------------------------
(* Three byte cells; "wide" and "alias" share the middle one.               *)
EXTENDS XcpSession, TLC

MCSpan == "wide" :> {1, 2} @@ "alias" :> {2, 3} @@ "byte" :> {3}
=============================================================================
