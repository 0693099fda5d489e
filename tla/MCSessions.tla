----------------------------- MODULE MCSessions -----------------------------
(* Two tabs of a browser with two requests each. *)
EXTENDS Sessions
=============================================================================
