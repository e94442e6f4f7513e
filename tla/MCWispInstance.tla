--------------------------- MODULE MCWispInstance ---------------------------
(* Two grants, two calls per run and two runs for TLC.                     *)
EXTENDS WispInstance
=============================================================================
