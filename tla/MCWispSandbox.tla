---------------------------- MODULE MCWispSandbox ---------------------------
(* The supervised system for TLC.                                          *)
EXTENDS WispSandbox
=============================================================================
