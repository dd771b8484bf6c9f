--------------------------- MODULE MCProbeStream ---------------------------
(***************************************************************************)
(* An instance of ProbeStream for TLC: one stream of at most MaxLines      *)
(* lines, of a subprocess or of an agent.  The handler returns at the end, *)
(* so the runs allow deadlock.                                             *)
(***************************************************************************)
EXTENDS ProbeStream
=============================================================================
