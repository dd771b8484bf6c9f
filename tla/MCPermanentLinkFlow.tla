------------------------- MODULE MCPermanentLinkFlow -------------------------
(***************************************************************************)
(* An instance of PermanentLinkFlow for TLC: three results of a cache for  *)
(* two, two promotions at a time, one report that is made again and again. *)
(* Safety and liveness share a run, so symmetry is not used.               *)
(***************************************************************************)
EXTENDS PermanentLinkFlow
=============================================================================
