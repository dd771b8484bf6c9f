------------------------------ MODULE MCFanOut ------------------------------
(***************************************************************************)
(* An instance of FanOut for TLC: two entries, of one ID or of two, and    *)
(* one token.                                                              *)
(***************************************************************************)
EXTENDS FanOut
=============================================================================
