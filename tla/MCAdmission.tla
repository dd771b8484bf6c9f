---------------------------- MODULE MCAdmission ----------------------------
(***************************************************************************)
(* Small instances of Admission for TLC.  Only the run without liveness is *)
(* reduced by symmetry.                                                    *)
(***************************************************************************)
EXTENDS Admission, TLC

Symmetry ==
    Permutations(Request) \cup Permutations(IP) \cup Permutations(Gen)
=============================================================================
