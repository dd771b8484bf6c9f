--------------------------- MODULE MCReportStore ---------------------------
(***************************************************************************)
(* Small instances of ReportStore for TLC.  Promoters and ids are          *)
(* interchangeable, so the run for the cap is reduced by symmetry; the one *)
(* that also checks liveness is not.                                       *)
(***************************************************************************)
EXTENDS ReportStore, TLC

Symmetry == Permutations(Promoter) \cup Permutations(Id)
=============================================================================
