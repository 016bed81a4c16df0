------------------------------- MODULE MCFiles -------------------------------
(* Instance of Files for TLC.  Symmetry is not used: the run checks liveness. *)
EXTENDS Files
=============================================================================
