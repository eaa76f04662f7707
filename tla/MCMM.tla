-------------------------------- MODULE MCMM --------------------------------
(* Instances of MM for TLC. *)
EXTENDS MM
=============================================================================
