------------------------------ MODULE MCGfdJob ------------------------------
(* GfdJob for TLC; the bounds are in the configurations. *)
EXTENDS GfdJob
============================================================================
