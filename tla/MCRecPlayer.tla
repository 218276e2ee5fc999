----------------------------- MODULE MCRecPlayer -----------------------------
(***************************************************************************)
(* Instances of RecPlayer for TLC; the constants are given in the cfgs.    *)
(***************************************************************************)
EXTENDS RecPlayer
=============================================================================
