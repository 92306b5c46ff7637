---------------------------- MODULE MCMiracastCast ----------------------------
(* MiracastCast for model checking. *)
EXTENDS MiracastCast
===============================================================================
