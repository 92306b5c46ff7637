----------------------------- MODULE MCCastSystem -----------------------------
(* CastSystem for model checking: connections are alike, and so are names. *)
EXTENDS CastSystem, TLC

Symmetry == Permutations(Connections) \cup Permutations(Names)
=============================================================================
