-------------------------- MODULE MCReceiverSession --------------------------
(* ReceiverSession for model checking: connections are alike, and so are names. *)
EXTENDS ReceiverSession, TLC

Symmetry == Permutations(Connections) \cup Permutations(Names)
=============================================================================
