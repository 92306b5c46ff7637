----------------------------- MODULE MCSenderApp -----------------------------
(* SenderApp for model checking. *)
EXTENDS SenderApp
=============================================================================
