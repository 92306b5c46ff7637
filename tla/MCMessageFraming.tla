-------------------------- MODULE MCMessageFraming --------------------------
(* Two messages with bodies of up to two bytes, in all pieces.             *)
EXTENDS MessageFraming
=============================================================================
