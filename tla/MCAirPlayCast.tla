---------------------------- MODULE MCAirPlayCast ----------------------------
(* Two AirPlay casts, the second of which may meet what the first left.    *)
(* The encoder delivers every kind of frame in the first; in the second it *)
(* has nothing but frames without a parameter set.                         *)
EXTENDS AirPlayCast

AnyThenDelta == <<Frame, {"delta"}>>
==============================================================================
