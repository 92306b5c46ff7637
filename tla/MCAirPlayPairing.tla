--------------------------- MODULE MCAirPlayPairing ---------------------------
(* Two accessories, one of which is careless, and three calls: enough to     *)
(* pair with both, or to pair, pair again and verify.                        *)
EXTENDS AirPlayPairing

CONSTANTS acc1, acc2
===============================================================================
