----------------------------- MODULE MCDiscovery -----------------------------
(* One service of each kind, a display whose device info has the form of a  *)
(* MAC, and a channel with room for one event.  Addresses are               *)
(* interchangeable and only that of `miracast' is ever part of a key, so    *)
(* all services start with the same one.                                    *)
EXTENDS Discovery

CONSTANTS openplay, miracast, maclike, peer, addr1, addr2, label

MCInfo == [s \in {maclike} |-> label]
MCMaxChanges == [s \in Service |-> CASE s = maclike -> 1 [] s = miracast -> 2 [] OTHER -> 3]
MCInit == Init /\ addr = [s \in Service |-> addr1]
MCSpec == MCInit /\ [][Next]_vars /\ Fairness
==============================================================================
