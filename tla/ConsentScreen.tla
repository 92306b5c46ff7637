---------------------------- MODULE ConsentScreen ----------------------------
(***************************************************************************)
(* What the receiver promises about its one screen, with no messages,      *)
(* windows, pipelines or timers.                                           *)
(*                                                                         *)
(* At most one connection is waiting for an answer, at most one owns the   *)
(* screen, a connection gets the screen only after the user pressed Allow  *)
(* on its prompt and while it is still waiting, and the screen never goes  *)
(* from one owner to another without being free in between (the module     *)
(* comment "One session runs at a time, because there is one screen" of    *)
(* crates/openplay-receiver/src/net.rs).                                   *)
(***************************************************************************)
CONSTANTS Connections, NoConn

VARIABLES
    owner,      \* the connection that has the screen
    asking,     \* the connections waiting for the user's answer
    granted     \* the connections on whose prompt the user pressed Allow

vars == <<owner, asking, granted>>

Init == owner = NoConn /\ asking = {} /\ granted = {}

(* c asks for the screen, for the first time or again. *)
Ask(c) ==
    /\ owner \in {NoConn, c}
    /\ asking \subseteq {c}
    /\ asking' = {c}
    /\ UNCHANGED <<owner, granted>>

(* The user presses Allow on the prompt of c. *)
Grant(c) ==
    /\ granted' = granted \cup {c}
    /\ UNCHANGED <<owner, asking>>

(* The screen goes to c, which is waiting for it and was allowed it. *)
Admit(c) ==
    /\ c \in asking \cap granted
    /\ owner' = c
    /\ asking' = asking \ {c}
    /\ UNCHANGED granted

(* Requests are withdrawn, denied or dropped. *)
Withdraw ==
    /\ asking' \in SUBSET asking
    /\ UNCHANGED <<owner, granted>>

(* The session ends, and requests may be dropped with it. *)
Finish ==
    /\ owner # NoConn
    /\ owner' = NoConn
    /\ asking' \in SUBSET asking
    /\ UNCHANGED granted

Next ==
    \/ \E c \in Connections : Ask(c) \/ Grant(c) \/ Admit(c)
    \/ Withdraw
    \/ Finish

Spec == Init /\ [][Next]_vars
=============================================================================
