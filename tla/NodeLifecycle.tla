---------------------------- MODULE NodeLifecycle ----------------------------
(***************************************************************************)
(* What node construction promises the host, with no store, no steps and  *)
(* no faults: a node comes up and goes down, again and again, and it       *)
(* always comes up as the identity it first came up with.  The detailed    *)
(* NodeConstruction model is checked to implement this specification.      *)
(***************************************************************************)
CONSTANTS Identities

VARIABLES
    up,        \* the host holds a running node (EVENT_UP was posted)
    owned,     \* the identity the node was first up with, or "none"
    current    \* the identity of the running node, or "none" when down

vars == <<up, owned, current>>

Init == up = FALSE /\ owned = "none" /\ current = "none"

(* The node comes up: as a new identity the first time, as the owned one   *)
(* every time after.                                                       *)
Up ==
    /\ ~up
    /\ \E i \in IF owned = "none" THEN Identities ELSE {owned} :
          /\ current' = i
          /\ owned' = i
    /\ up' = TRUE

(* The node is destroyed, or its process dies. *)
Down ==
    /\ up
    /\ up' = FALSE /\ current' = "none"
    /\ UNCHANGED owned

Spec == Init /\ [][Up \/ Down]_vars

=============================================================================
