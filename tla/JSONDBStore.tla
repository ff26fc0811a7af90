------------------------------ MODULE JSONDBStore ------------------------------
(***************************************************************************)
(* What the controller store promises its readers: a map from network id  *)
(* to a network config and a member map, changed only by whole operations *)
(* (save a network, save a member, erase a member, erase a network) or by  *)
(* a record read from the IPC input, each taking effect at once.  No       *)
(* persisted copy, no summary, no threads.  JSONDB is checked to           *)
(* implement this specification.                                           *)
(***************************************************************************)
CONSTANTS
    Nwids, Mids, Configs, MemberConfigs,
    EmptyConfig,   \* the config of a network created by saving a member
    InitStore      \* the store as loaded at startup (outside IPC mode)

VARIABLE store

LOCAL Upd(f, k, v) == [x \in DOMAIN f \cup {k} |-> IF x = k THEN v ELSE f[x]]
LOCAL Del(f, k) == [x \in DOMAIN f \ {k} |-> f[x]]

(* The record of network n, or an empty one if it does not exist. *)
Rec(n) == IF n \in DOMAIN store THEN store[n] ELSE [config |-> EmptyConfig, members |-> <<>>]

(* In IPC mode the store starts empty and the dataset arrives as input. *)
Init == store = InitStore \/ store = <<>>

SaveNetwork(n, c) == store' = Upd(store, n, [Rec(n) EXCEPT !.config = c])

SaveMember(n, m, v) == store' = Upd(store, n, [Rec(n) EXCEPT !.members = Upd(@, m, v)])

EraseMember(n, m) ==
    /\ n \in DOMAIN store /\ m \in DOMAIN store[n].members
    /\ store' = [store EXCEPT ![n].members = Del(@, m)]

EraseNetwork(n) ==
    /\ n \in DOMAIN store
    /\ store' = Del(store, n)

Next ==
    \E n \in Nwids :
        \/ \E c \in Configs : SaveNetwork(n, c)
        \/ \E m \in Mids, v \in MemberConfigs : SaveMember(n, m, v) \/ EraseMember(n, m)
        \/ EraseNetwork(n)

Spec == Init /\ [][Next]_store

=============================================================================
