------------------------------ MODULE MC_JSONDB ------------------------------
(* Instantiates JSONDB for TLC: two networks, two members, two configs,    *)
(* one authorized bridge member record and one deauthorized record.       *)
EXTENDS JSONDB

CONSTANTS n1, n2, m1, m2, c1, c2

MCMemberConfigs ==
    { [authorized |-> TRUE,  activeBridge |-> TRUE,  lastDeauthorizedTime |-> 0],
      [authorized |-> FALSE, activeBridge |-> FALSE, lastDeauthorizedTime |-> 5] }

(* controller.d at startup: network n1 with its authorized member m1.      *)
MCInitDiskNet == n1 :> c1
MCInitDiskMem == <<n1, m1>> :> [authorized |-> TRUE, activeBridge |-> TRUE, lastDeauthorizedTime |-> 0]

=============================================================================
