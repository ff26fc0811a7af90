-------------------------- MODULE MC_NodeNetworks --------------------------
(* Model-checking instance of NodeNetworks: model values for the network  *)
(* ids, groups, host threads and Network objects are given in the cfgs.   *)
EXTENDS NodeNetworks
=============================================================================
