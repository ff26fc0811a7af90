------------------------ MODULE MC_NodeConstruction ------------------------
(* Model-checking instance of NodeConstruction: two identities the        *)
(* generator may produce, as model values, and a host that constructs the  *)
(* node up to MaxStarts times.                                             *)
EXTENDS NodeConstruction
=============================================================================
