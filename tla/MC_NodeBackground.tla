------------------------- MODULE MC_NodeBackground -------------------------
(* Model-checking instance of NodeBackground: the host threads and the    *)
(* upstream peers are model values; the time constants are small numbers  *)
(* in the same order as the code's (granularity < ping interval <          *)
(* housekeeping period).                                                   *)
EXTENDS NodeBackground
=============================================================================
