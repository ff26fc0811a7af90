----------------------- MODULE MC_NodeControllerHooks -----------------------
(* Model-checking instance of NodeControllerHooks.  The PRNG outputs are  *)
(* distinct, as xorshift128+ outputs are over a few calls, and include a   *)
(* 0 so that the "0 is made 1" step of ncSendConfig is taken.  Two         *)
(* dictionary sizes, one a multiple of the chunk payload and one not.      *)
EXTENDS NodeControllerHooks

MCPrngOutputs == <<5, 0, 3, 6>>
=============================================================================
