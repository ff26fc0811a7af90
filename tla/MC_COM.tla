------------------------------- MODULE MC_COM -------------------------------
(* Model-checking instance of COM: two values, two maxDelta values, one    *)
(* user-defined id beside the reserved ones, three qualifiers at most, and *)
(* forged encodings over two ids, one of them out of order or repeated.    *)
EXTENDS COM
============================================================================
