----------------------------- MODULE MCHashMap ------------------------------
(* Three keys of which two collide at every table size up to 8, with the   *)
(* probe path of the third wrapping round into theirs.                     *)
EXTENDS HashMap, TLC

CONSTANTS k1, k2, k3

MCHash == (k1 :> 7) @@ (k2 :> 7) @@ (k3 :> 6)
=============================================================================
