------------------------- MODULE MCTraceLevelCache --------------------------
(* A small instance of the cache of filter decisions.                      *)
EXTENDS TraceLevelCache, TLC

CONSTANTS k1, k2, k3, k4, k5, k6

(* Code objects of which two differ only in the bytes that are not         *)
(* compared, as addresses 4 GiB apart do.                                  *)
SharedWord == (k1 :> 1) @@ (k2 :> 1) @@ (k3 :> 3) @@ (k4 :> 4) @@ (k5 :> 5) @@ (k6 :> 6)

(* Hash values that collide in one bucket, in two and in four.             *)
Hash == (1 :> 0) @@ (3 :> 4) @@ (4 :> 2) @@ (5 :> 1) @@ (6 :> 3)
=============================================================================
