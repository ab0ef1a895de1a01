------------------------- MODULE MCAccountSelection -------------------------
(***************************************************************************)
(* AccountSelection on a small pool: the first two proxies share an exit,  *)
(* and the exit of the last is not known.                                  *)
(***************************************************************************)
EXTENDS AccountSelection

CONSTANTS p1, p2, p3, p4, x1, x2

PoolFile == <<p1, p2, p3, p4>>
Outlet == (p1 :> x1) @@ (p2 :> x1) @@ (p3 :> x2) @@ (p4 :> x2)

Interchangeable == Permutations(Callers)
=============================================================================
