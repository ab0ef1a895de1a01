----------------------------- MODULE MCPoolSync -----------------------------
(* PoolSync on small instances: the proxies are interchangeable.           *)
EXTENDS PoolSync, TLC

Interchangeable == Permutations(Proxy)
=============================================================================
