--------------------------- MODULE MCBindingRebind ---------------------------
(* BindingRebind on a small instance: r1 and r2 are two ports of one host   *)
(* with one exit, r3 is another host; each service owns one port and r3.   *)
EXTENDS BindingRebind, TLC

CONSTANTS r1, r2, r3, x1, x2

Hosts == (r1 :> "h1") @@ (r2 :> "h1") @@ (r3 :> "h2")
Exits == (r1 :> x1) @@ (r2 :> x1) @@ (r3 :> x2)
Pools == (0 :> {r1, r3}) @@ (1 :> {r2, r3})
=============================================================================
