---------------------------- MODULE MCProxyLeases ----------------------------
(* ProxyLeases on small instances: the proxies are interchangeable.        *)
EXTENDS ProxyLeases, TLC

Interchangeable == Permutations(Proxy)
=============================================================================
