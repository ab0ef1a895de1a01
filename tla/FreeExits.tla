------------------------------ MODULE FreeExits ------------------------------
(***************************************************************************)
(* free_exit_candidates (account_selection.py): which proxies an account   *)
(* should try, the least used ones first, and a sample spread over the     *)
(* inventory where there are too many.  The pool is a sequence without     *)
(* repetitions (what FileProxyPool.load returns); loads maps a proxy to    *)
(* the accounts that use it.                                               *)
(***************************************************************************)
EXTENDS Integers, Sequences, SequencesExt

(***************************************************************************)
(* The 0-based position of the i-th of k picks from size entries: the      *)
(* middle of the i-th of k equal parts, int((index + 0.5) * size / k).     *)
(***************************************************************************)
Middle(i, k, size) == ((2 * i - 1) * size) \div (2 * k)

Spread(tier, k) == [i \in 1..k |-> tier[Middle(i, k, Len(tier)) + 1]]

\* A slip: the limit counts for each tier.
FillAnew(chosen, tier, limit) ==
    chosen \o IF Len(tier) <= limit THEN tier ELSE Spread(tier, limit)

\* One turn of the loop over the loads: the tier is taken whole while there
\* is room for it, and sampled where there is not.
Fill(chosen, tier, limit) ==
    LET remaining == limit - Len(chosen)
    IN  CASE remaining <= 0 -> chosen
          [] remaining > 0 /\ Len(tier) <= remaining -> chosen \o tier
          [] remaining > 0 /\ Len(tier) > remaining -> chosen \o Spread(tier, remaining)

\* Where in the pool the proxies are with usage below max_accounts, a known
\* exit, and that exit not busy.
Free(pool, loads, exitKey, unknown, busy, maxAccounts) ==
    {n \in DOMAIN pool : /\ loads[pool[n]] < maxAccounts
                         /\ exitKey[pool[n]] # unknown
                         /\ exitKey[pool[n]] \notin busy}

\* The entries at these places, in the order of the pool.
InOrder(pool, places) ==
    [i \in 1..Cardinality(places) |->
        pool[CHOOSE n \in places : Cardinality({m \in places : m <= n}) = i]]

(***************************************************************************)
(* The free proxies in the order of their load; a stable sort, so equal    *)
(* loads keep the order of the pool.  Filling tier by tier also returns    *)
(* them all when they are no more than the limit.  filled[n] is what is    *)
(* selected after n tiers, those of the loads below n.                     *)
(***************************************************************************)
FreeExitCandidates(pool, loads, exitKey, unknown, busy, maxAccounts, limit) ==
    LET free == Free(pool, loads, exitKey, unknown, busy, maxAccounts)
        Tier(load) == InOrder(pool, {n \in free : loads[pool[n]] = load})
        filled[n \in 0..maxAccounts] ==
            IF n = 0 THEN <<>> ELSE Fill(filled[n - 1], Tier(n - 1), limit)
    IN  filled[maxAccounts]
=============================================================================
