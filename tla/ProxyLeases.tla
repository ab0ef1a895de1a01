----------------------------- MODULE ProxyLeases -----------------------------
(***************************************************************************)
(* Leasing a proxy to one owner at a time (manager.py: acquire, release,   *)
(* report_failure, report_success, InMemoryLeaseStore, InMemoryHealthStore)*)
(* and the health state that decides which proxies are candidates          *)
(* (health.py: ProxyHealthPolicy).  Several asyncio tasks, here jobs, use  *)
(* one manager; they suspend only while a proxy is being probed, because   *)
(* the in-memory stores never do.                                          *)
(*                                                                         *)
(* Times are kept as what is left of them: a lease whose expires_at has    *)
(* come has 0 left, and Tick takes one off everything that runs.           *)
(***************************************************************************)
EXTENDS Integers

CONSTANTS
    Proxy,
    Owner,
    Jobs,         \* tasks that acquire and release in the name of one owner
    Ttl,          \* ttl_seconds that callers ask for
    Cooldown,     \* cooldown_seconds of verdicts and of reserve()
    MaxFailures,  \* ProxyHealthPolicy.max_failures_before_disable
    FailBound,    \* bound: failures are counted up to here
    NoProxy,
    NoLease

Job == Owner \X (1..Jobs)
OwnerOf(j) == j[1]

\* max(0.0, float(ttl_seconds)): what is left is never negative.
Record == [owner : Owner, left : Nat]
Lease == [proxy : Proxy, left : Nat]

ASSUME LeaseAssumption ==
    /\ Jobs \in Nat \ {0}
    /\ Ttl \subseteq Nat
    /\ Cooldown \subseteq Nat
    /\ MaxFailures \in Nat
    /\ FailBound \in Nat
    /\ NoProxy \notin Proxy
    /\ NoLease \notin Record
    /\ NoLease \notin Lease

\* FailureVerdict: does it count, does it disable, for how long to rest.
Verdict == [counts : BOOLEAN, disables : BOOLEAN, cooldown : Cooldown]

\* Those of to_verdict() and of a health check that returned False.
ProbeVerdict == {v \in Verdict : v.counts}

VARIABLES
    lease,     \* [proxy]: the store's record, expired or not, or NoLease
    health,    \* [proxy]: is_active, fail_count and what is left to reserved_until
    at,        \* [job]: in acquire() ("asking") or not ("rest")
    todo,      \* [job]: candidates its acquire() has not tried yet
    probing,   \* [job]: the proxy whose probe it waits for, or NoProxy
    held       \* [job]: the lease it was given and works with, or NoLease

vars == <<lease, health, at, todo, probing, held>>

Healthy == [active |-> TRUE, fails |-> 0, cooldown |-> 0]

Init ==
    /\ lease = [p \in Proxy |-> NoLease]
    /\ health = [p \in Proxy |-> Healthy]
    /\ at = [j \in Job |-> "rest"]
    /\ todo = [j \in Job |-> {}]
    /\ probing = [j \in Job |-> NoProxy]
    /\ held = [j \in Job |-> NoLease]

-----------------------------------------------------------------------------
(* ProxyHealthPolicy.                                                      *)

Eligible(p) ==
    /\ health[p].active
    /\ health[p].cooldown = 0
    /\ health[p].fails < MaxFailures

MarkSuccess(p) == health' = [health EXCEPT ![p] = Healthy]

\* A slip: a verdict's cooldown replaces the one that runs.
MarkVerdictAnew(p, v) ==
    /\ v.counts => health[p].fails < FailBound
    /\ LET fails == health[p].fails + (IF v.counts THEN 1 ELSE 0)
       IN  health' = [health EXCEPT ![p] =
             [active |-> @.active /\ ~v.disables /\ fails < MaxFailures,
              fails |-> fails,
              cooldown |-> IF v.cooldown > 0 THEN v.cooldown ELSE @.cooldown]]

\* A slip: one failure too many is allowed.
MarkVerdictLate(p, v) ==
    /\ v.counts => health[p].fails < FailBound
    /\ LET fails == health[p].fails + (IF v.counts THEN 1 ELSE 0)
       IN  health' = [health EXCEPT ![p] =
             [active |-> @.active /\ ~v.disables /\ fails <= MaxFailures,
              fails |-> fails,
              cooldown |-> IF v.cooldown > @.cooldown THEN v.cooldown ELSE @.cooldown]]

MarkVerdict(p, v) ==
    /\ v.counts => health[p].fails < FailBound
    /\ LET fails == health[p].fails + (IF v.counts THEN 1 ELSE 0)
       IN  health' = [health EXCEPT ![p] =
             [active |-> @.active /\ ~v.disables /\ fails < MaxFailures,
              fails |-> fails,
              cooldown |-> IF v.cooldown > @.cooldown THEN v.cooldown ELSE @.cooldown]]

-----------------------------------------------------------------------------
(* acquire().                                                              *)

\* _ordered_candidates(): the eligible ones of the pool of this moment, up to
\* a limit.  The application's usage counts may put them in any order.
Begin(j) ==
    /\ at[j] = "rest"
    /\ held[j] = NoLease
    /\ \E pool \in SUBSET Proxy :
         todo' = [todo EXCEPT ![j] = {p \in pool : Eligible(p)}]
    /\ at' = [at EXCEPT ![j] = "asking"]
    /\ UNCHANGED <<lease, health, probing, held>>

\* A slip: a proxy that was denied stays a candidate.
ProbeAgain(j) ==
    /\ at[j] = "asking"
    /\ probing[j] = NoProxy
    /\ \E p \in todo[j] : probing' = [probing EXCEPT ![j] = p]
    /\ UNCHANGED <<lease, health, at, todo, held>>

Probe(j) ==
    /\ at[j] = "asking"
    /\ probing[j] = NoProxy
    /\ \E p \in todo[j] :
         /\ probing' = [probing EXCEPT ![j] = p]
         /\ todo' = [todo EXCEPT ![j] = @ \ {p}]
    /\ UNCHANGED <<lease, health, at, held>>

\* InMemoryLeaseStore.acquire: not while another owner's lease runs.
Leasable(p, o) == lease[p] # NoLease /\ lease[p].left > 0 => lease[p].owner = o

\* A slip: the record in the store is not looked at.
GrantAnyway(j) ==
    /\ probing[j] # NoProxy
    /\ MarkSuccess(probing[j])
    /\ \E ttl \in Ttl :
         /\ lease' = [lease EXCEPT ![probing[j]] = [owner |-> OwnerOf(j), left |-> ttl]]
         /\ held' = [held EXCEPT ![j] = [proxy |-> probing[j], left |-> ttl]]
    /\ at' = [at EXCEPT ![j] = "rest"]
    /\ todo' = [todo EXCEPT ![j] = {}]
    /\ probing' = [probing EXCEPT ![j] = NoProxy]

\* The probe succeeds and the store gives the lease, which acquire() returns.
Grant(j) ==
    /\ probing[j] # NoProxy
    /\ Leasable(probing[j], OwnerOf(j))
    /\ MarkSuccess(probing[j])
    /\ \E ttl \in Ttl :
         /\ lease' = [lease EXCEPT ![probing[j]] = [owner |-> OwnerOf(j), left |-> ttl]]
         /\ held' = [held EXCEPT ![j] = [proxy |-> probing[j], left |-> ttl]]
    /\ at' = [at EXCEPT ![j] = "rest"]
    /\ todo' = [todo EXCEPT ![j] = {}]
    /\ probing' = [probing EXCEPT ![j] = NoProxy]

\* The probe succeeds and the proxy is another owner's: try the next one.
Denied(j) ==
    /\ probing[j] # NoProxy
    /\ ~Leasable(probing[j], OwnerOf(j))
    /\ MarkSuccess(probing[j])
    /\ probing' = [probing EXCEPT ![j] = NoProxy]
    /\ UNCHANGED <<lease, at, todo, held>>

ProbeFails(j) ==
    /\ probing[j] # NoProxy
    /\ \E v \in ProbeVerdict : MarkVerdict(probing[j], v)
    /\ probing' = [probing EXCEPT ![j] = NoProxy]
    /\ UNCHANGED <<lease, at, todo, held>>

\* No candidate is left: acquire() returns None.
GiveUp(j) ==
    /\ at[j] = "asking"
    /\ probing[j] = NoProxy
    /\ todo[j] = {}
    /\ at' = [at EXCEPT ![j] = "rest"]
    /\ UNCHANGED <<lease, health, todo, probing, held>>

-----------------------------------------------------------------------------
(* release(), and jobs that end without it.                                *)

\* A slip: any record of the proxy is deleted, whoever's it is.
ReleaseAnyones(j) ==
    /\ held[j] # NoLease
    /\ lease' = [lease EXCEPT ![held[j].proxy] = NoLease]
    /\ held' = [held EXCEPT ![j] = NoLease]
    /\ UNCHANGED <<health, at, todo, probing>>

\* The store deletes the proxy's record if it is of the same owner.
Release(j) ==
    /\ held[j] # NoLease
    /\ LET p == held[j].proxy
       IN  lease' = IF lease[p] # NoLease /\ lease[p].owner = OwnerOf(j)
                    THEN [lease EXCEPT ![p] = NoLease]
                    ELSE lease
    /\ held' = [held EXCEPT ![j] = NoLease]
    /\ UNCHANGED <<health, at, todo, probing>>

\* The task is cancelled, in acquire() or at work, and releases nothing.
Vanish(j) ==
    /\ at[j] # "rest" \/ held[j] # NoLease
    /\ at' = [at EXCEPT ![j] = "rest"]
    /\ todo' = [todo EXCEPT ![j] = {}]
    /\ probing' = [probing EXCEPT ![j] = NoProxy]
    /\ held' = [held EXCEPT ![j] = NoLease]
    /\ UNCHANGED <<lease, health>>

-----------------------------------------------------------------------------
(* What the application reports, and time.                                 *)

ReportFailure(p) ==
    /\ \E v \in Verdict : MarkVerdict(p, v)
    /\ UNCHANGED <<lease, at, todo, probing, held>>

ReportSuccess(p) ==
    /\ MarkSuccess(p)
    /\ UNCHANGED <<lease, at, todo, probing, held>>

Reserve(p) ==
    /\ \E c \in Cooldown : health' = [health EXCEPT ![p].cooldown = c]
    /\ UNCHANGED <<lease, at, todo, probing, held>>

Less(n) == IF n = 0 THEN 0 ELSE n - 1

Tick ==
    /\ lease' = [p \in Proxy |->
                   IF lease[p] = NoLease THEN NoLease
                   ELSE [lease[p] EXCEPT !.left = Less(@)]]
    /\ held' = [j \in Job |->
                  IF held[j] = NoLease THEN NoLease
                  ELSE [held[j] EXCEPT !.left = Less(@)]]
    /\ health' = [p \in Proxy |-> [health[p] EXCEPT !.cooldown = Less(@)]]
    /\ UNCHANGED <<at, todo, probing>>

-----------------------------------------------------------------------------

Acquiring(j) ==
    \/ Begin(j) \/ Probe(j) \/ Grant(j) \/ Denied(j) \/ ProbeFails(j) \/ GiveUp(j)

Next ==
    \/ \E j \in Job : Acquiring(j) \/ Release(j) \/ Vanish(j)
    \/ \E p \in Proxy : ReportFailure(p) \/ ReportSuccess(p) \/ Reserve(p)
    \/ Tick

Spec == Init /\ [][Next]_vars

\* Probes have timeouts, and the loop over the candidates goes on.
Fairness ==
    \A j \in Job :
        /\ WF_vars(Probe(j))
        /\ WF_vars(Grant(j) \/ Denied(j) \/ ProbeFails(j))
        /\ WF_vars(GiveUp(j))

FairSpec == Spec /\ Fairness

-----------------------------------------------------------------------------
(* What leases and health promise.                                         *)

(***************************************************************************)
(* The variables' types; a proxy that has failed too often is out of       *)
(* service, whoever counted the failures (health.py:157-160).              *)
(***************************************************************************)
TypeOK ==
    /\ lease \in [Proxy -> Record \cup {NoLease}]
    /\ health \in [Proxy -> [active : BOOLEAN, fails : Nat, cooldown : Nat]]
    /\ \A p \in Proxy : health[p].active => health[p].fails < MaxFailures \/ health[p].fails = 0
    /\ at \in [Job -> {"rest", "asking"}]
    /\ todo \in [Job -> SUBSET Proxy]
    /\ probing \in [Job -> Proxy \cup {NoProxy}]
    /\ held \in [Job -> Lease \cup {NoLease}]

Holds(j, p) == held[j] # NoLease /\ held[j].proxy = p /\ held[j].left > 0

(***************************************************************************)
(* No two owners ever work with unexpired leases of one proxy, whatever    *)
(* expires, is released late or is forgotten ("per-account ownership",     *)
(* README.md:61; manager.py:44-59).                                        *)
(***************************************************************************)
Exclusive ==
    \A i, j \in Job : \A p \in Proxy :
        Holds(i, p) /\ Holds(j, p) => OwnerOf(i) = OwnerOf(j)

\* The store knows every lease somebody works with: why Exclusive holds.
HeldIsRecorded ==
    \A j \in Job :
        held[j] # NoLease /\ held[j].left > 0 =>
            lease[held[j].proxy] = [owner |-> OwnerOf(j), left |-> held[j].left]

(***************************************************************************)
(* A counted failure never brings a proxy back sooner: a short cooldown    *)
(* does not cut a longer one that another task has begun                   *)
(* (health.py:152-156).                                                    *)
(***************************************************************************)
FailuresNeverForgive ==
    [][\A p \in Proxy :
         health'[p].fails > health[p].fails =>
             /\ health'[p].cooldown >= health[p].cooldown
             /\ health'[p].active => health[p].active]_vars

(***************************************************************************)
(* Every acquire() returns, with a lease or with None, however the other   *)
(* jobs take the candidates away from it (manager.py:222-234).             *)
(***************************************************************************)
AcquiresReturn == \A j \in Job : at[j] # "rest" ~> at[j] = "rest"
=============================================================================
