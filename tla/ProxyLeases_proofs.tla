------------------------- MODULE ProxyLeases_proofs -------------------------
(***************************************************************************)
(* That leases are exclusive, for any proxies, owners and times, when one  *)
(* job works in the name of each owner.  Lease_jobs.cfg shows why more     *)
(* jobs of one owner are not covered.                                      *)
(***************************************************************************)
EXTENDS ProxyLeases, TLAPS

\* What is left of a lease or of a cooldown is a natural number.
LEMMA LessIsNatural == ASSUME NEW n \in Nat PROVE Less(n) \in Nat
BY DEF Less

\* An owner's name is an owner.
LEMMA Owners == ASSUME NEW j \in Job PROVE OwnerOf(j) \in Owner
BY DEF Job, OwnerOf

\* A verdict leaves the health of the proxies well formed, and a proxy that
\* has failed too often out of service.
LEMMA VerdictIsTyped ==
    ASSUME TypeOK, NEW p \in Proxy, NEW v \in Verdict, MarkVerdict(p, v)
    PROVE  /\ health' \in [Proxy -> [active : BOOLEAN, fails : Nat, cooldown : Nat]]
           /\ \A q \in Proxy : health'[q].active =>
                health'[q].fails < MaxFailures \/ health'[q].fails = 0
<1> DEFINE fails == health[p].fails + (IF v.counts THEN 1 ELSE 0)
           cool == IF v.cooldown > health[p].cooldown THEN v.cooldown ELSE health[p].cooldown
           runs == health[p].active /\ ~v.disables /\ fails < MaxFailures
<1>1. health[p] \in [active : BOOLEAN, fails : Nat, cooldown : Nat]
  BY DEF TypeOK
<1>2. /\ v.counts \in BOOLEAN /\ v.disables \in BOOLEAN /\ v.cooldown \in Nat
  BY LeaseAssumption DEF Verdict
<1>3. fails \in Nat /\ cool \in Nat /\ runs \in BOOLEAN
  BY <1>1, <1>2
<1>4. health' = [health EXCEPT ![p] = [active |-> runs, fails |-> fails, cooldown |-> cool]]
  BY DEF MarkVerdict
<1>5. runs => fails < MaxFailures
  OBVIOUS
<1> HIDE DEF fails, cool, runs
<1> QED
  BY <1>3, <1>4, <1>5 DEF TypeOK

\* A success does as well.
LEMMA SuccessIsTyped ==
    ASSUME TypeOK, NEW p \in Proxy, MarkSuccess(p)
    PROVE  /\ health' \in [Proxy -> [active : BOOLEAN, fails : Nat, cooldown : Nat]]
           /\ \A q \in Proxy : health'[q].active =>
                health'[q].fails < MaxFailures \/ health'[q].fails = 0
BY DEF TypeOK, MarkSuccess, Healthy

\* Every step keeps the types of the variables.
LEMMA TypeInvariant == ASSUME TypeOK, [Next]_vars PROVE TypeOK'
<1>1. CASE UNCHANGED vars
  BY <1>1 DEF TypeOK, vars
<1>2. ASSUME NEW j \in Job, Begin(j) PROVE TypeOK'
  BY <1>2 DEF TypeOK, Begin
<1>3. ASSUME NEW j \in Job, Probe(j) PROVE TypeOK'
  BY <1>3 DEF TypeOK, Probe
<1>4. ASSUME NEW j \in Job, Grant(j) PROVE TypeOK'
  <2>1. probing[j] \in Proxy /\ MarkSuccess(probing[j])
    BY <1>4 DEF Grant, TypeOK
  <2>2. PICK ttl \in Ttl :
          /\ lease' = [lease EXCEPT ![probing[j]] = [owner |-> OwnerOf(j), left |-> ttl]]
          /\ held' = [held EXCEPT ![j] = [proxy |-> probing[j], left |-> ttl]]
    BY <1>4 DEF Grant
  <2>3. ttl \in Nat /\ OwnerOf(j) \in Owner
    BY LeaseAssumption, Owners
  <2>4. lease' \in [Proxy -> Record \cup {NoLease}]
    BY <2>1, <2>2, <2>3 DEF TypeOK, Record
  <2>5. held' \in [Job -> Lease \cup {NoLease}]
    BY <2>1, <2>2, <2>3 DEF TypeOK, Lease
  <2>6. /\ at' \in [Job -> {"rest", "asking"}]
        /\ todo' \in [Job -> SUBSET Proxy]
        /\ probing' \in [Job -> Proxy \cup {NoProxy}]
    BY <1>4 DEF TypeOK, Grant
  <2> QED
    BY <2>1, <2>4, <2>5, <2>6, SuccessIsTyped DEF TypeOK
<1>5. ASSUME NEW j \in Job, Denied(j) PROVE TypeOK'
  <2>1. probing[j] \in Proxy /\ MarkSuccess(probing[j])
    BY <1>5 DEF Denied, TypeOK
  <2> QED
    BY <1>5, <2>1, SuccessIsTyped DEF TypeOK, Denied
<1>6. ASSUME NEW j \in Job, ProbeFails(j) PROVE TypeOK'
  <2>1. PICK v \in ProbeVerdict : MarkVerdict(probing[j], v)
    BY <1>6 DEF ProbeFails
  <2>2. v \in Verdict /\ probing[j] \in Proxy
    BY <1>6 DEF ProbeFails, ProbeVerdict, TypeOK
  <2> QED
    BY <1>6, <2>1, <2>2, VerdictIsTyped DEF TypeOK, ProbeFails
<1>7. ASSUME NEW j \in Job, GiveUp(j) PROVE TypeOK'
  BY <1>7 DEF TypeOK, GiveUp
<1>8. ASSUME NEW j \in Job, Release(j) PROVE TypeOK'
  BY <1>8 DEF TypeOK, Release
<1>9. ASSUME NEW j \in Job, Vanish(j) PROVE TypeOK'
  BY <1>9 DEF TypeOK, Vanish
<1>10. ASSUME NEW p \in Proxy, ReportFailure(p) PROVE TypeOK'
  <2>1. PICK v \in Verdict : MarkVerdict(p, v)
    BY <1>10 DEF ReportFailure
  <2> QED
    BY <1>10, <2>1, VerdictIsTyped DEF TypeOK, ReportFailure
<1>11. ASSUME NEW p \in Proxy, ReportSuccess(p) PROVE TypeOK'
  BY <1>11, SuccessIsTyped DEF TypeOK, ReportSuccess
<1>12. ASSUME NEW p \in Proxy, Reserve(p) PROVE TypeOK'
  <2>1. PICK c \in Cooldown : health' = [health EXCEPT ![p].cooldown = c]
    BY <1>12 DEF Reserve
  <2>2. c \in Nat
    BY LeaseAssumption
  <2> QED
    BY <1>12, <2>1, <2>2 DEF TypeOK, Reserve
<1>13. CASE Tick
  <2>1. ASSUME NEW p \in Proxy
        PROVE  lease'[p] \in Record \cup {NoLease}
    <3>1. CASE lease[p] = NoLease
      BY <1>13, <3>1 DEF Tick
    <3>2. CASE lease[p] \in Record /\ lease[p] # NoLease
      <4>1. lease'[p] = [lease[p] EXCEPT !.left = Less(lease[p].left)]
        BY <1>13, <3>2 DEF Tick
      <4> QED
        BY <4>1, <3>2, LessIsNatural DEF Record
    <3> QED
      BY <3>1, <3>2 DEF TypeOK
  <2>2. ASSUME NEW j \in Job
        PROVE  held'[j] \in Lease \cup {NoLease}
    <3>1. CASE held[j] = NoLease
      BY <1>13, <3>1 DEF Tick
    <3>2. CASE held[j] \in Lease /\ held[j] # NoLease
      <4>1. held'[j] = [held[j] EXCEPT !.left = Less(held[j].left)]
        BY <1>13, <3>2 DEF Tick
      <4> QED
        BY <4>1, <3>2, LessIsNatural DEF Lease
    <3> QED
      BY <3>1, <3>2 DEF TypeOK
  <2>3. ASSUME NEW p \in Proxy
        PROVE  /\ health'[p] \in [active : BOOLEAN, fails : Nat, cooldown : Nat]
               /\ health'[p].active = health[p].active
               /\ health'[p].fails = health[p].fails
    <3>1. health[p] \in [active : BOOLEAN, fails : Nat, cooldown : Nat]
      BY DEF TypeOK
    <3>2. health'[p] = [health[p] EXCEPT !.cooldown = Less(health[p].cooldown)]
      BY <1>13 DEF Tick
    <3> QED
      BY <3>1, <3>2, LessIsNatural
  <2>4. /\ DOMAIN lease' = Proxy /\ lease' = [p \in Proxy |-> lease'[p]]
        /\ held' = [j \in Job |-> held'[j]]
        /\ health' = [p \in Proxy |-> health'[p]]
    BY <1>13 DEF Tick
  <2> QED
    BY <1>13, <2>1, <2>2, <2>3, <2>4 DEF TypeOK, Tick
<1> QED
  BY <1>1, <1>2, <1>3, <1>4, <1>5, <1>6, <1>7, <1>8, <1>9, <1>10, <1>11, <1>12, <1>13
  DEF Next, Acquiring

\* The variables keep their types, and a proxy that has failed too often stays
\* out of service, for every number of proxies, owners, jobs and failures.
THEOREM TypeCorrect == Spec => []TypeOK
<1>1. Init => TypeOK
  BY DEF Init, TypeOK, Healthy
<1> QED
  BY <1>1, TypeInvariant, PTL DEF Spec

-----------------------------------------------------------------------------

\* Two jobs that both know their leases to be recorded are of one owner.
LEMMA RecordedIsExclusive == HeldIsRecorded => Exclusive
<1> SUFFICES ASSUME HeldIsRecorded, NEW i \in Job, NEW j \in Job, NEW p \in Proxy,
                    Holds(i, p), Holds(j, p)
             PROVE  OwnerOf(i) = OwnerOf(j)
  BY DEF Exclusive
<1>1. /\ lease[p] = [owner |-> OwnerOf(i), left |-> held[i].left]
      /\ lease[p] = [owner |-> OwnerOf(j), left |-> held[j].left]
  BY DEF HeldIsRecorded, Holds
<1> QED
  BY <1>1

\* When each owner has one job, the store's record of a lease in use is only
\* replaced or deleted by the job that uses it.
LEMMA RecordsStay ==
    ASSUME Jobs = 1, TypeOK, HeldIsRecorded, [Next]_vars
    PROVE  HeldIsRecorded'
<1>0. \A i, j \in Job : OwnerOf(i) = OwnerOf(j) => i = j
  BY DEF Job, OwnerOf
<1>1. CASE UNCHANGED <<lease, held>>
  BY <1>1 DEF HeldIsRecorded, OwnerOf
<1>2. ASSUME NEW i \in Job, Grant(i) PROVE HeldIsRecorded'
  <2> DEFINE p == probing[i]
  <2>1. p \in Proxy /\ Leasable(p, OwnerOf(i))
    BY <1>2 DEF Grant, TypeOK
  <2>2. PICK ttl \in Ttl :
          /\ lease' = [lease EXCEPT ![p] = [owner |-> OwnerOf(i), left |-> ttl]]
          /\ held' = [held EXCEPT ![i] = [proxy |-> p, left |-> ttl]]
    BY <1>2 DEF Grant
  <2> HIDE DEF p
  <2> SUFFICES ASSUME NEW j \in Job, held'[j] # NoLease, held'[j].left > 0
               PROVE  lease'[held'[j].proxy] = [owner |-> OwnerOf(j), left |-> held'[j].left]
    BY DEF HeldIsRecorded, OwnerOf
  <2>3. CASE j = i
    BY <2>1, <2>2, <2>3 DEF TypeOK
  <2>4. CASE j # i
    <3>1. held'[j] = held[j] /\ held[j] \in Lease
      BY <2>2, <2>4 DEF TypeOK
    <3>2. lease[held[j].proxy] = [owner |-> OwnerOf(j), left |-> held[j].left]
      BY <3>1 DEF HeldIsRecorded
    <3>3. held[j].proxy # p
      <4> SUFFICES ASSUME held[j].proxy = p PROVE FALSE
        OBVIOUS
      <4>1. [owner |-> OwnerOf(j), left |-> held[j].left] \in Record
        BY <3>1, Owners DEF Lease, Record
      <4>2. lease[p] # NoLease /\ lease[p].left > 0 /\ lease[p].owner = OwnerOf(j)
        BY <4>1, <3>1, <3>2, LeaseAssumption
      <4> QED
        BY <4>2, <2>1, <2>4, <1>0 DEF Leasable
    <3> QED
      BY <3>1, <3>2, <3>3, <2>2 DEF TypeOK, Lease
  <2> QED
    BY <2>3, <2>4
<1>3. ASSUME NEW i \in Job, Release(i) PROVE HeldIsRecorded'
  <2> SUFFICES ASSUME NEW j \in Job, held'[j] # NoLease, held'[j].left > 0
               PROVE  lease'[held'[j].proxy] = [owner |-> OwnerOf(j), left |-> held'[j].left]
    BY DEF HeldIsRecorded, OwnerOf
  <2>1. j # i /\ held'[j] = held[j] /\ held[j] \in Lease
    BY <1>3 DEF Release, TypeOK
  <2>2. lease[held[j].proxy] = [owner |-> OwnerOf(j), left |-> held[j].left]
    BY <2>1 DEF HeldIsRecorded
  <2>3. lease[held[j].proxy].owner # OwnerOf(i)
    BY <2>1, <2>2, <1>0
  <2>4. lease'[held[j].proxy] = lease[held[j].proxy]
    BY <2>1, <2>3, <1>3 DEF Release, TypeOK, Lease
  <2> QED
    BY <2>1, <2>2, <2>4
<1>4. ASSUME NEW i \in Job, Vanish(i) PROVE HeldIsRecorded'
  BY <1>4 DEF Vanish, HeldIsRecorded, TypeOK, OwnerOf
<1>5. CASE Tick
  <2> SUFFICES ASSUME NEW j \in Job, held'[j] # NoLease, held'[j].left > 0
               PROVE  lease'[held'[j].proxy] = [owner |-> OwnerOf(j), left |-> held'[j].left]
    BY DEF HeldIsRecorded, OwnerOf
  <2>1. held[j] # NoLease /\ held[j] \in Lease
    BY <1>5 DEF Tick, TypeOK
  <2>2. held'[j] = [held[j] EXCEPT !.left = Less(held[j].left)]
    BY <1>5, <2>1 DEF Tick
  <2>3. held'[j].proxy = held[j].proxy /\ held'[j].left = Less(held[j].left)
    BY <2>1, <2>2 DEF Lease
  <2>4. held[j].left > 0
    BY <2>1, <2>3 DEF Less, Lease
  <2>5. lease[held[j].proxy] = [owner |-> OwnerOf(j), left |-> held[j].left]
    BY <2>1, <2>4 DEF HeldIsRecorded
  <2>6. lease[held[j].proxy] # NoLease /\ held[j].proxy \in Proxy
    BY <2>1, <2>5, Owners, LeaseAssumption DEF Record, Lease
  <2>7. lease'[held[j].proxy] = [lease[held[j].proxy] EXCEPT !.left = Less(lease[held[j].proxy].left)]
    BY <1>5, <2>6 DEF Tick
  <2> QED
    BY <2>3, <2>5, <2>7
<1> QED
  BY <1>1, <1>2, <1>3, <1>4, <1>5
  DEF Next, Acquiring, Begin, Probe, Denied, ProbeFails, GiveUp, ReportFailure,
      ReportSuccess, Reserve, vars

\* The store knows every lease somebody works with (manager.py:44-59), if each
\* owner has one job at a time.
THEOREM LeasesAreRecorded == Jobs = 1 => (Spec => []HeldIsRecorded)
<1> SUFFICES ASSUME Jobs = 1 PROVE Spec => []HeldIsRecorded
  OBVIOUS
<1>1. Init => HeldIsRecorded
  BY DEF Init, HeldIsRecorded
<1>2. TypeOK /\ HeldIsRecorded /\ [Next]_vars => HeldIsRecorded'
  BY RecordsStay
<1> QED
  BY <1>1, <1>2, TypeCorrect, PTL DEF Spec

\* No two owners ever work with unexpired leases of one proxy (manager.py:44-59),
\* for any proxies, owners and times, if each owner has one job at a time.
THEOREM LeasesAreExclusive == Jobs = 1 => (Spec => []Exclusive)
BY LeasesAreRecorded, RecordedIsExclusive, PTL

-----------------------------------------------------------------------------

\* A failure, counted or not, only prolongs a cooldown and brings no proxy back.
LEMMA VerdictForgivesNothing ==
    ASSUME TypeOK, NEW p \in Proxy, NEW v \in Verdict, MarkVerdict(p, v), NEW q \in Proxy
    PROVE  /\ health'[q].cooldown >= health[q].cooldown
           /\ health'[q].active => health[q].active
<1>1. /\ health[q] \in [active : BOOLEAN, fails : Nat, cooldown : Nat]
      /\ health[p] \in [active : BOOLEAN, fails : Nat, cooldown : Nat]
      /\ health \in [Proxy -> [active : BOOLEAN, fails : Nat, cooldown : Nat]]
  BY DEF TypeOK
<1>2. v.cooldown \in Nat
  BY LeaseAssumption DEF Verdict
<1>3. CASE q # p
  BY <1>1, <1>3 DEF MarkVerdict
<1>4. CASE q = p
  <2>1. health'[q].cooldown = IF v.cooldown > health[q].cooldown THEN v.cooldown
                              ELSE health[q].cooldown
    BY <1>1, <1>4 DEF MarkVerdict
  <2>2. health'[q].active => health[q].active
    BY <1>1, <1>4 DEF MarkVerdict
  <2> QED
    BY <1>1, <1>2, <2>1, <2>2
<1> QED
  BY <1>3, <1>4

\* No counted failure makes a proxy available sooner (health.py:146-161), however
\* the reports of several tasks follow each other.
THEOREM FailuresOnlyDelay == Spec => FailuresNeverForgive
<1>1. ASSUME TypeOK, [Next]_vars, NEW q \in Proxy, health'[q].fails > health[q].fails
      PROVE  /\ health'[q].cooldown >= health[q].cooldown
             /\ health'[q].active => health[q].active
  <2>1. health \in [Proxy -> [active : BOOLEAN, fails : Nat, cooldown : Nat]]
    BY <1>1 DEF TypeOK
  <2>2. ~(health' = health)
    BY <1>1, <2>1
  <2>3. ASSUME NEW p \in Proxy, MarkSuccess(p) PROVE FALSE
    BY <1>1, <2>1, <2>3 DEF MarkSuccess, Healthy
  <2>4. ASSUME NEW p \in Proxy, Reserve(p) PROVE FALSE
    BY <1>1, <2>1, <2>4 DEF Reserve
  <2>5. CASE Tick
    BY <1>1, <2>1, <2>5 DEF Tick
  <2>6. ASSUME NEW p \in Proxy, NEW v \in Verdict, MarkVerdict(p, v)
        PROVE  /\ health'[q].cooldown >= health[q].cooldown
               /\ health'[q].active => health[q].active
    BY <1>1, <2>6, VerdictForgivesNothing
  <2>7. ASSUME NEW j \in Job, Grant(j) \/ Denied(j) PROVE FALSE
    BY <1>1, <2>3, <2>7 DEF Grant, Denied, TypeOK
  <2>8. ASSUME NEW j \in Job, ProbeFails(j)
        PROVE  /\ health'[q].cooldown >= health[q].cooldown
               /\ health'[q].active => health[q].active
    BY <1>1, <2>6, <2>8 DEF ProbeFails, ProbeVerdict, TypeOK
  <2>9. ASSUME NEW j \in Job, Begin(j) \/ Probe(j) \/ GiveUp(j) \/ Release(j) \/ Vanish(j)
        PROVE  FALSE
    BY <2>2, <2>9 DEF Begin, Probe, GiveUp, Release, Vanish
  <2> QED
    BY <1>1, <2>2, <2>3, <2>4, <2>5, <2>6, <2>7, <2>8, <2>9
    DEF Next, Acquiring, ReportFailure, ReportSuccess, vars
<1>2. TypeOK /\ [Next]_vars =>
        [\A p \in Proxy : health'[p].fails > health[p].fails =>
           /\ health'[p].cooldown >= health[p].cooldown
           /\ health'[p].active => health[p].active]_vars
  BY <1>1
<1> QED
  BY <1>2, TypeCorrect, PTL DEF Spec, FailuresNeverForgive
=============================================================================
