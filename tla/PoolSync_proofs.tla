---------------------------- MODULE PoolSync_proofs ----------------------------
(***************************************************************************)
(* That the lock does what it is for, for any tasks, proxies and update    *)
(* policy: only a pull that took no lock can come between a sync's reading *)
(* of the pool and its replacement, or between that and its assignment.    *)
(***************************************************************************)
EXTENDS PoolSync, TLAPS

(***************************************************************************)
(* A picker has filled the pool, and is at rest.  As the pool is never     *)
(* empty again, no picker pulls any more, so this stays so until somebody  *)
(* replaces the pool.                                                      *)
(***************************************************************************)
FilledByPicker == \E u \in Picker : at[u] = "rest" /\ file = got[u] /\ file.proxies # {}

\* Nothing anybody has is of the future.
NothingAhead ==
    /\ file.version <= export.version
    /\ \A t \in Task : got[t].version <= export.version

\* What a sync past the lock remembers is still so, or a picker intervened.
PoolKept(t) ==
    /\ at[t] \in {"requested", "answered"} => before[t] = file.proxies \/ FilledByPicker
    /\ at[t] = "answered" => file.version <= got[t].version \/ FilledByPicker
    /\ at[t] = "assigning" => file = got[t] \/ FilledByPicker

\* The inductive invariant.
LockInv ==
    /\ TypeOK
    /\ \A u \in Picker : at[u] \in {"rest", "requested", "answered"}
    /\ NothingAhead
    /\ \A t \in Syncer : PoolKept(t)

-----------------------------------------------------------------------------

\* A syncer is no picker, and Nobody is neither.
LEMMA Tasks ==
    /\ \A t \in Syncer : t \in Task /\ t \notin Picker /\ t # Nobody
    /\ \A t \in Picker : t \in Task /\ t \notin Syncer /\ t # Nobody
    /\ Periodic \subseteq Syncer /\ Callback \subseteq Syncer
BY PoolAssumption DEF Task, Syncer

\* Every step keeps the types, and the lock with the sync that is past it.
LEMMA TypeInvariant == ASSUME TypeOK, [Next]_vars PROVE TypeOK'
<1> USE Tasks, PoolAssumption
<1>1. CASE UNCHANGED vars
  BY <1>1 DEF vars, TypeOK
<1>2. CASE Publish
  <2>1. export' \in Export
    BY <1>2 DEF Publish, TypeOK, Export
  <2> QED
    BY <1>2, <2>1 DEF Publish, TypeOK
<1>3. ASSUME NEW t \in Syncer, SyncStep(t) PROVE TypeOK'
  <2>1. CASE Ask(t)
    BY <2>1 DEF Ask, TypeOK, Place
  <2>2. CASE Enter(t)
    <3>1. file.proxies \in SUBSET Proxy
      BY DEF TypeOK, Export
    <3> QED
      BY <2>2, <3>1 DEF Enter, TypeOK, Place
  <2>3. CASE Answer(t)
    BY <2>3 DEF Answer, TypeOK, Place
  <2>4. CASE Store(t)
    BY <2>4 DEF Store, Replace, TypeOK, Place
  <2>5. CASE StorePushed(t)
    <3>1. file.proxies \in SUBSET Proxy
      BY DEF TypeOK, Export
    <3> QED
      BY <2>5, <3>1 DEF StorePushed, Replace, TypeOK, Place
  <2>6. CASE Assign(t)
    BY <2>6 DEF Assign, TypeOK, Place
  <2>7. CASE Fail(t)
    BY <2>7 DEF Fail, TypeOK, Place
  <2> QED
    BY <1>3, <2>1, <2>2, <2>3, <2>4, <2>5, <2>6, <2>7 DEF SyncStep
<1>4. ASSUME NEW t \in Callback, AskPush(t) PROVE TypeOK'
  BY <1>4 DEF AskPush, TypeOK, Place
<1>5. ASSUME NEW t \in Picker, PickStep(t) PROVE TypeOK'
  <2>1. CASE Pick(t)
    BY <2>1 DEF Pick, TypeOK, Place
  <2>2. CASE Answer(t)
    BY <2>2 DEF Answer, TypeOK, Place
  <2>3. CASE PickStore(t)
    BY <2>3 DEF PickStore, Replace, TypeOK, Place
  <2>4. CASE Fail(t)
    BY <2>4 DEF Fail, TypeOK, Place
  <2> QED
    BY <1>5, <2>1, <2>2, <2>3, <2>4 DEF PickStep
<1> QED
  BY <1>1, <1>2, <1>3, <1>4, <1>5 DEF Next

\* Pickers pull and nothing else.
LEMMA PickersPull ==
    ASSUME TypeOK, \A u \in Picker : at[u] \in {"rest", "requested", "answered"}, [Next]_vars
    PROVE  (\A u \in Picker : at[u] \in {"rest", "requested", "answered"})'
<1> SUFFICES ASSUME NEW u \in Picker PROVE at'[u] \in {"rest", "requested", "answered"}
  OBVIOUS
<1>1. ASSUME NEW t \in Syncer, SyncStep(t) PROVE at'[u] = at[u]
  BY <1>1, Tasks DEF SyncStep, Ask, Enter, Answer, Store, StorePushed, Assign, Fail, TypeOK
<1>2. ASSUME NEW t \in Callback, AskPush(t) PROVE at'[u] = at[u]
  BY <1>2, Tasks DEF AskPush, TypeOK
<1>3. ASSUME NEW t \in Picker, PickStep(t)
      PROVE  at'[u] \in {at[u], "rest", "requested", "answered"}
  BY <1>3, Tasks DEF PickStep, Pick, Answer, PickStore, Fail, TypeOK
<1>4. CASE Publish \/ UNCHANGED vars
  BY <1>4 DEF Publish, vars
<1> QED
  BY <1>1, <1>2, <1>3, <1>4 DEF Next

\* Publications are numbered upwards, and exports are copied from them.
LEMMA NothingGetsAhead == ASSUME TypeOK, NothingAhead, [Next]_vars PROVE NothingAhead'
<1> USE Tasks
<1>1. file.version \in Nat /\ export.version \in Nat /\ \A t \in Task : got[t].version \in Nat
  BY PoolAssumption DEF TypeOK, Export
<1>2. CASE Publish
  <2>1. export'.version = export.version + 1 /\ file' = file /\ got' = got
    BY <1>2 DEF Publish
  <2> QED
    BY <1>1, <2>1 DEF NothingAhead
<1>3. CASE UNCHANGED <<export, file, got>>
  BY <1>3 DEF NothingAhead
<1>4. ASSUME NEW t \in Task, got' = [got EXCEPT ![t] = export], UNCHANGED <<export, file>>
      PROVE  NothingAhead'
  BY <1>1, <1>4 DEF NothingAhead, TypeOK
<1>5. ASSUME NEW t \in Task, Replace(t), UNCHANGED <<export, got>> PROVE NothingAhead'
  BY <1>5 DEF Replace, NothingAhead
<1> QED
  BY <1>2, <1>3, <1>4, <1>5
  DEF Next, SyncStep, PickStep, Ask, AskPush, Enter, Answer, Store, StorePushed, Assign, Fail,
      Pick, PickStore, vars

\* While nobody replaces the pool, what a picker has stored stays known.
LEMMA FilledStays ==
    ASSUME TypeOK, FilledByPicker, [Next]_vars, file' = file
    PROVE  FilledByPicker'
<1>1. PICK u \in Picker : at[u] = "rest" /\ file = got[u] /\ file.proxies # {}
  BY DEF FilledByPicker
<1>2. at'[u] = at[u] /\ got'[u] = got[u]
  <2>1. ASSUME NEW t \in Syncer, SyncStep(t) PROVE at'[u] = at[u] /\ got'[u] = got[u]
    BY <2>1, Tasks DEF SyncStep, Ask, Enter, Answer, Store, StorePushed, Assign, Fail, TypeOK
  <2>2. ASSUME NEW t \in Callback, AskPush(t) PROVE at'[u] = at[u] /\ got'[u] = got[u]
    BY <2>2, Tasks DEF AskPush, TypeOK
  <2>3. ASSUME NEW t \in Picker, PickStep(t) PROVE at'[u] = at[u] /\ got'[u] = got[u]
    BY <2>3, <1>1, Tasks DEF PickStep, Pick, Answer, PickStore, Fail, TypeOK
  <2>4. CASE Publish \/ UNCHANGED vars
    BY <2>4 DEF Publish, vars
  <2> QED
    BY <2>1, <2>2, <2>3, <2>4 DEF Next
<1> QED
  BY <1>1, <1>2 DEF FilledByPicker

(***************************************************************************)
(* A step of somebody else, that leaves the pool alone or is a picker's,   *)
(* and a step of t's own that neither moves it past the lock nor stores.   *)
(***************************************************************************)
LEMMA OthersKeep ==
    ASSUME TypeOK, [Next]_vars, NEW t \in Syncer, PoolKept(t),
           at'[t] = at[t] \/ at'[t] \in {"rest", "queued", "pushing"},
           at'[t] = at[t] => at[t] = "rest" \/ (before'[t] = before[t] /\ got'[t] = got[t]),
           file' = file \/ FilledByPicker'
    PROVE  PoolKept(t)'
<1>1. CASE file' = file /\ ~FilledByPicker
  BY <1>1 DEF PoolKept
<1>2. CASE FilledByPicker'
  BY <1>2 DEF PoolKept
<1> QED
  BY <1>1, <1>2, FilledStays

\* The syncs past the lock keep what they remember.
LEMMA PoolIsKept == ASSUME LockInv, [Next]_vars, NEW t \in Syncer PROVE PoolKept(t)'
<1> USE Tasks
<1>0. TypeOK /\ PoolKept(t) /\ NothingAhead /\ \A u \in Picker : at[u] \in {"rest", "requested", "answered"}
  BY DEF LockInv
<1>1. CASE Publish \/ UNCHANGED vars
  BY <1>0, <1>1, OthersKeep DEF Publish, vars
<1>2. ASSUME NEW u \in Callback, AskPush(u) PROVE PoolKept(t)'
  <2>1. at'[t] = at[t] \/ at'[t] = "pushing"
    BY <1>0, <1>2 DEF AskPush, TypeOK
  <2>2. at'[t] = at[t] => before'[t] = before[t] /\ got'[t] = got[t]
    BY <1>0, <1>2 DEF AskPush, TypeOK
  <2> QED
    BY <1>0, <1>2, <2>1, <2>2, OthersKeep DEF AskPush
<1>3. ASSUME NEW u \in Picker, PickStep(u) PROVE PoolKept(t)'
  <2>1. at'[t] = at[t] /\ before'[t] = before[t] /\ got'[t] = got[t]
    BY <1>0, <1>3 DEF PickStep, Pick, Answer, PickStore, Fail, TypeOK
  <2>2. CASE PickStore(u)
    <3>1. FilledByPicker'
      BY <1>0, <2>2 DEF PickStore, Replace, Accepts, FilledByPicker, TypeOK
    <3> QED
      BY <1>0, <2>1, <3>1, OthersKeep
  <2>3. CASE file' = file
    BY <1>0, <2>1, <2>3, OthersKeep
  <2> QED
    BY <1>3, <2>2, <2>3 DEF PickStep, Pick, Answer, Fail
<1>4. ASSUME NEW u \in Syncer, SyncStep(u), u # t PROVE PoolKept(t)'
  <2>1. at'[t] = at[t] /\ before'[t] = before[t] /\ got'[t] = got[t]
    BY <1>0, <1>4 DEF SyncStep, Ask, Enter, Answer, Store, StorePushed, Assign, Fail, TypeOK
  <2>2. CASE Store(u) \/ StorePushed(u)
    <3>1. holder \in {u, Nobody}
      BY <1>0, <2>2 DEF Store, StorePushed, TypeOK
    <3>2. at[t] \notin {"requested", "answered", "assigning"}
      BY <1>0, <1>4, <3>1 DEF TypeOK
    <3> QED
      BY <2>1, <3>2 DEF PoolKept
  <2>3. CASE file' = file
    BY <1>0, <2>1, <2>3, OthersKeep
  <2> QED
    BY <1>4, <2>2, <2>3 DEF SyncStep, Ask, Enter, Answer, Assign, Fail
<1>5. ASSUME SyncStep(t) PROVE PoolKept(t)'
  <2>1. CASE Ask(t) \/ Assign(t) \/ Fail(t)
    <3>1. at'[t] \in {"rest", "queued"}
      BY <1>0, <2>1 DEF Ask, Assign, Fail, TypeOK
    <3> QED
      BY <3>1 DEF PoolKept
  <2>2. CASE Enter(t)
    <3>1. at'[t] = "requested" /\ before'[t] = file.proxies /\ file' = file
      BY <1>0, <2>2 DEF Enter, TypeOK
    <3> QED
      BY <3>1 DEF PoolKept
  <2>3. CASE Answer(t)
    <3>1. at[t] = "requested" /\ at'[t] = "answered" /\ got'[t] = export /\ file' = file
          /\ before'[t] = before[t]
      BY <1>0, <2>3 DEF Answer, TypeOK
    <3>2. file'.version <= got'[t].version
      BY <1>0, <3>1 DEF NothingAhead
    <3>3. before'[t] = file'.proxies \/ FilledByPicker'
      BY <1>0, <3>1, FilledStays DEF PoolKept
    <3> QED
      BY <3>1, <3>2, <3>3 DEF PoolKept
  <2>4. CASE Store(t) \/ StorePushed(t)
    <3>1. at'[t] = "assigning" /\ file' = got'[t]
      BY <1>0, <2>4 DEF Store, StorePushed, Replace, TypeOK
    <3> QED
      BY <3>1 DEF PoolKept
  <2> QED
    BY <1>5, <2>1, <2>2, <2>3, <2>4 DEF SyncStep
<1> QED
  BY <1>1, <1>2, <1>3, <1>4, <1>5 DEF Next

\* The parts hold together in every behaviour (manager.py:118-148).
THEOREM LockInvHolds == Spec => []LockInv
<1>1. Init => LockInv
  <2> SUFFICES ASSUME Init PROVE LockInv
    OBVIOUS
  <2>1. TypeOK
    BY Tasks, PoolAssumption DEF Init, TypeOK, Export, Blank, Place
  <2>2. NothingAhead
    BY Tasks DEF Init, NothingAhead, Blank
  <2>3. \A t \in Task : at[t] = "rest"
    BY DEF Init
  <2> QED
    BY <2>1, <2>2, <2>3, Tasks DEF LockInv, PoolKept
<1>2. LockInv /\ [Next]_vars => LockInv'
  BY TypeInvariant, PickersPull, NothingGetsAhead, PoolIsKept DEF LockInv
<1> QED
  BY <1>1, <1>2, PTL DEF Spec

\* The variables keep their types, and exactly the sync past the lock holds it
\* (manager.py:128).
THEOREM TypeCorrect == Spec => []TypeOK
<1>1. LockInv => TypeOK
  BY DEF LockInv
<1> QED
  BY <1>1, LockInvHolds, PTL

\* What a picker has filled, was pulled without the lock.
LEMMA FilledIsPulled == FilledByPicker => PulledUnlocked
BY DEF FilledByPicker, PulledUnlocked

\* A sync puts an older export over a later one only where a pull without the
\* lock has stored the later one meanwhile (manager.py:128-134, 146-148).
THEOREM OnlyPullsUndone == Spec => OnlyPullsAreUndone
<1> DEFINE Step == \A t \in Syncer :
         at[t] = "answered" /\ Stores(t) /\ file.version > got[t].version => PulledUnlocked
<1>1. LockInv => Step
  <2> SUFFICES ASSUME LockInv, NEW t \in Syncer,
                      at[t] = "answered", file.version > got[t].version
               PROVE  PulledUnlocked
    OBVIOUS
  <2>1. file.version \in Nat /\ got[t].version \in Nat
    BY Tasks, PoolAssumption DEF LockInv, TypeOK, Export
  <2>2. file.version <= got[t].version \/ FilledByPicker
    BY DEF LockInv, PoolKept
  <2> QED
    BY <2>1, <2>2, FilledIsPulled
<1>2. LockInv => [Step]_vars
  BY <1>1
<1> QED
  BY <1>2, LockInvHolds, PTL DEF OnlyPullsAreUndone

\* The pool a sync counts its changes from is the one it replaces, or one that
\* a pull without the lock has filled (manager.py:129-143).
THEOREM DeltaIsRight == Spec => DeltaIsTheChange
<1> DEFINE Step == \A t \in Syncer : Stores(t) => before'[t] = file.proxies \/ PulledUnlocked
<1>1. LockInv /\ [Next]_vars => [Step]_vars
  <2> SUFFICES ASSUME LockInv, Next, NEW t \in Syncer, Stores(t)
               PROVE  before'[t] = file.proxies \/ PulledUnlocked
    OBVIOUS
  <2>0. TypeOK
    BY DEF LockInv
  <2>1. Store(t) \/ StorePushed(t)
    <3>1. ASSUME NEW u \in Syncer, SyncStep(u) PROVE Store(t) \/ StorePushed(t)
      BY <2>0, <3>1, Tasks
      DEF SyncStep, Ask, Enter, Answer, Store, StorePushed, Assign, Fail, TypeOK, Stores
    <3>2. ASSUME NEW u \in Callback, AskPush(u) PROVE FALSE
      BY <2>0, <3>2, Tasks DEF AskPush, TypeOK, Stores
    <3>3. ASSUME NEW u \in Picker, PickStep(u) PROVE FALSE
      BY <2>0, <3>3, Tasks DEF PickStep, Pick, Answer, PickStore, Fail, TypeOK, Stores
    <3>4. ~Publish
      BY DEF Publish, Stores
    <3> QED
      BY <3>1, <3>2, <3>3, <3>4 DEF Next
  <2>2. CASE Store(t)
    <3>1. at[t] = "answered" /\ before' = before
      BY <2>2 DEF Store
    <3> QED
      BY <3>1, FilledIsPulled DEF LockInv, PoolKept
  <2>3. CASE StorePushed(t)
    BY <2>0, <2>3, Tasks DEF StorePushed, TypeOK
  <2> QED
    BY <2>1, <2>2, <2>3
<1> QED
  BY <1>1, LockInvHolds, PTL DEF Spec, DeltaIsTheChange

\* Accounts are assigned from the list the pool holds, or a pull without the
\* lock has filled it meanwhile (manager.py:135).
THEOREM AssignsWhatIsThere == Spec => AssignsThePool
<1> DEFINE Step == assigned' # assigned => assigned' = file \/ PulledUnlocked
<1>1. LockInv /\ [Next]_vars => [Step]_vars
  <2> SUFFICES ASSUME LockInv, Next, assigned' # assigned
               PROVE  assigned' = file \/ PulledUnlocked
    OBVIOUS
  <2>1. PICK t \in Syncer : Assign(t)
    BY Tasks DEF Next, SyncStep, PickStep, Ask, AskPush, Enter, Answer, Store, StorePushed, Fail,
       Pick, PickStore, Publish
  <2>2. at[t] = "assigning" /\ assigned' = got[t]
    BY <2>1 DEF Assign
  <2> QED
    BY <2>2, FilledIsPulled DEF LockInv, PoolKept
<1> QED
  BY <1>1, LockInvHolds, PTL DEF Spec, AssignsThePool
=============================================================================
