------------------------------ MODULE PoolSync ------------------------------
(***************************************************************************)
(* The consumer's proxy pool and the tasks that replace it (manager.py,    *)
(* pool.py).  sync() runs under the manager's lock and suspends while the  *)
(* producer answers and while the assigner works; choose() and acquire()   *)
(* pull an empty pool without the lock; a callback may push the lines the  *)
(* producer had when it called.  Between two awaits a task is alone.       *)
(*                                                                         *)
(* What a file, a response or a push holds is the export it came from: the *)
(* proxies, and the number of the producer's publication.                  *)
(***************************************************************************)
EXTENDS Integers, FiniteSets

CONSTANTS
    Periodic,        \* tasks that call sync() again and again (periodic_sync)
    Callback,        \* tasks that call sync() when the producer notifies
    Picker,          \* tasks that call choose() or acquire()
    Nobody,          \* the lock is free
    Proxy,
    MinCount,        \* PoolUpdatePolicy.min_count
    MaxDropPercent,  \* PoolUpdatePolicy.max_drop_ratio, in percent
    Pushes,          \* TRUE: a callback hands over the lines themselves
    MaxVersion       \* bound: the producer's last publication

Syncer == Periodic \cup Callback
Task == Syncer \cup Picker

ASSUME PoolAssumption ==
    /\ Syncer \cap Picker = {}
    /\ Nobody \notin Task
    /\ MinCount \in Nat
    /\ MaxDropPercent \in 0..100
    /\ Pushes \in BOOLEAN
    /\ MaxVersion \in Nat \ {0}

Export == [version : 0..MaxVersion, proxies : SUBSET Proxy]

VARIABLES
    export,    \* what the producer serves now
    file,      \* what the pool file holds
    holder,    \* the sync that holds the lock, or Nobody
    at,        \* [task]: where it is suspended
    before,    \* [task]: the pool when this sync began
    got,       \* [task]: the export it has been given
    assigned   \* what the assigner has last been given

vars == <<export, file, holder, at, before, got, assigned>>

Place == {"rest", "queued", "pushing", "requested", "answered", "assigning"}

Blank == [version |-> 0, proxies |-> {}]

Init ==
    /\ \E proxies \in SUBSET Proxy : export = [version |-> 1, proxies |-> proxies]
    /\ \E proxies \in SUBSET Proxy : file = [version |-> 0, proxies |-> proxies]
    /\ holder = Nobody
    /\ at = [t \in Task |-> "rest"]
    /\ before = [t \in Task |-> {}]
    /\ got = [t \in Task |-> Blank]
    /\ assigned = Blank

-----------------------------------------------------------------------------
(* replace_text: the checks, and the atomic replacement of the file.       *)

DropTooLarge(old, new) ==
    (Cardinality(old) - Cardinality(new)) * 100 > MaxDropPercent * Cardinality(old)

\* "proxy export is empty", then PoolUpdatePolicy.validate (no force).
Accepts(old, new) ==
    /\ new # {}
    /\ Cardinality(new) >= MinCount
    /\ old # {} => ~DropTooLarge(old, new)

Replace(t) ==
    /\ Accepts(file.proxies, got[t].proxies)
    /\ file' = got[t]

-----------------------------------------------------------------------------
(* sync().                                                                 *)

Ask(t) ==
    /\ at[t] = "rest"
    /\ at' = [at EXCEPT ![t] = "queued"]
    /\ UNCHANGED <<export, file, holder, before, got, assigned>>

\* sync(pushed_lines=...): the lines are those of the call.
AskPush(t) ==
    /\ Pushes
    /\ at[t] = "rest"
    /\ at' = [at EXCEPT ![t] = "pushing"]
    /\ got' = [got EXCEPT ![t] = export]
    /\ UNCHANGED <<export, file, holder, before, assigned>>

\* A slip: the lock is not waited for.
EnterUnlocked(t) ==
    /\ at[t] = "queued"
    /\ holder' = t
    /\ before' = [before EXCEPT ![t] = file.proxies]
    /\ at' = [at EXCEPT ![t] = "requested"]
    /\ UNCHANGED <<export, file, got, assigned>>

\* The lock is taken, the pool read, the request sent.
Enter(t) ==
    /\ at[t] = "queued"
    /\ holder = Nobody
    /\ holder' = t
    /\ before' = [before EXCEPT ![t] = file.proxies]
    /\ at' = [at EXCEPT ![t] = "requested"]
    /\ UNCHANGED <<export, file, got, assigned>>

\* The producer answers with what it serves at that moment.
Answer(t) ==
    /\ at[t] = "requested"
    /\ got' = [got EXCEPT ![t] = export]
    /\ at' = [at EXCEPT ![t] = "answered"]
    /\ UNCHANGED <<export, file, holder, before, assigned>>

\* A slip: the lock is given back before the assigner is called.
StoreAndRelease(t) ==
    /\ at[t] = "answered"
    /\ Replace(t)
    /\ holder' = Nobody
    /\ at' = [at EXCEPT ![t] = "assigning"]
    /\ UNCHANGED <<export, before, got, assigned>>

Store(t) ==
    /\ at[t] = "answered"
    /\ Replace(t)
    /\ at' = [at EXCEPT ![t] = "assigning"]
    /\ UNCHANGED <<export, holder, before, got, assigned>>

\* The pushed lines need no request: load and replacement are one step.
StorePushed(t) ==
    /\ at[t] = "pushing"
    /\ holder = Nobody
    /\ Replace(t)
    /\ holder' = t
    /\ before' = [before EXCEPT ![t] = file.proxies]
    /\ at' = [at EXCEPT ![t] = "assigning"]
    /\ UNCHANGED <<export, got, assigned>>

\* The assigner has stored its work and the lock is released.
Assign(t) ==
    /\ at[t] = "assigning"
    /\ assigned' = got[t]
    /\ holder' = Nobody
    /\ at' = [at EXCEPT ![t] = "rest"]
    /\ UNCHANGED <<export, file, before, got>>

\* A slip: the lock is not released by an exception.
FailWithTheLock(t) ==
    /\ at[t] # "rest"
    /\ at' = [at EXCEPT ![t] = "rest"]
    /\ UNCHANGED <<export, file, holder, before, got, assigned>>

(***************************************************************************)
(* The request fails, the export is refused, the file cannot be written,   *)
(* the assigner raises, or the task is cancelled: the exception leaves     *)
(* sync() and releases the lock if this task has it.  The pool stays as it *)
(* is, replaced or not; periodic_sync reports the error and goes on.       *)
(* Waiting for the lock, a task can only be cancelled, which ends          *)
(* periodic_sync: that one is left out.                                    *)
(***************************************************************************)
Fail(t) ==
    /\ at[t] # "rest"
    /\ at[t] = "queued" => t \notin Periodic
    /\ holder' = IF holder = t THEN Nobody ELSE holder
    /\ at' = [at EXCEPT ![t] = "rest"]
    /\ UNCHANGED <<export, file, before, got, assigned>>

-----------------------------------------------------------------------------
(* _ordered_candidates(): an empty pool is pulled, and nothing is locked.  *)

Pick(t) ==
    /\ at[t] = "rest"
    /\ file.proxies = {}
    /\ at' = [at EXCEPT ![t] = "requested"]
    /\ UNCHANGED <<export, file, holder, before, got, assigned>>

PickStore(t) ==
    /\ at[t] = "answered"
    /\ Replace(t)
    /\ at' = [at EXCEPT ![t] = "rest"]
    /\ UNCHANGED <<export, holder, before, got, assigned>>

-----------------------------------------------------------------------------

Publish ==
    /\ export.version < MaxVersion
    /\ \E proxies \in SUBSET Proxy \ {export.proxies} :
         export' = [version |-> export.version + 1, proxies |-> proxies]
    /\ UNCHANGED <<file, holder, at, before, got, assigned>>

SyncStep(t) ==
    \/ Ask(t) \/ Enter(t) \/ Answer(t) \/ Store(t) \/ StorePushed(t)
    \/ Assign(t) \/ Fail(t)

PickStep(t) == Pick(t) \/ Answer(t) \/ PickStore(t) \/ Fail(t)

Next ==
    \/ Publish
    \/ \E t \in Syncer : SyncStep(t)
    \/ \E t \in Callback : AskPush(t)
    \/ \E t \in Picker : PickStep(t)

Spec == Init /\ [][Next]_vars

(***************************************************************************)
(* periodic_sync calls again after every interval; asyncio's lock serves   *)
(* its waiters in turn; the producer, the disk and the assigner do not     *)
(* fail every time.                                                        *)
(***************************************************************************)
Fairness ==
    \A t \in Periodic :
        /\ WF_vars(Ask(t))
        /\ SF_vars(Enter(t))
        /\ SF_vars(Answer(t))
        /\ SF_vars(Store(t))
        /\ SF_vars(Assign(t))

\* A task that has the lock does not keep it for ever.
Leaves == \A t \in Syncer : WF_vars(holder = t /\ (Store(t) \/ Assign(t) \/ Fail(t)))

FairSpec == Spec /\ Fairness /\ Leaves

-----------------------------------------------------------------------------
(* What the pool's tasks promise.                                          *)

(***************************************************************************)
(* The variables' types; and exactly the sync that is past the lock holds  *)
(* it, however it gets there and whichever way it leaves (manager.py:128). *)
(***************************************************************************)
TypeOK ==
    /\ export \in Export
    /\ file \in Export
    /\ holder \in Syncer \cup {Nobody}
    /\ at \in [Task -> Place]
    /\ before \in [Task -> SUBSET Proxy]
    /\ got \in [Task -> Export]
    /\ assigned \in Export
    /\ \A t \in Syncer :
         holder = t <=> at[t] \in {"requested", "answered", "assigning"}

Stores(t) == at[t] # "assigning" /\ at'[t] = "assigning"

\* The pool is what a pull without the lock has stored.
PulledUnlocked == \E u \in Picker : file = got[u]

(***************************************************************************)
(* A sync that fetches puts an older export over a later one only when a   *)
(* pull without the lock, begun while there was no pool, has stored the    *)
(* later one meanwhile: no other sync, push or failure leads to it         *)
(* (manager.py:128-134, 146-148).                                          *)
(***************************************************************************)
OnlyPullsAreUndone ==
    [][\A t \in Syncer :
         at[t] = "answered" /\ Stores(t) /\ file.version > got[t].version
           => PulledUnlocked]_vars

(***************************************************************************)
(* The added and removed counts of a sync are those of its own             *)
(* replacement, though the pool was read before the request was sent: the  *)
(* pool is still the one it began with, or an unlocked pull has filled it  *)
(* (manager.py:129-143).                                                   *)
(***************************************************************************)
DeltaIsTheChange ==
    [][\A t \in Syncer : Stores(t) => before'[t] = file.proxies \/ PulledUnlocked]_vars

(***************************************************************************)
(* When the assigner has finished, accounts have been assigned from the    *)
(* list the pool still holds, not from one another sync has put there      *)
(* meanwhile (manager.py:135).                                             *)
(***************************************************************************)
AssignsThePool ==
    [][assigned' # assigned => assigned' = file \/ PulledUnlocked]_vars

(***************************************************************************)
(* Once the producer has stopped publishing, the pool and the assignments  *)
(* come to be its last export for good, or that export is one the policy   *)
(* refuses (manager.py:255-271), whatever pulls, pushes and failures there *)
(* were.                                                                   *)
(***************************************************************************)
EventuallyCurrent ==
    <>[](\/ file = export /\ assigned = export
         \/ ~Accepts(file.proxies, export.proxies))
=============================================================================
