-------------------------- MODULE BindingExchange --------------------------
(***************************************************************************)
(* Two services keep their journals in step (bindings.py, binding_api.py). *)
(* Each one runs a background exchange that reads pending(), gives every   *)
(* event to the peer's deliver(), and acknowledges what deliver() reported *)
(* as durable.  The loop itself belongs to the embedding application; the  *)
(* transports it uses are BindingPeer (HTTP), BindingFilePeer (the peer's  *)
(* journal file) and BindingPeerWithFileFallback (HTTP, then the file).    *)
(*                                                                         *)
(* A request may be lost, may be served after its sender has given up, may *)
(* be answered by a reply that never arrives, and may overtake another     *)
(* one; the exchange process may stop at any point and forget everything   *)
(* that is not in its journal.                                             *)
(***************************************************************************)
EXTENDS BindingJournal

CONSTANTS
    FileFallback,  \* TRUE: deliver() is BindingPeerWithFileFallback's
    MaxRevision,   \* bound: nothing is published beyond this revision
    MaxLate        \* bound: requests of one service that outlive their sender

ASSUME ExchangeAssumption ==
    /\ FileFallback \in BOOLEAN
    /\ MaxRevision \in Nat
    /\ MaxLate \in Nat

VARIABLES
    batch,         \* [service]: events of the last pending() not yet tried
    call,          \* [service]: the deliver() in progress, and where it is
    late           \* [service]: requests that may still be served, though
                   \*   nobody waits for the answer

vars == <<preferred, observed, seen, outbox, batch, call, late>>

Idle == [step |-> "idle", event |-> NoRow]

\* deliver() is waiting for the answer; the answer is on its way; the answer
\* will not come and the file is next; deliver() is about to return True.
Delivering == [step : {"posted", "answered", "fallback", "delivered"}, event : Event]

ExchangeInit ==
    /\ Init
    /\ batch = [s \in Service |-> {}]
    /\ call = [s \in Service |-> Idle]
    /\ late = [s \in Service |-> {}]

-----------------------------------------------------------------------------
(* The service's adapter.                                                  *)

Report(s, a, r, x) ==
    /\ Publishes(s, a, r, x) => NextRevision(preferred[s][a]) <= MaxRevision
    /\ Observe(s, a, r, x)
    /\ UNCHANGED <<batch, call, late>>

-----------------------------------------------------------------------------
(* The background exchange of service s.                                   *)

Poll(s) ==
    /\ call[s] = Idle
    /\ batch[s] = {}
    /\ outbox[s] # {}
    /\ batch' = [batch EXCEPT ![s] = Pending(s)]
    /\ UNCHANGED <<journal, call, late>>

Post(s) ==
    /\ call[s] = Idle
    /\ \E e \in batch[s] :
         /\ batch' = [batch EXCEPT ![s] = @ \ {e}]
         /\ call' = [call EXCEPT ![s] = [step |-> "posted", event |-> e]]
    /\ UNCHANGED <<journal, late>>

\* A slip: the handler answers and commits nothing.
ServeNothing(s) ==
    /\ call[s].step = "posted"
    /\ call' = [call EXCEPT ![s].step = "answered"]
    /\ UNCHANGED <<journal, batch, late>>

\* The peer's handler commits the event and sends its 200.
Serve(s) ==
    /\ call[s].step = "posted"
    /\ Receive(Peer(s), call[s].event)
    /\ call' = [call EXCEPT ![s].step = "answered"]
    /\ UNCHANGED <<batch, late>>

\* A slip: the status is not looked at.
RefuseIsDelivered(s) ==
    /\ call[s].step = "posted"
    /\ call' = [call EXCEPT ![s].step = "delivered"]
    /\ UNCHANGED <<journal, batch, late>>

\* Any other status: deliver() is False, the event stays in the outbox, and
\* the file is not tried.
Refuse(s) ==
    /\ call[s].step = "posted"
    /\ call' = [call EXCEPT ![s] = Idle]
    /\ UNCHANGED <<journal, batch, late>>

\* The 200 arrives and names this event: deliver() is True.
Reply(s) ==
    /\ call[s].step = "answered"
    /\ call' = [call EXCEPT ![s].step = "delivered"]
    /\ UNCHANGED <<journal, batch, late>>

\* What becomes of a request nobody waits for: lost, or served later.
Abandon(s) ==
    \/ UNCHANGED late
    \/ /\ call[s].step = "posted"
       /\ Cardinality(late[s]) < MaxLate
       /\ late' = [late EXCEPT ![s] = @ \cup {call[s].event}]

\* A slip: a request that failed on its way counts as delivered.
ErrorIsDelivered(s) ==
    /\ call[s].step \in {"posted", "answered"}
    /\ Abandon(s)
    /\ call' = [call EXCEPT ![s].step = "delivered"]
    /\ UNCHANGED <<journal, batch>>

\* httpx.RequestError (no connection, a timeout, a broken reply).
RequestError(s) ==
    /\ call[s].step \in {"posted", "answered"}
    /\ Abandon(s)
    /\ call' = [call EXCEPT ![s] = IF FileFallback
                                   THEN [step |-> "fallback", event |-> @.event]
                                   ELSE Idle]
    /\ UNCHANGED <<journal, batch>>

\* BindingFilePeer.deliver: the receiver's transaction, run by the sender.
FileDeliver(s) ==
    /\ call[s].step = "fallback"
    /\ Receive(Peer(s), call[s].event)
    /\ call' = [call EXCEPT ![s].step = "delivered"]
    /\ UNCHANGED <<batch, late>>

Confirm(s) ==
    /\ call[s].step = "delivered"
    /\ Acknowledge(s, call[s].event)
    /\ call' = [call EXCEPT ![s] = Idle]
    /\ UNCHANGED <<batch, late>>

ServeLate(s) ==
    /\ \E e \in late[s] :
         /\ Receive(Peer(s), e)
         /\ late' = [late EXCEPT ![s] = @ \ {e}]
    /\ UNCHANGED <<batch, call>>

\* The exchange process stops and starts again with the journal only.
Restart(s) ==
    /\ call[s] # Idle \/ batch[s] # {}
    /\ Abandon(s)
    /\ call' = [call EXCEPT ![s] = Idle]
    /\ batch' = [batch EXCEPT ![s] = {}]
    /\ UNCHANGED journal

ExchangeStep(s) ==
    \/ Poll(s) \/ Post(s) \/ Serve(s) \/ Refuse(s) \/ Reply(s)
    \/ RequestError(s) \/ FileDeliver(s) \/ Confirm(s)

Next ==
    \E s \in Service :
        \/ \E a \in Account, r \in Ref, x \in Exit \cup {NoExit} : Report(s, a, r, x)
        \/ ExchangeStep(s)
        \/ ServeLate(s)
        \/ Restart(s)

Spec == ExchangeInit /\ [][Next]_vars

(***************************************************************************)
(* What the surroundings owe the exchange: its loop goes on; the peer does *)
(* not refuse, lose or time out every request for ever; a process that is  *)
(* restarted again and again is not stopped at the same point every time.  *)
(* With the file fallback a request that fails is as good as one served.   *)
(***************************************************************************)
Fairness ==
    \A s \in Service :
        /\ WF_vars(Poll(s))
        /\ SF_vars(Post(s))
        /\ FileFallback => SF_vars(Serve(s) \/ RequestError(s))
        /\ ~FileFallback => SF_vars(Serve(s))
        /\ SF_vars(FileDeliver(s))
        /\ FileFallback => SF_vars(Reply(s) \/ RequestError(s))
        /\ ~FileFallback => SF_vars(Reply(s))
        /\ SF_vars(Confirm(s))

FairSpec == Spec /\ Fairness

-----------------------------------------------------------------------------
(* What the exchange promises.                                             *)

\* The values the variables range over; seen stays within its limit.
TypeOK ==
    /\ preferred \in [Service -> [Account -> Event \cup {NoRow}]]
    /\ observed \in [Service -> [Account -> Binding \cup {NoRow}]]
    /\ seen \in [Service -> Seq(Event)]
    /\ \A s \in Service : Len(seen[s]) <= SeenLimit
    /\ outbox \in [Service -> SUBSET [rowid : Nat, event : Event]]
    /\ batch \in [Service -> SUBSET Event]
    /\ call \in [Service -> Delivering \cup {Idle}]
    /\ late \in [Service -> SUBSET Event]

\* Every event of service s that exists anywhere outside its own journal.
Travelling(s) ==
    batch[s] \cup late[s] \cup ({call[s].event} \ {NoRow})
        \cup Keys(seen[Peer(s)])
        \cup ({preferred[Peer(s)][a] : a \in Account} \ {NoRow})

Known == UNION {Queued(s) \cup Travelling(s)
                  \cup ({preferred[s][a] : a \in Account} \ {NoRow}) : s \in Service}

(***************************************************************************)
(* A preference is never the only copy of itself: whatever s prefers is    *)
(* still in its outbox, or the peer prefers it or something newer.  This   *)
(* is what an acknowledgement of the wrong row, or one given before the    *)
(* peer's commit, would break (bindings.py:143-155, binding_api.py:28-39). *)
(***************************************************************************)
NothingForgotten ==
    \A s \in Service, a \in Account :
        preferred[s][a] # NoRow =>
            \/ preferred[s][a] \in Queued(s)
            \/ Covers(preferred[Peer(s)][a], preferred[s][a])

(***************************************************************************)
(* Two events of one account with one version are one event, wherever the  *)
(* copies are: rejecting an event as stale can never reject a different    *)
(* assignment (bindings.py:110, 138).                                      *)
(***************************************************************************)
VersionNamesOneEvent ==
    \A e, f \in Known :
        (e.account = f.account /\ e.revision = f.revision /\ e.source = f.source)
            => e = f

(***************************************************************************)
(* Answering "duplicate" without looking at the preference is right: what  *)
(* seen remembers has been superseded or is the preference, even after     *)
(* the table has been pruned and refilled (bindings.py:104-111).           *)
(***************************************************************************)
SeenIsCovered ==
    \A s \in Service : \A e \in Keys(seen[s]) : Covers(preferred[s][e.account], e)

(***************************************************************************)
(* The outbox holds one row per account, and no event of the account that  *)
(* is on its way is newer than that row: coalescing drops only what is     *)
(* obsolete (bindings.py:142-144).                                         *)
(***************************************************************************)
OutboxIsNewest ==
    \A s \in Service : \A row \in outbox[s] :
        /\ \A other \in outbox[s] : other.event.account = row.event.account => other = row
        /\ \A e \in Travelling(s) :
             (e.source = s /\ e.account = row.event.account) => ~Older(row.event, e)

(***************************************************************************)
(* When nothing is left to send, both services prefer the same event for   *)
(* every account, whatever was lost, repeated or reordered on the way.     *)
(***************************************************************************)
QuietMeansAgreed ==
    (\A s \in Service : outbox[s] = {}) => preferred[0] = preferred[1]

(***************************************************************************)
(* A preference is only ever replaced by a newer one; no late, repeated or *)
(* reordered delivery takes it back (bindings.py:108-112, 138-141).        *)
(***************************************************************************)
PreferencesAdvance ==
    [][\A s \in Service, a \in Account :
         preferred'[s][a] # preferred[s][a] =>
             /\ preferred'[s][a] # NoRow
             /\ preferred[s][a] # NoRow => Older(preferred[s][a], preferred'[s][a])]_vars

(***************************************************************************)
(* A row leaves the outbox only for a newer row of its account, or once    *)
(* the peer's journal holds the event or a newer one: an acknowledgement   *)
(* that is late, or races a new observation, takes nothing else with it.   *)
(***************************************************************************)
RowsLeaveOnlyWhenSafe ==
    [][\A s \in Service : \A row \in outbox[s] :
         row \notin outbox'[s] =>
             \/ Covers(preferred[Peer(s)][row.event.account], row.event)
             \/ \E new \in outbox'[s] :
                  /\ new.event.account = row.event.account
                  /\ Older(row.event, new.event)]_vars

(***************************************************************************)
(* The facts the invariants above rest on; together with them they are     *)
(* inductive.  Each part is true for a reason of its own: where an event   *)
(* may travel, that nobody knows a service's choices before it does, and   *)
(* that an answered delivery has been committed by the receiver.           *)
(***************************************************************************)
Addressed ==
    \A s \in Service :
        /\ \A e \in Queued(s) \cup batch[s] \cup late[s] : e.source = s
        /\ call[s] # Idle => call[s].event.source = s
        /\ \A e \in Keys(seen[s]) : e.source = Peer(s)
        /\ \A a \in Account : preferred[s][a] # NoRow => preferred[s][a].account = a

OwnChoicesCovered ==
    \A e \in Known : Covers(preferred[e.source][e.account], e)

DeliveredIsCovered ==
    \A s \in Service :
        call[s].step \in {"answered", "delivered"} =>
            Covers(preferred[Peer(s)][call[s].event.account], call[s].event)

Inv ==
    /\ TypeOK
    /\ Addressed
    /\ OwnChoicesCovered
    /\ VersionNamesOneEvent
    /\ SeenIsCovered
    /\ OutboxIsNewest
    /\ DeliveredIsCovered
    /\ NothingForgotten

(***************************************************************************)
(* With the journals, requests and retries hidden, the exchange is the     *)
(* abstract specification: every preference is a choice of the service     *)
(* itself or of its peer, and none is taken back.                          *)
(***************************************************************************)
Sync == INSTANCE PreferenceSync WITH pref <- preferred

ImplementsSync == Sync!Spec

\* Once the accounts stop moving, the two services come to agree for good.
EventuallyAgreed == <>[](preferred[0] = preferred[1])

\* Retransmission ends: every row is acknowledged or replaced in the end.
OutboxDrains == \A s \in Service : []<>(outbox[s] = {})
=============================================================================
