--------------------------- MODULE BindingJournal ---------------------------
(***************************************************************************)
(* The durable journal each of the two services keeps (bindings.py): four  *)
(* SQLite tables and the transactions on them.  Every operation opens its  *)
(* own connection and runs as one IMMEDIATE transaction, so an operation   *)
(* is one atomic step; a restart finds exactly what was committed, so a    *)
(* restart of the journal is not a step at all.                            *)
(*                                                                         *)
(* The module holds the journals of both services, because each one        *)
(* receives what the other one publishes.  BindingExchange adds the        *)
(* deliveries between them.                                                *)
(***************************************************************************)
EXTENDS BindingEvents, Sequences, FiniteSets

CONSTANTS
    SeenLimit,     \* rows kept in seen (10000 in the code)
    PendingLimit   \* rows pending() returns at most (50 in the code)

Binding == [ref : Ref, exit : Exit \cup {NoExit}]

ASSUME JournalAssumption ==
    /\ NoExit \notin Exit
    /\ NoRow \notin Event
    /\ NoRow \notin Binding
    /\ SeenLimit \in Nat
    /\ PendingLimit \in Nat \ {0}

VARIABLES
    preferred,     \* [service][account]: the newest event it knows, or NoRow
    observed,      \* [service][account]: the native binding last seen, or NoRow
    seen,          \* [service]: keys of received events, oldest row first
    outbox         \* [service]: rows [rowid, event] still to be acknowledged

journal == <<preferred, observed, seen, outbox>>

Init ==
    /\ preferred = [s \in Service |-> [a \in Account |-> NoRow]]
    /\ observed = [s \in Service |-> [a \in Account |-> NoRow]]
    /\ seen = [s \in Service |-> <<>>]
    /\ outbox = [s \in Service |-> {}]

-----------------------------------------------------------------------------
(* receive(): the peer's event arrives.                                    *)

Keys(table) == {table[i] : i \in 1..Len(table)}

\* A slip: nothing is ever pruned.
RememberAll(table, e) == Append(table, e)

\* INSERT INTO seen, then DELETE all but the newest SeenLimit rows.
Remember(table, e) ==
    LET all == Append(table, e)
    IN  IF Len(all) > SeenLimit
        THEN SubSeq(all, Len(all) - SeenLimit + 1, Len(all))
        ELSE all

\* Slips: the version is not compared; only the revision is; a repeated key
\* is refused.
ReceiveLatest(s, e) ==
    /\ e.source = Peer(s)
    /\ seen' = [seen EXCEPT ![s] = Remember(@, e)]
    /\ preferred' = [preferred EXCEPT ![s][e.account] = e]
    /\ UNCHANGED <<observed, outbox>>

ReceiveByRevision(s, e) ==
    /\ e.source = Peer(s)
    /\ seen' = [seen EXCEPT ![s] = Remember(@, e)]
    /\ LET old == preferred[s][e.account]
       IN  preferred' = IF old # NoRow /\ old.revision >= e.revision
                        THEN preferred
                        ELSE [preferred EXCEPT ![s][e.account] = e]
    /\ UNCHANGED <<observed, outbox>>

ReceiveOnce(s, e) ==
    /\ e.source = Peer(s)
    /\ e \notin Keys(seen[s])
    /\ seen' = [seen EXCEPT ![s] = Remember(@, e)]
    /\ preferred' = IF Covers(preferred[s][e.account], e)
                    THEN preferred
                    ELSE [preferred EXCEPT ![s][e.account] = e]
    /\ UNCHANGED <<observed, outbox>>

(***************************************************************************)
(* A key in seen answers "duplicate" and changes nothing.  Otherwise the   *)
(* key is remembered, and the event replaces the preference ("accepted")   *)
(* unless the preference is already as new ("stale").                      *)
(***************************************************************************)
Receive(s, e) ==
    /\ e.source = Peer(s)
    /\ \/ /\ e \in Keys(seen[s])
          /\ UNCHANGED journal
       \/ /\ e \notin Keys(seen[s])
          /\ seen' = [seen EXCEPT ![s] = Remember(@, e)]
          /\ preferred' = IF Covers(preferred[s][e.account], e)
                          THEN preferred
                          ELSE [preferred EXCEPT ![s][e.account] = e]
          /\ UNCHANGED <<observed, outbox>>

-----------------------------------------------------------------------------
(* observe(): the service's own adapter reports a committed binding.       *)

\* The binding is the one already recorded; a failed exit probe (NoExit)
\* is neither a new binding nor the loss of the last verified exit.
Repeats(old, r, x) == old # NoRow /\ old.ref = r /\ x \in {NoExit, old.exit}

\* A slip: the same exit through another port is not recognised.
FulfilsByRef(desired, r, x) == desired # NoRow /\ desired.ref = r

\* The preference already names this proxy or this exit.
Fulfils(desired, r, x) ==
    desired # NoRow /\ (desired.ref = r \/ (x # NoExit /\ desired.exit = x))

\* The peer's preference is waiting, and this is only the first sight of the
\* binding it is to replace, or the exit of that binding being learned.
AwaitsRebind(s, desired, old, r) ==
    /\ desired # NoRow
    /\ desired.source # s
    /\ old = NoRow \/ (old.ref = r /\ old.exit = NoExit)

NextRowid(table) ==
    IF table = {} THEN 1
    ELSE 1 + (CHOOSE row \in table : \A q \in table : q.rowid <= row.rowid).rowid

\* A slip: the account's older row stays.
EnqueueBehind(table, e) == table \cup {[rowid |-> NextRowid(table), event |-> e]}

\* DELETE the account's row, INSERT the new event behind all the others.
Enqueue(table, e) ==
    LET rest == {row \in table : row.event.account # e.account}
    IN  rest \cup {[rowid |-> NextRowid(rest), event |-> e]}

Publishes(s, a, r, x) ==
    /\ ~Repeats(observed[s][a], r, x)
    /\ ~Fulfils(preferred[s][a], r, x)
    /\ ~AwaitsRebind(s, preferred[s][a], observed[s][a], r)

\* A repeated binding returns at once and is no step of the model.
Observe(s, a, r, x) ==
    /\ ~Repeats(observed[s][a], r, x)
    /\ observed' = [observed EXCEPT ![s][a] = [ref |-> r, exit |-> x]]
    /\ LET new == NewEvent(preferred[s][a], s, a, r, x)
       IN  IF Publishes(s, a, r, x)
           THEN /\ preferred' = [preferred EXCEPT ![s][a] = new]
                /\ outbox' = [outbox EXCEPT ![s] = Enqueue(@, new)]
           ELSE UNCHANGED <<preferred, outbox>>
    /\ UNCHANGED seen

-----------------------------------------------------------------------------
(* pending() and acknowledge(): the outbox as its reader sees it.          *)

Queued(s) == {row.event : row \in outbox[s]}

\* A slip: LIMIT is one short.
PendingOneShort(s) ==
    {row.event : row \in
        {row \in outbox[s] :
            Cardinality({q \in outbox[s] : q.rowid < row.rowid}) < PendingLimit - 1}}

\* SELECT body FROM outbox ORDER BY rowid LIMIT PendingLimit
Pending(s) ==
    {row.event : row \in
        {row \in outbox[s] :
            Cardinality({q \in outbox[s] : q.rowid < row.rowid}) < PendingLimit}}

\* A slip: the account's row is deleted, not the event's.
AcknowledgeAccount(s, e) ==
    /\ outbox' = [outbox EXCEPT ![s] = {row \in @ : row.event.account # e.account}]
    /\ UNCHANGED <<preferred, observed, seen>>

Acknowledge(s, e) ==
    /\ outbox' = [outbox EXCEPT ![s] = {row \in @ : row.event # e}]
    /\ UNCHANGED <<preferred, observed, seen>>
=============================================================================
