----------------------- MODULE BindingExchange_proofs -----------------------
(***************************************************************************)
(* Proofs about BindingExchange, for any accounts, references, exits and   *)
(* table limits: Inv is an invariant, and the properties that follow.      *)
(***************************************************************************)
EXTENDS BindingExchange, BindingJournal_proofs, TLAPS

-----------------------------------------------------------------------------
(* Type correctness.                                                       *)

LEMMA ReceiveIsTyped ==
    ASSUME TypeOK, NEW s \in Service, NEW e \in Event, Receive(s, e)
    PROVE  /\ preferred' \in [Service -> [Account -> Event \cup {NoRow}]]
           /\ seen' \in [Service -> Seq(Event)]
           /\ \A t \in Service : Len(seen'[t]) <= SeenLimit
           /\ UNCHANGED <<observed, outbox>>
<1>1. CASE UNCHANGED journal
  BY <1>1 DEF TypeOK, journal
<1>2. CASE /\ seen' = [seen EXCEPT ![s] = Remember(@, e)]
           /\ preferred' = IF Covers(preferred[s][e.account], e)
                           THEN preferred
                           ELSE [preferred EXCEPT ![s][e.account] = e]
           /\ UNCHANGED <<observed, outbox>>
  <2>1. Remember(seen[s], e) \in Seq(Event) /\ Len(Remember(seen[s], e)) <= SeenLimit
    BY RememberIsTyped DEF TypeOK
  <2>2. /\ seen' \in [Service -> Seq(Event)]
        /\ \A t \in Service : Len(seen'[t]) <= SeenLimit
    BY <1>2, <2>1 DEF TypeOK
  <2>3. preferred' \in [Service -> [Account -> Event \cup {NoRow}]]
    BY <1>2 DEF TypeOK, Event
  <2> QED
    BY <1>2, <2>2, <2>3
<1> QED
  BY <1>1, <1>2 DEF Receive

LEMMA AbandonIsTyped ==
    ASSUME TypeOK, NEW s \in Service, Abandon(s)
    PROVE  late' \in [Service -> SUBSET Event]
<1>1. CASE UNCHANGED late
  BY <1>1 DEF TypeOK
<1>2. CASE /\ call[s].step = "posted"
           /\ late' = [late EXCEPT ![s] = @ \cup {call[s].event}]
  <2>1. call[s] \in Delivering
    BY <1>2 DEF TypeOK, Idle
  <2>2. call[s].event \in Event
    BY <2>1 DEF Delivering
  <2> QED
    BY <1>2, <2>2 DEF TypeOK
<1> QED
  BY <1>1, <1>2 DEF Abandon

LEMMA TypeInvariant == Spec => [](TypeOK /\ RowidsBounded)
<1>1. ExchangeInit => TypeOK /\ RowidsBounded
  <2>1. ExchangeInit => RowidsBounded
    BY DEF ExchangeInit, Init, RowidsBounded
  <2>2. <<>> \in Seq(Event) /\ Len(<<>>) <= SeenLimit
    BY EmptySeq, JournalAssumption
  <2> QED
    BY <2>1, <2>2 DEF ExchangeInit, Init, TypeOK
<1>2. TypeOK /\ RowidsBounded /\ [Next]_vars => TypeOK' /\ RowidsBounded'
  <2> SUFFICES ASSUME TypeOK, RowidsBounded, [Next]_vars
               PROVE  TypeOK' /\ RowidsBounded'
    OBVIOUS
  <2>1. ASSUME NEW s \in Service, NEW a \in Account, NEW r \in Ref,
               NEW x \in Exit \cup {NoExit}, Report(s, a, r, x)
        PROVE  TypeOK' /\ RowidsBounded'
    <3> DEFINE new == NewEvent(preferred[s][a], s, a, r, x)
    <3>1. new \in Event
      <4>1. preferred[s][a] \in Event \cup {NoRow}
        BY DEF TypeOK
      <4> QED
        BY <4>1, NewEventIsNewer
    <3>2. observed' \in [Service -> [Account -> Binding \cup {NoRow}]]
      BY <2>1 DEF TypeOK, Report, Observe, Binding
    <3>3. CASE Publishes(s, a, r, x)
      <4>1. /\ preferred' = [preferred EXCEPT ![s][a] = new]
            /\ outbox' = [outbox EXCEPT ![s] = Enqueue(outbox[s], new)]
            /\ UNCHANGED <<seen, batch, call, late>>
        BY <2>1, <3>3 DEF Report, Observe
      <4>2. PICK n \in Nat : \A row \in outbox[s] : row.rowid <= n
        BY DEF RowidsBounded
      <4>3. PICK id \in Nat :
              Enqueue(outbox[s], new) = {row \in outbox[s] : row.event.account # new.account}
                                          \cup {[rowid |-> id, event |-> new]}
        BY <3>1, <4>2, EnqueueIsTyped DEF TypeOK
      <4> HIDE DEF new
      <4>4. Enqueue(outbox[s], new) \in SUBSET [rowid : Nat, event : Event]
        BY <3>1, <4>3 DEF TypeOK
      <4>5. TypeOK'
        BY <3>1, <3>2, <4>1, <4>4 DEF TypeOK
      <4>6. \A row \in Enqueue(outbox[s], new) : row.rowid <= n + id
        <5>1. \A row \in outbox[s] : row.rowid \in Nat
          BY DEF TypeOK
        <5> QED
          BY <4>2, <4>3, <5>1
      <4>7. RowidsBounded'
        <5>1. n + id \in Nat
          OBVIOUS
        <5> QED
          BY <4>1, <4>6, <5>1 DEF RowidsBounded, TypeOK
      <4> QED
        BY <4>5, <4>7
    <3>4. CASE ~Publishes(s, a, r, x)
      <4>1. UNCHANGED <<preferred, outbox, seen, batch, call, late>>
        BY <2>1, <3>4 DEF Report, Observe
      <4> QED
        BY <3>2, <4>1 DEF TypeOK, RowidsBounded
    <3> QED
      BY <3>3, <3>4
  <2>2. ASSUME NEW s \in Service, Poll(s)
        PROVE  TypeOK' /\ RowidsBounded'
    <3>1. \A row \in outbox[s] : row.event \in Event
      BY DEF TypeOK
    <3>2. Pending(s) \in SUBSET Event
      BY <3>1 DEF Pending
    <3> QED
      BY <2>2, <3>2 DEF Poll, journal, TypeOK, RowidsBounded
  <2>3. ASSUME NEW s \in Service, Post(s)
        PROVE  TypeOK' /\ RowidsBounded'
    BY <2>3 DEF Post, journal, TypeOK, RowidsBounded, Delivering
  <2>4. ASSUME NEW s \in Service, Serve(s)
        PROVE  TypeOK' /\ RowidsBounded'
    <3>1. call[s] \in Delivering
      BY <2>4 DEF Serve, TypeOK, Idle
    <3>2. call[s].event \in Event
      BY <3>1 DEF Delivering
    <3>3. call' \in [Service -> Delivering \cup {Idle}]
      BY <2>4, <3>1 DEF Serve, TypeOK, Delivering
    <3> QED
      BY <2>4, <3>2, <3>3, Services, ReceiveIsTyped DEF Serve, TypeOK, RowidsBounded
  <2>5. ASSUME NEW s \in Service, Refuse(s)
        PROVE  TypeOK' /\ RowidsBounded'
    BY <2>5 DEF Refuse, journal, TypeOK, RowidsBounded
  <2>6. ASSUME NEW s \in Service, Reply(s)
        PROVE  TypeOK' /\ RowidsBounded'
    <3>1. call[s] \in Delivering
      BY <2>6 DEF Reply, TypeOK, Idle
    <3> QED
      BY <2>6, <3>1 DEF Reply, journal, TypeOK, RowidsBounded, Delivering
  <2>7. ASSUME NEW s \in Service, RequestError(s)
        PROVE  TypeOK' /\ RowidsBounded'
    <3>1. call[s] \in Delivering
      BY <2>7 DEF RequestError, TypeOK, Idle
    <3>2. call[s].event \in Event
      BY <3>1 DEF Delivering
    <3>3. late' \in [Service -> SUBSET Event]
      BY <2>7, AbandonIsTyped DEF RequestError
    <3>4. call' \in [Service -> Delivering \cup {Idle}]
      BY <2>7, <3>2 DEF RequestError, TypeOK, Delivering
    <3> QED
      BY <2>7, <3>3, <3>4 DEF RequestError, journal, TypeOK, RowidsBounded
  <2>8. ASSUME NEW s \in Service, FileDeliver(s)
        PROVE  TypeOK' /\ RowidsBounded'
    <3>1. call[s] \in Delivering
      BY <2>8 DEF FileDeliver, TypeOK, Idle
    <3>2. call[s].event \in Event
      BY <3>1 DEF Delivering
    <3>3. call' \in [Service -> Delivering \cup {Idle}]
      BY <2>8, <3>1 DEF FileDeliver, TypeOK, Delivering
    <3> QED
      BY <2>8, <3>2, <3>3, Services, ReceiveIsTyped DEF FileDeliver, TypeOK, RowidsBounded
  <2>9. ASSUME NEW s \in Service, Confirm(s)
        PROVE  TypeOK' /\ RowidsBounded'
    BY <2>9 DEF Confirm, Acknowledge, TypeOK, RowidsBounded
  <2>10. ASSUME NEW s \in Service, ServeLate(s)
         PROVE  TypeOK' /\ RowidsBounded'
    <3>1. PICK e \in late[s] : Receive(Peer(s), e) /\ late' = [late EXCEPT ![s] = @ \ {e}]
      BY <2>10 DEF ServeLate
    <3>2. e \in Event
      BY DEF TypeOK
    <3> QED
      BY <2>10, <3>1, <3>2, Services, ReceiveIsTyped DEF ServeLate, TypeOK, RowidsBounded
  <2>11. ASSUME NEW s \in Service, Restart(s)
         PROVE  TypeOK' /\ RowidsBounded'
    <3>1. late' \in [Service -> SUBSET Event]
      BY <2>11, AbandonIsTyped DEF Restart
    <3> QED
      BY <2>11, <3>1 DEF Restart, journal, TypeOK, RowidsBounded
  <2>12. CASE UNCHANGED vars
    BY <2>12 DEF vars, TypeOK, RowidsBounded
  <2> QED
    BY <2>1, <2>2, <2>3, <2>4, <2>5, <2>6, <2>7, <2>8, <2>9, <2>10, <2>11, <2>12
       DEF Next, ExchangeStep
<1> QED
  BY <1>1, <1>2, PTL DEF Spec

(***************************************************************************)
(* Every table, request and reply of the exchange keeps its shape, for any *)
(* accounts and any limits (bindings.py:68-155).                           *)
(***************************************************************************)
THEOREM TypeCorrect == Spec => []TypeOK
BY TypeInvariant, PTL

-----------------------------------------------------------------------------
(* The inductive invariant.                                                *)

\* Where an event can be, before and after a step.
LEMMA WhereEventsAre ==
    /\ \A s \in Service : \A e : e \in Travelling(s) <=>
         \/ e \in batch[s] \/ e \in late[s] \/ e \in Keys(seen[Peer(s)])
         \/ e # NoRow /\ e = call[s].event
         \/ e # NoRow /\ \E a \in Account : e = preferred[Peer(s)][a]
    /\ \A s \in Service : \A e : e \in Travelling(s)' <=>
         \/ e \in batch'[s] \/ e \in late'[s] \/ e \in Keys(seen'[Peer(s)])
         \/ e # NoRow /\ e = call'[s].event
         \/ e # NoRow /\ \E a \in Account : e = preferred'[Peer(s)][a]
    /\ \A e : e \in Known <=> \E s \in Service :
         \/ e \in Queued(s) \/ e \in Travelling(s)
         \/ e # NoRow /\ \E a \in Account : e = preferred[s][a]
    /\ \A e : e \in Known' <=> \E s \in Service :
         \/ e \in Queued(s)' \/ e \in Travelling(s)'
         \/ e # NoRow /\ \E a \in Account : e = preferred'[s][a]
    /\ \A s \in Service : \A e : e \in Queued(s) <=> \E row \in outbox[s] : e = row.event
    /\ \A s \in Service : \A e : e \in Queued(s)' <=> \E row \in outbox'[s] : e = row.event
<1>1. \A s \in Service : \A e : e \in Travelling(s) <=>
         \/ e \in batch[s] \/ e \in late[s] \/ e \in Keys(seen[Peer(s)])
         \/ e # NoRow /\ e = call[s].event
         \/ e # NoRow /\ \E a \in Account : e = preferred[Peer(s)][a]
  BY DEF Travelling
<1>2. \A s \in Service : \A e : e \in Travelling(s)' <=>
         \/ e \in batch'[s] \/ e \in late'[s] \/ e \in Keys(seen'[Peer(s)])
         \/ e # NoRow /\ e = call'[s].event
         \/ e # NoRow /\ \E a \in Account : e = preferred'[Peer(s)][a]
  BY DEF Travelling, Keys
<1>3. \A e : e \in Known <=> \E s \in Service :
         \/ e \in Queued(s) \/ e \in Travelling(s)
         \/ e # NoRow /\ \E a \in Account : e = preferred[s][a]
  BY DEF Known
<1>4. \A e : e \in Known' <=> \E s \in Service :
         \/ e \in Queued(s)' \/ e \in Travelling(s)'
         \/ e # NoRow /\ \E a \in Account : e = preferred'[s][a]
  BY DEF Known
<1>5. /\ \A s \in Service : \A e : e \in Queued(s) <=> \E row \in outbox[s] : e = row.event
      /\ \A s \in Service : \A e : e \in Queued(s)' <=> \E row \in outbox'[s] : e = row.event
  BY DEF Queued
<1> QED
  BY <1>1, <1>2, <1>3, <1>4, <1>5

LEMMA KnownAreEvents ==
    ASSUME TypeOK
    PROVE  /\ Known \subseteq Event
           /\ \A s \in Service : Travelling(s) \subseteq Event /\ Queued(s) \subseteq Event
           /\ \A s \in Service : Travelling(s) \subseteq Known /\ Queued(s) \subseteq Known
<1>1. \A s \in Service : \A e \in Keys(seen[s]) : e \in Event
  BY ElementOfSeq DEF TypeOK, Keys
<1>2. \A s \in Service : call[s].event # NoRow => call[s].event \in Event
  BY DEF TypeOK, Delivering, Idle
<1>3. \A s \in Service, a \in Account : preferred[s][a] # NoRow => preferred[s][a] \in Event
  BY DEF TypeOK
<1>4. \A s \in Service : batch[s] \subseteq Event /\ late[s] \subseteq Event
  BY DEF TypeOK
<1>5. \A s \in Service : \A row \in outbox[s] : row.event \in Event
  BY DEF TypeOK
<1>6. \A s \in Service : Travelling(s) \subseteq Event
  BY <1>1, <1>2, <1>3, <1>4, Services, WhereEventsAre
<1>7. \A s \in Service : Queued(s) \subseteq Event
  BY <1>5, WhereEventsAre
<1>8. Known \subseteq Event
  BY <1>3, <1>6, <1>7, WhereEventsAre
<1> QED
  BY <1>6, <1>7, <1>8, WhereEventsAre

\* A preference that moves forward still covers what it covered.
LEMMA CoveringGrows ==
    ASSUME NEW old \in Event \cup {NoRow}, NEW new \in Event, NEW e \in Event,
           ~Covers(old, new), Covers(old, e)
    PROVE  Covers(new, e) /\ new # NoRow
<1>1. old \in Event /\ Older(old, new) /\ ~Older(old, e)
  BY DEF Covers
<1>2. ~Older(new, e)
  BY <1>1, VersionOrder
<1> QED
  BY <1>2, JournalAssumption DEF Covers

(***************************************************************************)
(* The steps that publish nothing: rows may leave an outbox, copies of     *)
(* events travel, and a preference changes only to a newer choice of the   *)
(* peer.                                                                   *)
(***************************************************************************)
OnlyCopies ==
    /\ \A s \in Service : outbox'[s] \subseteq outbox[s]
    /\ \A s \in Service : Travelling(s)' \subseteq Travelling(s) \cup Queued(s)
    /\ \A s \in Service, a \in Account :
          \/ preferred'[s][a] = preferred[s][a]
          \/ /\ preferred'[s][a] \in Travelling(Peer(s))
             /\ preferred'[s][a].source = Peer(s)
             /\ preferred'[s][a].account = a
             /\ ~Covers(preferred[s][a], preferred'[s][a])

LEMMA CopiesKeepCovering ==
    ASSUME TypeOK, OnlyCopies, NEW s \in Service, NEW a \in Account, NEW e \in Event,
           Covers(preferred[s][a], e)
    PROVE  Covers(preferred'[s][a], e)
<1>1. preferred[s][a] \in Event \cup {NoRow}
  BY DEF TypeOK
<1>2. CASE preferred'[s][a] = preferred[s][a]
  BY <1>2
<1>3. CASE /\ preferred'[s][a] \in Travelling(Peer(s))
           /\ ~Covers(preferred[s][a], preferred'[s][a])
  BY <1>1, <1>3, CoveringGrows, KnownAreEvents, Services
<1> QED
  BY <1>2, <1>3 DEF OnlyCopies

LEMMA CopiesPreserve ==
    ASSUME TypeOK, TypeOK', Addressed, OwnChoicesCovered, VersionNamesOneEvent,
           OutboxIsNewest, OnlyCopies
    PROVE  /\ Known' \subseteq Known
           /\ OwnChoicesCovered'
           /\ VersionNamesOneEvent'
           /\ OutboxIsNewest'
<1>1. Known' \subseteq Known
  <2> SUFFICES ASSUME NEW e \in Known' PROVE e \in Known
    OBVIOUS
  <2>1. PICK s \in Service :
          \/ e \in Queued(s)'
          \/ e \in Travelling(s)'
          \/ e # NoRow /\ \E a \in Account : e = preferred'[s][a]
    BY WhereEventsAre
  <2>2. CASE e \in Queued(s)'
    BY <2>2, WhereEventsAre DEF OnlyCopies
  <2>3. CASE e \in Travelling(s)'
    BY <2>3, WhereEventsAre DEF OnlyCopies
  <2>4. CASE e # NoRow /\ \E a \in Account : e = preferred'[s][a]
    BY <2>4, WhereEventsAre, Services DEF OnlyCopies
  <2> QED
    BY <2>1, <2>2, <2>3, <2>4
<1>2. OwnChoicesCovered'
  <2> SUFFICES ASSUME NEW e \in Known' PROVE Covers(preferred'[e.source][e.account], e)
    BY DEF OwnChoicesCovered
  <2>1. e \in Known /\ e \in Event
    BY <1>1, KnownAreEvents
  <2>2. e.source \in Service /\ e.account \in Account
    BY <2>1 DEF Event
  <2>3. Covers(preferred[e.source][e.account], e)
    BY <2>1 DEF OwnChoicesCovered
  <2> QED
    BY <2>1, <2>2, <2>3, CopiesKeepCovering
<1>3. VersionNamesOneEvent'
  BY <1>1 DEF VersionNamesOneEvent
<1>4. OutboxIsNewest'
  <2> SUFFICES ASSUME NEW s \in Service, NEW row \in outbox'[s]
               PROVE  /\ \A other \in outbox'[s] :
                            other.event.account = row.event.account => other = row
                      /\ \A e \in Travelling(s)' :
                            (e.source = s /\ e.account = row.event.account)
                              => ~Older(row.event, e)
    BY DEF OutboxIsNewest
  <2>1. row \in outbox[s]
    BY DEF OnlyCopies
  <2>2. \A other \in outbox'[s] : other.event.account = row.event.account => other = row
    BY <2>1 DEF OnlyCopies, OutboxIsNewest
  <2>3. ASSUME NEW e \in Travelling(s)', e.source = s, e.account = row.event.account
        PROVE  ~Older(row.event, e)
    <3>1. CASE e \in Travelling(s)
      BY <2>1, <2>3, <3>1 DEF OutboxIsNewest
    <3>2. CASE e \in Queued(s)
      <4>1. e = row.event
        BY <2>1, <2>3, <3>2, WhereEventsAre DEF OutboxIsNewest
      <4>2. e \in Event
        BY <3>2, KnownAreEvents
      <4> QED
        BY <4>1, <4>2, VersionOrder
    <3> QED
      BY <2>3, <3>1, <3>2 DEF OnlyCopies
  <2> QED
    BY <2>2, <2>3
<1> QED
  BY <1>1, <1>2, <1>3, <1>4

(***************************************************************************)
(* A step of the loop that leaves the journals alone moves copies only.    *)
(***************************************************************************)
LEMMA LoopPreserves ==
    ASSUME Inv, TypeOK', UNCHANGED journal, Addressed', DeliveredIsCovered',
           \A s \in Service : Travelling(s)' \subseteq Travelling(s) \cup Queued(s)
    PROVE  Inv'
<1>1. OnlyCopies
  BY DEF OnlyCopies, journal
<1>2. /\ OwnChoicesCovered'
      /\ VersionNamesOneEvent'
      /\ OutboxIsNewest'
  BY <1>1, CopiesPreserve DEF Inv
<1>3. SeenIsCovered'
  BY DEF Inv, SeenIsCovered, journal, Keys
<1>4. NothingForgotten'
  BY DEF Inv, NothingForgotten, journal, Queued
<1> QED
  BY <1>2, <1>3, <1>4 DEF Inv

(***************************************************************************)
(* A delivery: the peer commits a travelling event of s.  What the peer    *)
(* preferred stays covered, because s publishes only on top of what it     *)
(* knows (OwnChoicesCovered), and what s prefers stays covered or queued.  *)
(***************************************************************************)
LEMMA DeliveryEffect ==
    ASSUME Inv, TypeOK', NEW s \in Service, NEW e \in Event, e \in Travelling(s),
           e.source = s, Receive(Peer(s), e),
           \A t \in Service : /\ batch'[t] \subseteq batch[t]
                              /\ late'[t] \subseteq late[t]
                              /\ call'[t].event = call[t].event
    PROVE  /\ OnlyCopies
           /\ UNCHANGED outbox
           /\ Covers(preferred'[Peer(s)][e.account], e)
           /\ SeenIsCovered'
           /\ NothingForgotten'
           /\ \A t \in Service : \A k \in Keys(seen'[t]) : k.source = Peer(t)
<1> DEFINE p == Peer(s)
           a == e.account
<1>1. /\ p \in Service /\ p # s /\ Peer(p) = s /\ \A t \in Service : t = s \/ t = p
      /\ a \in Account
      /\ e # NoRow
  BY Services, JournalAssumption DEF Event
<1>2. /\ TypeOK /\ Addressed /\ OwnChoicesCovered /\ SeenIsCovered /\ NothingForgotten
      /\ VersionNamesOneEvent /\ OutboxIsNewest
  BY DEF Inv
<1>3. /\ UNCHANGED outbox
      /\ Keys(seen'[s]) = Keys(seen[s])
      /\ Keys(seen'[p]) \subseteq Keys(seen[p]) \cup {e}
      /\ \A t \in Service, b \in Account :
            \/ preferred'[t][b] = preferred[t][b]
            \/ t = p /\ b = a /\ preferred'[t][b] = e /\ ~Covers(preferred[t][b], e)
      /\ Covers(preferred'[p][a], e)
  <2>1. CASE e \in Keys(seen[p]) /\ UNCHANGED journal
    <3>1. Covers(preferred[p][a], e)
      BY <1>1, <1>2, <2>1 DEF SeenIsCovered
    <3> QED
      BY <2>1, <3>1 DEF journal, Keys
  <2>2. CASE /\ seen' = [seen EXCEPT ![p] = Remember(@, e)]
             /\ preferred' = IF Covers(preferred[p][a], e)
                             THEN preferred
                             ELSE [preferred EXCEPT ![p][a] = e]
             /\ UNCHANGED <<observed, outbox>>
    <3>1. Keys(Remember(seen[p], e)) \subseteq Keys(seen[p]) \cup {e}
      BY <1>1, <1>2, RememberIsTyped DEF TypeOK
    <3>2. seen'[p] = Remember(seen[p], e) /\ seen'[s] = seen[s]
      BY <1>1, <1>2, <2>2 DEF TypeOK
    <3>3. Keys(seen'[s]) = Keys(seen[s]) /\ Keys(seen'[p]) \subseteq Keys(seen[p]) \cup {e}
      BY <3>1, <3>2 DEF Keys
    <3>4. CASE Covers(preferred[p][a], e)
      BY <2>2, <3>3, <3>4
    <3>5. CASE ~Covers(preferred[p][a], e)
      <4>1. preferred' = [preferred EXCEPT ![p][a] = e]
        BY <2>2, <3>5
      <4>2. \A t \in Service, b \in Account :
               \/ preferred'[t][b] = preferred[t][b]
               \/ t = p /\ b = a /\ preferred'[t][b] = e
        BY <1>1, <1>2, <4>1 DEF TypeOK
      <4>3. preferred'[p][a] = e
        BY <1>1, <1>2, <4>1 DEF TypeOK
      <4>4. Covers(e, e)
        BY <1>1, VersionOrder DEF Covers
      <4> QED
        BY <2>2, <3>3, <3>5, <4>2, <4>3, <4>4
    <3> QED
      BY <3>4, <3>5
  <2> QED
    BY <2>1, <2>2 DEF Receive
<1> HIDE DEF p, a
<1>4. \A t \in Service : Travelling(t)' \subseteq Travelling(t)
  <2>1. \A t \in Service : Keys(seen'[Peer(t)]) \subseteq Keys(seen[Peer(t)]) \cup Travelling(t)
    BY <1>1, <1>3 DEF p
  <2>2. \A t \in Service, b \in Account :
           preferred'[Peer(t)][b] = preferred[Peer(t)][b]
             \/ preferred'[Peer(t)][b] \in Travelling(t)
    BY <1>1, <1>3, Services DEF p
  <2> QED
    BY <2>1, <2>2, WhereEventsAre
<1>5. OnlyCopies
  <2>1. \A t \in Service, b \in Account :
          \/ preferred'[t][b] = preferred[t][b]
          \/ /\ preferred'[t][b] \in Travelling(Peer(t))
             /\ preferred'[t][b].source = Peer(t)
             /\ preferred'[t][b].account = b
             /\ ~Covers(preferred[t][b], preferred'[t][b])
    BY <1>1, <1>3 DEF a
  <2> QED
    BY <1>3, <1>4, <2>1 DEF OnlyCopies
<1>6. SeenIsCovered'
  <2> SUFFICES ASSUME NEW t \in Service, NEW k \in Keys(seen'[t])
               PROVE  Covers(preferred'[t][k.account], k)
    BY DEF SeenIsCovered
  <2>1. CASE k \in Keys(seen[t])
    <3>1. k \in Event
      BY <1>2, <2>1, ElementOfSeq DEF TypeOK, Keys
    <3>2. k.account \in Account
      BY <3>1 DEF Event
    <3>3. Covers(preferred[t][k.account], k)
      BY <1>2, <2>1 DEF SeenIsCovered
    <3> QED
      BY <1>2, <1>5, <3>1, <3>2, <3>3, CopiesKeepCovering
  <2>2. CASE k = e /\ t = p
    BY <1>3, <2>2 DEF a
  <2> QED
    BY <1>1, <1>3, <2>1, <2>2
<1>7. NothingForgotten'
  <2> SUFFICES ASSUME NEW t \in Service, NEW b \in Account, preferred'[t][b] # NoRow
               PROVE  \/ preferred'[t][b] \in Queued(t)'
                      \/ Covers(preferred'[Peer(t)][b], preferred'[t][b])
    BY DEF NothingForgotten
  <2>1. CASE preferred'[t][b] = preferred[t][b]
    <3>1. CASE preferred[t][b] \in Queued(t)
      BY <1>3, <2>1, <3>1, WhereEventsAre
    <3>2. CASE Covers(preferred[Peer(t)][b], preferred[t][b])
      <4>1. preferred[t][b] \in Event
        BY <1>2, <2>1 DEF TypeOK
      <4> QED
        BY <1>2, <1>5, <2>1, <3>2, <4>1, Services, CopiesKeepCovering
    <3> QED
      BY <1>2, <2>1, <3>1, <3>2 DEF NothingForgotten
  <2>2. CASE t = p /\ b = a /\ preferred'[t][b] = e
    <3>1. e \in Known
      BY <1>2, KnownAreEvents
    <3>2. Covers(preferred[s][a], e)
      BY <1>2, <3>1 DEF OwnChoicesCovered, a
    <3>3. Covers(preferred'[s][a], e)
      BY <1>1, <1>2, <1>5, <3>2, CopiesKeepCovering
    <3> QED
      BY <1>1, <2>2, <3>3
  <2> QED
    BY <1>3, <2>1, <2>2
<1>8. \A t \in Service : \A k \in Keys(seen'[t]) : k.source = Peer(t)
  BY <1>1, <1>2, <1>3 DEF Addressed
<1> QED
  BY <1>3, <1>5, <1>6, <1>7, <1>8 DEF p, a

(***************************************************************************)
(* A publication: the new event is newer than everything the service has   *)
(* ever published for the account, so no copy anywhere has its version.    *)
(***************************************************************************)
LEMMA ReportPreserves ==
    ASSUME Inv, RowidsBounded, TypeOK', NEW s \in Service, NEW a \in Account, NEW r \in Ref,
           NEW x \in Exit \cup {NoExit}, Report(s, a, r, x)
    PROVE  Inv'
<1> DEFINE old == preferred[s][a]
           new == NewEvent(old, s, a, r, x)
           p == Peer(s)
<1>1. /\ TypeOK /\ Addressed /\ OwnChoicesCovered /\ SeenIsCovered /\ NothingForgotten
      /\ VersionNamesOneEvent /\ OutboxIsNewest /\ DeliveredIsCovered
  BY DEF Inv
<1>2. UNCHANGED <<seen, batch, call, late>>
  BY DEF Report, Observe
<1>3. CASE ~Publishes(s, a, r, x)
  <2>1. UNCHANGED <<preferred, outbox>>
    BY <1>3 DEF Report, Observe
  <2>2. OnlyCopies
    BY <1>2, <2>1 DEF OnlyCopies, Travelling, Keys
  <2>3. OwnChoicesCovered' /\ VersionNamesOneEvent' /\ OutboxIsNewest'
    BY <1>1, <2>2, CopiesPreserve
  <2>4. Addressed' /\ DeliveredIsCovered' /\ SeenIsCovered' /\ NothingForgotten'
    BY <1>1, <1>2, <2>1
       DEF Addressed, DeliveredIsCovered, SeenIsCovered, NothingForgotten, Queued, Keys
  <2> QED
    BY <2>3, <2>4 DEF Inv
<1>4. CASE Publishes(s, a, r, x)
  <2>1. /\ preferred' = [preferred EXCEPT ![s][a] = new]
        /\ outbox' = [outbox EXCEPT ![s] = Enqueue(outbox[s], new)]
    BY <1>4 DEF Report, Observe
  <2>2. /\ new \in Event
        /\ new.account = a /\ new.source = s /\ new # NoRow
        /\ old \in Event \cup {NoRow}
        /\ old # NoRow => Older(old, new) /\ new.revision > old.revision
    <3>1. old \in Event \cup {NoRow}
      BY <1>1 DEF TypeOK
    <3> QED
      BY <3>1, NewEventIsNewer
  <2>3. /\ p \in Service /\ p # s /\ Peer(p) = s /\ \A t \in Service : t = s \/ t = p
    BY Services
  <2>4. PICK id \in Nat :
          outbox'[s] = {row \in outbox[s] : row.event.account # a}
                         \cup {[rowid |-> id, event |-> new]}
    <3>1. PICK n \in Nat : \A row \in outbox[s] : row.rowid <= n
      BY DEF RowidsBounded
    <3>2. outbox[s] \in SUBSET [rowid : Nat, event : Event]
      BY <1>1 DEF TypeOK
    <3>3. outbox'[s] = Enqueue(outbox[s], new)
      BY <1>1, <2>1 DEF TypeOK
    <3> QED
      BY <2>2, <3>1, <3>2, <3>3, EnqueueIsTyped
  <2>5. outbox'[p] = outbox[p]
    BY <1>1, <2>1, <2>3 DEF TypeOK
  <2>6. /\ preferred'[s][a] = new
        /\ \A b \in Account : b # a => preferred'[s][b] = preferred[s][b]
        /\ preferred'[p] = preferred[p]
    BY <1>1, <2>1, <2>3 DEF TypeOK
  <2> HIDE DEF new, old, p
  \* The new event covers what the old preference covered.
  <2>7. \A t \in Service, b \in Account, e \in Event :
           Covers(preferred[t][b], e) => Covers(preferred'[t][b], e)
    <3> SUFFICES ASSUME NEW t \in Service, NEW b \in Account, NEW e \in Event,
                        Covers(preferred[t][b], e)
                 PROVE  Covers(preferred'[t][b], e)
      OBVIOUS
    <3>1. CASE t = s /\ b = a
      <4>1. old \in Event /\ Older(old, new) /\ ~Older(old, e)
        BY <2>2, <3>1 DEF Covers, old
      <4>2. ~Covers(old, new)
        BY <4>1 DEF Covers
      <4>3. Covers(old, e)
        BY <3>1 DEF old
      <4>4. Covers(new, e)
        BY <2>2, <4>1, <4>2, <4>3, CoveringGrows
      <4> QED
        BY <2>6, <3>1, <4>4
    <3>2. CASE ~(t = s /\ b = a)
      BY <2>3, <2>6, <3>2
    <3> QED
      BY <3>1, <3>2
  <2>8. /\ \A t \in Service : Travelling(t)' \subseteq Travelling(t) \cup {new}
        /\ Travelling(s)' = Travelling(s)
    <3>1. Travelling(s)' = Travelling(s)
      BY <1>2, <2>6 DEF Travelling, Keys, p
    <3>2. Travelling(p)' \subseteq Travelling(p) \cup {new}
      BY <1>2, <2>2, <2>3, <2>6 DEF Travelling, Keys
    <3> QED
      BY <2>3, <3>1, <3>2
  <2>9. Known' \subseteq Known \cup {new}
    <3> SUFFICES ASSUME NEW e \in Known', e # new PROVE e \in Known
      OBVIOUS
    <3>1. PICK t \in Service :
            \/ e \in Queued(t)'
            \/ e \in Travelling(t)'
            \/ e # NoRow /\ \E b \in Account : e = preferred'[t][b]
      BY WhereEventsAre
    <3>2. CASE e \in Queued(t)'
      BY <2>3, <2>4, <2>5, <3>2, WhereEventsAre
    <3>3. CASE e \in Travelling(t)'
      BY <2>8, <3>3, WhereEventsAre
    <3>4. CASE e # NoRow /\ \E b \in Account : e = preferred'[t][b]
      BY <2>3, <2>6, <3>4, WhereEventsAre
    <3> QED
      BY <3>1, <3>2, <3>3, <3>4
  <2>10. Addressed'
    <3>1. \A e \in Queued(s)' : e.source = s
      BY <1>1, <2>2, <2>4, WhereEventsAre DEF Addressed
    <3>2. \A e \in Queued(p)' : e.source = p
      BY <1>1, <2>3, <2>5, WhereEventsAre DEF Addressed
    <3>3. \A t \in Service, b \in Account :
             preferred'[t][b] # NoRow => preferred'[t][b].account = b
      BY <1>1, <2>2, <2>3, <2>6 DEF Addressed
    <3> QED
      BY <1>1, <1>2, <2>3, <3>1, <3>2, <3>3 DEF Addressed, Keys
  \* Nothing known had the new version.
  <2>11. \A e \in Known :
            e.account = a /\ e.source = s => old # NoRow /\ e.revision < new.revision
    <3> SUFFICES ASSUME NEW e \in Known, e.account = a, e.source = s
                 PROVE  old # NoRow /\ e.revision < new.revision
      OBVIOUS
    <3>1. Covers(old, e)
      BY <1>1 DEF OwnChoicesCovered, old
    <3>2. old \in Event /\ e \in Event /\ ~Older(old, e)
      BY <1>1, <2>2, <3>1, KnownAreEvents DEF Covers
    <3>3. e.revision <= old.revision
      BY <3>2 DEF Older, Event
    <3>4. old # NoRow /\ old.revision \in Nat /\ e.revision \in Nat /\ new.revision \in Nat
      BY <2>2, <3>2, JournalAssumption DEF Event
    <3> QED
      BY <2>2, <3>3, <3>4
  <2>12. OwnChoicesCovered'
    <3> SUFFICES ASSUME NEW e \in Known' PROVE Covers(preferred'[e.source][e.account], e)
      BY DEF OwnChoicesCovered
    <3>1. CASE e = new
      BY <2>2, <2>6, <3>1, VersionOrder DEF Covers
    <3>2. CASE e \in Known
      <4>1. e \in Event /\ e.source \in Service /\ e.account \in Account
        BY <1>1, <3>2, KnownAreEvents DEF Event
      <4>2. Covers(preferred[e.source][e.account], e)
        BY <1>1, <3>2 DEF OwnChoicesCovered
      <4> QED
        BY <2>7, <4>1, <4>2
    <3> QED
      BY <2>9, <3>1, <3>2
  <2>13. VersionNamesOneEvent'
    <3> SUFFICES ASSUME NEW e \in Known', NEW f \in Known',
                        e.account = f.account, e.revision = f.revision, e.source = f.source
                 PROVE  e = f
      BY DEF VersionNamesOneEvent
    <3>1. \A g \in Known : ~(/\ g.account = a /\ g.source = s
                             /\ g.revision = new.revision)
      BY <1>1, <2>2, <2>11, KnownAreEvents DEF Event
    <3>2. CASE e \in Known /\ f \in Known
      BY <1>1, <3>2 DEF VersionNamesOneEvent
    <3>3. CASE e = new \/ f = new
      BY <2>2, <2>9, <3>1, <3>3
    <3> QED
      BY <2>9, <3>2, <3>3
  <2>14. SeenIsCovered'
    <3> SUFFICES ASSUME NEW t \in Service, NEW k \in Keys(seen[t])
                 PROVE  Covers(preferred'[t][k.account], k)
      BY <1>2 DEF SeenIsCovered, Keys
    <3>1. k \in Event
      BY <1>1, ElementOfSeq DEF TypeOK, Keys
    <3>2. k.account \in Account /\ Covers(preferred[t][k.account], k)
      BY <1>1, <3>1 DEF SeenIsCovered, Event
    <3> QED
      BY <2>7, <3>1, <3>2
  <2>15. OutboxIsNewest'
    <3> SUFFICES ASSUME NEW t \in Service, NEW row \in outbox'[t]
                 PROVE  /\ \A other \in outbox'[t] :
                              other.event.account = row.event.account => other = row
                        /\ \A e \in Travelling(t)' :
                              (e.source = t /\ e.account = row.event.account)
                                => ~Older(row.event, e)
      BY DEF OutboxIsNewest
    <3>1. CASE t = p
      <4>1. \A e \in Travelling(p)' : e.source = p => e \in Travelling(p)
        BY <2>2, <2>3, <2>8
      <4> QED
        BY <1>1, <2>3, <2>5, <3>1, <4>1 DEF OutboxIsNewest
    <3>2. CASE t = s /\ row \in outbox[s] /\ row.event.account # a
      BY <1>1, <2>2, <2>4, <2>8, <3>2 DEF OutboxIsNewest
    <3>3. CASE t = s /\ row = [rowid |-> id, event |-> new]
      <4>1. \A other \in outbox'[s] : other.event.account = a => other = row
        BY <2>4, <3>3
      <4>2. ASSUME NEW e \in Travelling(s)', e.source = s, e.account = a
            PROVE  ~Older(new, e)
        <5>1. e \in Known /\ e \in Event
          BY <1>1, <2>8, KnownAreEvents
        <5>2. e.revision < new.revision
          BY <2>11, <4>2, <5>1
        <5> QED
          BY <2>2, <5>1, <5>2 DEF Older, Event
      <4> QED
        BY <2>2, <3>3, <4>1, <4>2
    <3> QED
      BY <2>3, <2>4, <3>1, <3>2, <3>3
  <2>16. DeliveredIsCovered'
    <3> SUFFICES ASSUME NEW t \in Service, call[t].step \in {"answered", "delivered"}
                 PROVE  Covers(preferred'[Peer(t)][call[t].event.account], call[t].event)
      BY <1>2 DEF DeliveredIsCovered
    <3>1. call[t] \in Delivering
      BY <1>1 DEF TypeOK, Idle
    <3>2. call[t].event \in Event
      BY <3>1 DEF Delivering
    <3>3. call[t].event.account \in Account
      BY <3>2 DEF Event
    <3>4. Covers(preferred[Peer(t)][call[t].event.account], call[t].event)
      BY <1>1 DEF DeliveredIsCovered
    <3> QED
      BY <2>7, <3>2, <3>3, <3>4, Services
  <2>17. NothingForgotten'
    <3> SUFFICES ASSUME NEW t \in Service, NEW b \in Account, preferred'[t][b] # NoRow
                 PROVE  \/ preferred'[t][b] \in Queued(t)'
                        \/ Covers(preferred'[Peer(t)][b], preferred'[t][b])
      BY DEF NothingForgotten
    <3>1. CASE t = s /\ b = a
      <4>1. [rowid |-> id, event |-> new] \in outbox'[s]
        BY <2>4
      <4>2. new \in Queued(s)'
        BY <4>1, WhereEventsAre
      <4> QED
        BY <2>6, <3>1, <4>2
    <3>2. CASE ~(t = s /\ b = a)
      <4>1. preferred'[t][b] = preferred[t][b]
        BY <2>3, <2>6, <3>2
      <4>2. preferred[t][b] \in Event /\ preferred[t][b].account = b
        BY <1>1, <4>1 DEF TypeOK, Addressed
      <4>3. CASE preferred[t][b] \in Queued(t)
        <5>1. preferred[t][b] \in Queued(t)'
          BY <2>3, <2>4, <2>5, <3>2, <4>2, <4>3, WhereEventsAre
        <5> QED
          BY <4>1, <5>1
      <4>4. CASE Covers(preferred[Peer(t)][b], preferred[t][b])
        BY <2>7, <4>1, <4>2, <4>4, Services
      <4> QED
        BY <1>1, <4>1, <4>3, <4>4 DEF NothingForgotten
    <3> QED
      BY <3>1, <3>2
  <2> QED
    BY <2>10, <2>12, <2>13, <2>14, <2>15, <2>16, <2>17 DEF Inv
<1> QED
  BY <1>3, <1>4

\* deliver() is under way: the event is one of the service's own.
LEMMA CallIsAddressed ==
    ASSUME Inv, NEW s \in Service, call[s] # Idle
    PROVE  /\ call[s] \in Delivering
           /\ call[s].event \in Event
           /\ call[s].event \in Travelling(s)
           /\ call[s].event.source = s
<1>1. call[s] \in Delivering
  BY DEF Inv, TypeOK
<1>2. call[s].event \in Event /\ call[s].event # NoRow
  BY <1>1, JournalAssumption DEF Delivering
<1> QED
  BY <1>1, <1>2, WhereEventsAre DEF Inv, Addressed

\* The event a handler or the file transport is about to commit.
LEMMA Delivered ==
    ASSUME Inv, TypeOK', NEW s \in Service, Serve(s) \/ FileDeliver(s)
    PROVE  Inv'
<1> DEFINE e == call[s].event
<1>1. /\ call[s] \in Delivering
      /\ e \in Event /\ e \in Travelling(s) /\ e.source = s
  BY CallIsAddressed DEF Serve, FileDeliver, Idle
<1>2. /\ Receive(Peer(s), e)
      /\ UNCHANGED <<batch, late>>
      /\ \A t \in Service : call'[t].event = call[t].event
      /\ \A t \in Service : t # s => call'[t] = call[t]
  <2>1. call \in [Service -> Delivering \cup {Idle}]
    BY DEF Inv, TypeOK
  <2>2. \E step \in {"answered", "delivered"} : call' = [call EXCEPT ![s].step = step]
    BY DEF Serve, FileDeliver
  <2>3. call'[s].event = call[s].event
    BY <1>1, <2>1, <2>2 DEF Delivering
  <2> QED
    BY <2>1, <2>2, <2>3 DEF Serve, FileDeliver
<1> HIDE DEF e
<1>3. /\ OnlyCopies
      /\ UNCHANGED outbox
      /\ Covers(preferred'[Peer(s)][e.account], e)
      /\ SeenIsCovered'
      /\ NothingForgotten'
      /\ \A t \in Service : \A k \in Keys(seen'[t]) : k.source = Peer(t)
  BY <1>1, <1>2, DeliveryEffect
<1>4. /\ OwnChoicesCovered'
      /\ VersionNamesOneEvent'
      /\ OutboxIsNewest'
  BY <1>3, CopiesPreserve DEF Inv
<1>5. \A t \in Service, b \in Account : preferred'[t][b] # NoRow => preferred'[t][b].account = b
  BY <1>3 DEF Inv, Addressed, OnlyCopies
<1>6. Addressed'
  <2>1. \A t \in Service : call'[t] # Idle => call'[t].event.source = t
    BY <1>1, <1>2 DEF Inv, Addressed, e
  <2>2. \A t \in Service : \A f \in Queued(t)' \cup batch'[t] \cup late'[t] : f.source = t
    BY <1>2, <1>3 DEF Inv, Addressed, Queued
  <2>3. \A t \in Service : \A k \in Keys(seen[t])' : k.source = Peer(t)
    BY <1>3 DEF Keys
  <2> QED
    BY <1>5, <2>1, <2>2, <2>3 DEF Addressed
<1>7. DeliveredIsCovered'
  <2> SUFFICES ASSUME NEW t \in Service, call'[t].step \in {"answered", "delivered"}
               PROVE  Covers(preferred'[Peer(t)][call'[t].event.account], call'[t].event)
    BY DEF DeliveredIsCovered
  <2>1. CASE t = s
    BY <1>2, <1>3, <2>1 DEF e
  <2>2. CASE t # s
    <3>1. call[t] # Idle /\ call[t].step \in {"answered", "delivered"} /\ call'[t] = call[t]
      BY <1>2, <2>2 DEF Idle
    <3>2. call[t].event \in Event /\ call[t].event.account \in Account
      BY <3>1, CallIsAddressed DEF Event
    <3>3. Covers(preferred[Peer(t)][call[t].event.account], call[t].event)
      BY <3>1 DEF Inv, DeliveredIsCovered
    <3> QED
      BY <1>3, <3>1, <3>2, <3>3, CopiesKeepCovering, Services DEF Inv
  <2> QED
    BY <2>1, <2>2
<1> QED
  BY <1>3, <1>4, <1>6, <1>7 DEF Inv

\* A request whose sender has gone is served.
LEMMA DeliveredLate ==
    ASSUME Inv, TypeOK', NEW s \in Service, ServeLate(s)
    PROVE  Inv'
<1>1. PICK e \in late[s] : Receive(Peer(s), e) /\ late' = [late EXCEPT ![s] = @ \ {e}]
  BY DEF ServeLate
<1>2. e \in Event /\ e \in Travelling(s) /\ e.source = s
  BY WhereEventsAre DEF Inv, TypeOK, Addressed
<1>3. /\ UNCHANGED <<batch, call>>
      /\ \A t \in Service : late'[t] \subseteq late[t]
  BY <1>1 DEF ServeLate, Inv, TypeOK
<1>4. /\ OnlyCopies
      /\ UNCHANGED outbox
      /\ SeenIsCovered'
      /\ NothingForgotten'
      /\ \A t \in Service : \A k \in Keys(seen'[t]) : k.source = Peer(t)
  BY <1>1, <1>2, <1>3, DeliveryEffect
<1>5. /\ OwnChoicesCovered'
      /\ VersionNamesOneEvent'
      /\ OutboxIsNewest'
  BY <1>4, CopiesPreserve DEF Inv
<1>6. Addressed'
  <2>1. \A t \in Service, b \in Account : preferred'[t][b] # NoRow => preferred'[t][b].account = b
    BY <1>4 DEF Inv, Addressed, OnlyCopies
  <2>2. \A t \in Service : \A f \in Queued(t)' \cup batch'[t] \cup late'[t] : f.source = t
    BY <1>3, <1>4 DEF Inv, Addressed, Queued
  <2>3. \A t \in Service : \A k \in Keys(seen[t])' : k.source = Peer(t)
    BY <1>4 DEF Keys
  <2> QED
    BY <1>3, <2>1, <2>2, <2>3 DEF Inv, Addressed
<1>7. DeliveredIsCovered'
  <2> SUFFICES ASSUME NEW t \in Service, call[t].step \in {"answered", "delivered"}
               PROVE  Covers(preferred'[Peer(t)][call[t].event.account], call[t].event)
    BY <1>3 DEF DeliveredIsCovered
  <2>1. call[t].event \in Event /\ call[t].event.account \in Account
    BY CallIsAddressed DEF Idle, Event
  <2>2. Covers(preferred[Peer(t)][call[t].event.account], call[t].event)
    BY DEF Inv, DeliveredIsCovered
  <2> QED
    BY <1>4, <2>1, <2>2, CopiesKeepCovering, Services DEF Inv
<1> QED
  BY <1>4, <1>5, <1>6, <1>7 DEF Inv

(***************************************************************************)
(* The acknowledgement: the row that leaves is one the peer has covered,   *)
(* whatever has been observed or received since it was read.               *)
(***************************************************************************)
LEMMA ConfirmPreserves ==
    ASSUME Inv, TypeOK', NEW s \in Service, Confirm(s)
    PROVE  Inv'
<1> DEFINE e == call[s].event
<1>1. /\ e \in Event /\ e.account \in Account
      /\ Covers(preferred[Peer(s)][e.account], e)
  BY CallIsAddressed DEF Confirm, Idle, Inv, DeliveredIsCovered, Event
<1>2. /\ UNCHANGED <<preferred, observed, seen, batch, late>>
      /\ call' = [call EXCEPT ![s] = Idle]
      /\ outbox' = [outbox EXCEPT ![s] = {row \in outbox[s] : row.event # e}]
  BY DEF Confirm, Acknowledge
<1> HIDE DEF e
<1>3. /\ \A t \in Service : outbox'[t] \subseteq outbox[t]
      /\ \A t \in Service : \A row \in outbox[t] : row \in outbox'[t] \/ (t = s /\ row.event = e)
      /\ \A t \in Service : call'[t] = call[t] \/ call'[t] = Idle
  <2>1. /\ outbox \in [Service -> SUBSET [rowid : Nat, event : Event]]
        /\ call \in [Service -> Delivering \cup {Idle}]
    BY DEF Inv, TypeOK
  <2>2. \A t \in Service :
          outbox'[t] = IF t = s THEN {row \in outbox[s] : row.event # e} ELSE outbox[t]
    BY <1>2, <2>1
  <2>3. \A t \in Service : call'[t] = IF t = s THEN Idle ELSE call[t]
    BY <1>2, <2>1
  <2>4. \A t \in Service : \A row \in outbox[t] :
          row \in outbox'[t] \/ (t = s /\ row.event = e)
    BY <2>2
  <2> QED
    BY <2>2, <2>3, <2>4
<1>4. OnlyCopies
  <2>1. \A t \in Service : call'[t].event = call[t].event \/ call'[t].event = NoRow
    BY <1>3 DEF Idle
  <2>2. \A t \in Service : Keys(seen'[t]) = Keys(seen[t])
    BY <1>2 DEF Keys
  <2>3. \A t \in Service : Travelling(t)' \subseteq Travelling(t)
    BY <1>2, <2>1, <2>2, WhereEventsAre, Services
  <2> QED
    BY <1>2, <1>3, <2>3 DEF OnlyCopies
<1>5. /\ OwnChoicesCovered'
      /\ VersionNamesOneEvent'
      /\ OutboxIsNewest'
  BY <1>4, CopiesPreserve DEF Inv
<1>6. Addressed'
  <2>1. \A t \in Service : \A f \in Queued(t)' : f \in Queued(t)
    BY <1>3, WhereEventsAre
  <2> QED
    BY <1>2, <1>3, <2>1 DEF Inv, Addressed, Keys
<1>7. SeenIsCovered'
  BY <1>2 DEF Inv, SeenIsCovered, Keys
<1>8. DeliveredIsCovered'
  BY <1>2, <1>3 DEF Inv, DeliveredIsCovered, Idle
<1>9. NothingForgotten'
  <2> SUFFICES ASSUME NEW t \in Service, NEW a \in Account, preferred[t][a] # NoRow
               PROVE  \/ preferred[t][a] \in Queued(t)'
                      \/ Covers(preferred[Peer(t)][a], preferred[t][a])
    BY <1>2 DEF NothingForgotten
  <2>1. CASE preferred[t][a] \in Queued(t)
    <3>1. PICK row \in outbox[t] : row.event = preferred[t][a]
      BY <2>1, WhereEventsAre
    <3>2. CASE row \in outbox'[t]
      BY <3>1, <3>2, WhereEventsAre
    <3>3. CASE t = s /\ row.event = e
      BY <1>1, <3>1, <3>3 DEF Inv, Addressed
    <3> QED
      BY <1>3, <3>2, <3>3
  <2> QED
    BY <2>1 DEF Inv, NothingForgotten
<1> QED
  BY <1>5, <1>6, <1>7, <1>8, <1>9 DEF Inv

\* What becomes of an abandoned request.
LEMMA AbandonKeeps ==
    ASSUME Inv, NEW s \in Service, Abandon(s)
    PROVE  \A t \in Service : \A e \in late'[t] :
             e \in late[t] \/ (t = s /\ call[s] # Idle /\ e = call[s].event)
BY DEF Abandon, Inv, TypeOK, Idle

LEMMA NextPreserves ==
    ASSUME Inv, RowidsBounded, TypeOK', [Next]_vars
    PROVE  Inv'
<1>1. ASSUME NEW s \in Service, NEW a \in Account, NEW r \in Ref,
             NEW x \in Exit \cup {NoExit}, Report(s, a, r, x)
      PROVE  Inv'
  BY <1>1, ReportPreserves
<1>2. ASSUME NEW s \in Service, Poll(s) PROVE Inv'
  <2>1. /\ batch' = [batch EXCEPT ![s] = Pending(s)]
        /\ UNCHANGED <<journal, call, late>>
        /\ Pending(s) \subseteq Queued(s)
    BY <1>2 DEF Poll, Pending, Queued
  <2>2. \A t \in Service : batch'[t] \subseteq batch[t] \cup Queued(t)
    BY <2>1 DEF Inv, TypeOK
  <2>3. \A t \in Service : Travelling(t)' \subseteq Travelling(t) \cup Queued(t)
    BY <2>1, <2>2 DEF Travelling, Keys, journal
  <2>4. Addressed' /\ DeliveredIsCovered'
    BY <2>1, <2>2 DEF Inv, Addressed, DeliveredIsCovered, Queued, Keys, journal
  <2> QED
    BY <2>1, <2>3, <2>4, LoopPreserves
<1>3. ASSUME NEW s \in Service, Post(s) PROVE Inv'
  <2>1. PICK e \in batch[s] : /\ batch' = [batch EXCEPT ![s] = @ \ {e}]
                              /\ call' = [call EXCEPT ![s] = [step |-> "posted", event |-> e]]
    BY <1>3 DEF Post
  <2>2. UNCHANGED <<journal, late>>
    BY <1>3 DEF Post
  <2>3. \A t \in Service : /\ batch'[t] \subseteq batch[t]
                           /\ \/ call'[t] = call[t]
                              \/ t = s /\ call'[t] = [step |-> "posted", event |-> e]
    BY <2>1 DEF Inv, TypeOK
  <2>4. \A t \in Service : Travelling(t)' \subseteq Travelling(t) \cup Queued(t)
    BY <2>2, <2>3 DEF Travelling, Keys, journal
  <2>5. Addressed' /\ DeliveredIsCovered'
    BY <2>2, <2>3 DEF Inv, Addressed, DeliveredIsCovered, Queued, Keys, journal
  <2> QED
    BY <2>2, <2>4, <2>5, LoopPreserves
<1>4. ASSUME NEW s \in Service, Serve(s) PROVE Inv'
  BY <1>4, Delivered
<1>5. ASSUME NEW s \in Service, Refuse(s) \/ Reply(s) PROVE Inv'
  <2>1. call[s] \in Delivering /\ UNCHANGED <<journal, batch, late>>
    BY <1>5, CallIsAddressed DEF Refuse, Reply, Idle
  <2>2. \A t \in Service :
          \/ call'[t] = call[t]
          \/ call'[t] = Idle
          \/ /\ call[t].step = "answered"
             /\ call[t] # Idle /\ call'[t] # Idle
             /\ call'[t].event = call[t].event
    BY <1>5, <2>1 DEF Refuse, Reply, Inv, TypeOK, Delivering, Idle
  <2>3. \A t \in Service : Travelling(t)' \subseteq Travelling(t) \cup Queued(t)
    BY <2>1, <2>2 DEF Travelling, Keys, journal, Idle
  <2>4. Addressed' /\ DeliveredIsCovered'
    BY <2>1, <2>2 DEF Inv, Addressed, DeliveredIsCovered, Queued, Keys, journal, Idle
  <2> QED
    BY <2>1, <2>3, <2>4, LoopPreserves
<1>6. ASSUME NEW s \in Service, RequestError(s) PROVE Inv'
  <2>1. /\ call[s] \in Delivering /\ call[s] # Idle
        /\ UNCHANGED <<journal, batch>>
    BY <1>6, CallIsAddressed DEF RequestError, Idle
  <2>2. \A t \in Service :
          \/ call'[t] = call[t]
          \/ call'[t] = Idle
          \/ t = s /\ call'[t] = [step |-> "fallback", event |-> call[s].event]
    BY <1>6 DEF RequestError, Inv, TypeOK
  <2>3. \A t \in Service : \A e \in late'[t] :
          e \in late[t] \/ (t = s /\ call[s] # Idle /\ e = call[s].event)
    BY <1>6, AbandonKeeps DEF RequestError
  <2>4. call[s].event # NoRow /\ call[s].event.source = s
    BY <2>1, CallIsAddressed, JournalAssumption
  <2>5. \A t \in Service : Travelling(t)' \subseteq Travelling(t) \cup Queued(t)
    BY <2>1, <2>2, <2>3, <2>4 DEF Travelling, Keys, journal, Idle
  <2>6. Addressed' /\ DeliveredIsCovered'
    BY <2>1, <2>2, <2>3, <2>4
       DEF Inv, Addressed, DeliveredIsCovered, Queued, Keys, journal, Idle
  <2> QED
    BY <2>1, <2>5, <2>6, LoopPreserves
<1>7. ASSUME NEW s \in Service, FileDeliver(s) PROVE Inv'
  BY <1>7, Delivered
<1>8. ASSUME NEW s \in Service, Confirm(s) PROVE Inv'
  BY <1>8, ConfirmPreserves
<1>9. ASSUME NEW s \in Service, ServeLate(s) PROVE Inv'
  BY <1>9, DeliveredLate
<1>10. ASSUME NEW s \in Service, Restart(s) PROVE Inv'
  <2>1. /\ UNCHANGED journal
        /\ \A t \in Service : batch'[t] \subseteq batch[t]
        /\ \A t \in Service : call'[t] = call[t] \/ call'[t] = Idle
    BY <1>10 DEF Restart, Inv, TypeOK
  <2>2. \A t \in Service : \A e \in late'[t] :
          e \in late[t] \/ (t = s /\ call[s] # Idle /\ e = call[s].event)
    BY <1>10, AbandonKeeps DEF Restart
  <2>3. call[s] # Idle => call[s].event # NoRow /\ call[s].event.source = s
    BY CallIsAddressed, JournalAssumption
  <2>4. \A t \in Service : Travelling(t)' \subseteq Travelling(t) \cup Queued(t)
    BY <2>1, <2>2, <2>3 DEF Travelling, Keys, journal, Idle
  <2>5. Addressed' /\ DeliveredIsCovered'
    BY <2>1, <2>2, <2>3 DEF Inv, Addressed, DeliveredIsCovered, Queued, Keys, journal, Idle
  <2> QED
    BY <2>1, <2>4, <2>5, LoopPreserves
<1>11. CASE UNCHANGED vars
  <2>1. UNCHANGED <<journal, batch, call, late>>
    BY <1>11 DEF vars, journal
  <2>2. \A t \in Service : Travelling(t)' \subseteq Travelling(t) \cup Queued(t)
    BY <2>1 DEF Travelling, Keys, journal
  <2>3. Addressed' /\ DeliveredIsCovered'
    BY <2>1 DEF Inv, Addressed, DeliveredIsCovered, Queued, Keys, journal
  <2> QED
    BY <2>1, <2>2, <2>3, LoopPreserves
<1> QED
  BY <1>1, <1>2, <1>3, <1>4, <1>5, <1>6, <1>7, <1>8, <1>9, <1>10, <1>11
     DEF Next, ExchangeStep

LEMMA InitEstablishes ==
    ASSUME ExchangeInit, TypeOK
    PROVE  Inv
<1>1. \A s \in Service : /\ outbox[s] = {} /\ batch[s] = {} /\ late[s] = {}
                         /\ call[s] = Idle /\ seen[s] = <<>> /\ Keys(seen[s]) = {}
                         /\ \A a \in Account : preferred[s][a] = NoRow
  BY DEF ExchangeInit, Init, Keys
<1>2. Known = {}
  BY <1>1, Services DEF Known, Travelling, Queued, Idle
<1>3. OwnChoicesCovered /\ VersionNamesOneEvent
  BY <1>2 DEF OwnChoicesCovered, VersionNamesOneEvent
<1>4. Addressed /\ SeenIsCovered
  BY <1>1 DEF Addressed, SeenIsCovered, Queued
<1>5. OutboxIsNewest /\ NothingForgotten
  BY <1>1 DEF OutboxIsNewest, NothingForgotten
<1>6. DeliveredIsCovered
  BY <1>1 DEF DeliveredIsCovered, Idle
<1> QED
  BY <1>3, <1>4, <1>5, <1>6 DEF Inv

(***************************************************************************)
(* The facts of Inv hold in every state, whatever is lost, repeated,       *)
(* reordered or interrupted (bindings.py:99-155, binding_api.py:28-109).   *)
(***************************************************************************)
THEOREM InvHolds == Spec => []Inv
<1>1. ExchangeInit /\ TypeOK => Inv
  BY InitEstablishes
<1>2. Inv /\ RowidsBounded /\ TypeOK' /\ [Next]_vars => Inv'
  BY NextPreserves
<1> QED
  BY <1>1, <1>2, TypeInvariant, PTL DEF Spec

-----------------------------------------------------------------------------
(* The properties.                                                         *)

(***************************************************************************)
(* What a service prefers is in its outbox or has reached the peer, for    *)
(* any number of accounts and any number of requests under way             *)
(* (bindings.py:142-155).                                                  *)
(***************************************************************************)
THEOREM NothingIsForgotten == Spec => []NothingForgotten
BY InvHolds, PTL DEF Inv

\* One version never names two events, wherever their copies are
\* (bindings.py:43-45, 138-140).
THEOREM VersionsAreUnique == Spec => []VersionNamesOneEvent
BY InvHolds, PTL DEF Inv

\* A key that is remembered is of an event the preference covers, so that
\* "duplicate" is never said of news (bindings.py:104-113).
THEOREM SeenEventsAreCovered == Spec => []SeenIsCovered
BY InvHolds, PTL DEF Inv

\* An account has one row in the outbox, and nothing of it on its way is newer
\* than that row (bindings.py:142-144).
THEOREM OutboxHoldsTheNewest == Spec => []OutboxIsNewest
BY InvHolds, PTL DEF Inv

(***************************************************************************)
(* Empty outboxes mean equal preferences (bindings.py:99-155): each side   *)
(* covers the other, so the versions are equal, and a version names one    *)
(* event.                                                                  *)
(***************************************************************************)
THEOREM QuietIsAgreement == Spec => []QuietMeansAgreed
<1>1. Inv => QuietMeansAgreed
  <2> SUFFICES ASSUME Inv, \A s \in Service : outbox[s] = {}
               PROVE  preferred[0] = preferred[1]
    BY DEF QuietMeansAgreed
  <2>1. TypeOK /\ Addressed /\ VersionNamesOneEvent
    BY DEF Inv
  <2>2. \A s \in Service : Queued(s) = {}
    BY DEF Queued
  <2>3. ASSUME NEW a \in Account PROVE preferred[0][a] = preferred[1][a]
    <3>1. /\ 0 \in Service /\ 1 \in Service /\ Peer(0) = 1 /\ Peer(1) = 0
      BY DEF Service, Peer
    <3>2. /\ preferred[0][a] # NoRow => Covers(preferred[1][a], preferred[0][a])
          /\ preferred[1][a] # NoRow => Covers(preferred[0][a], preferred[1][a])
      BY <2>2, <3>1 DEF Inv, NothingForgotten
    <3>3. CASE preferred[0][a] = NoRow \/ preferred[1][a] = NoRow
      BY <3>2, <3>3 DEF Covers
    <3>4. CASE preferred[0][a] # NoRow /\ preferred[1][a] # NoRow
      <4>1. preferred[0][a] \in Known /\ preferred[1][a] \in Known
        BY <3>1, <3>4, WhereEventsAre
      <4>2. preferred[0][a] \in Event /\ preferred[1][a] \in Event
        BY <2>1, <4>1, KnownAreEvents
      <4>3. /\ ~Older(preferred[0][a], preferred[1][a])
            /\ ~Older(preferred[1][a], preferred[0][a])
        BY <3>2, <3>4 DEF Covers
      <4>4. /\ preferred[0][a].revision = preferred[1][a].revision
            /\ preferred[0][a].source = preferred[1][a].source
        BY <4>2, <4>3, VersionOrder
      <4>5. preferred[0][a].account = preferred[1][a].account
        BY <2>1, <3>1, <3>4 DEF Addressed
      <4> QED
        BY <2>1, <4>1, <4>4, <4>5 DEF VersionNamesOneEvent
    <3> QED
      BY <3>3, <3>4
  <2>4. /\ preferred[0] \in [Account -> Event \cup {NoRow}]
        /\ preferred[1] \in [Account -> Event \cup {NoRow}]
    BY <2>1 DEF TypeOK, Service
  <2> QED
    BY <2>3, <2>4
<1> QED
  BY <1>1, InvHolds, PTL

\* How a step of the exchange can change a preference.
LEMMA PreferenceSteps ==
    ASSUME Inv, RowidsBounded, TypeOK', [Next]_vars
    PROVE  \/ UNCHANGED preferred
           \/ \E s \in Service, a \in Account : Sync!Choose(s, a)
           \/ \E s \in Service, e \in Event :
                /\ e \in Travelling(s) /\ e.source = s
                /\ ~Covers(preferred[Peer(s)][e.account], e)
                /\ preferred' = [preferred EXCEPT ![Peer(s)][e.account] = e]
<1>1. ASSUME NEW s \in Service, NEW a \in Account, NEW r \in Ref,
             NEW x \in Exit \cup {NoExit}, Report(s, a, r, x)
      PROVE  UNCHANGED preferred \/ Sync!Choose(s, a)
  <2>1. CASE Publishes(s, a, r, x)
    <3>1. preferred' = [preferred EXCEPT ![s][a] = NewEvent(preferred[s][a], s, a, r, x)]
      BY <1>1, <2>1 DEF Report, Observe
    <3>2. Sync!NewEvent(preferred[s][a], s, a, r, x) = NewEvent(preferred[s][a], s, a, r, x)
      BY DEF NewEvent, NextRevision, Sync!NewEvent, Sync!NextRevision
    <3> QED
      BY <3>1, <3>2 DEF Sync!Choose
  <2>2. CASE ~Publishes(s, a, r, x)
    BY <1>1, <2>2 DEF Report, Observe
  <2> QED
    BY <2>1, <2>2
<1>2. ASSUME NEW s \in Service, NEW e \in Event, Receive(Peer(s), e)
      PROVE  \/ UNCHANGED preferred
             \/ /\ ~Covers(preferred[Peer(s)][e.account], e)
                /\ preferred' = [preferred EXCEPT ![Peer(s)][e.account] = e]
  BY <1>2 DEF Receive, journal
<1>3. ASSUME NEW s \in Service, Serve(s) \/ FileDeliver(s)
      PROVE  \E e \in Event : e \in Travelling(s) /\ e.source = s /\ Receive(Peer(s), e)
  BY <1>3, CallIsAddressed DEF Serve, FileDeliver, Idle
<1>4. ASSUME NEW s \in Service, ServeLate(s)
      PROVE  \E e \in Event : e \in Travelling(s) /\ e.source = s /\ Receive(Peer(s), e)
  BY <1>4, WhereEventsAre DEF ServeLate, Inv, TypeOK, Addressed
<1>5. ASSUME NEW s \in Service,
             \/ Poll(s) \/ Post(s) \/ Refuse(s) \/ Reply(s) \/ RequestError(s)
             \/ Confirm(s) \/ Restart(s)
      PROVE  UNCHANGED preferred
  BY <1>5 DEF Poll, Post, Refuse, Reply, RequestError, Confirm, Acknowledge, Restart, journal
<1>6. CASE UNCHANGED vars
  BY <1>6 DEF vars
<1> QED
  BY <1>1, <1>2, <1>3, <1>4, <1>5, <1>6 DEF Next, ExchangeStep

(***************************************************************************)
(* The exchange implements the abstract specification (PreferenceSync),    *)
(* for any accounts, references and exits: a delivery adopts a choice the  *)
(* peer really made and not a newer one than the peer has.                 *)
(***************************************************************************)
THEOREM Refinement == Spec => ImplementsSync
<1>1. ExchangeInit => Sync!Init
  BY DEF ExchangeInit, Init, Sync!Init, Sync!Service, Service
<1>2. Inv /\ RowidsBounded /\ TypeOK' /\ [Next]_vars => [Sync!Next]_preferred
  <2> SUFFICES ASSUME Inv, RowidsBounded, TypeOK', [Next]_vars
               PROVE  [Sync!Next]_preferred
    OBVIOUS
  <2>1. ASSUME NEW s \in Service, NEW e \in Event, e \in Travelling(s), e.source = s,
               ~Covers(preferred[Peer(s)][e.account], e),
               preferred' = [preferred EXCEPT ![Peer(s)][e.account] = e]
        PROVE  Sync!Adopt(Peer(s), e.account)
    <3>1. /\ TypeOK /\ OwnChoicesCovered /\ VersionNamesOneEvent /\ Addressed
          /\ e.account \in Account /\ Peer(s) \in Service /\ Peer(Peer(s)) = s
      BY Services DEF Inv, Event
    <3> DEFINE own == preferred[s][e.account]
    <3>2. /\ e \in Known
          /\ Covers(own, e)
      BY <2>1, <3>1, KnownAreEvents DEF OwnChoicesCovered
    <3>3. own # NoRow /\ own \in Event /\ own \in Known /\ own.account = e.account
      BY <3>1, <3>2, KnownAreEvents, WhereEventsAre DEF Covers, TypeOK, Addressed
    <3>4. e = own \/ Older(e, own)
      <4>1. ~Older(own, e)
        BY <3>2 DEF Covers
      <4>2. CASE Older(e, own)
        BY <4>2
      <4>3. CASE ~Older(e, own)
        BY <3>1, <3>2, <3>3, <4>1, <4>3, VersionOrder DEF VersionNamesOneEvent
      <4> QED
        BY <4>2, <4>3
    <3>5. e.revision \in 1..own.revision
      BY <3>3, <3>4 DEF Older, Event
    <3>6. e \in [account : {e.account}, source : {s}, revision : 1..own.revision,
                 ref : Ref, exit : Exit \cup {NoExit}]
      BY <2>1, <3>5 DEF Event
    <3>7. e \in Sync!Chosen(s, e.account)
      BY <3>3, <3>4, <3>6 DEF Sync!Chosen, Sync!Older, Older
    <3> QED
      BY <2>1, <3>1, <3>7 DEF Sync!Adopt, Sync!Covers, Covers, Sync!Older, Older, Sync!Peer, Peer
  <2> QED
    BY <2>1, PreferenceSteps, Services DEF Sync!Next, Sync!Service, Service, Event
<1> QED
  BY <1>1, <1>2, InvHolds, TypeInvariant, PTL DEF Spec, Sync!Spec, ImplementsSync

(***************************************************************************)
(* No preference is ever taken back, by a late, repeated or reordered      *)
(* delivery or by the service itself (bindings.py:108-112, 138-141).       *)
(***************************************************************************)
THEOREM PreferencesOnlyAdvance == Spec => PreferencesAdvance
<1> DEFINE Advance ==
      \A s \in Service, a \in Account :
         preferred'[s][a] # preferred[s][a] =>
             /\ preferred'[s][a] # NoRow
             /\ preferred[s][a] # NoRow => Older(preferred[s][a], preferred'[s][a])
<1>1. Inv /\ RowidsBounded /\ TypeOK' /\ [Next]_vars => [Advance]_vars
  <2> SUFFICES ASSUME Inv, RowidsBounded, TypeOK', [Next]_vars
               PROVE  Advance
    OBVIOUS
  <2>1. CASE UNCHANGED preferred
    BY <2>1
  <2>2. ASSUME NEW s \in Service, NEW a \in Account, Sync!Choose(s, a)
        PROVE  Advance
    <3>1. PICK r \in Ref, x \in Exit \cup {NoExit} :
            preferred' = [preferred EXCEPT ![s][a] = Sync!NewEvent(preferred[s][a], s, a, r, x)]
      BY <2>2 DEF Sync!Choose
    <3>2. Sync!NewEvent(preferred[s][a], s, a, r, x) = NewEvent(preferred[s][a], s, a, r, x)
      BY DEF NewEvent, NextRevision, Sync!NewEvent, Sync!NextRevision
    <3> DEFINE new == NewEvent(preferred[s][a], s, a, r, x)
    <3>3. new # NoRow /\ (preferred[s][a] # NoRow => Older(preferred[s][a], new))
      <4>1. preferred[s][a] \in Event \cup {NoRow}
        BY DEF Inv, TypeOK
      <4> QED
        BY <3>1, <4>1, NewEventIsNewer
    <3> HIDE DEF new
    <3>4. preferred' = [preferred EXCEPT ![s][a] = new]
      BY <3>1, <3>2 DEF new
    <3>5. \A t \in Service, b \in Account :
            preferred'[t][b] = IF t = s /\ b = a THEN new ELSE preferred[t][b]
      BY <3>4 DEF Inv, TypeOK
    <3> QED
      BY <3>3, <3>5
  <2>3. ASSUME NEW s \in Service, NEW e \in Event,
               ~Covers(preferred[Peer(s)][e.account], e),
               preferred' = [preferred EXCEPT ![Peer(s)][e.account] = e]
        PROVE  Advance
    <3>1. Peer(s) \in Service /\ e.account \in Account /\ e # NoRow
      BY Services, JournalAssumption DEF Event
    <3>2. \A t \in Service, b \in Account :
            preferred'[t][b] = IF t = Peer(s) /\ b = e.account THEN e ELSE preferred[t][b]
      BY <2>3, <3>1 DEF Inv, TypeOK
    <3> QED
      BY <2>3, <3>1, <3>2 DEF Covers
  <2> QED
    BY <2>1, <2>2, <2>3, PreferenceSteps
<1> QED
  BY <1>1, InvHolds, TypeInvariant, PTL DEF Spec, PreferencesAdvance

(***************************************************************************)
(* A row leaves an outbox only when it is covered at the peer or replaced  *)
(* by a newer one (bindings.py:143, 153-155).                              *)
(***************************************************************************)
THEOREM RowsLeaveSafely == Spec => RowsLeaveOnlyWhenSafe
<1> DEFINE Safe ==
      \A s \in Service : \A row \in outbox[s] :
         row \notin outbox'[s] =>
             \/ Covers(preferred[Peer(s)][row.event.account], row.event)
             \/ \E new \in outbox'[s] :
                  /\ new.event.account = row.event.account
                  /\ Older(row.event, new.event)
<1>1. Inv /\ RowidsBounded /\ TypeOK' /\ [Next]_vars => [Safe]_vars
  <2> SUFFICES ASSUME Inv, RowidsBounded, TypeOK', [Next]_vars
               PROVE  Safe
    OBVIOUS
  <2>1. ASSUME NEW s \in Service, NEW a \in Account, NEW r \in Ref,
               NEW x \in Exit \cup {NoExit}, Report(s, a, r, x)
        PROVE  Safe
    <3> DEFINE new == NewEvent(preferred[s][a], s, a, r, x)
    <3>1. CASE ~Publishes(s, a, r, x)
      BY <2>1, <3>1 DEF Report, Observe
    <3>2. CASE Publishes(s, a, r, x)
      <4>1. /\ preferred[s][a] \in Event \cup {NoRow}
            /\ outbox[s] \in SUBSET [rowid : Nat, event : Event]
        BY DEF Inv, TypeOK
      <4>2. new \in Event /\ new.account = a
            /\ (preferred[s][a] # NoRow => Older(preferred[s][a], new))
        BY <4>1, NewEventIsNewer
      <4>3. PICK n \in Nat : \A row \in outbox[s] : row.rowid <= n
        BY DEF RowidsBounded
      <4>4. outbox' = [outbox EXCEPT ![s] = Enqueue(outbox[s], new)]
        BY <2>1, <3>2 DEF Report, Observe
      <4> HIDE DEF new
      <4>5. PICK id \in Nat :
              Enqueue(outbox[s], new) = {row \in outbox[s] : row.event.account # a}
                                          \cup {[rowid |-> id, event |-> new]}
        BY <4>1, <4>2, <4>3, EnqueueIsTyped
      <4>6. \A t \in Service : outbox'[t] = IF t = s THEN Enqueue(outbox[s], new) ELSE outbox[t]
        BY <4>4 DEF Inv, TypeOK
      <4>7. ASSUME NEW row \in outbox[s], row.event.account = a
            PROVE  Older(row.event, new)
        <5>1. row.event \in Known /\ row.event \in Event /\ row.event.source = s
          BY KnownAreEvents, WhereEventsAre DEF Inv, Addressed
        <5>2. Covers(preferred[s][a], row.event)
          BY <4>7, <5>1 DEF Inv, OwnChoicesCovered
        <5>3. /\ preferred[s][a] \in Event /\ ~Older(preferred[s][a], row.event)
              /\ Older(preferred[s][a], new)
          BY <4>1, <4>2, <5>2 DEF Covers
        <5> QED
          BY <4>2, <5>1, <5>3, VersionOrder
      <4>8. [rowid |-> id, event |-> new] \in outbox'[s]
        BY <4>5, <4>6
      <4>9. \A t \in Service : \A row \in outbox[t] :
              row \notin outbox'[t] => t = s /\ row.event.account = a
        BY <4>5, <4>6
      <4>10. \A row \in outbox[s] : row.event.account = a =>
               \E added \in outbox'[s] : /\ added.event.account = row.event.account
                                         /\ Older(row.event, added.event)
        BY <4>2, <4>7, <4>8
      <4> QED
        BY <4>9, <4>10
    <3> QED
      BY <3>1, <3>2
  <2>2. ASSUME NEW s \in Service, Serve(s) \/ FileDeliver(s) \/ ServeLate(s)
        PROVE  UNCHANGED outbox
    BY <2>2 DEF Serve, FileDeliver, ServeLate, Receive, journal
  <2>3. ASSUME NEW s \in Service,
               \/ Poll(s) \/ Post(s) \/ Refuse(s) \/ Reply(s) \/ RequestError(s)
               \/ Restart(s)
        PROVE  UNCHANGED outbox
    BY <2>3 DEF Poll, Post, Refuse, Reply, RequestError, Restart, journal
  <2>4. ASSUME NEW s \in Service, Confirm(s)
        PROVE  Safe
    <3>1. \A t \in Service : \A row \in outbox[t] :
            row \in outbox'[t] \/ (t = s /\ row.event = call[s].event)
      BY <2>4 DEF Confirm, Acknowledge, Inv, TypeOK
    <3>2. Covers(preferred[Peer(s)][call[s].event.account], call[s].event)
      BY <2>4 DEF Confirm, Inv, DeliveredIsCovered
    <3> QED
      BY <3>1, <3>2
  <2>5. CASE UNCHANGED vars
    BY <2>5 DEF vars
  <2> QED
    BY <2>1, <2>2, <2>3, <2>4, <2>5 DEF Next, ExchangeStep
<1> QED
  BY <1>1, InvHolds, TypeInvariant, PTL DEF Spec, RowsLeaveOnlyWhenSafe

=============================================================================
