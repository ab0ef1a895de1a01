------------------------ MODULE BindingJournal_proofs ------------------------
(***************************************************************************)
(* Lemmas about the journals' tables and operations, for any accounts,     *)
(* references, exits and table limits; the proofs about the exchange and   *)
(* about the consumers rest on them.                                       *)
(***************************************************************************)
EXTENDS BindingJournal, SequenceTheorems, WellFoundedInduction, TLAPS

-----------------------------------------------------------------------------
(* Versions and services.                                                  *)

\* There are two services, each the peer of the other.
LEMMA Services ==
    ASSUME NEW s \in Service
    PROVE  /\ Peer(s) \in Service
           /\ Peer(s) # s
           /\ Peer(Peer(s)) = s
           /\ \A t \in Service : t = s \/ t = Peer(s)
BY DEF Service, Peer

\* Versions are ordered totally.
LEMMA VersionOrder ==
    ASSUME NEW e \in Event, NEW f \in Event, NEW g \in Event
    PROVE  /\ ~Older(e, e)
           /\ Older(e, f) => ~Older(f, e)
           /\ Older(e, f) /\ Older(f, g) => Older(e, g)
           /\ ~Older(e, f) /\ ~Older(f, g) => ~Older(e, g)
           /\ ~Older(f, e) /\ Older(f, g) => Older(e, g)
           /\ ~Older(e, f) /\ ~Older(f, e) =>
                e.revision = f.revision /\ e.source = f.source
BY DEF Event, Service, Older

\* The event observe() makes is well formed, and newer than what it replaces.
LEMMA NewEventIsNewer ==
    ASSUME NEW desired \in Event \cup {NoRow}, NEW s \in Service, NEW a \in Account,
           NEW r \in Ref, NEW x \in Exit \cup {NoExit}
    PROVE  /\ NewEvent(desired, s, a, r, x) \in Event
           /\ NewEvent(desired, s, a, r, x).account = a
           /\ NewEvent(desired, s, a, r, x).source = s
           /\ NewEvent(desired, s, a, r, x) # NoRow
           /\ desired # NoRow =>
                /\ Older(desired, NewEvent(desired, s, a, r, x))
                /\ NewEvent(desired, s, a, r, x).revision > desired.revision
BY JournalAssumption DEF Event, NewEvent, NextRevision, Older

-----------------------------------------------------------------------------
(* The tables.                                                             *)

\* Pruning keeps seen a table of events and adds the one key only.
LEMMA RememberIsTyped ==
    ASSUME NEW table \in Seq(Event), NEW e \in Event
    PROVE  /\ Remember(table, e) \in Seq(Event)
           /\ Len(Remember(table, e)) <= SeenLimit
           /\ Keys(Remember(table, e)) \subseteq Keys(table) \cup {e}
<1> DEFINE all == Append(table, e)
           first == Len(all) - SeenLimit + 1
<1>1. /\ all \in Seq(Event)
      /\ Len(all) = Len(table) + 1
      /\ Len(table) \in Nat
      /\ \A i \in 1..Len(all) : all[i] = IF i <= Len(table) THEN table[i] ELSE e
  BY AppendProperties, LenProperties
<1>2. \A i \in 1..Len(all) : all[i] \in Keys(table) \cup {e}
  BY <1>1 DEF Keys
<1>3. CASE Len(all) <= SeenLimit
  <2>1. Remember(table, e) = all
    BY <1>1, <1>3, JournalAssumption DEF Remember
  <2> QED
    BY <1>1, <1>2, <1>3, <2>1 DEF Keys
<1>4. CASE Len(all) > SeenLimit
  <2>1. Remember(table, e) = SubSeq(all, first, Len(all))
    BY <1>4 DEF Remember
  <2>2. /\ first \in 1..(Len(all) + 1)
        /\ first \in Int
        /\ Len(all) \in Int
    BY <1>1, <1>4, JournalAssumption
  <2>3. \A i \in first..Len(all) : all[i] \in Event
    BY <1>1, <2>2, ElementOfSeq
  <2> HIDE DEF all, first
  <2>4. /\ SubSeq(all, first, Len(all)) \in Seq(Event)
        /\ Len(SubSeq(all, first, Len(all))) = Len(all) - first + 1
        /\ \A i \in 1..(Len(all) - first + 1) :
              SubSeq(all, first, Len(all))[i] = all[first + i - 1]
    BY <2>2, <2>3, SubSeqProperties
  <2>5. \A i \in 1..(Len(all) - first + 1) : first + i - 1 \in 1..Len(all)
    BY <2>2
  <2> DEFINE kept == SubSeq(all, first, Len(all))
  <2> HIDE DEF kept
  <2>6. \A i \in 1..Len(kept) : kept[i] \in Keys(table) \cup {e}
    BY <1>2, <2>4, <2>5 DEF kept
  <2>7. Keys(kept) \subseteq Keys(table) \cup {e}
    BY <2>6 DEF Keys
  <2>8. Len(kept) = SeenLimit
    BY <1>1, <2>2, <2>4, JournalAssumption DEF kept, first
  <2> QED
    BY <2>1, <2>4, <2>7, <2>8, JournalAssumption DEF kept
<1> QED
  BY <1>1, <1>3, <1>4, JournalAssumption

\* A bounded set of row numbers has a greatest one.
LEMMA GreatestRowid ==
    ASSUME NEW T \in SUBSET Nat, T # {}, NEW n \in Nat, \A t \in T : t <= n
    PROVE  \E m \in T : \A t \in T : t <= m
<1> DEFINE U == {u \in Nat : \A t \in T : t <= u}
           R == OpToRel(<, Nat)
<1>1. IsWellFoundedOn(R, Nat)
  BY NatLessThanWellFounded
<1>2. U \subseteq Nat /\ U # {}
  OBVIOUS
<1>3. \A i, j \in Nat : i < j => <<i, j>> \in R
  BY DEF OpToRel
<1> HIDE DEF U, R
<1>4. PICK u \in U : \A v \in U : ~(<<v, u>> \in R)
  BY <1>1, <1>2, WFMin
<1>5. \A v \in U : ~(v < u)
  BY <1>2, <1>3, <1>4
<1>6. u \in T
  <2> SUFFICES ASSUME u \notin T PROVE FALSE
    OBVIOUS
  <2>1. \A t \in T : t <= u - 1 /\ t \in Nat
    BY <1>4 DEF U
  <2>2. u \in Nat /\ u - 1 \in Nat
    <3>1. PICK t \in T : TRUE
      OBVIOUS
    <3>2. u \in Nat
      BY <1>4 DEF U
    <3>3. t \in Nat /\ t <= u - 1
      BY <2>1, <3>1
    <3> QED
      BY <3>2, <3>3
  <2>3. u - 1 \in U
    BY <2>1, <2>2 DEF U
  <2>4. ~(u - 1 < u)
    BY <1>5, <2>3
  <2> QED
    BY <2>2, <2>4
<1> QED
  BY <1>4, <1>6 DEF U

\* DELETE and INSERT in outbox: the account's rows go, one row is new.
LEMMA EnqueueIsTyped ==
    ASSUME NEW table \in SUBSET [rowid : Nat, event : Event], NEW e \in Event,
           NEW n \in Nat, \A row \in table : row.rowid <= n
    PROVE  \E id \in Nat :
             Enqueue(table, e) = {row \in table : row.event.account # e.account}
                                   \cup {[rowid |-> id, event |-> e]}
<1> DEFINE rest == {row \in table : row.event.account # e.account}
           ids == {row.rowid : row \in rest}
<1>1. CASE rest = {}
  BY <1>1 DEF Enqueue, NextRowid
<1>2. CASE rest # {}
  <2>1. ids \in SUBSET Nat /\ ids # {} /\ \A i \in ids : i <= n
    BY <1>2
  <2>2. PICK top \in ids : \A i \in ids : i <= top
    BY <2>1, GreatestRowid
  <2>3. \E row \in rest : \A q \in rest : q.rowid <= row.rowid
    BY <2>2
  <2>4. (CHOOSE row \in rest : \A q \in rest : q.rowid <= row.rowid) \in rest
    BY <2>3
  <2>5. NextRowid(rest) \in Nat
    BY <1>2, <2>4 DEF NextRowid
  <2> QED
    BY <2>5 DEF Enqueue
<1> QED
  BY <1>1, <1>2

-----------------------------------------------------------------------------
(* The operations.                                                         *)

\* No table is infinite; needed for the row numbers INSERT chooses.
RowidsBounded ==
    \A s \in Service : \E n \in Nat : \A row \in outbox[s] : row.rowid <= n

\* The types of the four tables.
Journals ==
    /\ preferred \in [Service -> [Account -> Event \cup {NoRow}]]
    /\ observed \in [Service -> [Account -> Binding \cup {NoRow}]]
    /\ seen \in [Service -> Seq(Event)]
    /\ outbox \in [Service -> SUBSET [rowid : Nat, event : Event]]
    /\ RowidsBounded

\* What receive() leaves: the preference is the event or as it was, and covers
\* the event unless its key was in seen.
LEMMA ReceiveEffect ==
    ASSUME Journals, NEW s \in Service, NEW e \in Event, Receive(s, e)
    PROVE  /\ Journals'
           /\ UNCHANGED <<observed, outbox>>
           /\ \A t \in Service : Queued(t)' = Queued(t)
           /\ Keys(seen'[s]) \subseteq Keys(seen[s]) \cup {e}
           /\ seen'[Peer(s)] = seen[Peer(s)]
           /\ \A t \in Service, a \in Account :
                \/ preferred'[t][a] = preferred[t][a]
                \/ /\ t = s /\ a = e.account /\ preferred'[t][a] = e
                   /\ ~Covers(preferred[t][a], e)
           /\ e \in Keys(seen[s]) \/ Covers(preferred'[s][e.account], e)
<1>0. e.account \in Account /\ ~Older(e, e) /\ e # NoRow
  BY VersionOrder, JournalAssumption DEF Event
<1>1. CASE UNCHANGED journal /\ e \in Keys(seen[s])
  BY <1>1 DEF journal, Journals, RowidsBounded, Queued
<1>2. CASE /\ seen' = [seen EXCEPT ![s] = Remember(@, e)]
           /\ preferred' = IF Covers(preferred[s][e.account], e)
                           THEN preferred
                           ELSE [preferred EXCEPT ![s][e.account] = e]
           /\ UNCHANGED <<observed, outbox>>
  <2>1. seen[s] \in Seq(Event)
    BY DEF Journals
  <2>2. Remember(seen[s], e) \in Seq(Event) /\ Keys(Remember(seen[s], e)) \subseteq Keys(seen[s]) \cup {e}
    BY <2>1, RememberIsTyped
  <2>3. /\ seen' \in [Service -> Seq(Event)]
        /\ seen'[s] = Remember(seen[s], e)
        /\ seen'[Peer(s)] = seen[Peer(s)]
    BY <1>2, <2>2, Services DEF Journals
  <2>4. /\ preferred' \in [Service -> [Account -> Event \cup {NoRow}]]
        /\ \A t \in Service, a \in Account :
             \/ preferred'[t][a] = preferred[t][a]
             \/ /\ t = s /\ a = e.account /\ preferred'[t][a] = e
                /\ ~Covers(preferred[t][a], e)
        /\ Covers(preferred'[s][e.account], e)
    <3>1. CASE Covers(preferred[s][e.account], e)
      BY <1>2, <3>1 DEF Journals
    <3>2. CASE ~Covers(preferred[s][e.account], e)
      <4>1. preferred' = [preferred EXCEPT ![s][e.account] = e]
        BY <1>2, <3>2
      <4>2. Covers(e, e)
        BY <1>0 DEF Covers
      <4> QED
        BY <1>0, <3>2, <4>1, <4>2 DEF Journals
    <3> QED
      BY <3>1, <3>2
  <2> QED
    BY <1>2, <2>2, <2>3, <2>4 DEF Journals, RowidsBounded, Queued
<1> QED
  BY <1>1, <1>2 DEF Receive

\* What observe() leaves: the binding, and where it publishes one new event,
\* preferred and in the outbox instead of the account's older rows.
LEMMA ObserveEffect ==
    ASSUME Journals, NEW s \in Service, NEW a \in Account, NEW r \in Ref,
           NEW x \in Exit \cup {NoExit}, Observe(s, a, r, x)
    PROVE  /\ Journals'
           /\ seen' = seen
           /\ observed' = [observed EXCEPT ![s][a] = [ref |-> r, exit |-> x]]
           /\ Publishes(s, a, r, x) =>
                /\ preferred' = [preferred EXCEPT ![s][a] = NewEvent(preferred[s][a], s, a, r, x)]
                /\ Queued(Peer(s))' = Queued(Peer(s))
                /\ \A e : e \in Queued(s)' <=>
                          \/ e = NewEvent(preferred[s][a], s, a, r, x)
                          \/ e \in Queued(s) /\ e.account # a
           /\ ~Publishes(s, a, r, x) =>
                /\ UNCHANGED <<preferred, outbox>>
                /\ \A t \in Service : Queued(t)' = Queued(t)
<1> DEFINE new == NewEvent(preferred[s][a], s, a, r, x)
<1>1. preferred[s][a] \in Event \cup {NoRow}
  BY DEF Journals
<1>2. new \in Event /\ new.account = a
  BY <1>1, NewEventIsNewer
<1>3. /\ observed' = [observed EXCEPT ![s][a] = [ref |-> r, exit |-> x]]
      /\ observed' \in [Service -> [Account -> Binding \cup {NoRow}]]
      /\ seen' = seen
  BY DEF Observe, Journals, Binding
<1>4. CASE Publishes(s, a, r, x)
  <2>1. /\ preferred' = [preferred EXCEPT ![s][a] = new]
        /\ outbox' = [outbox EXCEPT ![s] = Enqueue(outbox[s], new)]
    BY <1>4 DEF Observe
  <2> HIDE DEF new
  <2>2. PICK n \in Nat : \A row \in outbox[s] : row.rowid <= n
    BY DEF Journals, RowidsBounded
  <2>3. PICK id \in Nat :
          Enqueue(outbox[s], new) = {row \in outbox[s] : row.event.account # new.account}
                                      \cup {[rowid |-> id, event |-> new]}
    BY <1>2, <2>2, EnqueueIsTyped DEF Journals
  <2>4. Enqueue(outbox[s], new) \in SUBSET [rowid : Nat, event : Event]
    BY <1>2, <2>3 DEF Journals
  <2>5. \A row \in Enqueue(outbox[s], new) : row.rowid <= n + id
    <3>1. \A row \in outbox[s] : row.rowid \in Nat
      BY DEF Journals
    <3> QED
      BY <2>2, <2>3, <3>1
  <2>6. /\ outbox'[s] = Enqueue(outbox[s], new)
        /\ \A t \in Service : t # s => outbox'[t] = outbox[t]
        /\ outbox' \in [Service -> SUBSET [rowid : Nat, event : Event]]
    BY <2>1, <2>4 DEF Journals
  <2>7. RowidsBounded'
    <3>1. n + id \in Nat
      OBVIOUS
    <3> QED
      BY <2>5, <2>6, <3>1 DEF RowidsBounded, Journals
  <2>8. preferred' \in [Service -> [Account -> Event \cup {NoRow}]]
    BY <1>2, <2>1 DEF Journals
  <2>9. \A e : e \in Queued(s)' <=>
               e = new \/ (e \in Queued(s) /\ e.account # a)
    <3> DEFINE rows == {row \in outbox[s] : row.event.account # a} \cup {[rowid |-> id, event |-> new]}
    <3>1. outbox'[s] = rows
      BY <1>2, <2>3, <2>6
    <3>2. ASSUME NEW e, e \in {row.event : row \in rows}
          PROVE  e = new \/ (e \in Queued(s) /\ e.account # a)
      <4>1. PICK row \in rows : e = row.event
        BY <3>2
      <4> QED
        BY <4>1 DEF Queued
    <3>3. ASSUME NEW e, e \in Queued(s), e.account # a PROVE e \in {row.event : row \in rows}
      <4>1. PICK row \in outbox[s] : e = row.event
        BY <3>3 DEF Queued
      <4> QED
        BY <3>3, <4>1
    <3>4. new \in {row.event : row \in rows}
      <4>1. [rowid |-> id, event |-> new] \in rows /\ [rowid |-> id, event |-> new].event = new
        OBVIOUS
      <4> HIDE DEF rows
      <4> QED
        BY <4>1
    <3>5. Queued(s)' = {row.event : row \in rows}
      BY <3>1 DEF Queued
    <3> HIDE DEF rows
    <3> QED
      BY <3>2, <3>3, <3>4, <3>5
  <2>10. Journals'
    BY <1>3, <2>6, <2>7, <2>8 DEF Journals
  <2>11. Queued(Peer(s))' = Queued(Peer(s))
    BY <2>6, Services DEF Queued
  <2> QED
    BY <1>3, <1>4, <2>1, <2>9, <2>10, <2>11 DEF new
<1>5. CASE ~Publishes(s, a, r, x)
  <2>1. UNCHANGED <<preferred, outbox>>
    BY <1>5 DEF Observe
  <2> QED
    BY <1>3, <1>5, <2>1 DEF Journals, RowidsBounded, Queued
<1> QED
  BY <1>4, <1>5

\* What acknowledge() leaves: rows of the event go, and no other.
LEMMA AcknowledgeEffect ==
    ASSUME Journals, NEW s \in Service, NEW e, Acknowledge(s, e)
    PROVE  /\ Journals'
           /\ UNCHANGED <<preferred, observed, seen>>
           /\ Queued(Peer(s))' = Queued(Peer(s))
           /\ Queued(s)' = Queued(s) \ {e}
<1>1. /\ outbox'[s] = {row \in outbox[s] : row.event # e}
      /\ \A t \in Service : t # s => outbox'[t] = outbox[t]
      /\ outbox' \in [Service -> SUBSET [rowid : Nat, event : Event]]
  BY DEF Acknowledge, Journals
<1>2. RowidsBounded'
  BY <1>1 DEF Journals, RowidsBounded
<1> QED
  BY <1>1, <1>2, Services DEF Acknowledge, Journals, Queued

-----------------------------------------------------------------------------
(* Keys and preferences.                                                   *)

\* The events received are not newer than the preferences.
KeysCovered ==
    \A s \in Service : \A e \in Keys(seen[s]) : Covers(preferred[s][e.account], e)

\* Preferences only rise.
Rise ==
    \A s \in Service, a \in Account :
        \/ preferred'[s][a] = preferred[s][a]
        \/ /\ preferred'[s][a] \in Event
           /\ preferred[s][a] = NoRow \/ Older(preferred[s][a], preferred'[s][a])

LEMMA CoveringRises ==
    ASSUME Journals, Rise, NEW s \in Service, NEW a \in Account, NEW e \in Event,
           Covers(preferred[s][a], e)
    PROVE  Covers(preferred'[s][a], e)
<1>1. CASE preferred'[s][a] = preferred[s][a]
  BY <1>1
<1>2. CASE preferred'[s][a] # preferred[s][a]
  <2>1. preferred[s][a] \in Event /\ preferred'[s][a] \in Event /\ ~Older(preferred[s][a], e)
        /\ Older(preferred[s][a], preferred'[s][a])
    BY <1>2 DEF Rise, Journals, Covers
  <2>2. ~Older(preferred'[s][a], e)
    BY <2>1, VersionOrder
  <2> QED
    BY <2>1, <2>2, JournalAssumption DEF Covers
<1> QED
  BY <1>1, <1>2

\* Receiving leaves a preference that covers the event, and lowers none.
LEMMA ReceiveCovers ==
    ASSUME Journals, KeysCovered, NEW s \in Service, NEW e \in Event, Receive(s, e)
    PROVE  Journals' /\ KeysCovered' /\ Rise /\ Covers(preferred'[s][e.account], e)
<1>0. e.account \in Account /\ Peer(s) \in Service /\ \A t \in Service : t = s \/ t = Peer(s)
  BY Services DEF Event
<1>1. /\ Journals'
      /\ Keys(seen'[s]) \subseteq Keys(seen[s]) \cup {e}
      /\ seen'[Peer(s)] = seen[Peer(s)]
      /\ \A t \in Service, a \in Account :
           \/ preferred'[t][a] = preferred[t][a]
           \/ /\ t = s /\ a = e.account /\ preferred'[t][a] = e
              /\ ~Covers(preferred[t][a], e)
      /\ e \in Keys(seen[s]) \/ Covers(preferred'[s][e.account], e)
  BY ReceiveEffect
<1>2. Rise
  BY <1>1 DEF Rise, Covers
<1>3. \A t \in Service : \A f \in Keys(seen[t]) : Covers(preferred'[t][f.account], f)
  <2> SUFFICES ASSUME NEW t \in Service, NEW f \in Keys(seen[t])
               PROVE  Covers(preferred'[t][f.account], f)
    OBVIOUS
  <2>1. f \in Event
    BY ElementOfSeq DEF Keys, Journals
  <2>2. Covers(preferred[t][f.account], f) /\ f.account \in Account
    BY <2>1 DEF KeysCovered, Event
  <2> QED
    BY <1>2, <2>1, <2>2, CoveringRises
<1>4. Covers(preferred'[s][e.account], e)
  BY <1>1, <1>3
<1>5. KeysCovered'
  <2> SUFFICES ASSUME NEW t \in Service, NEW f \in Keys(seen'[t])
               PROVE  Covers(preferred'[t][f.account], f)
    BY DEF KeysCovered, Keys
  <2> QED
    BY <1>0, <1>1, <1>3, <1>4
<1> QED
  BY <1>1, <1>2, <1>4, <1>5

\* Reporting a binding lowers no preference.
LEMMA ObserveCovers ==
    ASSUME Journals, KeysCovered, NEW s \in Service, NEW a \in Account, NEW r \in Ref,
           NEW x \in Exit \cup {NoExit}, Observe(s, a, r, x)
    PROVE  Journals' /\ KeysCovered' /\ Rise
<1> DEFINE new == NewEvent(preferred[s][a], s, a, r, x)
<1>1. Journals' /\ seen' = seen
  BY ObserveEffect
<1>2. preferred' = preferred \/ preferred' = [preferred EXCEPT ![s][a] = new]
  BY ObserveEffect
<1>3. new \in Event /\ (preferred[s][a] # NoRow => Older(preferred[s][a], new))
  <2>1. preferred[s][a] \in Event \cup {NoRow}
    BY DEF Journals
  <2> QED
    BY <2>1, NewEventIsNewer
<1> HIDE DEF new
<1>4. Rise
  <2>1. CASE preferred' = preferred
    BY <2>1 DEF Rise
  <2>2. CASE preferred' = [preferred EXCEPT ![s][a] = new]
    <3>1. preferred'[s][a] = new
          /\ \A t \in Service, b \in Account : (t # s \/ b # a) => preferred'[t][b] = preferred[t][b]
      BY <2>2 DEF Journals
    <3> QED
      BY <1>3, <3>1 DEF Rise
  <2> QED
    BY <1>2, <2>1, <2>2
<1>5. KeysCovered'
  <2> SUFFICES ASSUME NEW t \in Service, NEW f \in Keys(seen[t])
               PROVE  Covers(preferred'[t][f.account], f)
    BY <1>1 DEF KeysCovered, Keys
  <2>1. f \in Event
    BY ElementOfSeq DEF Keys, Journals
  <2>2. Covers(preferred[t][f.account], f) /\ f.account \in Account
    BY <2>1 DEF KeysCovered, Event
  <2> QED
    BY <1>4, <2>1, <2>2, CoveringRises
<1> QED
  BY <1>1, <1>4, <1>5
=============================================================================
