------------------------- MODULE BindingRebind_proofs -------------------------
(***************************************************************************)
(* That the two services settle on one exit, and when a service answers a  *)
(* preference it has applied, for any accounts, proxies, exits and pools.  *)
(***************************************************************************)
EXTENDS BindingRebind, BindingJournal_proofs, TLAPS

\* Every event of which there is a copy, in a table or on its way.
Known ==
    {e \in Event :
        \/ e \in late
        \/ \E s \in Service :
             (\E a \in Account : e = preferred[s][a]) \/ e \in Queued(s) \/ e \in Keys(seen[s])}

\* Where events are, and that their exits are those of their proxies.
Addressed ==
    /\ \A s \in Service, a \in Account :
         preferred[s][a] # NoRow => preferred[s][a].account = a
    /\ \A s \in Service : \A e \in Queued(s) : e.source = s
    /\ \A e \in Known : e.exit \in {ExitOf[e.ref], NoExit}

\* A service's own preference is as new as every event it has published, so
\* that the next one is newer than all of them.
OwnChoicesCovered == \A e \in Known : Covers(preferred[e.source][e.account], e)

OneEventEach ==
    \A e, f \in Known :
        (e.account = f.account /\ e.revision = f.revision /\ e.source = f.source) => e = f

\* What a service chose last waits in its outbox, or the peer has caught up.
ChoicesReach ==
    \A s \in Service, a \in Account :
        (preferred[s][a] # NoRow /\ preferred[s][a].source = s) =>
            \/ preferred[s][a] \in Queued(s)
            \/ Covers(preferred[Peer(s)][a], preferred[s][a])

\* The binding last reported is the one the service's own choice names.
ReportsAreChoices ==
    \A s \in Service, a \in Account :
        /\ observed[s][a] # NoRow => preferred[s][a] # NoRow
        /\ (preferred[s][a] # NoRow /\ preferred[s][a].source = s) =>
             /\ observed[s][a] # NoRow
             /\ \/ observed[s][a].ref = preferred[s][a].ref
                \/ /\ observed[s][a].exit = preferred[s][a].exit
                   /\ preferred[s][a].exit # NoExit

JournalInv ==
    /\ Journals
    /\ late \subseteq Event
    /\ Addressed
    /\ OwnChoicesCovered
    /\ KeysCovered
    /\ OneEventEach
    /\ ChoicesReach
    /\ ReportsAreChoices

\* What consumers hold, and that what was applied has the exit it asked for.
ConsumerInv ==
    /\ native \in [Service -> [Account -> Ref]]
    /\ applied \in [Service -> [Account -> Event \cup {NoRow}]]
    /\ wanted \in [Service -> [Account -> Event \cup {NoRow}]]
    /\ \A s \in Service, a \in Account :
         /\ native[s][a] \in Owned[s]
         /\ applied[s][a] # NoRow => applied[s][a].exit = ExitOf[native[s][a]]

\* The inductive invariant.
RebindInv == JournalInv /\ ConsumerInv

-----------------------------------------------------------------------------
(* The journals.                                                           *)

\* What is in a table is an event, and known.
LEMMA Copies ==
    ASSUME Journals
    PROVE  /\ \A s \in Service, a \in Account :
                preferred[s][a] # NoRow => preferred[s][a] \in Known
           /\ \A s \in Service : \A e \in Queued(s) : e \in Event /\ e \in Known
           /\ \A s \in Service : \A e \in Keys(seen[s]) : e \in Event /\ e \in Known
<1>1. \A s \in Service, a \in Account : preferred[s][a] # NoRow => preferred[s][a] \in Event
  BY DEF Journals
<1>2. \A s \in Service : \A e \in Queued(s) : e \in Event
  BY DEF Journals, Queued
<1>3. \A s \in Service : \A e \in Keys(seen[s]) : e \in Event
  <2> SUFFICES ASSUME NEW s \in Service, NEW i \in 1..Len(seen[s]) PROVE seen[s][i] \in Event
    BY DEF Keys
  <2> QED
    BY ElementOfSeq DEF Journals
<1> QED
  BY <1>1, <1>2, <1>3 DEF Known

\* An event of one's own choice is well formed.
LEMMA KnownParts ==
    ASSUME NEW e \in Known
    PROVE  e \in Event /\ e.source \in Service /\ e.account \in Account /\ e.ref \in Ref
           /\ e.revision \in Nat /\ e # NoRow
BY JournalAssumption DEF Known, Event

\* Events whose row has gone were in the outbox.
LEMMA LingeringIsKnown ==
    ASSUME JournalInv, NEW s \in Service, Linger(s)
    PROVE  late' \subseteq Event /\ late' \subseteq Known
<1>1. late \subseteq Event /\ Journals
  BY DEF JournalInv
<1>2. late \subseteq Known
  BY <1>1 DEF Known
<1>3. Pending(s) \subseteq Queued(s)
  BY DEF Pending, Queued
<1>4. Queued(s) \subseteq Event /\ Queued(s) \subseteq Known
  BY <1>1, Copies
<1> QED
  BY <1>1, <1>2, <1>3, <1>4 DEF Linger

\* Reporting a binding keeps what the journals promise (bindings.py:115-147).
LEMMA ReportKeeps ==
    ASSUME JournalInv, NEW s \in Service, NEW a \in Account, NEW r \in Ref,
           NEW x \in {ExitOf[r], NoExit}, x \in Exit \cup {NoExit}, Observe(s, a, r, x),
           Linger(s)
    PROVE  JournalInv'
<1> DEFINE old == preferred[s][a]
           new == NewEvent(old, s, a, r, x)
<1>0. Journals /\ Addressed /\ OwnChoicesCovered /\ KeysCovered /\ OneEventEach /\ ChoicesReach
      /\ ReportsAreChoices
  BY DEF JournalInv
<1>1. Journals' /\ seen' = seen /\ observed' = [observed EXCEPT ![s][a] = [ref |-> r, exit |-> x]]
  BY <1>0, ObserveEffect
<1>2. observed'[s][a] = [ref |-> r, exit |-> x]
      /\ \A t \in Service, b \in Account : (t # s \/ b # a) => observed'[t][b] = observed[t][b]
  BY <1>0, <1>1 DEF Journals
<1>3. [ref |-> r, exit |-> x] # NoRow /\ late' \subseteq Event /\ late' \subseteq Known
  BY JournalAssumption, LingeringIsKnown DEF Binding
<1>4. CASE Publishes(s, a, r, x)
  <2>1. /\ preferred' = [preferred EXCEPT ![s][a] = new]
        /\ Queued(Peer(s))' = Queued(Peer(s))
        /\ \A e : e \in Queued(s)' <=> e = new \/ (e \in Queued(s) /\ e.account # a)
    BY <1>0, <1>4, ObserveEffect
  <2>2. old \in Event \cup {NoRow}
    BY <1>0 DEF Journals
  <2>3. /\ new \in Event /\ new.account = a /\ new.source = s /\ new # NoRow
        /\ old # NoRow => Older(old, new) /\ new.revision > old.revision
    BY <2>2, NewEventIsNewer
  <2>4. new.ref = r /\ new.exit = x
    BY DEF NewEvent
  <2> HIDE DEF new
  <2>5. preferred'[s][a] = new
        /\ \A t \in Service, b \in Account : (t # s \/ b # a) => preferred'[t][b] = preferred[t][b]
    BY <1>0, <2>1, <2>3 DEF Journals
  <2>6. Rise
    BY <2>3, <2>5 DEF Rise
  <2>7. \A e \in Known' : e \in Known \/ e = new
    <3> SUFFICES ASSUME NEW e \in Known', e # new, e \notin late' PROVE e \in Known
      BY <1>3
    <3>1. PICK t \in Service :
            (\E b \in Account : e = preferred'[t][b]) \/ e \in Queued(t)' \/ e \in Keys(seen'[t])
      BY DEF Known
    <3>2. e \in Event
      BY DEF Known
    <3>3. CASE \E b \in Account : e = preferred'[t][b]
      BY <2>5, <3>2, <3>3 DEF Known
    <3>4. CASE e \in Queued(t)'
      <4>1. e \in Queued(t)
        BY <2>1, <3>4, Services
      <4> QED
        BY <3>2, <4>1 DEF Known
    <3>5. CASE e \in Keys(seen'[t])
      BY <1>1, <3>2, <3>5 DEF Known
    <3> QED
      BY <3>1, <3>3, <3>4, <3>5
  <2>8. Addressed'
    <3>1. \A t \in Service, b \in Account : preferred'[t][b] # NoRow => preferred'[t][b].account = b
      BY <1>0, <2>3, <2>5 DEF Addressed
    <3>2. \A t \in Service : \A e \in Queued(t)' : e.source = t
      BY <1>0, <2>1, <2>3, Services DEF Addressed
    <3>3. \A e \in Known' : e.exit \in {ExitOf[e.ref], NoExit}
      BY <1>0, <2>4, <2>7 DEF Addressed
    <3> QED
      BY <3>1, <3>2, <3>3 DEF Addressed
  <2>9. OwnChoicesCovered'
    <3> SUFFICES ASSUME NEW e \in Known' PROVE Covers(preferred'[e.source][e.account], e)
      BY DEF OwnChoicesCovered
    <3>1. CASE e = new
      <4>1. ~Older(new, new)
        BY <2>3, VersionOrder
      <4> QED
        BY <2>3, <2>5, <3>1, <4>1 DEF Covers
    <3>2. CASE e \in Known
      <4>1. Covers(preferred[e.source][e.account], e)
        BY <1>0, <3>2 DEF OwnChoicesCovered
      <4> QED
        BY <1>0, <2>6, <3>2, <4>1, KnownParts, CoveringRises
    <3> QED
      BY <2>7, <3>1, <3>2
  <2>10. KeysCovered'
    <3> SUFFICES ASSUME NEW t \in Service, NEW e \in Keys(seen[t])
                 PROVE  Covers(preferred'[t][e.account], e)
      BY <1>1 DEF KeysCovered
    <3>1. Covers(preferred[t][e.account], e) /\ e \in Known
      BY <1>0, Copies DEF KeysCovered
    <3> QED
      BY <1>0, <2>6, <3>1, KnownParts, CoveringRises
  <2>11. OneEventEach'
    <3>1. ASSUME NEW e \in Known, e.account = a, e.source = s PROVE e.revision # new.revision
      <4>1. Covers(old, e)
        BY <1>0, <3>1 DEF OwnChoicesCovered
      <4>2. old # NoRow /\ ~Older(old, e)
        BY <4>1 DEF Covers
      <4>3. ~(old.revision < e.revision) /\ old.revision \in Nat /\ new.revision \in Nat
        BY <2>2, <2>3, <4>2 DEF Older, Event
      <4> QED
        BY <2>3, <3>1, <4>2, <4>3, KnownParts
    <3> QED
      BY <1>0, <2>3, <2>7, <3>1 DEF OneEventEach
  <2>12. ChoicesReach'
    <3> SUFFICES ASSUME NEW t \in Service, NEW b \in Account,
                        preferred'[t][b] # NoRow, preferred'[t][b].source = t
                 PROVE  \/ preferred'[t][b] \in Queued(t)'
                        \/ Covers(preferred'[Peer(t)][b], preferred'[t][b])
      BY DEF ChoicesReach
    <3>1. CASE t = s /\ b = a
      BY <2>1, <2>5, <3>1
    <3>2. CASE t # s \/ b # a
      <4>1. preferred'[t][b] = preferred[t][b]
        BY <2>5, <3>2
      <4>2. CASE preferred[t][b] \in Queued(t)
        <5>1. preferred[t][b].account = b
          BY <1>0, <4>1 DEF Addressed
        <5> QED
          BY <2>1, <3>2, <4>1, <4>2, <5>1, Services
      <4>3. CASE Covers(preferred[Peer(t)][b], preferred[t][b])
        <5>1. preferred[t][b] \in Event
          BY <1>0, <4>1 DEF Journals
        <5> QED
          BY <1>0, <2>6, <4>1, <4>3, <5>1, Services, CoveringRises
      <4> QED
        BY <1>0, <4>1, <4>2, <4>3 DEF ChoicesReach
    <3> QED
      BY <3>1, <3>2
  <2>13. ReportsAreChoices'
    <3> SUFFICES ASSUME NEW t \in Service, NEW b \in Account
                 PROVE  /\ observed'[t][b] # NoRow => preferred'[t][b] # NoRow
                        /\ (preferred'[t][b] # NoRow /\ preferred'[t][b].source = t) =>
                             /\ observed'[t][b] # NoRow
                             /\ \/ observed'[t][b].ref = preferred'[t][b].ref
                                \/ /\ observed'[t][b].exit = preferred'[t][b].exit
                                   /\ preferred'[t][b].exit # NoExit
      BY DEF ReportsAreChoices
    <3>1. CASE t = s /\ b = a
      BY <1>2, <1>3, <2>3, <2>4, <2>5, <3>1
    <3>2. CASE t # s \/ b # a
      BY <1>0, <1>2, <2>5, <3>2 DEF ReportsAreChoices
    <3> QED
      BY <3>1, <3>2
  <2> QED
    BY <1>1, <1>3, <2>8, <2>9, <2>10, <2>11, <2>12, <2>13 DEF JournalInv
<1>5. CASE ~Publishes(s, a, r, x)
  <2>1. UNCHANGED <<preferred, outbox>> /\ \A t \in Service : Queued(t)' = Queued(t)
    BY <1>0, <1>5, ObserveEffect
  <2>2. Known' \subseteq Known
    BY <1>1, <1>3, <2>1 DEF Known
  <2>3. Addressed' /\ OwnChoicesCovered' /\ KeysCovered' /\ OneEventEach' /\ ChoicesReach'
    BY <1>0, <1>1, <2>1, <2>2
    DEF Addressed, OwnChoicesCovered, KeysCovered, OneEventEach, ChoicesReach
  <2>4. ~Repeats(observed[s][a], r, x)
    BY DEF Observe
  <2>5. old # NoRow /\ (old.source = s => old.ref = r \/ (x # NoExit /\ old.exit = x))
    BY <1>5, <2>4 DEF Publishes, Fulfils, AwaitsRebind
  <2>6. [ref |-> r, exit |-> x].ref = r /\ [ref |-> r, exit |-> x].exit = x
    OBVIOUS
  <2>7. ReportsAreChoices'
    <3> SUFFICES ASSUME NEW t \in Service, NEW b \in Account
                 PROVE  /\ observed'[t][b] # NoRow => preferred[t][b] # NoRow
                        /\ (preferred[t][b] # NoRow /\ preferred[t][b].source = t) =>
                             /\ observed'[t][b] # NoRow
                             /\ \/ observed'[t][b].ref = preferred[t][b].ref
                                \/ /\ observed'[t][b].exit = preferred[t][b].exit
                                   /\ preferred[t][b].exit # NoExit
      BY <2>1 DEF ReportsAreChoices
    <3>1. CASE t = s /\ b = a
      BY <1>2, <1>3, <2>5, <2>6, <3>1
    <3>2. CASE t # s \/ b # a
      BY <1>0, <1>2, <3>2 DEF ReportsAreChoices
    <3> QED
      BY <3>1, <3>2
  <2> QED
    BY <1>1, <1>3, <2>3, <2>7 DEF JournalInv
<1> QED
  BY <1>4, <1>5

\* Receiving any copy of an event of the peer keeps it, whether its row is
\* still there or not (bindings.py:99-113).
LEMMA DeliverKeeps ==
    ASSUME JournalInv, NEW s \in Service, NEW e \in Known, Receive(Peer(s), e),
           late' \subseteq late
    PROVE  JournalInv'
<1> DEFINE p == Peer(s)
<1>0. Journals /\ Addressed /\ OwnChoicesCovered /\ KeysCovered /\ OneEventEach /\ ChoicesReach
      /\ ReportsAreChoices
  BY DEF JournalInv
<1>1. p \in Service /\ p # s /\ Peer(p) = s /\ \A t \in Service : t = s \/ t = p
  BY Services
<1>2. e \in Event /\ e \in Known /\ e.source = s /\ e # NoRow /\ e.account \in Account
      /\ late' \subseteq Event /\ late' \subseteq Known
  <2>1. late \subseteq Event
    BY DEF JournalInv
  <2>2. late' \subseteq Event /\ late' \subseteq Known
    BY <2>1 DEF Known
  <2> QED
    BY <1>1, <2>2, KnownParts DEF Receive, p
<1> HIDE DEF p
<1>3. /\ Journals'
      /\ UNCHANGED <<observed, outbox>>
      /\ \A t \in Service : Queued(t)' = Queued(t)
      /\ Keys(seen'[p]) \subseteq Keys(seen[p]) \cup {e}
      /\ seen'[s] = seen[s]
      /\ \A t \in Service, a \in Account :
           \/ preferred'[t][a] = preferred[t][a]
           \/ /\ t = p /\ a = e.account /\ preferred'[t][a] = e
              /\ ~Covers(preferred[t][a], e)
      /\ e \in Keys(seen[p]) \/ Covers(preferred'[p][e.account], e)
  <2>1. Receive(p, e)
    BY DEF p
  <2> QED
    BY <1>0, <1>1, <1>2, <2>1, ReceiveEffect
<1>4. Rise
  BY <1>2, <1>3 DEF Rise, Covers
<1>5. \A f \in Known' : f \in Known
  <2> SUFFICES ASSUME NEW f \in Known', f \notin late' PROVE f \in Known
    BY <1>2
  <2>1. PICK t \in Service :
          (\E b \in Account : f = preferred'[t][b]) \/ f \in Queued(t)' \/ f \in Keys(seen'[t])
    BY DEF Known
  <2>2. f \in Event
    BY DEF Known
  <2>3. CASE \E b \in Account : f = preferred'[t][b]
    <3>1. PICK b \in Account : f = preferred'[t][b]
      BY <2>3
    <3>2. f = e \/ f = preferred[t][b]
      BY <1>3, <3>1
    <3> QED
      BY <1>2, <2>2, <3>2 DEF Known
  <2>4. CASE f \in Queued(t)'
    BY <1>3, <2>2, <2>4 DEF Known
  <2>5. CASE f \in Keys(seen'[t])
    <3>1. f = e \/ f \in Keys(seen[t])
      BY <1>1, <1>3, <2>5
    <3> QED
      BY <1>2, <2>2, <3>1 DEF Known
  <2> QED
    BY <2>1, <2>3, <2>4, <2>5
<1>6. Addressed'
  <2>1. \A t \in Service, b \in Account : preferred'[t][b] # NoRow => preferred'[t][b].account = b
    BY <1>0, <1>3 DEF Addressed
  <2> QED
    BY <1>0, <1>3, <1>5, <2>1 DEF Addressed
<1>7. OwnChoicesCovered'
  <2> SUFFICES ASSUME NEW f \in Known' PROVE Covers(preferred'[f.source][f.account], f)
    BY DEF OwnChoicesCovered
  <2>1. f \in Known /\ Covers(preferred[f.source][f.account], f)
    BY <1>0, <1>5 DEF OwnChoicesCovered
  <2> QED
    BY <1>0, <1>4, <2>1, KnownParts, CoveringRises
<1>8. KeysCovered'
  <2> SUFFICES ASSUME NEW t \in Service, NEW f \in Keys(seen'[t])
               PROVE  Covers(preferred'[t][f.account], f)
    BY DEF KeysCovered
  <2>1. CASE f \in Keys(seen[t])
    <3>1. Covers(preferred[t][f.account], f) /\ f \in Known
      BY <1>0, <2>1, Copies DEF KeysCovered
    <3> QED
      BY <1>0, <1>4, <3>1, KnownParts, CoveringRises
  <2>2. CASE f \notin Keys(seen[t])
    <3>1. t = p /\ f = e
      BY <1>1, <1>3, <2>2
    <3> QED
      BY <1>3, <2>2, <3>1
  <2> QED
    BY <2>1, <2>2
<1>9. OneEventEach'
  BY <1>0, <1>5 DEF OneEventEach
<1>10. ChoicesReach'
  <2> SUFFICES ASSUME NEW t \in Service, NEW b \in Account,
                      preferred'[t][b] # NoRow, preferred'[t][b].source = t
               PROVE  \/ preferred'[t][b] \in Queued(t)'
                      \/ Covers(preferred'[Peer(t)][b], preferred'[t][b])
    BY DEF ChoicesReach
  <2>1. preferred'[t][b] = preferred[t][b]
    BY <1>1, <1>2, <1>3
  <2>2. CASE preferred[t][b] \in Queued(t)
    BY <1>3, <2>1, <2>2
  <2>3. CASE Covers(preferred[Peer(t)][b], preferred[t][b])
    <3>1. preferred[t][b] \in Event
      BY <1>0, <2>1 DEF Journals
    <3> QED
      BY <1>0, <1>4, <2>1, <2>3, <3>1, Services, CoveringRises
  <2> QED
    BY <1>0, <2>1, <2>2, <2>3 DEF ChoicesReach
<1>11. ReportsAreChoices'
  <2> SUFFICES ASSUME NEW t \in Service, NEW b \in Account
               PROVE  /\ observed[t][b] # NoRow => preferred'[t][b] # NoRow
                      /\ (preferred'[t][b] # NoRow /\ preferred'[t][b].source = t) =>
                           /\ observed[t][b] # NoRow
                           /\ \/ observed[t][b].ref = preferred'[t][b].ref
                              \/ /\ observed[t][b].exit = preferred'[t][b].exit
                                 /\ preferred'[t][b].exit # NoExit
    BY <1>3 DEF ReportsAreChoices
  <2>1. CASE preferred'[t][b] = preferred[t][b]
    BY <1>0, <2>1 DEF ReportsAreChoices
  <2>2. CASE preferred'[t][b] # preferred[t][b]
    BY <1>1, <1>2, <1>3, <2>2
  <2> QED
    BY <2>1, <2>2
<1> QED
  BY <1>2, <1>3, <1>6, <1>7, <1>8, <1>9, <1>10, <1>11 DEF JournalInv

\* Acknowledging what the peer covers keeps it (bindings.py:153-156).
LEMMA ConfirmKeeps ==
    ASSUME JournalInv, NEW s \in Service, NEW e \in Known,
           Covers(preferred[Peer(s)][e.account], e), Acknowledge(s, e), Linger(s)
    PROVE  JournalInv'
<1>0. Journals /\ Addressed /\ OwnChoicesCovered /\ KeysCovered /\ OneEventEach /\ ChoicesReach
      /\ ReportsAreChoices
  BY DEF JournalInv
<1>1. /\ Journals'
      /\ UNCHANGED <<preferred, observed, seen>>
      /\ Queued(Peer(s))' = Queued(Peer(s))
      /\ Queued(s)' = Queued(s) \ {e}
      /\ late' \subseteq Event /\ late' \subseteq Known
  BY <1>0, AcknowledgeEffect, LingeringIsKnown
<1>2. \A t \in Service : Queued(t)' \subseteq Queued(t)
  BY <1>1, Services
<1>3. \A f \in Known' : f \in Known
  BY <1>1, <1>2 DEF Known
<1>4. Addressed' /\ OwnChoicesCovered' /\ KeysCovered' /\ OneEventEach' /\ ReportsAreChoices'
  BY <1>0, <1>1, <1>2, <1>3
  DEF Addressed, OwnChoicesCovered, KeysCovered, OneEventEach, ReportsAreChoices
<1>5. ChoicesReach'
  <2> SUFFICES ASSUME NEW t \in Service, NEW b \in Account,
                      preferred[t][b] # NoRow, preferred[t][b].source = t
               PROVE  \/ preferred[t][b] \in Queued(t)'
                      \/ Covers(preferred[Peer(t)][b], preferred[t][b])
    BY <1>1 DEF ChoicesReach
  <2>1. CASE t = s /\ preferred[t][b] = e
    BY <1>0, <2>1 DEF Addressed
  <2>2. CASE ~(t = s /\ preferred[t][b] = e)
    BY <1>0, <1>1, <2>2, Services DEF ChoicesReach
  <2> QED
    BY <2>1, <2>2
<1> QED
  BY <1>1, <1>4, <1>5 DEF JournalInv

\* All of it is about the journals and what is on its way only.
LEMMA JournalsAlone == ASSUME JournalInv, UNCHANGED <<journal, late>> PROVE JournalInv'
<1>1. \A t \in Service : Queued(t)' = Queued(t)
  BY DEF journal, Queued
<1>2. Known' = Known
  BY <1>1 DEF journal, Known
<1> QED
  BY <1>1, <1>2 DEF journal, JournalInv, Journals, RowidsBounded, Addressed, OwnChoicesCovered,
     KeysCovered, OneEventEach, ChoicesReach, ReportsAreChoices

-----------------------------------------------------------------------------
(* The steps.                                                              *)

\* Every step keeps the invariant.
LEMMA StepPreserves == ASSUME RebindInv, [Next]_vars PROVE RebindInv'
<1> USE RebindAssumption
<1>0. JournalInv /\ Journals /\ ConsumerInv
  BY DEF RebindInv, JournalInv
<1>1. CASE UNCHANGED vars
  BY <1>0, <1>1, JournalsAlone DEF vars, journal, consumers, RebindInv, ConsumerInv
<1>2. ASSUME NEW s \in Service, NEW a \in Account, Move(s, a) PROVE RebindInv'
  <2>1. ConsumerInv'
    BY <1>0, <1>2 DEF Move, ConsumerInv
  <2> QED
    BY <1>0, <1>2, <2>1, JournalsAlone DEF Move, RebindInv
<1>3. ASSUME NEW s \in Service, NEW a \in Account, Report(s, a) PROVE RebindInv'
  <2>1. PICK x \in {ExitOf[native[s][a]], NoExit} : Observe(s, a, native[s][a], x)
    BY <1>3 DEF Report
  <2>2. native[s][a] \in Ref /\ x \in Exit \cup {NoExit}
    BY <1>0 DEF ConsumerInv
  <2>3. JournalInv'
    BY <1>0, <1>3, <2>1, <2>2, ReportKeeps DEF Report
  <2> QED
    BY <1>0, <1>3, <2>3 DEF Report, RebindInv, ConsumerInv, consumers
<1>4. ASSUME NEW s \in Service, Deliver(s) PROVE RebindInv'
  <2>1. PICK e \in Pending(s) : Receive(Peer(s), e)
    BY <1>4 DEF Deliver
  <2>2. e \in Known
    <3>1. e \in Queued(s)
      BY DEF Pending, Queued
    <3> QED
      BY <1>0, <3>1, Copies
  <2>3. JournalInv'
    BY <1>0, <1>4, <2>1, <2>2, DeliverKeeps DEF Deliver
  <2> QED
    BY <1>0, <1>4, <2>3 DEF Deliver, RebindInv, ConsumerInv, consumers
<1>5. ASSUME NEW s \in Service, ServeLate(s) PROVE RebindInv'
  <2>1. PICK e \in late : Receive(Peer(s), e) /\ late' \in {late, late \ {e}}
    BY <1>5 DEF ServeLate
  <2>2. e \in Known /\ late' \subseteq late
    BY <1>0, <2>1 DEF JournalInv, Known
  <2>3. JournalInv'
    BY <1>0, <2>1, <2>2, DeliverKeeps
  <2> QED
    BY <1>0, <1>5, <2>3 DEF ServeLate, RebindInv, ConsumerInv, consumers
<1>6. ASSUME NEW s \in Service, Confirm(s) PROVE RebindInv'
  <2>1. PICK e \in Pending(s) \cup late :
          Covers(preferred[Peer(s)][e.account], e) /\ Acknowledge(s, e)
    BY <1>6 DEF Confirm
  <2>2. e \in Known
    <3>1. e \in Queued(s) \/ e \in late
      BY DEF Pending, Queued
    <3> QED
      BY <1>0, <3>1, Copies DEF JournalInv, Known
  <2>3. JournalInv'
    BY <1>0, <1>6, <2>1, <2>2, ConfirmKeeps DEF Confirm
  <2> QED
    BY <1>0, <1>6, <2>3 DEF Confirm, RebindInv, ConsumerInv, consumers
<1>7. ASSUME NEW s \in Service, NEW a \in Account, Consult(s, a) PROVE RebindInv'
  <2>1. \A e \in Preferences(s, a) : e \in Event \cup {NoRow}
    BY <1>0, Services DEF Preferences, Journals
  <2>2. ConsumerInv'
    BY <1>0, <1>7, <2>1 DEF Consult, ConsumerInv
  <2> QED
    BY <1>0, <1>7, <2>2, JournalsAlone DEF Consult, RebindInv
<1>8. ASSUME NEW s \in Service, NEW a \in Account, Apply(s, a) PROVE RebindInv'
  <2>1. PICK r \in Owned[s] : r \in Ref /\ ExitOf[r] = wanted[s][a].exit
                              /\ native' = [native EXCEPT ![s][a] = r]
    BY <1>8 DEF Apply, Candidates
  <2>2. ConsumerInv'
    BY <1>0, <1>8, <2>1 DEF Apply, ConsumerInv
  <2> QED
    BY <1>0, <1>8, <2>2, JournalsAlone DEF Apply, RebindInv
<1>9. ASSUME NEW s \in Service, NEW a \in Account, Decline(s, a) PROVE RebindInv'
  <2>1. ConsumerInv'
    BY <1>0, <1>9 DEF Decline, ConsumerInv
  <2> QED
    BY <1>0, <1>9, <2>1, JournalsAlone DEF Decline, RebindInv
<1> QED
  BY <1>1, <1>2, <1>3, <1>4, <1>5, <1>6, <1>7, <1>8, <1>9 DEF Next

\* The parts hold together in every behaviour (bindings.py:99-156,
\* binding_consumer.py:18-48).
THEOREM RebindInvHolds == Spec => []RebindInv
<1>1. RebindInit => RebindInv
  <2> SUFFICES ASSUME RebindInit PROVE RebindInv
    OBVIOUS
  <2>1. Journals
    <3>1. RowidsBounded
      BY DEF RebindInit, Init, RowidsBounded
    <3> QED
      BY <3>1, EmptySeq DEF RebindInit, Init, Journals
  <2>2. \A s \in Service : Queued(s) = {} /\ Keys(seen[s]) = {}
    BY DEF RebindInit, Init, Queued, Keys
  <2>3. \A s \in Service, a \in Account : preferred[s][a] = NoRow /\ observed[s][a] = NoRow
    BY DEF RebindInit, Init
  <2>4. Known = {} /\ late = {}
    BY <2>2, <2>3, JournalAssumption DEF Known, RebindInit
  <2>5. ConsumerInv
    BY RebindAssumption DEF RebindInit, ConsumerInv
  <2> QED
    BY <2>1, <2>2, <2>3, <2>4, <2>5
    DEF RebindInv, JournalInv, Addressed, OwnChoicesCovered, KeysCovered, OneEventEach,
        ChoicesReach, ReportsAreChoices
<1> QED
  BY <1>1, StepPreserves, PTL DEF Spec

\* The journals and consumers keep their types, and connections use the
\* service's own proxies.
THEOREM TypeCorrect == Spec => []TypeOK
<1>1. RebindInv => TypeOK
  BY DEF RebindInv, JournalInv, Journals, ConsumerInv, TypeOK
<1> QED
  BY <1>1, RebindInvHolds, PTL

\* A service answers a preference it has applied only where the journal does
\* not hold that preference, or the exit was not verified (bindings.py:126-137).
THEOREM EchoesAreOvertaken == Spec => EchoOnlyWhenOvertaken
<1> DEFINE Step == \A s \in Service, a \in Account :
         Echoes(s, a) => preferred[s][a] # applied[s][a] \/ preferred'[s][a].exit = NoExit
<1>1. RebindInv /\ [Next]_vars => [Step]_vars
  <2> SUFFICES ASSUME RebindInv, Next, NEW s \in Service, NEW a \in Account, Echoes(s, a),
                      preferred[s][a] = applied[s][a], preferred'[s][a].exit # NoExit
               PROVE  FALSE
    OBVIOUS
  <2>0. JournalInv /\ Journals /\ ConsumerInv /\ Addressed
    BY DEF RebindInv, JournalInv
  <2>1. ASSUME NEW t \in Service, NEW b \in Account, Report(t, b) PROVE FALSE
    <3>1. PICK x \in {ExitOf[native[t][b]], NoExit} : Observe(t, b, native[t][b], x)
      BY <2>1 DEF Report
    <3>2. native[t][b] \in Ref /\ x \in Exit \cup {NoExit}
      BY <2>0, RebindAssumption DEF ConsumerInv
    <3>3. Publishes(t, b, native[t][b], x) /\ preferred' =
            [preferred EXCEPT ![t][b] = NewEvent(preferred[t][b], t, b, native[t][b], x)]
      BY <2>0, <3>1, <3>2, ObserveEffect DEF Echoes
    <3>4. t = s /\ b = a /\ preferred'[s][a].exit = x
      BY <2>0, <3>3 DEF Journals, Echoes, NewEvent
    <3>5. x = applied[s][a].exit /\ preferred[s][a] # NoRow
      BY <2>0, <3>1, <3>4 DEF ConsumerInv, Echoes
    <3> QED
      BY <3>3, <3>4, <3>5 DEF Publishes, Fulfils
  <2>2. ASSUME NEW t \in Service, Deliver(t) \/ ServeLate(t) PROVE FALSE
    <3>1. PICK e \in Pending(t) \cup late : Receive(Peer(t), e)
      BY <2>2 DEF Deliver, ServeLate
    <3>2. e \in Event /\ e.source = t
      <4>1. e \in Queued(t) \/ e \in late
        BY DEF Pending, Queued
      <4> QED
        BY <2>0, <3>1, <4>1, Copies, Services DEF Receive, JournalInv
    <3>3. preferred'[s][a] = preferred[s][a] \/ (s = Peer(t) /\ preferred'[s][a] = e)
      BY <2>0, <3>1, <3>2, Services, ReceiveEffect
    <3> QED
      BY <3>2, <3>3, Services DEF Echoes
  <2>3. preferred' # preferred
    BY DEF Echoes
  <2> QED
    BY <2>1, <2>2, <2>3 DEF Next, Confirm, Acknowledge, Move, Consult, Apply, Decline, journal
<1> QED
  BY <1>1, RebindInvHolds, PTL DEF Spec, EchoOnlyWhenOvertaken

\* When an outbox is empty for an account at both services, and there is a
\* preference at each, it is the same.
LEMMA QuietIsOnePreference ==
    ASSUME JournalInv, NEW a \in Account,
           \A s \in Service : \A e \in Queued(s) : e.account # a,
           \A s \in Service : preferred[s][a] # NoRow
    PROVE  preferred[0][a] = preferred[1][a]
<1>0. Journals /\ Addressed /\ OwnChoicesCovered /\ OneEventEach /\ ChoicesReach
  BY DEF JournalInv
<1>1. ASSUME NEW s \in Service PROVE Covers(preferred[Peer(s)][a], preferred[s][a])
  <2> DEFINE e == preferred[s][a]
  <2>1. e \in Known /\ e.account = a /\ e.source \in Service
    BY <1>0, Copies, KnownParts DEF Addressed
  <2>2. CASE e.source = s
    BY <1>0, <2>1, <2>2 DEF ChoicesReach
  <2>3. CASE e.source = Peer(s)
    <3>1. Covers(preferred[e.source][e.account], e)
      BY <1>0, <2>1 DEF OwnChoicesCovered
    <3> QED
      BY <2>1, <2>3, <3>1
  <2> QED
    BY <2>1, <2>2, <2>3, Services
<1>2. 0 \in Service /\ 1 \in Service /\ Peer(0) = 1 /\ Peer(1) = 0
  BY DEF Service, Peer
<1>3. ~Older(preferred[0][a], preferred[1][a]) /\ ~Older(preferred[1][a], preferred[0][a])
  BY <1>1, <1>2 DEF Covers
<1>4. \A s \in Service : /\ preferred[s][a] \in Known /\ preferred[s][a] \in Event
                         /\ preferred[s][a].account = a
  BY <1>0, Copies, KnownParts DEF Addressed
<1>5. preferred[0][a].revision = preferred[1][a].revision /\ preferred[0][a].source = preferred[1][a].source
  BY <1>2, <1>3, <1>4, VersionOrder
<1> QED
  BY <1>0, <1>2, <1>4, <1>5 DEF OneEventEach

\* When all is delivered, reported and followed, both services use one exit
\* for the account, unless the preference was published without an exit or
\* the other service has no such proxy (bindings.py:99-147,
\* binding_consumer.py:27-48).
THEOREM ServicesSettle == Spec => []SettledOnOneExit
<1>1. RebindInv => SettledOnOneExit
  <2> SUFFICES ASSUME RebindInv, NEW a \in Account, Settled(a), Possible(a),
                      preferred[0][a].exit # NoExit
               PROVE  SameExit(a)
    BY DEF SettledOnOneExit
  <2> DEFINE e == preferred[0][a]
             s == e.source
  <2>0. JournalInv /\ Journals /\ Addressed /\ ReportsAreChoices /\ ConsumerInv
    BY DEF RebindInv, JournalInv
  <2>1. \A t \in Service :
          /\ \A f \in Queued(t) : f.account # a
          /\ observed[t][a] = [ref |-> native[t][a], exit |-> ExitOf[native[t][a]]]
          /\ ~WouldFollow(t, a)
    BY DEF Settled
  <2>2. ASSUME NEW t \in Service
         PROVE  /\ observed[t][a] # NoRow
                /\ observed[t][a].ref = native[t][a]
                /\ observed[t][a].exit = ExitOf[native[t][a]]
    <3> DEFINE b == [ref |-> native[t][a], exit |-> ExitOf[native[t][a]]]
    <3>1. native[t][a] \in Ref /\ ExitOf[native[t][a]] \in Exit
      BY <2>0, RebindAssumption DEF ConsumerInv
    <3>2. b \in Binding /\ b.ref = native[t][a] /\ b.exit = ExitOf[native[t][a]]
      BY <3>1 DEF Binding
    <3>3. observed[t][a] = b
      BY <2>1
    <3> HIDE DEF b
    <3> QED
      BY <3>2, <3>3, JournalAssumption
  <2>3. \A t \in Service : preferred[t][a] # NoRow
    <3> SUFFICES ASSUME NEW t \in Service PROVE preferred[t][a] # NoRow
      OBVIOUS
    <3> QED
      BY <2>0, <2>2 DEF ReportsAreChoices
  <2>4. \A t \in Service : preferred[t][a] = e
    BY <2>0, <2>1, <2>3, QuietIsOnePreference DEF Service
  <2>5. e \in Known /\ s \in Service /\ e # NoRow
    <3>1. 0 \in Service
      BY DEF Service
    <3> QED
      BY <2>0, <2>3, <3>1, Copies, KnownParts
  <2>6. e.exit = ExitOf[e.ref]
    BY <2>0, <2>5 DEF Addressed
  <2>7. Peer(s) \in Service /\ Peer(Peer(s)) = s /\ \A t \in Service : t = s \/ t = Peer(s)
    BY <2>5, Services
  <2>8. Candidates(Peer(s), e) # {}
    BY DEF Possible
  <2> HIDE DEF e, s
  <2>9. e.source = s /\ e.exit # NoExit
    BY DEF e, s
  <2>10. ExitOf[native[Peer(s)][a]] = e.exit
    <3>1. Usable(Peer(s), e) /\ e \in Preferences(Peer(s), a)
      BY <2>4, <2>5, <2>7, <2>9 DEF Usable, Preferences
    <3> QED
      BY <2>1, <2>7, <2>8, <3>1 DEF WouldFollow
  <2>11. ExitOf[native[s][a]] = e.exit
    <3>1. observed[s][a].ref = e.ref \/ observed[s][a].exit = e.exit
      BY <2>0, <2>4, <2>5, <2>9 DEF ReportsAreChoices
    <3>2. observed[s][a].ref = native[s][a] /\ observed[s][a].exit = ExitOf[native[s][a]]
      BY <2>5, <2>2
    <3> QED
      BY <2>6, <3>1, <3>2
  <2>12. 0 \in Service /\ 1 \in Service
    BY DEF Service
  <2> QED
    BY <2>7, <2>10, <2>11, <2>12 DEF SameExit
<1> QED
  BY <1>1, RebindInvHolds, PTL
=============================================================================
