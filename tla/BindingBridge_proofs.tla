------------------------- MODULE BindingBridge_proofs -------------------------
(***************************************************************************)
(* That a delivery a bridge reports is durable and a view it relays is     *)
(* fresh, for any accounts, backlogs and journals, whichever service's     *)
(* bridge passes requests on.                                              *)
(***************************************************************************)
EXTENDS BindingBridge, BindingJournal_proofs, TLAPS

Senders == {"exchange", "app", "bridge"}

\* At a bridge with request h in its handler and requests q in its backlog,
\* who has one request, for this event; or has none.
Asks(h, q, who, event) ==
    LET Wanted(r) == r.event = event /\ (r.relay <=> who = "app")
    IN  \/ /\ h.from = who /\ Wanted(h)
           /\ \A i \in 1..Len(q) : q[i].from # who
        \/ /\ h.from # who
           /\ \E i \in 1..Len(q) :
                /\ q[i].from = who /\ Wanted(q[i])
                /\ \A j \in 1..Len(q) : q[j].from = who => j = i
Silent(h, q, who) == h.from # who /\ \A i \in 1..Len(q) : q[i].from # who

\* The backlog after who has closed its connection.
Closed(q, who) == [i \in DOMAIN q |-> Orphan(q[i], who)]

-----------------------------------------------------------------------------
(* The inductive invariant, in its parts.                                  *)

Handling == [step : {"idle", "relaying", "file", "replying"},
             request : Request, answer : Answer]
Working == [step : {"idle", "waiting", "file", "delivered"}, event : Event \cup {NoRow}]
Asking == [step : {"idle", "waiting"}, event : Event \cup {NoRow}, floor : Rows]

BridgeTypes ==
    /\ Journals
    /\ worker \in [Service -> Working]
    /\ app \in [Service -> Asking]
    /\ handler \in [Service -> Handling]
    /\ backlog \in [Service -> Seq(Request)]
    /\ \A s \in Service : Len(backlog[s]) <= Backlog

\* An idle handler has no request; what is passed on came to be passed on; the
\* exchange delivers an event.
Serving ==
    \A s \in Service :
        /\ handler[s].step = "idle" => handler[s].request = NoRequest
        /\ handler[s].step \in {"relaying", "file"} => handler[s].request.relay
        /\ worker[s].step # "idle" => worker[s].event # NoRow

\* Who waits for an answer of bridge b has one request there, for the event it
\* waits for; who does not has none.
AppChannel(b) ==
    IF app[b].step = "waiting" THEN Asks(handler[b].request, backlog[b], "app", app[b].event)
    ELSE Silent(handler[b].request, backlog[b], "app")
ExchangeChannel(b) ==
    IF worker[Peer(b)].step = "waiting"
    THEN Asks(handler[b].request, backlog[b], "exchange", worker[Peer(b)].event)
    ELSE Silent(handler[b].request, backlog[b], "exchange")
RelayChannel(b) ==
    IF handler[Peer(b)].step = "relaying"
    THEN Asks(handler[b].request, backlog[b], "bridge", handler[Peer(b)].request.event)
    ELSE Silent(handler[b].request, backlog[b], "bridge")
Channels == \A b \in Service : AppChannel(b) /\ ExchangeChannel(b) /\ RelayChannel(b)

\* Whose journal the request at bridge s is for.
Owner(s) == IF handler[s].request.relay THEN Peer(s) ELSE s
Replies(s) == handler[s].step = "replying" /\ handler[s].answer.ok

\* The rows are as new as the floor.
Above(rows, floor) == \A a \in Account : floor[a] # NoRow => Covers(rows[a], floor[a])

\* A 200 to a POST means that the event is in the journal, or a newer one.
PostHolds(s) ==
    (Replies(s) /\ handler[s].request.event # NoRow) =>
        Covers(preferred[Owner(s)][handler[s].request.event.account], handler[s].request.event)
\* A 200 to a GET has what was in that journal.
ViewHolds(s) ==
    (Replies(s) /\ handler[s].request.event = NoRow) =>
        Above(preferred[Owner(s)], handler[s].answer.rows)
DeliveryHolds(s) ==
    worker[s].step = "delivered" =>
        Covers(preferred[Peer(s)][worker[s].event.account], worker[s].event)
FloorHolds(s) == app[s].step = "waiting" => Above(preferred[Peer(s)], app[s].floor)
\* A view for the application is from after it asked: the one its bridge gives,
\* and the one the peer's bridge gives its bridge.
ViewIsFresh(s) ==
    (Replies(s) /\ handler[s].request.event = NoRow /\ handler[s].request.from = "app") =>
        Above(handler[s].answer.rows, app[s].floor)
PassedIsFresh(s) ==
    (/\ Replies(s) /\ handler[s].request.event = NoRow
     /\ handler[s].request.from = "bridge" /\ handler[Peer(s)].request.from = "app") =>
        Above(handler[s].answer.rows, app[Peer(s)].floor)

Answers ==
    \A s \in Service :
        /\ PostHolds(s) /\ ViewHolds(s) /\ DeliveryHolds(s)
        /\ FloorHolds(s) /\ ViewIsFresh(s) /\ PassedIsFresh(s)

BridgeInv == BridgeTypes /\ KeysCovered /\ Serving /\ Channels /\ Answers

-----------------------------------------------------------------------------
(* The requests at one bridge.                                             *)

LEMMA Requests ==
    ASSUME NEW q \in Seq(Request)
    PROVE  /\ Len(q) \in Nat /\ DOMAIN q = 1..Len(q)
           /\ \A i \in 1..Len(q) : q[i] \in Request
BY LenProperties, ElementOfSeq

LEMMA RequestsListed ==
    ASSUME NEW n \in Nat, NEW z \in [1..n -> Request]
    PROVE  z \in Seq(Request) /\ Len(z) = n
<1>1. z \in Seq(Request)
  BY IsASeq
<1>2. Len(z) \in Nat /\ DOMAIN z = 1..Len(z) /\ DOMAIN z = 1..n
  BY <1>1, Requests
<1>3. \A m \in Nat : m \in 1..Len(z) <=> m \in 1..n
  BY <1>2
<1>4. Len(z) > 0 => Len(z) <= n
  BY <1>2, <1>3
<1>5. n > 0 => n <= Len(z)
  BY <1>2, <1>3
<1> QED
  BY <1>1, <1>2, <1>4, <1>5

\* A request is sent.
LEMMA Sending ==
    ASSUME NEW h, NEW q \in Seq(Request), NEW r \in Request
    PROVE  /\ Append(q, r) \in Seq(Request) /\ Len(Append(q, r)) = Len(q) + 1
           /\ \A who : who # r.from =>
                /\ Silent(h, q, who) => Silent(h, Append(q, r), who)
                /\ \A e : Asks(h, q, who, e) => Asks(h, Append(q, r), who, e)
           /\ (Silent(h, q, r.from) /\ (r.relay <=> r.from = "app"))
                => Asks(h, Append(q, r), r.from, r.event)
<1> DEFINE z == Append(q, r)
<1>1. /\ z \in Seq(Request) /\ Len(z) = Len(q) + 1 /\ Len(q) \in Nat
      /\ \A i \in 1..Len(z) : z[i] = IF i <= Len(q) THEN q[i] ELSE r
  BY AppendProperties, LenProperties
<1> HIDE DEF z
<1>2. /\ \A i \in 1..Len(q) : i \in 1..Len(z) /\ z[i] = q[i]
      /\ Len(z) \in 1..Len(z) /\ z[Len(z)] = r
      /\ \A i \in 1..Len(z) : i \in 1..Len(q) \/ i = Len(z)
  BY <1>1
<1>3. ASSUME NEW who, who # r.from, Silent(h, q, who) PROVE Silent(h, z, who)
  BY <1>2, <1>3 DEF Silent
<1>4. ASSUME NEW who, who # r.from, NEW e, Asks(h, q, who, e) PROVE Asks(h, z, who, e)
  <2>1. CASE h.from = who
    BY <1>2, <1>4, <2>1 DEF Asks
  <2>2. CASE h.from # who
    <3>1. PICK i \in 1..Len(q) : /\ q[i].from = who /\ q[i].event = e /\ (q[i].relay <=> who = "app")
                                 /\ \A j \in 1..Len(q) : q[j].from = who => j = i
      BY <1>4, <2>2 DEF Asks
    <3>2. i \in 1..Len(z) /\ z[i] = q[i] /\ \A j \in 1..Len(z) : z[j].from = who => j = i
      BY <1>2, <1>4, <3>1
    <3> QED
      BY <2>2, <3>1, <3>2 DEF Asks
  <2> QED
    BY <2>1, <2>2
<1>5. ASSUME Silent(h, q, r.from), r.relay <=> r.from = "app" PROVE Asks(h, z, r.from, r.event)
  <2>1. \A j \in 1..Len(z) : z[j].from = r.from => j = Len(z)
    BY <1>2, <1>5 DEF Silent
  <2> QED
    BY <1>2, <1>5, <2>1 DEF Silent, Asks
<1> QED
  BY <1>1, <1>3, <1>4, <1>5 DEF z

\* The handler, which had none, takes the first request.
LEMMA Taking ==
    ASSUME NEW h, h.from = "nobody", NEW q \in Seq(Request), q # <<>>
    PROVE  /\ Head(q) \in Request /\ Tail(q) \in Seq(Request) /\ Len(Tail(q)) <= Len(q)
           /\ \A who \in Senders :
                /\ Silent(h, q, who) => Silent(Head(q), Tail(q), who)
                /\ \A e : Asks(h, q, who, e) => Asks(Head(q), Tail(q), who, e)
<1> DEFINE z == Tail(q)
<1>1. /\ Head(q) = q[1] /\ Head(q) \in Request /\ z \in Seq(Request)
      /\ Len(z) = Len(q) - 1 /\ Len(q) \in Nat /\ 1 \in 1..Len(q)
      /\ \A i \in 1..Len(z) : z[i] = q[i + 1]
  BY HeadTailProperties, LenProperties, EmptySeq
<1> HIDE DEF z
<1>2. /\ \A i \in 1..Len(z) : i + 1 \in 1..Len(q) /\ z[i] = q[i + 1] /\ i + 1 # 1
      /\ \A i \in 1..Len(q) : i # 1 => i - 1 \in 1..Len(z) /\ z[i - 1] = q[i]
  BY <1>1
<1>3. ASSUME NEW who \in Senders, Silent(h, q, who) PROVE Silent(q[1], z, who)
  BY <1>1, <1>2, <1>3 DEF Silent
<1>4. ASSUME NEW who \in Senders, NEW e, Asks(h, q, who, e) PROVE Asks(q[1], z, who, e)
  <2>1. h.from # who
    BY DEF Senders
  <2>2. PICK i \in 1..Len(q) : /\ q[i].from = who /\ q[i].event = e /\ (q[i].relay <=> who = "app")
                               /\ \A j \in 1..Len(q) : q[j].from = who => j = i
    BY <1>4, <2>1 DEF Asks
  <2>3. CASE i = 1
    <3>1. \A j \in 1..Len(z) : z[j].from # who
      BY <1>2, <2>2, <2>3
    <3> QED
      BY <2>2, <2>3, <3>1 DEF Asks
  <2>4. CASE i # 1
    <3>1. i - 1 \in 1..Len(z) /\ z[i - 1] = q[i] /\ q[1].from # who
      BY <1>1, <1>2, <2>2, <2>4
    <3>2. \A j \in 1..Len(z) : z[j].from = who => j = i - 1
      <4> SUFFICES ASSUME NEW j \in 1..Len(z), z[j].from = who PROVE j = i - 1
        OBVIOUS
      <4>1. j + 1 = i
        BY <1>2, <2>2
      <4> QED
        BY <4>1
    <3> QED
      BY <2>2, <3>1, <3>2 DEF Asks
  <2> QED
    BY <2>3, <2>4
<1> QED
  BY <1>1, <1>3, <1>4 DEF z

\* A sender closes its connection.
LEMMA GivingUp ==
    ASSUME NEW h \in Request, NEW q \in Seq(Request), NEW who \in Senders
    PROVE  /\ Orphan(h, who) \in Request
           /\ Orphan(h, who).event = h.event /\ (Orphan(h, who).relay <=> h.relay)
           /\ Orphan(h, who).from \in {h.from, "nobody"} \ {who}
           /\ h.from # who => Orphan(h, who) = h
           /\ Closed(q, who) \in Seq(Request) /\ Len(Closed(q, who)) = Len(q)
           /\ Silent(Orphan(h, who), Closed(q, who), who)
           /\ \A other \in Senders \ {who} :
                /\ Silent(h, q, other) => Silent(Orphan(h, who), Closed(q, who), other)
                /\ \A e : Asks(h, q, other, e) => Asks(Orphan(h, who), Closed(q, who), other, e)
<1>1. ASSUME NEW r \in Request
      PROVE  /\ Orphan(r, who) \in Request
             /\ Orphan(r, who).event = r.event /\ (Orphan(r, who).relay <=> r.relay)
             /\ Orphan(r, who).from = IF r.from = who THEN "nobody" ELSE r.from
             /\ r.from # who => Orphan(r, who) = r
  BY DEF Orphan, Request
<1>2. "nobody" \notin Senders
  BY DEF Senders
<1> DEFINE z == Closed(q, who)
<1>3. z \in Seq(Request) /\ Len(z) = Len(q) /\ \A i \in 1..Len(q) : z[i] = Orphan(q[i], who)
  <2>1. Len(q) \in Nat /\ DOMAIN q = 1..Len(q) /\ \A i \in 1..Len(q) : q[i] \in Request
    BY Requests
  <2>2. z = [i \in 1..Len(q) |-> Orphan(q[i], who)] /\ \A i \in 1..Len(q) : Orphan(q[i], who) \in Request
    BY <1>1, <2>1 DEF Closed
  <2> HIDE DEF z
  <2>3. z \in [1..Len(q) -> Request]
    BY <2>2
  <2>4. z \in Seq(Request) /\ Len(z) = Len(q)
    BY <2>1, <2>3, RequestsListed
  <2> QED
    BY <2>2, <2>4
<1> HIDE DEF z
<1>4. \A i \in 1..Len(q) :
        /\ z[i].event = q[i].event /\ (z[i].relay <=> q[i].relay)
        /\ z[i].from = IF q[i].from = who THEN "nobody" ELSE q[i].from
  BY <1>1, <1>3, Requests
<1>5. Silent(Orphan(h, who), z, who)
  BY <1>1, <1>2, <1>3, <1>4 DEF Silent
<1>6. ASSUME NEW other \in Senders \ {who}, Silent(h, q, other) PROVE Silent(Orphan(h, who), z, other)
  BY <1>1, <1>2, <1>3, <1>4, <1>6 DEF Silent
<1>7. ASSUME NEW other \in Senders \ {who}, NEW e, Asks(h, q, other, e)
      PROVE  Asks(Orphan(h, who), z, other, e)
  <2>1. \A i \in 1..Len(q) : z[i].from = other <=> q[i].from = other
    BY <1>2, <1>4
  <2>2. Orphan(h, who).from = other <=> h.from = other
    BY <1>1, <1>2
  <2> QED
    BY <1>1, <1>3, <1>4, <1>7, <2>1, <2>2 DEF Asks
<1> QED
  BY <1>1, <1>2, <1>3, <1>5, <1>6, <1>7 DEF z

\* The handler has done with its request: its sender has none any more.
LEMMA Finishing ==
    ASSUME NEW h, NEW q \in Seq(Request), NEW who \in Senders
    PROVE  /\ h.from # who =>
                /\ Silent(h, q, who) => Silent(NoRequest, q, who)
                /\ \A e : Asks(h, q, who, e) => Asks(NoRequest, q, who, e)
           /\ h.from = who =>
                /\ ~Silent(h, q, who)
                /\ \A e : Asks(h, q, who, e) =>
                     /\ Silent(NoRequest, q, who)
                     /\ h.event = e /\ (h.relay <=> who = "app")
BY DEF Silent, Asks, Senders, NoRequest

LEMMA Emptied ==
    ASSUME NEW who \in Senders
    PROVE  Silent(NoRequest, <<>>, who)
BY DEF Silent, Senders, NoRequest

-----------------------------------------------------------------------------
(* What outlasts a step.                                                   *)

\* The answer of bridge s, if it still has one, is the one it had.
SameAnswer(s) ==
    handler'[s].step = "replying" =>
        /\ handler[s].step = "replying"
        /\ handler'[s].answer = handler[s].answer
        /\ handler'[s].request.event = handler[s].request.event
        /\ handler'[s].request.relay <=> handler[s].request.relay

\* What the journals hold they go on holding.
LEMMA AboveRises ==
    ASSUME Journals, Rise, NEW s \in Service, NEW floor \in Rows, Above(preferred[s], floor)
    PROVE  Above(preferred'[s], floor)
<1> SUFFICES ASSUME NEW a \in Account, floor[a] # NoRow PROVE Covers(preferred'[s][a], floor[a])
  BY DEF Above
<1>1. floor[a] \in Event /\ Covers(preferred[s][a], floor[a])
  BY DEF Above, Rows
<1> QED
  BY <1>1, CoveringRises

LEMMA AboveItself ==
    ASSUME NEW rows \in Rows
    PROVE  Above(rows, rows)
<1> SUFFICES ASSUME NEW a \in Account, rows[a] # NoRow PROVE Covers(rows[a], rows[a])
  BY DEF Above
<1>1. rows[a] \in Event
  BY DEF Rows
<1> QED
  BY <1>1, VersionOrder DEF Covers

LEMMA AnswerOutlasts ==
    ASSUME BridgeTypes, Rise, NEW s \in Service, SameAnswer(s)
    PROVE  /\ PostHolds(s) => PostHolds(s)'
           /\ ViewHolds(s) => ViewHolds(s)'
<1>1. handler[s] \in Handling /\ Peer(s) \in Service /\ Journals
  BY Services DEF BridgeTypes
<1>2. /\ handler[s].request.event \in Event \cup {NoRow} /\ handler[s].answer.rows \in Rows
      /\ Owner(s) \in Service
  BY <1>1 DEF Handling, Request, Answer, Owner
<1>3. Replies(s)' => /\ Replies(s) /\ Owner(s)' = Owner(s)
                     /\ handler'[s].request.event = handler[s].request.event
                     /\ handler'[s].answer.rows = handler[s].answer.rows
  BY DEF SameAnswer, Replies, Owner
<1>4. ASSUME PostHolds(s) PROVE PostHolds(s)'
  <2> SUFFICES ASSUME Replies(s)', handler[s].request.event # NoRow
               PROVE  Covers(preferred'[Owner(s)][handler[s].request.event.account],
                             handler[s].request.event)
    BY <1>3 DEF PostHolds
  <2>1. handler[s].request.event \in Event /\ handler[s].request.event.account \in Account
    BY <1>2 DEF Event
  <2> QED
    BY <1>1, <1>2, <1>3, <1>4, <2>1, CoveringRises DEF PostHolds
<1>5. ASSUME ViewHolds(s) PROVE ViewHolds(s)'
  BY <1>1, <1>2, <1>3, <1>5, AboveRises DEF ViewHolds
<1> QED
  BY <1>4, <1>5

LEMMA DeliveryOutlasts ==
    ASSUME BridgeTypes, Serving, Rise, NEW s \in Service, DeliveryHolds(s),
           worker'[s].step = "delivered" => worker'[s] = worker[s]
    PROVE  DeliveryHolds(s)'
<1> SUFFICES ASSUME worker'[s] = worker[s], worker[s].step = "delivered"
             PROVE  Covers(preferred'[Peer(s)][worker[s].event.account], worker[s].event)
  BY DEF DeliveryHolds
<1>1. worker[s].event \in Event
  BY DEF BridgeTypes, Working, Serving
<1>2. worker[s].event.account \in Account /\ Peer(s) \in Service /\ Journals
  BY <1>1, Services DEF Event, BridgeTypes
<1> QED
  BY <1>1, <1>2, CoveringRises DEF DeliveryHolds

LEMMA FloorOutlasts ==
    ASSUME BridgeTypes, Rise, NEW s \in Service, FloorHolds(s),
           app'[s].step = "waiting" => app'[s] = app[s]
    PROVE  FloorHolds(s)'
<1>1. app[s].floor \in Rows /\ Peer(s) \in Service /\ Journals
  BY Services DEF BridgeTypes, Asking
<1> QED
  BY <1>1, AboveRises DEF FloorHolds

\* Reading or receiving, on behalf of a request.
LEMMA AccessEffect ==
    ASSUME Journals, KeysCovered, NEW s \in Service, NEW e \in Event \cup {NoRow}, Access(s, e)
    PROVE  /\ Journals' /\ KeysCovered' /\ Rise
           /\ e # NoRow => Covers(preferred'[s][e.account], e)
           /\ e = NoRow => UNCHANGED journal
<1>1. CASE e = NoRow
  BY <1>1 DEF Access, journal, Journals, RowidsBounded, KeysCovered, Rise
<1>2. CASE e # NoRow
  BY <1>2, ReceiveCovers DEF Access
<1> QED
  BY <1>1, <1>2

LEMMA JournalsAlone ==
    ASSUME Journals, KeysCovered, UNCHANGED journal
    PROVE  Journals' /\ KeysCovered' /\ Rise
BY DEF journal, Journals, RowidsBounded, KeysCovered, Rise

-----------------------------------------------------------------------------
(* The steps.                                                              *)

\* The parts of the invariant, at a service and its peer.
LEMMA Parts ==
    ASSUME BridgeInv, NEW s \in Service
    PROVE  /\ BridgeTypes /\ Journals /\ KeysCovered /\ Serving /\ Channels /\ Answers
           /\ Peer(s) \in Service /\ Peer(s) # s /\ Peer(Peer(s)) = s
           /\ \A t \in Service : t = s \/ t = Peer(s)
           /\ worker[s] \in Working /\ app[s] \in Asking /\ handler[s] \in Handling
           /\ backlog[s] \in Seq(Request) /\ Len(backlog[s]) <= Backlog /\ Len(backlog[s]) \in Nat
           /\ AppChannel(s) /\ ExchangeChannel(s) /\ RelayChannel(s)
           /\ PostHolds(s) /\ ViewHolds(s) /\ DeliveryHolds(s)
           /\ FloorHolds(s) /\ ViewIsFresh(s) /\ PassedIsFresh(s)
BY Services, LenProperties DEF BridgeInv, BridgeTypes, Channels, Answers

\* Answers that are not touched outlast a step that lowers no preference.
LEMMA AnswersOutlast ==
    ASSUME BridgeInv, Rise,
           \A t \in Service :
             /\ SameAnswer(t)
             /\ worker'[t].step = "delivered" => worker'[t] = worker[t]
             /\ app'[t].step = "waiting" => app'[t] = app[t]
             /\ handler'[t].request.from \in {handler[t].request.from, "nobody"}
             /\ handler'[t].request.from = "app" => app'[t] = app[t]
    PROVE  Answers'
<1> SUFFICES ASSUME NEW t \in Service
             PROVE  /\ PostHolds(t)' /\ ViewHolds(t)' /\ DeliveryHolds(t)'
                    /\ FloorHolds(t)' /\ ViewIsFresh(t)' /\ PassedIsFresh(t)'
  BY DEF Answers
<1>1. PostHolds(t)' /\ ViewHolds(t)' /\ DeliveryHolds(t)' /\ FloorHolds(t)'
  BY Parts, AnswerOutlasts, DeliveryOutlasts, FloorOutlasts
<1>2. /\ SameAnswer(t) /\ Peer(t) \in Service
      /\ \A b \in Service : /\ handler'[b].request.from \in {handler[b].request.from, "nobody"}
                            /\ handler'[b].request.from = "app" => app'[b] = app[b]
  BY Parts
<1>3. ViewIsFresh(t)'
  <2>1. (handler'[t].request.from = "app") => (handler[t].request.from = "app" /\ app'[t] = app[t])
    BY <1>2
  <2> QED
    BY <1>2, <2>1, Parts DEF ViewIsFresh, Replies, SameAnswer
<1>4. PassedIsFresh(t)'
  <2>1. /\ (handler'[t].request.from = "bridge") => (handler[t].request.from = "bridge")
        /\ (handler'[Peer(t)].request.from = "app") =>
             (handler[Peer(t)].request.from = "app" /\ app'[Peer(t)] = app[Peer(t)])
    BY <1>2
  <2> QED
    BY <1>2, <2>1, Parts DEF PassedIsFresh, Replies, SameAnswer
<1> QED
  BY <1>1, <1>3, <1>4

\* A connection of who at bridge b is closed.
LEMMA CloseEffect ==
    ASSUME BridgeTypes, NEW hs \in [Service -> Handling], NEW b \in Service, NEW who \in Senders,
           Close(hs, b, who)
    PROVE  /\ backlog' \in [Service -> Seq(Request)] /\ handler' \in [Service -> Handling]
           /\ \A t \in Service : Len(backlog'[t]) <= Backlog
           /\ \A t \in Service \ {b} : backlog'[t] = backlog[t] /\ handler'[t] = hs[t]
           /\ backlog'[b] = Closed(backlog[b], who)
           /\ handler'[b].step = hs[b].step /\ handler'[b].answer = hs[b].answer
           /\ handler'[b].request = Orphan(hs[b].request, who)
<1>1. hs[b] \in Handling /\ backlog[b] \in Seq(Request) /\ hs[b].request \in Request
  BY DEF BridgeTypes, Handling
<1>2. /\ Closed(backlog[b], who) \in Seq(Request) /\ Len(Closed(backlog[b], who)) = Len(backlog[b])
      /\ Orphan(hs[b].request, who) \in Request
  BY <1>1, GivingUp
<1>3. backlog' = [backlog EXCEPT ![b] = Closed(backlog[b], who)]
  BY DEF Close, Closed
<1>4. /\ backlog'[b] = Closed(backlog[b], who)
      /\ \A t \in Service \ {b} : backlog'[t] = backlog[t]
      /\ backlog' \in [Service -> Seq(Request)]
  BY <1>2, <1>3 DEF BridgeTypes
<1>5. handler' = [hs EXCEPT ![b].request = Orphan(hs[b].request, who)]
  BY DEF Close
<1> DEFINE h == [hs[b] EXCEPT !.request = Orphan(hs[b].request, who)]
<1>6. h \in Handling /\ h.step = hs[b].step /\ h.answer = hs[b].answer
      /\ h.request = Orphan(hs[b].request, who)
  BY <1>1, <1>2 DEF Handling
<1>7. handler' = [hs EXCEPT ![b] = h]
  BY <1>5
<1> HIDE DEF h
<1>8. handler' \in [Service -> Handling] /\ handler'[b] = h
      /\ \A t \in Service \ {b} : handler'[t] = hs[t]
  BY <1>6, <1>7
<1> QED
  BY <1>2, <1>4, <1>6, <1>8 DEF BridgeTypes

\* At bridge b, only who is missing; the handler goes on as it was.
GaveUp(b, who) ==
    /\ handler'[b].step = handler[b].step /\ handler'[b].answer = handler[b].answer
    /\ handler'[b].request.event = handler[b].request.event
    /\ handler'[b].request.relay <=> handler[b].request.relay
    /\ handler'[b].request.from \in {handler[b].request.from, "nobody"}
    /\ handler'[b].request.from # who
    /\ handler[b].request = NoRequest => handler'[b].request = NoRequest
    /\ Silent(handler'[b].request, backlog'[b], who)
    /\ \A other \in Senders \ {who} :
         /\ Silent(handler[b].request, backlog[b], other)
              => Silent(handler'[b].request, backlog'[b], other)
         /\ \A e : Asks(handler[b].request, backlog[b], other, e)
              => Asks(handler'[b].request, backlog'[b], other, e)

\* What the connection's end leaves at the bridge, whose handler goes on.
LEMMA ClosingKeeps ==
    ASSUME BridgeInv, NEW b \in Service, NEW who \in Senders, NEW hs \in [Service -> Handling],
           hs[b] = handler[b], Close(hs, b, who)
    PROVE  /\ backlog' \in [Service -> Seq(Request)] /\ handler' \in [Service -> Handling]
           /\ \A t \in Service : Len(backlog'[t]) <= Backlog
           /\ \A t \in Service \ {b} : backlog'[t] = backlog[t] /\ handler'[t] = hs[t]
           /\ GaveUp(b, who)
<1> DEFINE h == handler[b].request
           z == backlog[b]
<1>1. BridgeTypes /\ h \in Request /\ z \in Seq(Request)
  BY Parts DEF BridgeTypes, Handling
<1>2. /\ backlog' \in [Service -> Seq(Request)] /\ handler' \in [Service -> Handling]
      /\ \A t \in Service : Len(backlog'[t]) <= Backlog
      /\ \A t \in Service \ {b} : backlog'[t] = backlog[t] /\ handler'[t] = hs[t]
      /\ backlog'[b] = Closed(z, who)
      /\ handler'[b].step = handler[b].step /\ handler'[b].answer = handler[b].answer
      /\ handler'[b].request = Orphan(h, who)
  BY <1>1, CloseEffect
<1> HIDE DEF h, z
<1>3. /\ Orphan(h, who).event = h.event /\ (Orphan(h, who).relay <=> h.relay)
      /\ Orphan(h, who).from \in {h.from, "nobody"} \ {who}
      /\ h.from # who => Orphan(h, who) = h
      /\ Silent(Orphan(h, who), Closed(z, who), who)
      /\ \A other \in Senders \ {who} :
           /\ Silent(h, z, other) => Silent(Orphan(h, who), Closed(z, who), other)
           /\ \A e : Asks(h, z, other, e) => Asks(Orphan(h, who), Closed(z, who), other, e)
  BY <1>1, GivingUp
<1>4. h = NoRequest => Orphan(h, who) = NoRequest
  BY <1>3 DEF NoRequest, Senders
<1>5. handler'[b].request = Orphan(h, who) /\ backlog'[b] = Closed(z, who)
  BY <1>2
<1>6. /\ Silent(handler'[b].request, backlog'[b], who)
      /\ \A other \in Senders \ {who} :
           /\ Silent(h, z, other) => Silent(handler'[b].request, backlog'[b], other)
           /\ \A e : Asks(h, z, other, e) => Asks(handler'[b].request, backlog'[b], other, e)
  BY <1>3, <1>5
<1> QED
  BY <1>2, <1>3, <1>4, <1>6 DEF GaveUp, h, z

\* What waits for delivery is an event.
LEMMA QueuedAreEvents ==
    ASSUME Journals, NEW s \in Service
    PROVE  /\ \A e \in Queued(s) : e \in Event /\ e # NoRow
           /\ \A e \in Pending(s) : e \in Event /\ e # NoRow
<1>1. \A row \in outbox[s] : row.event \in Event
  BY DEF Journals
<1>2. \A e \in Queued(s) : e \in Event
  BY <1>1 DEF Queued
<1>3. \A e \in Pending(s) : e \in Event
  BY <1>1 DEF Pending
<1> QED
  BY <1>2, <1>3, JournalAssumption

\* The application's binding is reported (bindings.py:115-145).
LEMMA ReportKeeps ==
    ASSUME BridgeInv, NEW s \in Service, NEW a \in Account, NEW r \in Ref,
           NEW x \in Exit \cup {NoExit}, Report(s, a, r, x)
    PROVE  BridgeInv'
<1>1. UNCHANGED bridges /\ Journals' /\ KeysCovered' /\ Rise
  BY Parts, ObserveCovers DEF Report
<1>2. BridgeTypes' /\ Serving' /\ Channels'
  BY <1>1 DEF bridges, BridgeInv, BridgeTypes, Serving, Channels, AppChannel, ExchangeChannel,
              RelayChannel
<1>3. Answers'
  BY <1>1, AnswersOutlast DEF bridges, SameAnswer
<1> QED
  BY <1>1, <1>2, <1>3 DEF BridgeInv

\* The exchange posts an event, or finds no connection (binding_api.py:28-35).
LEMMA PostKeeps ==
    ASSUME BridgeInv, NEW s \in Service, Post(s)
    PROVE  BridgeInv'
<1> DEFINE p == Peer(s)
<1>1. PICK e \in Pending(s) :
        \/ /\ Len(backlog[p]) < Backlog
           /\ backlog' = [backlog EXCEPT ![p] =
                 Append(@, [from |-> "exchange", relay |-> FALSE, event |-> e])]
           /\ worker' = [worker EXCEPT ![s] = [step |-> "waiting", event |-> e]]
        \/ /\ worker' = [worker EXCEPT ![s] = [step |-> "file", event |-> e]]
           /\ UNCHANGED backlog
  BY DEF Post
<1>2. worker[s].step = "idle" /\ UNCHANGED <<journal, app, handler>>
  BY DEF Post
<1>3. e \in Event /\ e # NoRow
  BY Parts, QueuedAreEvents
<1>4. Journals' /\ KeysCovered' /\ Rise
  BY <1>2, Parts, JournalsAlone
<1> DEFINE q == [from |-> "exchange", relay |-> FALSE, event |-> e]
<1>5. q \in Request /\ q.from = "exchange" /\ q.relay = FALSE /\ q.event = e
  BY <1>3 DEF Request
<1> HIDE DEF q, p
<1>6. /\ p = Peer(s) /\ p \in Service /\ p # s /\ Peer(p) = s /\ \A t \in Service : t = s \/ t = p
      /\ BridgeTypes /\ Serving
      /\ backlog[p] \in Seq(Request) /\ Len(backlog[p]) \in Nat
  BY Parts DEF p
<1>7. \/ /\ Len(backlog[p]) < Backlog
         /\ backlog' = [backlog EXCEPT ![p] = Append(backlog[p], q)]
         /\ worker' = [worker EXCEPT ![s] = [step |-> "waiting", event |-> e]]
      \/ /\ worker' = [worker EXCEPT ![s] = [step |-> "file", event |-> e]]
         /\ UNCHANGED backlog
  BY <1>1 DEF q
<1>8. /\ worker'[p] = worker[p] /\ worker' \in [Service -> Working]
      /\ worker'[s].event = e /\ worker'[s].step \in {"waiting", "file"}
      /\ backlog' \in [Service -> Seq(Request)] /\ backlog'[s] = backlog[s]
      /\ Len(backlog'[p]) <= Backlog
      /\ worker'[s].step = "waiting" => backlog'[p] = Append(backlog[p], q)
      /\ worker'[s].step = "file" => backlog'[p] = backlog[p]
  <2>1. [step |-> "waiting", event |-> e] \in Working /\ [step |-> "file", event |-> e] \in Working
    BY <1>3 DEF Working
  <2>2. Append(backlog[p], q) \in Seq(Request) /\ Len(Append(backlog[p], q)) = Len(backlog[p]) + 1
    BY <1>5, <1>6, Sending
  <2>3. CASE /\ Len(backlog[p]) < Backlog
             /\ backlog' = [backlog EXCEPT ![p] = Append(backlog[p], q)]
             /\ worker' = [worker EXCEPT ![s] = [step |-> "waiting", event |-> e]]
    BY <1>6, <2>1, <2>2, <2>3, BridgeAssumption DEF BridgeTypes
  <2>4. CASE /\ worker' = [worker EXCEPT ![s] = [step |-> "file", event |-> e]]
             /\ UNCHANGED backlog
    BY <1>6, <2>1, <2>4 DEF BridgeTypes
  <2> QED
    BY <1>7, <2>3, <2>4
<1>9. BridgeTypes'
  BY <1>2, <1>4, <1>6, <1>8 DEF BridgeTypes
<1>10. Serving'
  BY <1>2, <1>3, <1>6, <1>8 DEF Serving
<1>11. Channels'
  <2>1. AppChannel(s)' /\ ExchangeChannel(s)' /\ RelayChannel(s)'
    BY <1>2, <1>6, <1>8, Parts DEF AppChannel, ExchangeChannel, RelayChannel
  <2>2. AppChannel(p) /\ ExchangeChannel(p) /\ RelayChannel(p)
    BY <1>6, Parts
  <2>3. CASE worker'[s].step = "waiting"
    <3> DEFINE h == handler[p].request
               z == backlog[p]
    <3>1. /\ \A who : who # "exchange" =>
                /\ Silent(h, z, who) => Silent(h, Append(z, q), who)
                /\ \A f : Asks(h, z, who, f) => Asks(h, Append(z, q), who, f)
          /\ Silent(h, z, "exchange") => Asks(h, Append(z, q), "exchange", e)
      <4> HIDE DEF h, z
      <4>1. z \in Seq(Request)
        BY <1>6 DEF z
      <4> QED
        BY <1>5, <4>1, Sending
    <3>2. backlog'[p] = Append(z, q) /\ handler'[p].request = h
      BY <1>2, <1>8, <2>3
    <3> HIDE DEF h, z
    <3>3. AppChannel(p)'
      BY <1>2, <2>2, <3>1, <3>2 DEF AppChannel, h, z
    <3>4. RelayChannel(p)'
      BY <1>2, <1>6, <2>2, <3>1, <3>2 DEF RelayChannel, h, z
    <3>5. ExchangeChannel(p)'
      BY <1>2, <1>6, <1>8, <2>2, <2>3, <3>1, <3>2 DEF ExchangeChannel, h, z
    <3> QED
      BY <1>6, <2>1, <3>3, <3>4, <3>5 DEF Channels
  <2>4. CASE worker'[s].step = "file"
    <3>1. AppChannel(p)' /\ ExchangeChannel(p)' /\ RelayChannel(p)'
      BY <1>2, <1>6, <1>8, <2>2, <2>4 DEF AppChannel, ExchangeChannel, RelayChannel
    <3> QED
      BY <1>6, <2>1, <3>1 DEF Channels
  <2> QED
    BY <1>8, <2>3, <2>4
<1>12. Answers'
  <2>1. ASSUME NEW t \in Service
        PROVE  SameAnswer(t) /\ (worker'[t].step = "delivered" => worker'[t] = worker[t]) /\ app'[t] = app[t]
    BY <1>2, <1>6, <1>8 DEF SameAnswer
  <2> QED
    BY <1>2, <1>4, <2>1, AnswersOutlast
<1> QED
  BY <1>4, <1>9, <1>10, <1>11, <1>12 DEF BridgeInv

\* The exchange gives an answer up (binding_api.py:105-109).
LEMMA PostTimeoutKeeps ==
    ASSUME BridgeInv, NEW s \in Service, PostTimesOut(s)
    PROVE  BridgeInv'
<1> DEFINE p == Peer(s)
<1>1. /\ p = Peer(s) /\ p \in Service /\ p # s /\ Peer(p) = s /\ \A t \in Service : t = s \/ t = p
      /\ BridgeTypes /\ Serving /\ "exchange" \in Senders /\ handler \in [Service -> Handling]
  BY Parts DEF Senders, BridgeTypes
<1>2. /\ worker' = [worker EXCEPT ![s].step = "file"] /\ Close(handler, p, "exchange")
      /\ UNCHANGED <<journal, app>> /\ worker[s].step = "waiting"
  BY DEF PostTimesOut
<1> HIDE DEF p
<1>3. Journals' /\ KeysCovered' /\ Rise
  BY <1>2, Parts, JournalsAlone
<1>4. /\ worker' \in [Service -> Working] /\ worker'[p] = worker[p]
      /\ worker'[s].step = "file" /\ worker'[s].event = worker[s].event
  BY <1>1, <1>2 DEF BridgeTypes, Working
<1>5. /\ backlog' \in [Service -> Seq(Request)] /\ handler' \in [Service -> Handling]
      /\ \A t \in Service : Len(backlog'[t]) <= Backlog
      /\ backlog'[s] = backlog[s] /\ handler'[s] = handler[s]
      /\ GaveUp(p, "exchange")
  BY <1>1, <1>2, ClosingKeeps
<1>6. BridgeTypes'
  BY <1>1, <1>2, <1>3, <1>4, <1>5 DEF BridgeTypes
<1>7. Serving'
  BY <1>1, <1>2, <1>4, <1>5 DEF GaveUp, Serving
<1>8. Channels'
  <2>1. AppChannel(s)' /\ ExchangeChannel(s)' /\ RelayChannel(s)'
    BY <1>1, <1>2, <1>4, <1>5, Parts DEF GaveUp, AppChannel, ExchangeChannel, RelayChannel
  <2>2. AppChannel(p)' /\ RelayChannel(p)'
    <3>1. AppChannel(p) /\ RelayChannel(p) /\ handler'[s] = handler[s] /\ app' = app
      BY <1>1, <1>2, <1>5, Parts
    <3>2. AppChannel(p)'
      BY <1>5, <3>1 DEF GaveUp, AppChannel, Senders
    <3>3. RelayChannel(p)'
      BY <1>1, <1>5, <3>1 DEF GaveUp, RelayChannel, Senders
    <3> QED
      BY <3>2, <3>3
  <2>3. ExchangeChannel(p)'
    BY <1>1, <1>4, <1>5 DEF GaveUp, ExchangeChannel
  <2> QED
    BY <1>1, <2>1, <2>2, <2>3 DEF Channels
<1>9. Answers'
  <2>1. ASSUME NEW t \in Service
        PROVE  /\ SameAnswer(t) /\ (worker'[t].step = "delivered" => worker'[t] = worker[t])
               /\ app'[t] = app[t] /\ handler'[t].request.from \in {handler[t].request.from, "nobody"}
    <3>1. CASE t = s
      BY <1>1, <1>2, <1>4, <1>5, <3>1 DEF GaveUp, SameAnswer
    <3>2. CASE t = p
      BY <1>1, <1>2, <1>4, <1>5, <3>2 DEF GaveUp, SameAnswer
    <3> QED
      BY <1>1, <3>1, <3>2
  <2> QED
    BY <1>3, <2>1, AnswersOutlast
<1> QED
  BY <1>3, <1>6, <1>7, <1>8, <1>9 DEF BridgeInv

\* The application gives an answer up.
LEMMA AppTimeoutKeeps ==
    ASSUME BridgeInv, NEW s \in Service, AppTimesOut(s)
    PROVE  BridgeInv'
<1> DEFINE p == Peer(s)
<1>1. /\ p = Peer(s) /\ p \in Service /\ p # s /\ Peer(p) = s /\ \A t \in Service : t = s \/ t = p
      /\ BridgeTypes /\ Serving /\ "app" \in Senders /\ handler \in [Service -> Handling]
  BY Parts DEF Senders, BridgeTypes
<1>2. /\ app' = [app EXCEPT ![s] = Free] /\ Close(handler, s, "app")
      /\ UNCHANGED <<journal, worker>>
  BY DEF AppTimesOut
<1> HIDE DEF p
<1>3. Journals' /\ KeysCovered' /\ Rise
  BY <1>2, Parts, JournalsAlone
<1>4. app' \in [Service -> Asking] /\ app'[p] = app[p] /\ app'[s].step = "idle"
  <2>1. Free \in Asking /\ Free.step = "idle"
    BY DEF Free, Asking, NoRows, Rows
  <2> QED
    BY <1>1, <1>2, <2>1 DEF BridgeTypes
<1>5. /\ backlog' \in [Service -> Seq(Request)] /\ handler' \in [Service -> Handling]
      /\ \A t \in Service : Len(backlog'[t]) <= Backlog
      /\ backlog'[p] = backlog[p] /\ handler'[p] = handler[p]
      /\ GaveUp(s, "app")
  BY <1>1, <1>2, ClosingKeeps
<1>6. BridgeTypes'
  BY <1>1, <1>2, <1>3, <1>4, <1>5 DEF BridgeTypes
<1>7. Serving'
  <2>1. /\ handler'[s].step = handler[s].step
        /\ handler[s].request = NoRequest => handler'[s].request = NoRequest
        /\ handler'[s].request.relay <=> handler[s].request.relay
    BY <1>5 DEF GaveUp
  <2>2. /\ handler'[s].step = "idle" => handler'[s].request = NoRequest
        /\ handler'[s].step \in {"relaying", "file"} => handler'[s].request.relay
    BY <1>1, <2>1 DEF Serving
  <2>3. /\ handler'[p].step = "idle" => handler'[p].request = NoRequest
        /\ handler'[p].step \in {"relaying", "file"} => handler'[p].request.relay
    BY <1>1, <1>5 DEF Serving
  <2>4. \A t \in Service : worker'[t].step # "idle" => worker'[t].event # NoRow
    BY <1>1, <1>2 DEF Serving
  <2> SUFFICES ASSUME NEW t \in Service
               PROVE  /\ handler'[t].step = "idle" => handler'[t].request = NoRequest
                      /\ handler'[t].step \in {"relaying", "file"} => handler'[t].request.relay
    BY <2>4 DEF Serving
  <2>5. CASE t = s
    BY <2>2, <2>5
  <2>6. CASE t = p
    BY <2>3, <2>6
  <2> QED
    BY <1>1, <2>5, <2>6
<1>8. Channels'
  <2>1. AppChannel(p)' /\ ExchangeChannel(p)' /\ RelayChannel(p)'
    BY <1>1, <1>2, <1>4, <1>5, Parts DEF GaveUp, AppChannel, ExchangeChannel, RelayChannel
  <2>2. ExchangeChannel(s)' /\ RelayChannel(s)'
    BY <1>1, <1>2, <1>5, Parts DEF GaveUp, ExchangeChannel, RelayChannel, Senders
  <2>3. AppChannel(s)'
    BY <1>1, <1>4, <1>5 DEF GaveUp, AppChannel
  <2> QED
    BY <1>1, <2>1, <2>2, <2>3 DEF Channels
<1>9. Answers'
  <2>1. ASSUME NEW t \in Service
        PROVE  /\ SameAnswer(t) /\ worker'[t] = worker[t]
               /\ app'[t].step = "waiting" => app'[t] = app[t]
               /\ handler'[t].request.from \in {handler[t].request.from, "nobody"}
               /\ handler'[t].request.from = "app" => app'[t] = app[t]
    <3>1. CASE t = s
      BY <1>1, <1>2, <1>4, <1>5, <3>1 DEF GaveUp, SameAnswer
    <3>2. CASE t = p
      BY <1>1, <1>2, <1>4, <1>5, <3>2 DEF GaveUp, SameAnswer
    <3> QED
      BY <1>1, <3>1, <3>2
  <2> QED
    BY <1>3, <2>1, AnswersOutlast
<1> QED
  BY <1>3, <1>6, <1>7, <1>8, <1>9 DEF BridgeInv

\* The handler gives up the request it has passed on (binding_api.py:105-121).
LEMMA RelayTimeoutKeeps ==
    ASSUME BridgeInv, NEW s \in Service, RelayTimesOut(s)
    PROVE  BridgeInv'
<1> DEFINE p == Peer(s)
           hs == [handler EXCEPT ![s].step = "file"]
<1>1. /\ p = Peer(s) /\ p \in Service /\ p # s /\ Peer(p) = s /\ \A t \in Service : t = s \/ t = p
      /\ BridgeTypes /\ Serving /\ "bridge" \in Senders
  BY Parts DEF Senders
<1>2. /\ Close(hs, p, "bridge") /\ handler[s].step = "relaying"
      /\ UNCHANGED <<journal, worker, app>>
  BY DEF RelayTimesOut
<1>3. /\ hs \in [Service -> Handling] /\ hs[p] = handler[p]
      /\ hs[s].step = "file" /\ hs[s].request = handler[s].request
  BY <1>1 DEF BridgeTypes, Handling
<1> HIDE DEF p, hs
<1>4. Journals' /\ KeysCovered' /\ Rise
  BY <1>2, Parts, JournalsAlone
<1>5. /\ backlog' \in [Service -> Seq(Request)] /\ handler' \in [Service -> Handling]
      /\ \A t \in Service : Len(backlog'[t]) <= Backlog
      /\ backlog'[s] = backlog[s] /\ handler'[s] = hs[s]
      /\ GaveUp(p, "bridge")
  BY <1>1, <1>2, <1>3, ClosingKeeps
<1>6. BridgeTypes'
  BY <1>1, <1>2, <1>4, <1>5 DEF BridgeTypes
<1>7. Serving'
  <2>1. /\ handler'[s].step = "file" /\ handler'[s].request = handler[s].request
        /\ handler[s].request.relay
    BY <1>1, <1>2, <1>3, <1>5 DEF Serving
  <2>2. /\ handler'[p].step = handler[p].step
        /\ handler[p].request = NoRequest => handler'[p].request = NoRequest
        /\ handler'[p].request.relay <=> handler[p].request.relay
    BY <1>3, <1>5 DEF GaveUp
  <2>3. /\ handler'[p].step = "idle" => handler'[p].request = NoRequest
        /\ handler'[p].step \in {"relaying", "file"} => handler'[p].request.relay
    BY <1>1, <2>2 DEF Serving
  <2>4. \A t \in Service : worker'[t].step # "idle" => worker'[t].event # NoRow
    BY <1>1, <1>2 DEF Serving
  <2> SUFFICES ASSUME NEW t \in Service
               PROVE  /\ handler'[t].step = "idle" => handler'[t].request = NoRequest
                      /\ handler'[t].step \in {"relaying", "file"} => handler'[t].request.relay
    BY <2>4 DEF Serving
  <2>5. CASE t = s
    BY <2>1, <2>5
  <2>6. CASE t = p
    BY <2>3, <2>6
  <2> QED
    BY <1>1, <2>5, <2>6
<1>8. Channels'
  <2>1. AppChannel(s)' /\ ExchangeChannel(s)' /\ RelayChannel(s)'
    BY <1>1, <1>2, <1>3, <1>5, Parts DEF GaveUp, AppChannel, ExchangeChannel, RelayChannel
  <2>2. AppChannel(p)' /\ ExchangeChannel(p)'
    BY <1>1, <1>2, <1>5, Parts DEF GaveUp, AppChannel, ExchangeChannel, Senders
  <2>3. RelayChannel(p)'
    BY <1>1, <1>3, <1>5 DEF GaveUp, RelayChannel
  <2> QED
    BY <1>1, <2>1, <2>2, <2>3 DEF Channels
<1>9. Answers'
  <2>1. ASSUME NEW t \in Service
        PROVE  /\ SameAnswer(t) /\ worker'[t] = worker[t] /\ app'[t] = app[t]
               /\ handler'[t].request.from \in {handler[t].request.from, "nobody"}
    <3>1. CASE t = s
      BY <1>1, <1>2, <1>3, <1>5, <3>1 DEF GaveUp, SameAnswer
    <3>2. CASE t = p
      BY <1>1, <1>2, <1>5, <3>2 DEF GaveUp, SameAnswer
    <3> QED
      BY <1>1, <3>1, <3>2
  <2> QED
    BY <1>4, <2>1, AnswersOutlast
<1> QED
  BY <1>4, <1>6, <1>7, <1>8, <1>9 DEF BridgeInv

\* The event is written to the peer's file (binding_api.py:84-89, bindings.py:99-113).
LEMMA FileDeliveryKeeps ==
    ASSUME BridgeInv, NEW s \in Service, FileDeliver(s)
    PROVE  BridgeInv'
<1> DEFINE p == Peer(s)
           e == worker[s].event
<1>1. /\ p = Peer(s) /\ p \in Service /\ p # s /\ Peer(p) = s /\ \A t \in Service : t = s \/ t = p
      /\ BridgeTypes /\ Journals /\ KeysCovered /\ Serving
  BY Parts
<1>2. /\ worker' = [worker EXCEPT ![s].step = "delivered"] /\ Receive(p, e)
      /\ UNCHANGED <<app, handler, backlog>> /\ worker[s].step = "file"
  BY DEF FileDeliver
<1>3. e \in Event /\ e = worker[s].event
  BY <1>1, <1>2 DEF BridgeTypes, Working, Serving
<1> HIDE DEF p, e
<1>4. Journals' /\ KeysCovered' /\ Rise /\ Covers(preferred'[p][e.account], e)
  BY <1>1, <1>2, <1>3, ReceiveCovers
<1>5. /\ worker' \in [Service -> Working] /\ worker'[p] = worker[p]
      /\ worker'[s].step = "delivered" /\ worker'[s].event = e
  BY <1>1, <1>2, <1>3 DEF BridgeTypes, Working
<1>6. BridgeTypes'
  BY <1>1, <1>2, <1>4, <1>5 DEF BridgeTypes
<1>7. Serving'
  BY <1>1, <1>2, <1>3, <1>5 DEF Serving
<1>8. Channels'
  <2>1. AppChannel(s)' /\ ExchangeChannel(s)' /\ RelayChannel(s)'
    BY <1>1, <1>2, <1>5, Parts DEF AppChannel, ExchangeChannel, RelayChannel
  <2>2. AppChannel(p)' /\ ExchangeChannel(p)' /\ RelayChannel(p)'
    BY <1>1, <1>2, <1>5, Parts DEF AppChannel, ExchangeChannel, RelayChannel
  <2> QED
    BY <1>1, <2>1, <2>2 DEF Channels
<1>9. Answers'
  <2> SUFFICES ASSUME NEW t \in Service
               PROVE  /\ PostHolds(t)' /\ ViewHolds(t)' /\ DeliveryHolds(t)'
                      /\ FloorHolds(t)' /\ ViewIsFresh(t)' /\ PassedIsFresh(t)'
    BY DEF Answers
  <2>1. PostHolds(t)' /\ ViewHolds(t)' /\ FloorHolds(t)'
    <3>1. SameAnswer(t) /\ app'[t] = app[t]
      BY <1>2 DEF SameAnswer
    <3> QED
      BY <1>4, <3>1, Parts, AnswerOutlasts, FloorOutlasts
  <2>2. DeliveryHolds(t)'
    <3>1. CASE t = s
      BY <1>1, <1>4, <1>5, <3>1 DEF DeliveryHolds
    <3>2. CASE t = p
      BY <1>1, <1>4, <1>5, <3>2, Parts, DeliveryOutlasts
    <3> QED
      BY <1>1, <3>1, <3>2
  <2>3. ViewIsFresh(t)' /\ PassedIsFresh(t)'
    BY <1>2, Parts DEF ViewIsFresh, PassedIsFresh, Replies
  <2> QED
    BY <2>1, <2>2, <2>3
<1> QED
  BY <1>4, <1>6, <1>7, <1>8, <1>9 DEF BridgeInv

\* The event is acknowledged (bindings.py:153-155).
LEMMA ConfirmKeeps ==
    ASSUME BridgeInv, NEW s \in Service, Confirm(s)
    PROVE  BridgeInv'
<1> DEFINE p == Peer(s)
<1>1. /\ p = Peer(s) /\ p \in Service /\ p # s /\ Peer(p) = s /\ \A t \in Service : t = s \/ t = p
      /\ BridgeTypes /\ Journals /\ KeysCovered /\ Serving
  BY Parts
<1>2. /\ worker' = [worker EXCEPT ![s] = Resting] /\ Acknowledge(s, worker[s].event)
      /\ UNCHANGED <<app, handler, backlog>> /\ worker[s].step = "delivered"
  BY DEF Confirm
<1> HIDE DEF p
<1>3. Journals' /\ UNCHANGED <<preferred, seen>>
  BY <1>1, <1>2, AcknowledgeEffect
<1>4. KeysCovered' /\ Rise
  BY <1>1, <1>3 DEF KeysCovered, Rise
<1>5. /\ worker' \in [Service -> Working] /\ worker'[p] = worker[p] /\ worker'[s].step = "idle"
  BY <1>1, <1>2 DEF BridgeTypes, Working, Resting
<1>6. BridgeTypes'
  BY <1>1, <1>2, <1>3, <1>5 DEF BridgeTypes
<1>7. Serving'
  BY <1>1, <1>2, <1>5 DEF Serving
<1>8. Channels'
  <2>1. AppChannel(s)' /\ ExchangeChannel(s)' /\ RelayChannel(s)'
    BY <1>1, <1>2, <1>5, Parts DEF AppChannel, ExchangeChannel, RelayChannel
  <2>2. AppChannel(p)' /\ ExchangeChannel(p)' /\ RelayChannel(p)'
    BY <1>1, <1>2, <1>5, Parts DEF AppChannel, ExchangeChannel, RelayChannel
  <2> QED
    BY <1>1, <2>1, <2>2 DEF Channels
<1>9. Answers'
  <2>1. ASSUME NEW t \in Service
        PROVE  /\ SameAnswer(t) /\ (worker'[t].step = "delivered" => worker'[t] = worker[t])
               /\ app'[t] = app[t]
    BY <1>1, <1>2, <1>5 DEF SameAnswer
  <2> QED
    BY <1>2, <1>4, <2>1, AnswersOutlast
<1> QED
  BY <1>4, <1>6, <1>7, <1>8, <1>9 DEF BridgeInv

\* The application asks its own bridge for the peer's binding (binding_api.py:52-56).
LEMMA AskingKeeps ==
    ASSUME BridgeInv, NEW s \in Service, AppAsks(s)
    PROVE  BridgeInv'
<1> DEFINE p == Peer(s)
<1>1. /\ p = Peer(s) /\ p \in Service /\ p # s /\ Peer(p) = s /\ \A t \in Service : t = s \/ t = p
      /\ BridgeTypes /\ Journals /\ Serving
      /\ backlog[s] \in Seq(Request) /\ Len(backlog[s]) \in Nat
  BY Parts
<1>2. PICK e \in Queued(s) \cup {NoRow} :
        /\ app' = [app EXCEPT ![s] =
             [step |-> "waiting", event |-> e,
              floor |-> IF e = NoRow THEN preferred[p] ELSE NoRows]]
        /\ backlog' = [backlog EXCEPT ![s] =
             Append(@, [from |-> "app", relay |-> TRUE, event |-> e])]
  BY DEF AppAsks
<1>3. /\ app[s].step = "idle" /\ Len(backlog[s]) < Backlog /\ UNCHANGED <<journal, worker, handler>>
  BY DEF AppAsks
<1>4. e \in Event \cup {NoRow}
  BY <1>1, QueuedAreEvents
<1>5. Journals' /\ KeysCovered' /\ Rise
  BY <1>3, Parts, JournalsAlone
<1> DEFINE q == [from |-> "app", relay |-> TRUE, event |-> e]
           floor == IF e = NoRow THEN preferred[p] ELSE NoRows
           asked == [step |-> "waiting", event |-> e, floor |-> floor]
<1>6. q \in Request /\ q.from = "app" /\ q.relay = TRUE /\ q.event = e
  BY <1>4 DEF Request
<1>7. floor \in Rows /\ Above(preferred[p], floor)
  <2>1. preferred[p] \in Rows /\ NoRows \in Rows
    BY <1>1 DEF Journals, Rows, NoRows
  <2>2. Above(preferred[p], preferred[p])
    BY <2>1, AboveItself
  <2>3. Above(preferred[p], NoRows)
    BY DEF Above, NoRows
  <2> QED
    BY <2>1, <2>2, <2>3
<1> HIDE DEF floor
<1>8. asked \in Asking /\ asked.step = "waiting" /\ asked.event = e /\ asked.floor = floor
  BY <1>4, <1>7 DEF Asking
<1>9. app' = [app EXCEPT ![s] = asked] /\ backlog' = [backlog EXCEPT ![s] = Append(backlog[s], q)]
  BY <1>2 DEF floor
<1> HIDE DEF p, q, asked
<1>10. Append(backlog[s], q) \in Seq(Request) /\ Len(Append(backlog[s], q)) = Len(backlog[s]) + 1
  BY <1>1, <1>6, Sending
<1>11. /\ app' \in [Service -> Asking] /\ app'[p] = app[p] /\ app'[s] = asked
       /\ backlog' \in [Service -> Seq(Request)] /\ backlog'[p] = backlog[p]
       /\ backlog'[s] = Append(backlog[s], q) /\ Len(backlog'[s]) <= Backlog
  BY <1>1, <1>3, <1>8, <1>9, <1>10, BridgeAssumption DEF BridgeTypes
<1>12. BridgeTypes'
  BY <1>1, <1>3, <1>5, <1>11 DEF BridgeTypes
<1>13. Serving'
  BY <1>1, <1>3 DEF Serving
<1>14. Channels'
  <2>1. AppChannel(p)' /\ ExchangeChannel(p)' /\ RelayChannel(p)'
    BY <1>1, <1>3, <1>11, Parts DEF AppChannel, ExchangeChannel, RelayChannel
  <2> DEFINE h == handler[s].request
             z == backlog[s]
  <2>2. handler'[s].request = h /\ backlog'[s] = Append(z, q) /\ z \in Seq(Request)
    BY <1>1, <1>3, <1>11
  <2>3. AppChannel(s) /\ ExchangeChannel(s) /\ RelayChannel(s)
    BY Parts
  <2> HIDE DEF h, z
  <2>4. /\ \A who : who # "app" =>
             /\ Silent(h, z, who) => Silent(h, Append(z, q), who)
             /\ \A f : Asks(h, z, who, f) => Asks(h, Append(z, q), who, f)
        /\ Silent(h, z, "app") => Asks(h, Append(z, q), "app", e)
    BY <1>6, <2>2, Sending
  <2>5. AppChannel(s)'
    BY <1>3, <1>8, <1>11, <2>2, <2>3, <2>4 DEF AppChannel, h, z
  <2>6. ExchangeChannel(s)'
    BY <1>3, <2>2, <2>3, <2>4 DEF ExchangeChannel, h, z
  <2>7. RelayChannel(s)'
    BY <1>3, <2>2, <2>3, <2>4 DEF RelayChannel, h, z
  <2> QED
    BY <1>1, <2>1, <2>5, <2>6, <2>7 DEF Channels
<1>15. Answers'
  <2>1. handler[s].request.from # "app"
    BY <1>3, Parts DEF AppChannel, Silent
  <2> SUFFICES ASSUME NEW t \in Service
               PROVE  /\ PostHolds(t)' /\ ViewHolds(t)' /\ DeliveryHolds(t)'
                      /\ FloorHolds(t)' /\ ViewIsFresh(t)' /\ PassedIsFresh(t)'
    BY DEF Answers
  <2>2. PostHolds(t)' /\ ViewHolds(t)' /\ DeliveryHolds(t)'
    <3>1. SameAnswer(t) /\ worker'[t] = worker[t]
      BY <1>3 DEF SameAnswer
    <3> QED
      BY <1>5, <3>1, Parts, AnswerOutlasts, DeliveryOutlasts
  <2>3. FloorHolds(t)'
    <3>1. CASE t = s
      BY <1>1, <1>3, <1>7, <1>8, <1>11, <3>1 DEF FloorHolds, journal
    <3>2. CASE t = p
      BY <1>1, <1>5, <1>11, <3>2, Parts, FloorOutlasts
    <3> QED
      BY <1>1, <3>1, <3>2
  <2>4. ViewIsFresh(t)' /\ PassedIsFresh(t)'
    <3>1. /\ handler'[t] = handler[t] /\ handler'[Peer(t)] = handler[Peer(t)]
          /\ ViewIsFresh(t) /\ PassedIsFresh(t)
          /\ handler[t].request.from = "app" => app'[t] = app[t]
          /\ handler[Peer(t)].request.from = "app" => app'[Peer(t)] = app[Peer(t)]
      BY <1>1, <1>3, <1>11, <2>1, Parts
    <3> QED
      BY <3>1 DEF ViewIsFresh, PassedIsFresh, Replies
  <2> QED
    BY <2>2, <2>3, <2>4
<1> QED
  BY <1>5, <1>12, <1>13, <1>14, <1>15 DEF BridgeInv

\* What the channels are when the handler has taken a request.
Taken(s) ==
    /\ Head(backlog[s]) \in Request
    /\ Tail(backlog[s]) \in Seq(Request) /\ Len(Tail(backlog[s])) <= Backlog
    /\ IF app[s].step = "waiting" THEN Asks(Head(backlog[s]), Tail(backlog[s]), "app", app[s].event)
       ELSE Silent(Head(backlog[s]), Tail(backlog[s]), "app")
    /\ IF worker[Peer(s)].step = "waiting"
       THEN Asks(Head(backlog[s]), Tail(backlog[s]), "exchange", worker[Peer(s)].event)
       ELSE Silent(Head(backlog[s]), Tail(backlog[s]), "exchange")
    /\ IF handler[Peer(s)].step = "relaying"
       THEN Asks(Head(backlog[s]), Tail(backlog[s]), "bridge", handler[Peer(s)].request.event)
       ELSE Silent(Head(backlog[s]), Tail(backlog[s]), "bridge")

\* The request a free handler takes.
LEMMA Accepting ==
    ASSUME BridgeInv, NEW s \in Service, Accepts(s)
    PROVE  /\ Taken(s) /\ handler[s].step = "idle"
           /\ handler[Peer(s)].request.from # "bridge"
           /\ handler[Peer(s)].request.from = "app" => app[Peer(s)].step = "waiting"
           /\ Head(backlog[s]).from = "app" => Head(backlog[s]).relay
           /\ Silent(handler[Peer(s)].request, backlog[Peer(s)], "bridge")
<1>1. /\ handler[s].step = "idle" /\ backlog[s] # <<>> /\ backlog[s] \in Seq(Request)
      /\ Len(backlog[s]) <= Backlog /\ Len(backlog[s]) \in Nat /\ Peer(s) \in Service /\ Peer(Peer(s)) = s
  BY Parts DEF Accepts
<1>2. handler[s].request.from = "nobody"
  BY <1>1, Parts DEF Serving, NoRequest
<1> DEFINE h == handler[s].request
           z == backlog[s]
<1>3. AppChannel(s) /\ ExchangeChannel(s) /\ RelayChannel(s)
  BY Parts
<1>4. /\ Head(z) \in Request /\ Tail(z) \in Seq(Request) /\ Len(Tail(z)) <= Len(z)
      /\ \A who \in Senders :
           /\ Silent(h, z, who) => Silent(Head(z), Tail(z), who)
           /\ \A e : Asks(h, z, who, e) => Asks(Head(z), Tail(z), who, e)
  <2> HIDE DEF h, z
  <2>1. h.from = "nobody" /\ z \in Seq(Request) /\ z # <<>>
    BY <1>1, <1>2 DEF h, z
  <2> QED
    BY <2>1, Taking
<1>5. Len(Tail(z)) \in Nat
  BY <1>4, LenProperties
<1>6. Taken(s)
  <2>1. Len(Tail(z)) <= Backlog
    BY <1>1, <1>4, <1>5, BridgeAssumption
  <2> HIDE DEF h, z
  <2>2. IF app[s].step = "waiting" THEN Asks(Head(z), Tail(z), "app", app[s].event)
        ELSE Silent(Head(z), Tail(z), "app")
    BY <1>3, <1>4 DEF AppChannel, Senders, h, z
  <2>3. IF worker[Peer(s)].step = "waiting"
        THEN Asks(Head(z), Tail(z), "exchange", worker[Peer(s)].event)
        ELSE Silent(Head(z), Tail(z), "exchange")
    BY <1>3, <1>4 DEF ExchangeChannel, Senders, h, z
  <2>4. IF handler[Peer(s)].step = "relaying"
        THEN Asks(Head(z), Tail(z), "bridge", handler[Peer(s)].request.event)
        ELSE Silent(Head(z), Tail(z), "bridge")
    BY <1>3, <1>4 DEF RelayChannel, Senders, h, z
  <2> QED
    BY <1>4, <2>1, <2>2, <2>3, <2>4 DEF Taken, z
<1>7. AppChannel(Peer(s)) /\ RelayChannel(Peer(s))
  BY <1>1, Parts
<1>8. Silent(handler[Peer(s)].request, backlog[Peer(s)], "bridge")
  BY <1>1, <1>7 DEF RelayChannel
<1>9. handler[Peer(s)].request.from = "app" => app[Peer(s)].step = "waiting"
  BY <1>7 DEF AppChannel, Silent
<1>10. Head(z).from = "app" => Head(z).relay
  BY <1>6 DEF Taken, Asks, Silent, z
<1> QED
  BY <1>1, <1>6, <1>8, <1>9, <1>10 DEF Silent, z

\* The handler serves a request for its own journal (binding_api.py:175-180, 201-208).
LEMMA ServingKeeps ==
    ASSUME BridgeInv, NEW s \in Service, ServeOwn(s)
    PROVE  BridgeInv'
<1> DEFINE p == Peer(s)
           q == Head(backlog[s])
           answer == Reading(s, q.event)
           new == [step |-> "replying", request |-> q, answer |-> answer]
<1>1. /\ p = Peer(s) /\ p \in Service /\ p # s /\ Peer(p) = s /\ \A t \in Service : t = s \/ t = p
      /\ BridgeTypes /\ Journals /\ KeysCovered /\ Serving /\ Taken(s) /\ handler[s].step = "idle"
      /\ handler[p].request.from # "bridge"
      /\ handler[p].request.from = "app" => app[p].step = "waiting"
      /\ q.from = "app" => q.relay
  BY Parts, Accepting DEF ServeOwn
<1>2. /\ ~q.relay /\ Access(s, q.event)
      /\ handler' = [handler EXCEPT ![s] = new]
      /\ backlog' = [backlog EXCEPT ![s] = Tail(@)]
      /\ UNCHANGED <<worker, app>>
  BY DEF ServeOwn
<1>3. q \in Request /\ q.event \in Event \cup {NoRow}
  BY <1>1 DEF Taken, Request
<1>4. answer \in Answer /\ answer.ok = TRUE
      /\ answer.rows = IF q.event = NoRow THEN preferred[s] ELSE NoRows
  <2>1. preferred[s] \in Rows /\ NoRows \in Rows
    BY <1>1 DEF Journals, Rows, NoRows
  <2> QED
    BY <2>1 DEF Reading, Answer
<1> HIDE DEF answer
<1>5. new \in Handling /\ new.step = "replying" /\ new.request = q /\ new.answer = answer
  BY <1>3, <1>4 DEF Handling
<1>6. /\ Journals' /\ KeysCovered' /\ Rise
      /\ q.event # NoRow => Covers(preferred'[s][q.event.account], q.event)
      /\ q.event = NoRow => preferred' = preferred
  BY <1>1, <1>2, <1>3, AccessEffect DEF journal
<1> HIDE DEF p, new
<1>7. /\ handler' \in [Service -> Handling] /\ handler'[p] = handler[p]
      /\ handler'[s].step = "replying" /\ handler'[s].request = q /\ handler'[s].answer = answer
      /\ backlog' \in [Service -> Seq(Request)] /\ backlog'[p] = backlog[p]
      /\ backlog'[s] = Tail(backlog[s])
  BY <1>1, <1>2, <1>5 DEF BridgeTypes, Taken
<1>8. BridgeTypes'
  BY <1>1, <1>2, <1>6, <1>7 DEF BridgeTypes, Taken
<1>9. Serving'
  BY <1>1, <1>2, <1>7 DEF Serving
<1>10. Channels'
  <2>1. AppChannel(s)' /\ ExchangeChannel(s)' /\ RelayChannel(s)'
    BY <1>1, <1>2, <1>7 DEF Taken, AppChannel, ExchangeChannel, RelayChannel
  <2>2. AppChannel(p)' /\ ExchangeChannel(p)' /\ RelayChannel(p)'
    BY <1>1, <1>2, <1>7, Parts DEF AppChannel, ExchangeChannel, RelayChannel
  <2> QED
    BY <1>1, <2>1, <2>2 DEF Channels
<1>11. ASSUME NEW t \in Service PROVE DeliveryHolds(t)' /\ FloorHolds(t)'
  BY <1>2, <1>6, Parts, DeliveryOutlasts, FloorOutlasts
<1>12. PostHolds(p)' /\ ViewHolds(p)' /\ ViewIsFresh(p)' /\ PassedIsFresh(p)'
  <2>1. PostHolds(p)' /\ ViewHolds(p)'
    <3>1. SameAnswer(p)
      BY <1>7 DEF SameAnswer
    <3> QED
      BY <1>1, <1>6, <3>1, Parts, AnswerOutlasts
  <2>2. ViewIsFresh(p)'
    BY <1>1, <1>2, <1>7, Parts DEF ViewIsFresh, Replies
  <2>3. PassedIsFresh(p)'
    BY <1>1, <1>7 DEF PassedIsFresh
  <2> QED
    BY <2>1, <2>2, <2>3
<1>13. PostHolds(s)' /\ ViewHolds(s)' /\ ViewIsFresh(s)' /\ PassedIsFresh(s)'
  <2>1. Owner(s)' = s
    BY <1>2, <1>7 DEF Owner
  <2>2. PostHolds(s)'
    BY <1>6, <1>7, <2>1 DEF PostHolds
  <2>3. ViewHolds(s)'
    <3>1. preferred[s] \in Rows
      BY <1>1 DEF Journals, Rows
    <3> QED
      BY <1>4, <1>6, <1>7, <2>1, <3>1, AboveItself DEF ViewHolds
  <2>4. ViewIsFresh(s)'
    BY <1>1, <1>2, <1>7 DEF ViewIsFresh
  <2>5. PassedIsFresh(s)'
    <3> SUFFICES ASSUME q.event = NoRow, handler[p].request.from = "app"
                 PROVE  Above(answer.rows, app[p].floor)
      BY <1>1, <1>2, <1>7 DEF PassedIsFresh, p
    <3>1. FloorHolds(p) /\ app[p].step = "waiting"
      BY <1>1, Parts
    <3> QED
      BY <1>1, <1>4, <3>1 DEF FloorHolds
  <2> QED
    BY <2>2, <2>3, <2>4, <2>5
<1>14. Answers'
  BY <1>1, <1>11, <1>12, <1>13 DEF Answers
<1> QED
  BY <1>6, <1>8, <1>9, <1>10, <1>14 DEF BridgeInv

\* The handler refuses a request (binding_api.py:153-169, 183-195).
LEMMA RefusalKeeps ==
    ASSUME BridgeInv, NEW s \in Service, Refuse(s)
    PROVE  BridgeInv'
<1> DEFINE p == Peer(s)
           q == Head(backlog[s])
           new == [step |-> "replying", request |-> q, answer |-> Refusal]
<1>1. /\ p = Peer(s) /\ p \in Service /\ p # s /\ Peer(p) = s /\ \A t \in Service : t = s \/ t = p
      /\ BridgeTypes /\ Serving /\ Taken(s) /\ handler[s].step = "idle"
      /\ handler[p].request.from # "bridge"
  BY Parts, Accepting DEF Refuse
<1>2. /\ handler' = [handler EXCEPT ![s] = new]
      /\ backlog' = [backlog EXCEPT ![s] = Tail(@)]
      /\ UNCHANGED <<journal, worker, app>>
  BY DEF Refuse
<1>3. new \in Handling /\ new.step = "replying" /\ new.request = q /\ new.answer.ok = FALSE
  <2>1. Refusal \in Answer /\ Refusal.ok = FALSE
    BY DEF Refusal, Answer, Rows, NoRows
  <2> QED
    BY <1>1, <2>1 DEF Handling, Taken
<1>4. Journals' /\ KeysCovered' /\ Rise
  BY <1>2, Parts, JournalsAlone
<1> HIDE DEF p, new
<1>5. /\ handler' \in [Service -> Handling] /\ handler'[p] = handler[p]
      /\ handler'[s].step = "replying" /\ handler'[s].request = q /\ ~Replies(s)'
      /\ backlog' \in [Service -> Seq(Request)] /\ backlog'[p] = backlog[p]
      /\ backlog'[s] = Tail(backlog[s])
  BY <1>1, <1>2, <1>3 DEF BridgeTypes, Taken, Replies
<1>6. BridgeTypes'
  BY <1>1, <1>2, <1>4, <1>5 DEF BridgeTypes, Taken
<1>7. Serving'
  BY <1>1, <1>2, <1>5 DEF Serving
<1>8. Channels'
  <2>1. AppChannel(s)' /\ ExchangeChannel(s)' /\ RelayChannel(s)'
    BY <1>1, <1>2, <1>5 DEF Taken, AppChannel, ExchangeChannel, RelayChannel
  <2>2. AppChannel(p)' /\ ExchangeChannel(p)' /\ RelayChannel(p)'
    BY <1>1, <1>2, <1>5, Parts DEF AppChannel, ExchangeChannel, RelayChannel
  <2> QED
    BY <1>1, <2>1, <2>2 DEF Channels
<1>9. Answers'
  <2>1. ASSUME NEW t \in Service PROVE DeliveryHolds(t)' /\ FloorHolds(t)'
    BY <1>2, <1>4, Parts, DeliveryOutlasts, FloorOutlasts
  <2>2. PostHolds(s)' /\ ViewHolds(s)' /\ ViewIsFresh(s)' /\ PassedIsFresh(s)'
    BY <1>5 DEF PostHolds, ViewHolds, ViewIsFresh, PassedIsFresh
  <2>3. PostHolds(p)' /\ ViewHolds(p)'
    <3>1. SameAnswer(p)
      BY <1>5 DEF SameAnswer
    <3> QED
      BY <1>1, <1>4, <3>1, Parts, AnswerOutlasts
  <2>4. ViewIsFresh(p)' /\ PassedIsFresh(p)'
    BY <1>1, <1>2, <1>5, Parts DEF ViewIsFresh, PassedIsFresh, Replies
  <2> QED
    BY <1>1, <2>1, <2>2, <2>3, <2>4 DEF Answers
<1> QED
  BY <1>4, <1>6, <1>7, <1>8, <1>9 DEF BridgeInv

\* The handler passes a request on, or turns to the file (binding_api.py:170-177, 196-199).
LEMMA RelayKeeps ==
    ASSUME BridgeInv, NEW s \in Service, Relay(s)
    PROVE  BridgeInv'
<1> DEFINE p == Peer(s)
           q == Head(backlog[s])
           sent == [from |-> "bridge", relay |-> FALSE, event |-> q.event]
           Passing(step) == [step |-> step, request |-> q, answer |-> Refusal]
           rest == [backlog EXCEPT ![s] = Tail(@)]
<1>1. /\ p = Peer(s) /\ p \in Service /\ p # s /\ Peer(p) = s /\ \A t \in Service : t = s \/ t = p
      /\ BridgeTypes /\ Serving /\ Taken(s) /\ handler[s].step = "idle"
      /\ handler[p].request.from # "bridge"
      /\ Silent(handler[p].request, backlog[p], "bridge")
      /\ backlog[p] \in Seq(Request) /\ Len(backlog[p]) \in Nat
  BY Parts, Accepting DEF Relay
<1>2. /\ q.relay /\ UNCHANGED <<journal, worker, app>>
      /\ \/ /\ Len(backlog[p]) < Backlog
            /\ handler' = [handler EXCEPT ![s] = Passing("relaying")]
            /\ backlog' = [rest EXCEPT ![p] = Append(@, sent)]
         \/ /\ handler' = [handler EXCEPT ![s] = Passing("file")]
            /\ backlog' = rest
  BY DEF Relay
<1>3. ASSUME NEW step \in {"relaying", "file"}
      PROVE  /\ Passing(step) \in Handling /\ Passing(step).step = step /\ Passing(step).request = q
  <2>1. Refusal \in Answer
    BY DEF Refusal, Answer, Rows, NoRows
  <2> QED
    BY <1>1, <2>1 DEF Handling, Taken
<1>4. sent \in Request /\ sent.from = "bridge" /\ sent.relay = FALSE /\ sent.event = q.event
  BY <1>1 DEF Taken, Request
<1>5. rest \in [Service -> Seq(Request)] /\ rest[s] = Tail(backlog[s]) /\ rest[p] = backlog[p]
  BY <1>1 DEF BridgeTypes, Taken
<1>6. Journals' /\ KeysCovered' /\ Rise
  BY <1>2, Parts, JournalsAlone
<1> HIDE DEF p, sent, rest, Passing
<1>7. Append(backlog[p], sent) \in Seq(Request) /\ Len(Append(backlog[p], sent)) = Len(backlog[p]) + 1
  BY <1>1, <1>4, Sending
<1>8. /\ handler' \in [Service -> Handling] /\ handler'[p] = handler[p]
      /\ handler'[s].step \in {"relaying", "file"} /\ handler'[s].request = q
      /\ backlog' \in [Service -> Seq(Request)] /\ backlog'[s] = Tail(backlog[s])
      /\ Len(backlog'[p]) <= Backlog
      /\ handler'[s].step = "relaying" => backlog'[p] = Append(backlog[p], sent)
      /\ handler'[s].step = "file" => backlog'[p] = backlog[p]
  <2>1. CASE /\ Len(backlog[p]) < Backlog
             /\ handler' = [handler EXCEPT ![s] = Passing("relaying")]
             /\ backlog' = [rest EXCEPT ![p] = Append(@, sent)]
    BY <1>1, <1>3, <1>5, <1>7, <2>1, BridgeAssumption DEF BridgeTypes
  <2>2. CASE /\ handler' = [handler EXCEPT ![s] = Passing("file")]
             /\ backlog' = rest
    BY <1>1, <1>3, <1>5, <2>2 DEF BridgeTypes
  <2> QED
    BY <1>2, <2>1, <2>2
<1>9. BridgeTypes'
  BY <1>1, <1>2, <1>6, <1>8 DEF BridgeTypes, Taken
<1>10. Serving'
  <2>1. /\ handler'[s].step # "idle" /\ handler'[s].request.relay
        /\ worker'[s].step # "idle" => worker'[s].event # NoRow
    BY <1>1, <1>2, <1>8 DEF Serving
  <2>2. /\ handler'[p].step = "idle" => handler'[p].request = NoRequest
        /\ handler'[p].step \in {"relaying", "file"} => handler'[p].request.relay
        /\ worker'[p].step # "idle" => worker'[p].event # NoRow
    BY <1>1, <1>2, <1>8 DEF Serving
  <2> SUFFICES ASSUME NEW t \in Service
               PROVE  /\ handler'[t].step = "idle" => handler'[t].request = NoRequest
                      /\ handler'[t].step \in {"relaying", "file"} => handler'[t].request.relay
                      /\ worker'[t].step # "idle" => worker'[t].event # NoRow
    BY DEF Serving
  <2>3. CASE t = s
    BY <2>1, <2>3
  <2>4. CASE t = p
    BY <2>2, <2>4
  <2> QED
    BY <1>1, <2>3, <2>4
<1>11. Channels'
  <2>1. AppChannel(s)' /\ ExchangeChannel(s)' /\ RelayChannel(s)'
    BY <1>1, <1>2, <1>8 DEF Taken, AppChannel, ExchangeChannel, RelayChannel
  <2>2. AppChannel(p) /\ ExchangeChannel(p)
    BY <1>1, Parts
  <2>3. CASE handler'[s].step = "relaying"
    <3> DEFINE h == handler[p].request
               z == backlog[p]
    <3>1. /\ handler'[p].request = h /\ backlog'[p] = Append(z, sent) /\ Silent(h, z, "bridge")
          /\ z \in Seq(Request)
      BY <1>1, <1>8, <2>3
    <3> HIDE DEF h, z
    <3>2. /\ \A who : who # "bridge" =>
               /\ Silent(h, z, who) => Silent(h, Append(z, sent), who)
               /\ \A e : Asks(h, z, who, e) => Asks(h, Append(z, sent), who, e)
          /\ Asks(h, Append(z, sent), "bridge", q.event)
      BY <1>4, <3>1, Sending
    <3>3. AppChannel(p)'
      BY <1>2, <2>2, <3>1, <3>2 DEF AppChannel, h, z
    <3>4. ExchangeChannel(p)'
      BY <1>1, <1>2, <2>2, <3>1, <3>2 DEF ExchangeChannel, h, z
    <3>5. RelayChannel(p)'
      BY <1>1, <1>8, <2>3, <3>1, <3>2 DEF RelayChannel
    <3> QED
      BY <1>1, <2>1, <3>3, <3>4, <3>5 DEF Channels
  <2>4. CASE handler'[s].step = "file"
    <3>1. AppChannel(p)' /\ ExchangeChannel(p)' /\ RelayChannel(p)'
      BY <1>1, <1>2, <1>8, <2>2, <2>4 DEF AppChannel, ExchangeChannel, RelayChannel
    <3> QED
      BY <1>1, <2>1, <3>1 DEF Channels
  <2> QED
    BY <1>8, <2>3, <2>4
<1>12. Answers'
  <2>1. ASSUME NEW t \in Service PROVE DeliveryHolds(t)' /\ FloorHolds(t)'
    BY <1>2, <1>6, Parts, DeliveryOutlasts, FloorOutlasts
  <2>2. PostHolds(s)' /\ ViewHolds(s)' /\ ViewIsFresh(s)' /\ PassedIsFresh(s)'
    BY <1>8 DEF PostHolds, ViewHolds, ViewIsFresh, PassedIsFresh, Replies
  <2>3. PostHolds(p)' /\ ViewHolds(p)'
    <3>1. SameAnswer(p)
      BY <1>8 DEF SameAnswer
    <3> QED
      BY <1>1, <1>6, <3>1, Parts, AnswerOutlasts
  <2>4. ViewIsFresh(p)' /\ PassedIsFresh(p)'
    BY <1>1, <1>2, <1>8, Parts DEF ViewIsFresh, PassedIsFresh, Replies
  <2> QED
    BY <1>1, <2>1, <2>2, <2>3, <2>4 DEF Answers
<1> QED
  BY <1>6, <1>9, <1>10, <1>11, <1>12 DEF BridgeInv

\* The handler uses the peer's file (binding_api.py:84-95, 105-121).
LEMMA RelayByFileKeeps ==
    ASSUME BridgeInv, NEW s \in Service, RelayByFile(s)
    PROVE  BridgeInv'
<1> DEFINE p == Peer(s)
           q == handler[s].request
           answer == Reading(p, q.event)
<1>1. /\ p = Peer(s) /\ p \in Service /\ p # s /\ Peer(p) = s /\ \A t \in Service : t = s \/ t = p
      /\ BridgeTypes /\ Journals /\ KeysCovered /\ Serving /\ handler[s] \in Handling
  BY Parts
<1>2. /\ handler[s].step = "file" /\ Access(p, q.event)
      /\ handler' = [handler EXCEPT ![s].step = "replying", ![s].answer = answer]
      /\ UNCHANGED <<worker, app, backlog>>
  BY DEF RelayByFile
<1>3. q.event \in Event \cup {NoRow} /\ q.relay
  BY <1>1, <1>2 DEF Handling, Request, Serving
<1>4. answer \in Answer /\ answer.rows = IF q.event = NoRow THEN preferred[p] ELSE NoRows
  <2>1. preferred[p] \in Rows /\ NoRows \in Rows
    BY <1>1 DEF Journals, Rows, NoRows
  <2> QED
    BY <2>1 DEF Reading, Answer
<1>5. /\ Journals' /\ KeysCovered' /\ Rise
      /\ q.event # NoRow => Covers(preferred'[p][q.event.account], q.event)
      /\ q.event = NoRow => preferred' = preferred
  BY <1>1, <1>2, <1>3, AccessEffect DEF journal
<1> HIDE DEF p, answer
<1>6. /\ handler' \in [Service -> Handling] /\ handler'[p] = handler[p]
      /\ handler'[s].step = "replying" /\ handler'[s].request = q /\ handler'[s].answer = answer
  BY <1>1, <1>2, <1>4 DEF BridgeTypes, Handling
<1>7. BridgeTypes'
  BY <1>1, <1>2, <1>5, <1>6 DEF BridgeTypes
<1>8. Serving'
  BY <1>1, <1>2, <1>6 DEF Serving
<1>9. Channels'
  <2>1. AppChannel(s)' /\ ExchangeChannel(s)' /\ RelayChannel(s)'
    BY <1>1, <1>2, <1>6, Parts DEF AppChannel, ExchangeChannel, RelayChannel
  <2>2. AppChannel(p)' /\ ExchangeChannel(p)' /\ RelayChannel(p)'
    BY <1>1, <1>2, <1>6, Parts DEF AppChannel, ExchangeChannel, RelayChannel
  <2> QED
    BY <1>1, <2>1, <2>2 DEF Channels
<1>10. ASSUME NEW t \in Service PROVE DeliveryHolds(t)' /\ FloorHolds(t)'
  BY <1>2, <1>5, Parts, DeliveryOutlasts, FloorOutlasts
<1>11. PostHolds(p)' /\ ViewHolds(p)' /\ ViewIsFresh(p)' /\ PassedIsFresh(p)'
  <2>1. PostHolds(p)' /\ ViewHolds(p)'
    <3>1. SameAnswer(p)
      BY <1>6 DEF SameAnswer
    <3> QED
      BY <1>1, <1>5, <3>1, Parts, AnswerOutlasts
  <2>2. ViewIsFresh(p)'
    BY <1>1, <1>2, <1>6, Parts DEF ViewIsFresh, Replies
  <2>3. handler[p].request.from # "bridge"
    BY <1>1, <1>2, Parts DEF RelayChannel, Silent
  <2>4. PassedIsFresh(p)'
    BY <1>6, <2>3 DEF PassedIsFresh
  <2> QED
    BY <2>1, <2>2, <2>4
<1>12. PostHolds(s)' /\ ViewHolds(s)' /\ ViewIsFresh(s)' /\ PassedIsFresh(s)'
  <2>1. Owner(s)' = p
    BY <1>1, <1>3, <1>6 DEF Owner
  <2>2. PostHolds(s)'
    BY <1>5, <1>6, <2>1 DEF PostHolds
  <2>3. ViewHolds(s)'
    <3>1. preferred[p] \in Rows
      BY <1>1 DEF Journals, Rows
    <3> QED
      BY <1>4, <1>5, <1>6, <2>1, <3>1, AboveItself DEF ViewHolds
  <2>4. ViewIsFresh(s)'
    <3> SUFFICES ASSUME q.event = NoRow, q.from = "app" PROVE Above(answer.rows, app[s].floor)
      BY <1>2, <1>6 DEF ViewIsFresh
    <3>1. app[s].step = "waiting"
      BY Parts DEF AppChannel, Silent
    <3>2. FloorHolds(s)
      BY Parts
    <3> QED
      BY <1>1, <1>4, <3>1, <3>2 DEF FloorHolds
  <2>5. q.from # "bridge"
    BY <1>3, Parts DEF RelayChannel, Asks, Silent
  <2>6. PassedIsFresh(s)'
    BY <1>6, <2>5 DEF PassedIsFresh
  <2> QED
    BY <2>2, <2>3, <2>4, <2>6
<1>13. Answers'
  BY <1>1, <1>10, <1>11, <1>12 DEF Answers
<1> QED
  BY <1>5, <1>7, <1>8, <1>9, <1>13 DEF BridgeInv

\* A free handler, and the application and the exchange that ask for nothing.
LEMMA AtRest ==
    /\ Listening \in Handling /\ Listening.step = "idle" /\ Listening.request = NoRequest
    /\ NoRequest \in Request /\ NoRequest.from = "nobody"
    /\ Free \in Asking /\ Free.step = "idle"
    /\ Resting \in Working /\ Resting.step = "idle"
<1>1. NoRequest \in Request /\ NoRequest.from = "nobody"
  BY DEF NoRequest, Request
<1>2. Refusal \in Answer
  BY DEF Refusal, Answer, Rows, NoRows
<1>3. Listening \in Handling /\ Listening.step = "idle" /\ Listening.request = NoRequest
  BY <1>1, <1>2 DEF Listening, Handling
<1>4. Free \in Asking /\ Free.step = "idle"
  BY DEF Free, Asking, Rows, NoRows
<1>5. Resting \in Working /\ Resting.step = "idle"
  BY DEF Resting, Working
<1> QED
  BY <1>1, <1>3, <1>4, <1>5

\* An error ends the handler's request; who waits for it turns elsewhere
\* (binding_api.py:170-179, 196-205).
LEMMA BreakKeeps ==
    ASSUME BridgeInv, NEW s \in Service, Break(s)
    PROVE  BridgeInv'
<1> DEFINE p == Peer(s)
           q == handler[s].request
           z == backlog[s]
           done == [handler EXCEPT ![s] = Listening]
           Failed(step) == IF step \in {"waiting", "relaying"} THEN "file" ELSE step
<1>1. /\ p = Peer(s) /\ p \in Service /\ p # s /\ Peer(p) = s /\ \A t \in Service : t = s \/ t = p
      /\ BridgeTypes /\ Serving /\ z \in Seq(Request)
  BY Parts
<1>2. /\ handler[s].step \in {"file", "replying"} /\ UNCHANGED <<journal, backlog>>
      /\ app' = IF q.from = "app" /\ app[s].step = "waiting" THEN [app EXCEPT ![s] = Free] ELSE app
      /\ worker' = IF q.from = "exchange" THEN [worker EXCEPT ![p].step = Failed(@)] ELSE worker
      /\ handler' = IF q.from = "bridge" THEN [done EXCEPT ![p].step = Failed(@)] ELSE done
  BY DEF Break, Cut
<1>3. /\ done \in [Service -> Handling] /\ done[s] = Listening /\ done[p] = handler[p]
  BY <1>1, AtRest DEF BridgeTypes
<1>4. Journals' /\ KeysCovered' /\ Rise
  BY <1>2, Parts, JournalsAlone
<1> HIDE DEF p, q, done
<1>5. /\ app' \in [Service -> Asking] /\ app'[p] = app[p]
      /\ app'[s].step = "waiting" => app'[s] = app[s] /\ q.from # "app"
      /\ q.from # "app" => app'[s] = app[s]
  BY <1>1, <1>2, AtRest DEF BridgeTypes
<1>6. /\ worker' \in [Service -> Working] /\ worker'[s] = worker[s]
      /\ q.from # "exchange" => worker'[p] = worker[p]
      /\ worker'[p].step # "waiting" \/ q.from # "exchange"
      /\ worker'[p].event = worker[p].event
      /\ worker'[p].step \in {worker[p].step, "file"}
      /\ worker[p].step = "idle" => worker'[p].step = "idle"
      /\ worker'[p].step = "delivered" => worker'[p] = worker[p]
  <2>1. worker \in [Service -> Working] /\ worker[p] \in Working
    BY <1>1 DEF BridgeTypes
  <2>2. CASE q.from # "exchange"
    BY <1>2, <2>1, <2>2
  <2>3. CASE q.from = "exchange"
    <3>1. worker' = [worker EXCEPT ![p].step = Failed(worker[p].step)]
      BY <1>2, <2>3
    <3>2. /\ Failed(worker[p].step) \in {"idle", "waiting", "file", "delivered"} \ {"waiting"}
          /\ Failed(worker[p].step) \in {worker[p].step, "file"}
          /\ worker[p].step = "idle" => Failed(worker[p].step) = "idle"
          /\ Failed(worker[p].step) = "delivered" => worker[p].step = "delivered"
      BY <2>1 DEF Working
    <3> HIDE DEF Failed
    <3>3. /\ worker' \in [Service -> Working] /\ worker'[s] = worker[s]
          /\ worker'[p].step = Failed(worker[p].step) /\ worker'[p].event = worker[p].event
      BY <1>1, <2>1, <3>1, <3>2 DEF Working
    <3>4. worker'[p].step = worker[p].step => worker'[p] = worker[p]
      BY <1>1, <2>1, <3>3 DEF Working
    <3> QED
      BY <2>3, <3>2, <3>3, <3>4
  <2> QED
    BY <2>2, <2>3
<1>7. /\ handler' \in [Service -> Handling] /\ handler'[s] = Listening
      /\ q.from # "bridge" => handler'[p] = handler[p]
      /\ handler'[p].step # "relaying" \/ q.from # "bridge"
      /\ handler'[p].request = handler[p].request /\ handler'[p].answer = handler[p].answer
      /\ handler'[p].step \in {handler[p].step, "file"}
      /\ handler'[p].step = "file" => handler[p].step \in {"relaying", "file"}
  <2>1. handler[p] \in Handling
    BY <1>1 DEF BridgeTypes
  <2>2. CASE q.from # "bridge"
    BY <1>2, <1>3, <2>1, <2>2
  <2>3. CASE q.from = "bridge"
    <3>1. handler' = [done EXCEPT ![p].step = Failed(done[p].step)]
      BY <1>2, <2>3
    <3>2. /\ Failed(done[p].step) \in {"idle", "relaying", "file", "replying"} \ {"relaying"}
          /\ Failed(done[p].step) \in {handler[p].step, "file"}
          /\ Failed(done[p].step) = "file" => handler[p].step \in {"relaying", "file"}
      BY <1>3, <2>1 DEF Handling
    <3> HIDE DEF Failed
    <3>3. /\ handler' \in [Service -> Handling] /\ handler'[s] = Listening
          /\ handler'[p].step = Failed(done[p].step) /\ handler'[p].request = handler[p].request
          /\ handler'[p].answer = handler[p].answer
      BY <1>1, <1>3, <2>1, <3>1, <3>2 DEF Handling
    <3> QED
      BY <2>3, <3>2, <3>3
  <2> QED
    BY <2>2, <2>3
<1>8. BridgeTypes'
  BY <1>1, <1>2, <1>4, <1>5, <1>6, <1>7 DEF BridgeTypes
<1>9. Serving'
  <2>1. handler'[p].step = "idle" => handler[p].step = "idle"
    BY <1>7
  <2>2. handler'[p].step \in {"relaying", "file"} => handler[p].step \in {"relaying", "file"}
    BY <1>7
  <2> QED
    BY <1>1, <1>6, <1>7, <2>1, <2>2, AtRest DEF Serving
<1>10. Channels'
  <2>1. AppChannel(p)' /\ ExchangeChannel(p)' /\ RelayChannel(p)'
    BY <1>1, <1>2, <1>5, <1>6, <1>7, Parts, AtRest DEF AppChannel, ExchangeChannel, RelayChannel
  <2>2. AppChannel(s) /\ ExchangeChannel(s) /\ RelayChannel(s)
    BY Parts
  <2>3. handler'[s].request = NoRequest /\ backlog'[s] = z
    BY <1>2, <1>7, AtRest
  <2> HIDE DEF z
  <2>4. ASSUME NEW who \in Senders
        PROVE  /\ q.from # who =>
                    /\ Silent(q, z, who) => Silent(NoRequest, z, who)
                    /\ \A e : Asks(q, z, who, e) => Asks(NoRequest, z, who, e)
               /\ q.from = who =>
                    /\ ~Silent(q, z, who)
                    /\ \A e : Asks(q, z, who, e) => Silent(NoRequest, z, who)
    BY <1>1, Finishing
  <2>5. AppChannel(s)'
    BY <1>5, <2>2, <2>3, <2>4 DEF AppChannel, Senders, q, z
  <2>6. ExchangeChannel(s)'
    BY <1>1, <1>6, <2>2, <2>3, <2>4 DEF ExchangeChannel, Senders, q, z
  <2>7. RelayChannel(s)'
    BY <1>1, <1>7, <2>2, <2>3, <2>4 DEF RelayChannel, Senders, q, z
  <2> QED
    BY <1>1, <2>1, <2>5, <2>6, <2>7 DEF Channels
<1>11. Answers'
  <2>1. ASSUME NEW t \in Service
        PROVE  /\ SameAnswer(t) /\ (worker'[t].step = "delivered" => worker'[t] = worker[t])
               /\ app'[t].step = "waiting" => app'[t] = app[t]
               /\ handler'[t].request.from \in {handler[t].request.from, "nobody"}
               /\ handler'[t].request.from = "app" => app'[t] = app[t]
    <3>1. CASE t = s
      BY <1>5, <1>6, <1>7, <3>1, AtRest DEF SameAnswer
    <3>2. CASE t = p
      BY <1>5, <1>6, <1>7, <3>2 DEF SameAnswer
    <3> QED
      BY <1>1, <3>1, <3>2
  <2> QED
    BY <1>4, <2>1, AnswersOutlast
<1> QED
  BY <1>4, <1>8, <1>9, <1>10, <1>11 DEF BridgeInv

\* The answer reaches who waits for it (binding_api.py:36-39, 144-150).
LEMMA ReplyKeeps ==
    ASSUME BridgeInv, NEW s \in Service, Reply(s)
    PROVE  BridgeInv'
<1> DEFINE p == Peer(s)
           q == handler[s].request
           answer == handler[s].answer
           z == backlog[s]
           done == [handler EXCEPT ![s] = Listening]
<1>1. /\ p = Peer(s) /\ p \in Service /\ p # s /\ Peer(p) = s /\ \A t \in Service : t = s \/ t = p
      /\ BridgeTypes /\ Serving /\ z \in Seq(Request)
      /\ handler[p] \in Handling /\ worker[p] \in Working /\ answer \in Answer
  BY Parts DEF Handling
<1>2. /\ handler[s].step = "replying" /\ UNCHANGED <<journal, backlog>>
      /\ app' = IF q.from = "app" THEN [app EXCEPT ![s] = Free] ELSE app
      /\ worker' = IF q.from # "exchange" THEN worker
                   ELSE IF answer.ok
                   THEN [worker EXCEPT ![p].step = "delivered"]
                   ELSE [worker EXCEPT ![p] = Resting]
      /\ handler' = IF q.from # "bridge" THEN done
                    ELSE [done EXCEPT ![p].step = "replying", ![p].answer = answer]
  BY DEF Reply, PassOn
<1>3. done \in [Service -> Handling] /\ done[s] = Listening /\ done[p] = handler[p]
  BY <1>1, AtRest DEF BridgeTypes
<1>4. Journals' /\ KeysCovered' /\ Rise
  BY <1>2, Parts, JournalsAlone
\* Who the answer is for waits for it, and for this event.
<1>5. /\ q.from = "exchange" => worker[p].step = "waiting" /\ worker[p].event = q.event /\ ~q.relay
      /\ q.from = "bridge" =>
           handler[p].step = "relaying" /\ handler[p].request.event = q.event /\ ~q.relay
  <2>1. ExchangeChannel(s) /\ RelayChannel(s)
    BY Parts
  <2> QED
    BY <1>1, <2>1 DEF ExchangeChannel, RelayChannel, Asks, Silent
<1> HIDE DEF p, q, answer, done
<1>6. /\ app' \in [Service -> Asking] /\ app'[p] = app[p]
      /\ app'[s].step = "waiting" => app'[s] = app[s] /\ q.from # "app"
      /\ q.from # "app" => app'[s] = app[s]
  BY <1>1, <1>2, AtRest DEF BridgeTypes
<1>7. /\ worker' \in [Service -> Working] /\ worker'[s] = worker[s]
      /\ q.from # "exchange" => worker'[p] = worker[p]
      /\ q.from = "exchange" => worker'[p].step \in {"idle", "delivered"}
      /\ (q.from = "exchange" /\ worker'[p].step = "delivered") =>
           answer.ok /\ worker'[p].event = worker[p].event
  <2>1. CASE q.from # "exchange"
    BY <1>1, <1>2, <2>1 DEF BridgeTypes
  <2>2. CASE q.from = "exchange" /\ answer.ok
    BY <1>1, <1>2, <2>2 DEF BridgeTypes, Working
  <2>3. CASE q.from = "exchange" /\ ~answer.ok
    BY <1>1, <1>2, <2>3, AtRest DEF BridgeTypes
  <2> QED
    BY <2>1, <2>2, <2>3
<1>8. /\ handler' \in [Service -> Handling] /\ handler'[s] = Listening
      /\ q.from # "bridge" => handler'[p] = handler[p]
      /\ q.from = "bridge" => handler'[p].step = "replying" /\ handler'[p].answer = answer
      /\ handler'[p].request = handler[p].request
  <2>1. CASE q.from # "bridge"
    BY <1>2, <1>3, <2>1
  <2>2. CASE q.from = "bridge"
    BY <1>1, <1>2, <1>3, <2>2 DEF Handling
  <2> QED
    BY <2>1, <2>2
<1>9. BridgeTypes'
  BY <1>1, <1>2, <1>4, <1>6, <1>7, <1>8 DEF BridgeTypes
<1>10. Serving'
  <2>1. \A t \in Service : handler'[t].step = "idle" => handler'[t].request = NoRequest
    BY <1>1, <1>8, AtRest DEF Serving
  <2>2. \A t \in Service : handler'[t].step \in {"relaying", "file"} => handler'[t].request.relay
    BY <1>1, <1>8, AtRest DEF Serving
  <2>3. \A t \in Service : worker'[t].step # "idle" => worker'[t].event # NoRow
    <3>1. worker'[s].step # "idle" => worker'[s].event # NoRow
      BY <1>1, <1>7 DEF Serving
    <3>2. worker'[p].step # "idle" => worker'[p].event # NoRow
      BY <1>1, <1>5, <1>7 DEF Serving
    <3> QED
      BY <1>1, <3>1, <3>2
  <2> QED
    BY <2>1, <2>2, <2>3 DEF Serving
<1>11. Channels'
  <2>1. AppChannel(p)' /\ ExchangeChannel(p)' /\ RelayChannel(p)'
    BY <1>1, <1>2, <1>6, <1>7, <1>8, Parts, AtRest DEF AppChannel, ExchangeChannel, RelayChannel
  <2>2. AppChannel(s) /\ ExchangeChannel(s) /\ RelayChannel(s)
    BY Parts
  <2>3. handler'[s].request = NoRequest /\ backlog'[s] = z
    BY <1>2, <1>8, AtRest
  <2> HIDE DEF z
  <2>4. ASSUME NEW who \in Senders
        PROVE  /\ q.from # who =>
                    /\ Silent(q, z, who) => Silent(NoRequest, z, who)
                    /\ \A e : Asks(q, z, who, e) => Asks(NoRequest, z, who, e)
               /\ q.from = who =>
                    /\ ~Silent(q, z, who)
                    /\ \A e : Asks(q, z, who, e) => Silent(NoRequest, z, who)
    BY <1>1, Finishing
  <2>5. AppChannel(s)'
    BY <1>6, <2>2, <2>3, <2>4 DEF AppChannel, Senders, q, z
  <2>6. ExchangeChannel(s)'
    BY <1>1, <1>7, <2>2, <2>3, <2>4 DEF ExchangeChannel, Senders, q, z
  <2>7. RelayChannel(s)'
    BY <1>1, <1>8, <2>2, <2>3, <2>4 DEF RelayChannel, Senders, q, z
  <2> QED
    BY <1>1, <2>1, <2>5, <2>6, <2>7 DEF Channels
<1>12. preferred' = preferred
  BY <1>2 DEF journal
<1>13. PostHolds(s)' /\ ViewHolds(s)' /\ ViewIsFresh(s)' /\ PassedIsFresh(s)'
  BY <1>8, AtRest DEF PostHolds, ViewHolds, ViewIsFresh, PassedIsFresh, Replies
<1>14. ASSUME NEW t \in Service PROVE FloorHolds(t)'
  BY <1>1, <1>4, <1>6, Parts, FloorOutlasts
<1>15. DeliveryHolds(s)' /\ DeliveryHolds(p)'
  <2>1. DeliveryHolds(s)'
    BY <1>4, <1>7, Parts, DeliveryOutlasts
  <2>2. CASE q.from # "exchange"
    BY <1>1, <1>4, <1>7, <2>1, <2>2, Parts, DeliveryOutlasts
  <2>3. CASE q.from = "exchange"
    <3> SUFFICES ASSUME worker'[p].step = "delivered"
                 PROVE  Covers(preferred[s][worker'[p].event.account], worker'[p].event)
      BY <1>1, <1>12, <2>1 DEF DeliveryHolds
    <3>1. answer.ok /\ worker'[p].event = q.event /\ q.event # NoRow /\ ~q.relay
      BY <1>1, <1>5, <1>7, <2>3 DEF Serving
    <3>2. PostHolds(s) /\ Owner(s) = s
      BY <3>1, Parts DEF Owner, q
    <3> QED
      BY <1>2, <3>1, <3>2 DEF PostHolds, Replies, answer, q
  <2> QED
    BY <2>2, <2>3
<1>16. PassedIsFresh(p)'
  BY <1>1, <1>8, AtRest DEF PassedIsFresh
<1>17. PostHolds(p)' /\ ViewHolds(p)' /\ ViewIsFresh(p)'
  <2>1. CASE q.from # "bridge"
    <3>1. SameAnswer(p)
      BY <1>8, <2>1 DEF SameAnswer
    <3>2. PostHolds(p)' /\ ViewHolds(p)'
      BY <1>1, <1>4, <3>1, Parts, AnswerOutlasts
    <3>3. ViewIsFresh(p)'
      BY <1>1, <1>6, <1>8, <2>1, Parts DEF ViewIsFresh, Replies
    <3> QED
      BY <3>2, <3>3
  <2>2. CASE q.from = "bridge"
    <3>1. /\ handler'[p].step = "replying" /\ handler'[p].answer = answer
          /\ handler'[p].request = handler[p].request /\ handler[p].request.event = q.event
          /\ ~q.relay /\ handler[p].request.relay
      BY <1>1, <1>5, <1>8, <2>2 DEF Serving
    <3>2. Owner(p)' = s /\ Owner(s) = s
      BY <1>1, <3>1 DEF Owner, q
    <3>3. Replies(p)' => Replies(s)
      BY <1>2, <3>1 DEF Replies, answer
    <3>4. PostHolds(p)'
      BY <1>12, <3>1, <3>2, <3>3, Parts DEF PostHolds, q
    <3>5. ViewHolds(p)'
      BY <1>12, <3>1, <3>2, <3>3, Parts DEF ViewHolds, q, answer
    <3>6. ViewIsFresh(p)'
      BY <1>1, <1>6, <2>2, <3>1, <3>3, Parts DEF ViewIsFresh, PassedIsFresh, q, answer
    <3> QED
      BY <3>4, <3>5, <3>6
  <2> QED
    BY <2>1, <2>2
<1>18. Answers'
  BY <1>1, <1>13, <1>14, <1>15, <1>16, <1>17 DEF Answers
<1> QED
  BY <1>4, <1>9, <1>10, <1>11, <1>18 DEF BridgeInv

\* The process of a bridge stops and starts again: its connections end.
LEMMA RestartKeeps ==
    ASSUME BridgeInv, NEW s \in Service, Restart(s)
    PROVE  BridgeInv'
<1> DEFINE p == Peer(s)
           Lost(r) == Orphan(Orphan(r, "exchange"), "bridge")
           h == handler[p].request
           z == backlog[p]
           down == [handler EXCEPT ![s] = Listening, ![p].request = Lost(@)]
<1>1. /\ p = Peer(s) /\ p \in Service /\ p # s /\ Peer(p) = s /\ \A t \in Service : t = s \/ t = p
      /\ BridgeTypes /\ Serving /\ z \in Seq(Request) /\ h \in Request
      /\ handler[p] \in Handling /\ worker[p] \in Working
  BY Parts DEF Handling
<1>2. /\ app' = IF app[s].step = "waiting" THEN [app EXCEPT ![s] = Free] ELSE app
      /\ worker' = [worker EXCEPT ![s] = Resting,
                                  ![p].step = IF @ = "waiting" THEN "file" ELSE @]
      /\ handler' = [down EXCEPT ![p].step = IF @ = "relaying" THEN "file" ELSE @]
      /\ backlog' = [backlog EXCEPT ![s] = <<>>, ![p] = [i \in DOMAIN @ |-> Lost(@[i])]]
      /\ UNCHANGED journal
  BY DEF Restart
\* The peer's handler and backlog after one sender has gone, and after both.
<1> DEFINE h1 == Orphan(h, "exchange")
           z1 == Closed(z, "exchange")
           h2 == Orphan(h1, "bridge")
           z2 == Closed(z1, "bridge")
<1>3. /\ h1 \in Request /\ z1 \in Seq(Request) /\ Len(z1) = Len(z)
      /\ h1.event = h.event /\ (h1.relay <=> h.relay) /\ h1.from \in {h.from, "nobody"}
      /\ h.from # "exchange" => h1 = h
      /\ Silent(h1, z1, "exchange")
      /\ Silent(h, z, "app") => Silent(h1, z1, "app")
      /\ \A e : Asks(h, z, "app", e) => Asks(h1, z1, "app", e)
  <2>1. "exchange" \in Senders /\ "app" \in Senders \ {"exchange"}
    BY DEF Senders
  <2> HIDE DEF h, z
  <2> QED
    BY <1>1, <2>1, GivingUp
<1>4. /\ h2 \in Request /\ z2 \in Seq(Request) /\ Len(z2) = Len(z1)
      /\ h2.event = h1.event /\ (h2.relay <=> h1.relay) /\ h2.from \in {h1.from, "nobody"}
      /\ h1.from # "bridge" => h2 = h1
      /\ Silent(h2, z2, "bridge")
      /\ Silent(h1, z1, "exchange") => Silent(h2, z2, "exchange")
      /\ Silent(h1, z1, "app") => Silent(h2, z2, "app")
      /\ \A e : Asks(h1, z1, "app", e) => Asks(h2, z2, "app", e)
  <2>1. "bridge" \in Senders /\ "app" \in Senders \ {"bridge"} /\ "exchange" \in Senders \ {"bridge"}
    BY DEF Senders
  <2>2. h1 \in Request /\ z1 \in Seq(Request)
    BY <1>3
  <2> HIDE DEF h1, z1
  <2> QED
    BY <2>1, <2>2, GivingUp
<1>5. [i \in DOMAIN z |-> Lost(z[i])] = z2
  BY DEF Closed
<1> HIDE DEF p, h1, z1
<1>6. /\ backlog' = [backlog EXCEPT ![s] = <<>>, ![p] = z2]
      /\ down = [handler EXCEPT ![s] = Listening, ![p].request = h2]
  BY <1>2, <1>5 DEF h1
<1> HIDE DEF h, z, h2, z2, down
<1>7. /\ backlog' \in [Service -> Seq(Request)] /\ backlog'[s] = <<>> /\ backlog'[p] = z2
      /\ \A t \in Service : Len(backlog'[t]) <= Backlog
  <2>1. <<>> \in Seq(Request) /\ Len(<<>>) = 0
    OBVIOUS
  <2>2. backlog' \in [Service -> Seq(Request)] /\ backlog'[s] = <<>> /\ backlog'[p] = z2
    BY <1>1, <1>4, <1>6, <2>1 DEF BridgeTypes
  <2>3. Len(z2) <= Backlog
    BY <1>1, <1>3, <1>4 DEF BridgeTypes, z
  <2>4. Len(backlog'[s]) <= Backlog /\ Len(backlog'[p]) <= Backlog
    BY <2>1, <2>2, <2>3, BridgeAssumption
  <2>5. \A t \in Service : t = s \/ t = p
    BY <1>1
  <2> QED
    BY <2>2, <2>4, <2>5
<1>8. /\ handler' \in [Service -> Handling] /\ handler'[s] = Listening
      /\ handler'[p].request = h2 /\ handler'[p].answer = handler[p].answer
      /\ handler'[p].step = IF handler[p].step = "relaying" THEN "file" ELSE handler[p].step
  <2>1. /\ down \in [Service -> Handling] /\ down[s] = Listening /\ down[p].request = h2
        /\ down[p].answer = handler[p].answer /\ down[p].step = handler[p].step
    BY <1>1, <1>4, <1>6, AtRest DEF BridgeTypes, Handling
  <2> QED
    BY <1>1, <1>2, <2>1 DEF Handling
<1>9. /\ worker' \in [Service -> Working] /\ worker'[s] = Resting
      /\ worker'[p].step = IF worker[p].step = "waiting" THEN "file" ELSE worker[p].step
      /\ worker'[p].event = worker[p].event
      /\ worker[p].step # "waiting" => worker'[p] = worker[p]
  BY <1>1, <1>2, AtRest DEF BridgeTypes, Working
<1>10. app' \in [Service -> Asking] /\ app'[p] = app[p] /\ app'[s].step = "idle"
  BY <1>1, <1>2, AtRest DEF BridgeTypes, Asking
<1>11. Journals' /\ KeysCovered' /\ Rise
  BY <1>2, Parts, JournalsAlone
<1>12. BridgeTypes'
  BY <1>7, <1>8, <1>9, <1>10, <1>11 DEF BridgeTypes
<1>13. Serving'
  <2>1. h = NoRequest => h2 = NoRequest
    BY <1>3, <1>4 DEF NoRequest
  <2>2. h2.relay <=> h.relay
    BY <1>3, <1>4
  <2>3. handler'[p].step = "idle" => handler'[p].request = NoRequest
    BY <1>1, <1>8, <2>1 DEF Serving, h
  <2>4. handler'[p].step \in {"relaying", "file"} => handler'[p].request.relay
    BY <1>1, <1>8, <2>2 DEF Serving, h
  <2>5. worker'[p].step # "idle" => worker'[p].event # NoRow
    BY <1>1, <1>9 DEF Serving
  <2> QED
    BY <1>1, <1>8, <1>9, <2>3, <2>4, <2>5, AtRest DEF Serving
<1>14. Channels'
  <2>1. AppChannel(s)' /\ ExchangeChannel(s)' /\ RelayChannel(s)'
    BY <1>1, <1>7, <1>8, <1>9, <1>10, AtRest, Emptied
    DEF AppChannel, ExchangeChannel, RelayChannel, Senders
  <2>2. AppChannel(p)'
    BY <1>1, <1>3, <1>4, <1>7, <1>8, <1>10, Parts DEF AppChannel, h, z
  <2>3. ExchangeChannel(p)' /\ RelayChannel(p)'
    BY <1>1, <1>3, <1>4, <1>7, <1>8, <1>9, AtRest DEF ExchangeChannel, RelayChannel
  <2> QED
    BY <1>1, <2>1, <2>2, <2>3 DEF Channels
<1>15. Answers'
  <2>1. ASSUME NEW t \in Service
        PROVE  /\ SameAnswer(t) /\ (worker'[t].step = "delivered" => worker'[t] = worker[t])
               /\ app'[t].step = "waiting" => app'[t] = app[t]
               /\ handler'[t].request.from \in {handler[t].request.from, "nobody"}
               /\ handler'[t].request.from = "app" => app'[t] = app[t]
    <3>1. CASE t = s
      BY <1>8, <1>9, <1>10, <3>1, AtRest DEF SameAnswer
    <3>2. CASE t = p
      BY <1>3, <1>4, <1>8, <1>9, <1>10, <3>2 DEF SameAnswer, h
    <3> QED
      BY <1>1, <3>1, <3>2
  <2> QED
    BY <1>11, <2>1, AnswersOutlast
<1> QED
  BY <1>11, <1>12, <1>13, <1>14, <1>15 DEF BridgeInv

\* Every step keeps the invariant.
LEMMA StepPreserves == ASSUME BridgeInv, [Next]_vars PROVE BridgeInv'
<1>1. CASE UNCHANGED vars
  <2>1. UNCHANGED journal /\ UNCHANGED bridges
    BY <1>1 DEF vars
  <2>2. Journals' /\ KeysCovered' /\ Rise
    BY <2>1, JournalsAlone DEF BridgeInv, BridgeTypes
  <2>3. BridgeTypes' /\ Serving' /\ Channels'
    BY <2>1, <2>2 DEF bridges, BridgeInv, BridgeTypes, Serving, Channels, AppChannel, ExchangeChannel,
                      RelayChannel
  <2>4. Answers'
    BY <2>1, <2>2, AnswersOutlast DEF bridges, SameAnswer
  <2> QED
    BY <2>2, <2>3, <2>4 DEF BridgeInv
<1>2. CASE Next
  <2>1. PICK s \in Service :
          \/ \E a \in Account, r \in Ref, x \in Exit \cup {NoExit} : Report(s, a, r, x)
          \/ Post(s) \/ PostTimesOut(s) \/ FileDeliver(s) \/ Confirm(s)
          \/ AppAsks(s) \/ AppTimesOut(s)
          \/ ServeOwn(s) \/ Refuse(s) \/ Relay(s) \/ RelayTimesOut(s) \/ RelayByFile(s)
          \/ Break(s) \/ Reply(s) \/ Restart(s)
    BY <1>2 DEF Next
  <2>2. CASE \E a \in Account, r \in Ref, x \in Exit \cup {NoExit} : Report(s, a, r, x)
    BY <2>2, ReportKeeps
  <2>3. CASE Post(s) \/ PostTimesOut(s) \/ FileDeliver(s) \/ Confirm(s)
    BY <2>3, PostKeeps, PostTimeoutKeeps, FileDeliveryKeeps, ConfirmKeeps
  <2>4. CASE AppAsks(s) \/ AppTimesOut(s)
    BY <2>4, AskingKeeps, AppTimeoutKeeps
  <2>5. CASE ServeOwn(s) \/ Refuse(s) \/ Relay(s)
    BY <2>5, ServingKeeps, RefusalKeeps, RelayKeeps
  <2>6. CASE RelayTimesOut(s) \/ RelayByFile(s)
    BY <2>6, RelayTimeoutKeeps, RelayByFileKeeps
  <2>7. CASE Break(s) \/ Reply(s) \/ Restart(s)
    BY <2>7, BreakKeeps, ReplyKeeps, RestartKeeps
  <2> QED
    BY <2>1, <2>2, <2>3, <2>4, <2>5, <2>6, <2>7
<1> QED
  BY <1>1, <1>2

\* Requests and answers belong together in every behaviour of the two bridges
\* (binding_api.py:105-208).
THEOREM BridgeInvHolds == Spec => []BridgeInv
<1>1. BridgeInit => BridgeInv
  <2> SUFFICES ASSUME BridgeInit PROVE BridgeInv
    OBVIOUS
  <2>1. Journals /\ KeysCovered
    <3>1. RowidsBounded
      BY DEF BridgeInit, Init, RowidsBounded
    <3>2. \A s \in Service : Keys(seen[s]) = {}
      BY DEF BridgeInit, Init, Keys
    <3>3. <<>> \in Seq(Event)
      OBVIOUS
    <3> QED
      BY <3>1, <3>2, <3>3 DEF BridgeInit, Init, Journals, KeysCovered
  <2>2. \A s \in Service :
          /\ handler[s] = Listening /\ worker[s] = Resting /\ app[s] = Free /\ backlog[s] = <<>>
    BY DEF BridgeInit
  <2>3. BridgeTypes
    <3>1. <<>> \in Seq(Request) /\ Len(<<>>) <= Backlog
      BY BridgeAssumption
    <3> QED
      BY <2>1, <3>1, AtRest DEF BridgeInit, BridgeTypes
  <2>4. Serving
    BY <2>2, AtRest DEF Serving
  <2>5. Channels
    BY <2>2, Services, AtRest, Emptied
    DEF Channels, AppChannel, ExchangeChannel, RelayChannel, Senders
  <2>6. Answers
    BY <2>2, AtRest
    DEF Answers, PostHolds, ViewHolds, DeliveryHolds, FloorHolds, ViewIsFresh, PassedIsFresh, Replies
  <2> QED
    BY <2>1, <2>3, <2>4, <2>5, <2>6 DEF BridgeInv
<1> QED
  BY <1>1, StepPreserves, PTL DEF Spec

-----------------------------------------------------------------------------
(* What the bridges promise.                                               *)

\* The one request of who, and none, as they are seen at bridge b.
LEMMA AskedAt ==
    ASSUME BridgeTypes, NEW b \in Service, NEW who, NEW e
    PROVE  /\ Silent(handler[b].request, backlog[b], who) => AskedBy(b, who, FALSE, e)
           /\ Asks(handler[b].request, backlog[b], who, e) => AskedBy(b, who, TRUE, e)
<1> DEFINE h == handler[b].request
           z == backlog[b]
<1>1. z \in Seq(Request) /\ Len(z) \in Nat /\ h \in Request /\ \A i \in 1..Len(z) : z[i] \in Request
  BY Requests DEF BridgeTypes, Handling
<1>2. /\ Unanswered(b, 0) = h
      /\ \A i \in 1..Len(z) : Unanswered(b, i) = z[i]
      /\ \A i \in 0..Len(z) : i = 0 \/ i \in 1..Len(z)
      /\ 0 \in 0..Len(z) /\ \A i \in 1..Len(z) : i \in 0..Len(z) /\ i # 0
  BY <1>1 DEF Unanswered
<1>3. \A i \in 0..Len(z) : Unanswered(b, i) \in Request
  BY <1>1, <1>2
<1>4. From(b, who) = {i \in 0..Len(z) : Unanswered(b, i).from = who}
  BY DEF From
<1> HIDE DEF h, z
<1>5. ASSUME Silent(h, z, who) PROVE AskedBy(b, who, FALSE, e)
  <2>1. From(b, who) = {}
    BY <1>2, <1>4, <1>5 DEF Silent
  <2> QED
    BY <2>1 DEF AskedBy
<1>6. ASSUME Asks(h, z, who, e) PROVE AskedBy(b, who, TRUE, e)
  <2>1. PICK i \in 0..Len(z) :
          /\ Unanswered(b, i).from = who /\ Unanswered(b, i).event = e
          /\ Unanswered(b, i).relay <=> who = "app"
          /\ \A j \in 0..Len(z) : Unanswered(b, j).from = who => j = i
    BY <1>2, <1>6 DEF Asks
  <2>2. From(b, who) = {i} /\ i \in From(b, who)
    BY <1>4, <2>1
  <2>3. Unanswered(b, i).relay = (who = "app")
    <3>1. Unanswered(b, i).relay \in BOOLEAN
      BY <1>3 DEF Request
    <3> QED
      BY <2>1, <3>1
  <2> QED
    BY <2>1, <2>2, <2>3 DEF AskedBy
<1> QED
  BY <1>5, <1>6 DEF h, z

\* The variables have their types, and each request is of who waits for it, one
\* each (binding_api.py:105-208).
THEOREM TypeCorrect == Spec => []TypeOK
<1>1. BridgeInv => TypeOK
  <2> SUFFICES ASSUME BridgeInv PROVE TypeOK
    OBVIOUS
  <2>1. BridgeTypes
    BY DEF BridgeInv
  <2>2. ASSUME NEW s \in Service
        PROVE  /\ Len(backlog[s]) <= Backlog
               /\ AskedBy(s, "app", app[s].step = "waiting", app[s].event)
               /\ AskedBy(Peer(s), "exchange", worker[s].step = "waiting", worker[s].event)
               /\ AskedBy(Peer(s), "bridge", handler[s].step = "relaying", handler[s].request.event)
    <3>1. /\ AppChannel(s) /\ ExchangeChannel(Peer(s)) /\ RelayChannel(Peer(s))
          /\ Peer(s) \in Service /\ Peer(Peer(s)) = s
      BY <2>1, Parts
    <3>2. AskedBy(s, "app", app[s].step = "waiting", app[s].event)
      BY <2>1, <3>1, AskedAt DEF AppChannel, AskedBy
    <3>3. AskedBy(Peer(s), "exchange", worker[s].step = "waiting", worker[s].event)
      BY <2>1, <3>1, AskedAt DEF ExchangeChannel, AskedBy
    <3>4. AskedBy(Peer(s), "bridge", handler[s].step = "relaying", handler[s].request.event)
      BY <2>1, <3>1, AskedAt DEF RelayChannel, AskedBy
    <3> QED
      BY <2>1, <3>2, <3>3, <3>4 DEF BridgeTypes
  <2> QED
    BY <2>1, <2>2 DEF TypeOK, BridgeTypes, Journals, Handling, Working, Asking
<1> QED
  BY <1>1, BridgeInvHolds, PTL

\* What is reported delivered is in the peer's journal, whichever way it took
\* (binding_api.py:28-39, 105-109, 196-208).
THEOREM DeliveriesAreDurable == Spec => []DeliveredIsDurable
<1>1. BridgeInv => DeliveredIsDurable
  <2> SUFFICES ASSUME BridgeInv, NEW s \in Service
               PROVE  /\ (Answering(s) /\ handler[s].request.event # NoRow) =>
                           Covers(preferred[Peer(s)][handler[s].request.event.account],
                                  handler[s].request.event)
                      /\ worker[s].step = "delivered" =>
                           Covers(preferred[Peer(s)][worker[s].event.account], worker[s].event)
    BY DEF DeliveredIsDurable
  <2>1. handler[s].request.from = "app" => handler[s].request.relay
    BY Parts DEF AppChannel, Asks, Silent
  <2> QED
    BY <2>1, Parts DEF Answering, PostHolds, DeliveryHolds, Owner, Replies
<1> QED
  BY <1>1, BridgeInvHolds, PTL

\* A view that is relayed is the peer's journal after the application asked
\* (binding_api.py:170-180).
THEOREM ViewsAreFresh == Spec => []RelayedIsFresh
<1>1. BridgeInv => RelayedIsFresh
  <2> SUFFICES ASSUME BridgeInv, NEW s \in Service, Answering(s), handler[s].request.event = NoRow,
                      NEW a \in Account
               PROVE  /\ app[s].floor[a] # NoRow => Covers(handler[s].answer.rows[a], app[s].floor[a])
                      /\ handler[s].answer.rows[a] # NoRow =>
                           Covers(preferred[Peer(s)][a], handler[s].answer.rows[a])
    BY DEF RelayedIsFresh
  <2>1. handler[s].request.from = "app" => handler[s].request.relay
    BY Parts DEF AppChannel, Asks, Silent
  <2>2. Above(handler[s].answer.rows, app[s].floor)
    BY Parts DEF Answering, ViewIsFresh, Replies
  <2>3. Above(preferred[Peer(s)], handler[s].answer.rows)
    BY <2>1, Parts DEF Answering, ViewHolds, Owner, Replies
  <2> QED
    BY <2>2, <2>3 DEF Above
<1> QED
  BY <1>1, BridgeInvHolds, PTL
=============================================================================
