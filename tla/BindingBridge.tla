---------------------------- MODULE BindingBridge ----------------------------
(***************************************************************************)
(* The two HTTP bridges themselves (binding_server in binding_api.py).     *)
(* Each service runs one, and each one has a single handler thread: while  *)
(* it serves a request the others wait in the listening socket's backlog.  *)
(*                                                                         *)
(* A bridge is asked by the peer's background exchange, and by the own     *)
(* application, whose requests to /v1/peer-bindings it passes on: to the   *)
(* peer's file, or to the peer's bridge with the file behind it.  In the   *)
(* second form each handler may be waiting for the other one.              *)
(***************************************************************************)
EXTENDS BindingJournal

CONSTANTS
    OverHttp,      \* services whose bridge has a BindingPeerWithFileFallback
                   \*   as its peer; the others have a BindingFilePeer
    Backlog,       \* connections that wait for the handler at most
    Movers,        \* bound: services whose accounts move
    MaxRevision    \* bound: nothing is published beyond this revision

ASSUME BridgeAssumption ==
    /\ OverHttp \subseteq Service
    /\ Backlog \in Nat \ {0}
    /\ Movers \subseteq Service
    /\ MaxRevision \in Nat

VARIABLES
    worker,        \* [service]: the background exchange and its delivery
    app,           \* [service]: the application and what it asked its bridge
    handler,       \* [service]: the bridge's handler thread
    backlog        \* [service]: requests its bridge has not accepted yet

bridges == <<worker, app, handler, backlog>>
vars == <<journal, bridges>>

Rows == [Account -> Event \cup {NoRow}]
NoRows == [a \in Account |-> NoRow]

\* relay: the path is /v1/peer-bindings.  event: what is posted, or NoRow
\* for a GET.  A request that its sender has given up is from "nobody".
Request == [from : {"exchange", "app", "bridge", "nobody"}, relay : BOOLEAN,
            event : Event \cup {NoRow}]
NoRequest == [from |-> "nobody", relay |-> FALSE, event |-> NoRow]

\* ok: the status is 200.  rows: the journal that a GET has read.
Answer == [ok : BOOLEAN, rows : Rows]
Refusal == [ok |-> FALSE, rows |-> NoRows]

Resting == [step |-> "idle", event |-> NoRow]
Listening == [step |-> "idle", request |-> NoRequest, answer |-> Refusal]
\* floor: what the peer preferred when the application asked.
Free == [step |-> "idle", event |-> NoRow, floor |-> NoRows]

BridgeInit ==
    /\ Init
    /\ worker = [s \in Service |-> Resting]
    /\ app = [s \in Service |-> Free]
    /\ handler = [s \in Service |-> Listening]
    /\ backlog = [s \in Service |-> <<>>]

-----------------------------------------------------------------------------
(* Connections.                                                            *)

Orphan(q, who) == IF q.from = who THEN [q EXCEPT !.from = "nobody"] ELSE q

\* A slip: the next answer is read from the connection that was given up.
KeepConnection(handlers, b, who) == backlog' = backlog /\ handler' = handlers

\* The sender closes its connection: the request may still be served, but
\* nobody will read the answer.
Close(handlers, b, who) ==
    /\ backlog' = [backlog EXCEPT ![b] = [i \in DOMAIN @ |-> Orphan(@[i], who)]]
    /\ handler' = [handlers EXCEPT ![b].request = Orphan(@, who)]

(***************************************************************************)
(* Bridge b closes the connections of the senders in whom: the application *)
(* gets an error, and for the peer's exchange and the peer's relay, which  *)
(* see httpx.RequestError, the file is next.                               *)
(***************************************************************************)
Cut(handlers, b, whom) ==
    LET Failed(step) == IF step \in {"waiting", "relaying"} THEN "file" ELSE step
    IN  /\ app' = IF "app" \in whom /\ app[b].step = "waiting"
                  THEN [app EXCEPT ![b] = Free] ELSE app
        /\ worker' = IF "exchange" \in whom
                     THEN [worker EXCEPT ![Peer(b)].step = Failed(@)] ELSE worker
        /\ handler' = IF "bridge" \in whom
                      THEN [handlers EXCEPT ![Peer(b)].step = Failed(@)] ELSE handlers

-----------------------------------------------------------------------------
(* The service's adapter, and its background exchange.                     *)

Report(s, a, r, x) ==
    /\ s \in Movers
    /\ Publishes(s, a, r, x) => NextRevision(preferred[s][a]) <= MaxRevision
    /\ Observe(s, a, r, x)
    /\ UNCHANGED bridges

Post(s) ==
    /\ worker[s].step = "idle"
    /\ \E e \in Pending(s) :
         \/ /\ Len(backlog[Peer(s)]) < Backlog
            /\ backlog' = [backlog EXCEPT ![Peer(s)] =
                  Append(@, [from |-> "exchange", relay |-> FALSE, event |-> e])]
            /\ worker' = [worker EXCEPT ![s] = [step |-> "waiting", event |-> e]]
         \/ \* no connection
            /\ worker' = [worker EXCEPT ![s] = [step |-> "file", event |-> e]]
            /\ UNCHANGED backlog
    /\ UNCHANGED <<journal, app, handler>>

\* The answer does not come in time.
PostTimesOut(s) ==
    /\ worker[s].step = "waiting"
    /\ worker' = [worker EXCEPT ![s].step = "file"]
    /\ Close(handler, Peer(s), "exchange")
    /\ UNCHANGED <<journal, app>>

FileDeliver(s) ==
    /\ worker[s].step = "file"
    /\ Receive(Peer(s), worker[s].event)
    /\ worker' = [worker EXCEPT ![s].step = "delivered"]
    /\ UNCHANGED <<app, handler, backlog>>

Confirm(s) ==
    /\ worker[s].step = "delivered"
    /\ Acknowledge(s, worker[s].event)
    /\ worker' = [worker EXCEPT ![s] = Resting]
    /\ UNCHANGED <<app, handler, backlog>>

-----------------------------------------------------------------------------
(* The application of s uses its own bridge at /v1/peer-bindings: it posts *)
(* an event of its own, or asks for what the peer prefers.                 *)

AppAsks(s) ==
    /\ app[s].step = "idle"
    /\ Len(backlog[s]) < Backlog
    /\ \E e \in Queued(s) \cup {NoRow} :
         /\ app' = [app EXCEPT ![s] =
               [step |-> "waiting", event |-> e,
                floor |-> IF e = NoRow THEN preferred[Peer(s)] ELSE NoRows]]
         /\ backlog' = [backlog EXCEPT ![s] =
               Append(@, [from |-> "app", relay |-> TRUE, event |-> e])]
    /\ UNCHANGED <<journal, worker, handler>>

AppTimesOut(s) ==
    /\ app[s].step = "waiting"
    /\ app' = [app EXCEPT ![s] = Free]
    /\ Close(handler, s, "app")
    /\ UNCHANGED <<journal, worker>>

-----------------------------------------------------------------------------
(* The handler thread of bridge s.                                         *)

Accepts(s) == handler[s].step = "idle" /\ backlog[s] # <<>>

\* journal.receive or journal.preferences, at the journal of service p.
Access(p, e) == IF e = NoRow THEN UNCHANGED journal ELSE Receive(p, e)
Reading(p, e) == [ok |-> TRUE, rows |-> IF e = NoRow THEN preferred[p] ELSE NoRows]

\* do_GET and do_POST of /v1/bindings, up to the reply.
ServeOwn(s) ==
    /\ Accepts(s)
    /\ LET q == Head(backlog[s])
       IN  /\ ~q.relay
           /\ Access(s, q.event)
           /\ handler' = [handler EXCEPT ![s] =
                 [step |-> "replying", request |-> q, answer |-> Reading(s, q.event)]]
    /\ backlog' = [backlog EXCEPT ![s] = Tail(@)]
    /\ UNCHANGED <<worker, app>>

\* Any other status: nothing is committed.
Refuse(s) ==
    /\ Accepts(s)
    /\ ~Head(backlog[s]).relay
    /\ handler' = [handler EXCEPT ![s] =
          [step |-> "replying", request |-> Head(backlog[s]), answer |-> Refusal]]
    /\ backlog' = [backlog EXCEPT ![s] = Tail(@)]
    /\ UNCHANGED <<journal, worker, app>>

\* /v1/peer-bindings: peer.deliver or peer.preferences begins.
Relay(s) ==
    /\ Accepts(s)
    /\ LET q == Head(backlog[s])
           rest == [backlog EXCEPT ![s] = Tail(@)]
           Serving(step) == [step |-> step, request |-> q, answer |-> Refusal]
       IN  /\ q.relay
           /\ \/ /\ s \in OverHttp
                 /\ Len(backlog[Peer(s)]) < Backlog
                 /\ handler' = [handler EXCEPT ![s] = Serving("relaying")]
                 /\ backlog' = [rest EXCEPT ![Peer(s)] =
                       Append(@, [from |-> "bridge", relay |-> FALSE, event |-> q.event])]
              \/ \* no connection, or none is tried
                 /\ handler' = [handler EXCEPT ![s] = Serving("file")]
                 /\ backlog' = rest
    /\ UNCHANGED <<journal, worker, app>>

\* A slip: the request that is passed on has no timeout.
RelayWaits(s) == FALSE /\ UNCHANGED vars

\* The peer's bridge does not answer in time: its file is next.
RelayTimesOut(s) ==
    /\ handler[s].step = "relaying"
    /\ Close([handler EXCEPT ![s].step = "file"], Peer(s), "bridge")
    /\ UNCHANGED <<journal, worker, app>>

\* A slip: a relayed GET reads the bridge's own journal.
RelayByOwnFile(s) ==
    /\ handler[s].step = "file"
    /\ LET e == handler[s].request.event
       IN  /\ Access(Peer(s), e)
           /\ handler' = [handler EXCEPT ![s].step = "replying",
                                         ![s].answer = Reading(s, e)]
    /\ UNCHANGED <<worker, app, backlog>>

RelayByFile(s) ==
    /\ handler[s].step = "file"
    /\ LET e == handler[s].request.event
       IN  /\ Access(Peer(s), e)
           /\ handler' = [handler EXCEPT ![s].step = "replying",
                                         ![s].answer = Reading(Peer(s), e)]
    /\ UNCHANGED <<worker, app, backlog>>

\* An error that the handler does not catch (sqlite3.Error): no reply.
Break(s) ==
    /\ handler[s].step \in {"file", "replying"}
    /\ Cut([handler EXCEPT ![s] = Listening], s, {handler[s].request.from})
    /\ UNCHANGED <<journal, backlog>>

\* A slip: the status the peer's bridge gave is not looked at.
PassOnAsAccepted(answer) == [answer EXCEPT !.ok = TRUE]

\* "accepted" if peer.deliver(event) else "rejected".
PassOn(answer) == answer

(***************************************************************************)
(* The reply reaches who waits for it: the application, the peer's         *)
(* exchange, whose deliver() is True for a 200 only, or the peer's         *)
(* handler, which answers likewise.                                        *)
(***************************************************************************)
Reply(s) ==
    /\ handler[s].step = "replying"
    /\ LET from == handler[s].request.from
           answer == handler[s].answer
           done == [handler EXCEPT ![s] = Listening]
       IN  /\ app' = IF from = "app" THEN [app EXCEPT ![s] = Free] ELSE app
           /\ worker' = IF from # "exchange" THEN worker
                        ELSE IF answer.ok
                        THEN [worker EXCEPT ![Peer(s)].step = "delivered"]
                        ELSE [worker EXCEPT ![Peer(s)] = Resting]
           /\ handler' = IF from # "bridge" THEN done
                         ELSE [done EXCEPT ![Peer(s)].step = "replying",
                                           ![Peer(s)].answer = PassOn(answer)]
    /\ UNCHANGED <<journal, backlog>>

\* The process of bridge s, with its exchange, stops and starts again.
Restart(s) ==
    LET p == Peer(s)
        Lost(q) == Orphan(Orphan(q, "exchange"), "bridge")
        down == [handler EXCEPT ![s] = Listening, ![p].request = Lost(@)]
    IN  /\ app' = IF app[s].step = "waiting" THEN [app EXCEPT ![s] = Free] ELSE app
        /\ worker' = [worker EXCEPT ![s] = Resting,
                                    ![p].step = IF @ = "waiting" THEN "file" ELSE @]
        /\ handler' = [down EXCEPT ![p].step = IF @ = "relaying" THEN "file" ELSE @]
        /\ backlog' = [backlog EXCEPT ![s] = <<>>,
                                      ![p] = [i \in DOMAIN @ |-> Lost(@[i])]]
        /\ UNCHANGED journal

Next ==
    \E s \in Service :
        \/ \E a \in Account, r \in Ref, x \in Exit \cup {NoExit} : Report(s, a, r, x)
        \/ Post(s) \/ PostTimesOut(s) \/ FileDeliver(s) \/ Confirm(s)
        \/ AppAsks(s) \/ AppTimesOut(s)
        \/ ServeOwn(s) \/ Refuse(s) \/ Relay(s) \/ RelayTimesOut(s) \/ RelayByFile(s)
        \/ Break(s) \/ Reply(s) \/ Restart(s)

HandlerStep(s) ==
    ServeOwn(s) \/ Refuse(s) \/ Relay(s) \/ RelayTimesOut(s) \/ RelayByFile(s) \/ Reply(s)

(***************************************************************************)
(* The handler threads run, and the timeouts of their own requests expire. *)
(* Nothing is assumed of the exchanges and the applications.               *)
(***************************************************************************)
Fairness == \A s \in Service : WF_vars(HandlerStep(s))

Spec == BridgeInit /\ [][Next]_vars /\ Fairness

-----------------------------------------------------------------------------
(* What the bridges promise.                                               *)

\* What bridge b has not answered: the request its handler serves, at place 0,
\* and those in its backlog.
Unanswered(b, i) == IF i = 0 THEN handler[b].request ELSE backlog[b][i]
From(b, who) == {i \in 0..Len(backlog[b]) : Unanswered(b, i).from = who}

\* Who waits has one request, and it is the one it waits for; only the
\* application's is to be passed on.
AskedBy(b, who, waits, event) ==
    IF waits
    THEN \E i \in From(b, who) :
            /\ From(b, who) = {i}
            /\ Unanswered(b, i).event = event
            /\ Unanswered(b, i).relay = (who = "app")
    ELSE From(b, who) = {}

\* The values the variables range over, and whose each request is.
TypeOK ==
    /\ preferred \in [Service -> [Account -> Event \cup {NoRow}]]
    /\ worker \in [Service -> [step : {"idle", "waiting", "file", "delivered"},
                               event : Event \cup {NoRow}]]
    /\ app \in [Service -> [step : {"idle", "waiting"}, event : Event \cup {NoRow},
                            floor : Rows]]
    /\ handler \in [Service -> [step : {"idle", "relaying", "file", "replying"},
                                request : Request, answer : Answer]]
    /\ backlog \in [Service -> Seq(Request)]
    /\ \A s \in Service :
         /\ Len(backlog[s]) <= Backlog
         /\ AskedBy(s, "app", app[s].step = "waiting", app[s].event)
         /\ AskedBy(Peer(s), "exchange", worker[s].step = "waiting", worker[s].event)
         /\ AskedBy(Peer(s), "bridge", handler[s].step = "relaying",
                    handler[s].request.event)

\* The bridge of s is sending a 200 to its application.
Answering(s) ==
    handler[s].step = "replying" /\ handler[s].answer.ok /\ handler[s].request.from = "app"

(***************************************************************************)
(* What is reported delivered is durable: a 200 to the application's POST, *)
(* or a deliver() that is True in the exchange, means that the peer's      *)
(* journal holds the event or a newer one, whichever way it took, and even *)
(* when the peer's bridge refused, broke, or answered somebody else's      *)
(* request first (binding_api.py:28-39, 105-109, 196-208).                 *)
(***************************************************************************)
DeliveredIsDurable ==
    \A s \in Service :
        LET Holds(e) == Covers(preferred[Peer(s)][e.account], e)
            e == handler[s].request.event
        IN  /\ (Answering(s) /\ e # NoRow) => Holds(e)
            /\ worker[s].step = "delivered" => Holds(worker[s].event)

(***************************************************************************)
(* A 200 to the application's GET is the peer's journal at a moment after  *)
(* the application asked, never a view from before, however the requests   *)
(* of both bridges overtook each other on the way (binding_api.py:170-180).*)
(***************************************************************************)
RelayedIsFresh ==
    \A s \in Service :
        LET rows == handler[s].answer.rows
        IN  (Answering(s) /\ handler[s].request.event = NoRow) =>
                \A a \in Account :
                    /\ app[s].floor[a] # NoRow => Covers(rows[a], app[s].floor[a])
                    /\ rows[a] # NoRow => Covers(preferred[Peer(s)][a], rows[a])

(***************************************************************************)
(* A handler always comes back for the next request: two handlers that     *)
(* wait for each other do so until a timeout, whatever else is queued      *)
(* (binding_api.py:171, 199; README.md:143).                               *)
(***************************************************************************)
HandlersReturn ==
    \A s \in Service : []<>(handler[s].step = "idle")
=============================================================================
