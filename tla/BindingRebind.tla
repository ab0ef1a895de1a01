---------------------------- MODULE BindingRebind ----------------------------
(***************************************************************************)
(* What the journals are for: when an account moves to another proxy in    *)
(* one service, the other service moves its connection of the same account *)
(* to the same exit (binding_consumer.py, bindings.py).  A consumer reads  *)
(* a preference, probes its own candidates and commits one; an adapter     *)
(* reports committed bindings to the journal at its own pace; and the      *)
(* exchange goes on meanwhile.  The consumer holds the account's lock from *)
(* the reading to the commit; the adapter and the exchange do not.         *)
(*                                                                         *)
(* The exchange is cut down to its effects on the journals: what pending() *)
(* returns reaches the peer's journal any number of times; a row goes once *)
(* the peer holds its event or a newer one; and an event whose row has     *)
(* gone, replaced or acknowledged, may still be on its way, by HTTP or by  *)
(* the file, and arrive at any time after others.                          *)
(***************************************************************************)
EXTENDS BindingJournal

CONSTANTS
    HostOf,        \* [proxy reference]: the host in it
    ExitOf,        \* [proxy reference]: the exit a working probe finds
    Owned,         \* [service]: the proxies of its own pool
    MaxRevision,   \* bound: nothing is published beyond this revision
    MaxLate        \* bound: events on their way without a row at one time

ASSUME RebindAssumption ==
    /\ ExitOf \in [Ref -> Exit]
    /\ DOMAIN HostOf = Ref
    /\ Owned \in [Service -> SUBSET Ref]
    /\ \A s \in Service : \A r \in Owned[s] :
         Cardinality({q \in Owned[s] : HostOf[q] = HostOf[r]}) \in 1..2
    /\ MaxRevision \in Nat
    /\ MaxLate \in Nat

VARIABLES
    native,        \* [service][account]: the proxy its connection uses
    applied,       \* [service][account]: the peer's event native came from, or
                   \*   NoRow if the service moved by itself
    wanted,        \* [service][account]: the event a consumer is probing
                   \*   candidates for, or NoRow
    late           \* events whose row has gone and that may still arrive

consumers == <<native, applied, wanted>>
vars == <<journal, consumers, late>>

RebindInit ==
    /\ Init
    /\ native \in {n \in [Service -> [Account -> Ref]] :
                     \A s \in Service, a \in Account : n[s][a] \in Owned[s]}
    /\ applied = [s \in Service |-> [a \in Account |-> NoRow]]
    /\ wanted = [s \in Service |-> [a \in Account |-> NoRow]]
    /\ late = {}

-----------------------------------------------------------------------------
(* The service moves an account for its own reasons, under its lock.       *)

Move(s, a) ==
    /\ wanted[s][a] = NoRow
    /\ \E r \in Owned[s] \ {native[s][a]} : native' = [native EXCEPT ![s][a] = r]
    /\ applied' = [applied EXCEPT ![s][a] = NoRow]
    /\ UNCHANGED <<journal, wanted, late>>

\* A row that goes has been read, if it was within the limit of pending(),
\* or has not; if it has, its event may be on its way.
Linger(s) ==
    \/ UNCHANGED late
    \/ \E e \in Pending(s) \ Queued(s)' :
         /\ Cardinality(late) < MaxLate
         /\ late' = late \cup {e}

\* The adapter reports the committed binding, with its exit if the probe works.
Report(s, a) ==
    /\ \E x \in {ExitOf[native[s][a]], NoExit} :
         /\ Publishes(s, a, native[s][a], x) => NextRevision(preferred[s][a]) <= MaxRevision
         /\ Observe(s, a, native[s][a], x)
    /\ Linger(s)
    /\ UNCHANGED consumers

-----------------------------------------------------------------------------
(* The exchange.                                                           *)

Deliver(s) ==
    /\ \E e \in Pending(s) : Receive(Peer(s), e)
    /\ UNCHANGED <<consumers, late>>

\* An event read before its row was replaced is only posted now, or a request
\* is served when its sender has given up.  It may be the last copy, or not.
ServeLate(s) ==
    /\ \E e \in late :
         /\ e.source = s
         /\ Receive(Peer(s), e)
         /\ late' \in {late, late \ {e}}
    /\ UNCHANGED consumers

\* deliver() has returned True.  The event's row may have been replaced.
Confirm(s) ==
    /\ \E e \in Pending(s) \cup {f \in late : f.source = s} :
         /\ Covers(preferred[Peer(s)][e.account], e)
         /\ Acknowledge(s, e)
    /\ Linger(s)
    /\ UNCHANGED consumers

-----------------------------------------------------------------------------
(* checked_preference() and the commit of what it returns.                 *)

\* /v1/bindings of its own bridge, or /v1/peer-bindings (or the peer's bridge).
Preferences(s, a) == {preferred[s][a], preferred[Peer(s)][a]}

\* The preference is the peer's and its exit has been verified.
Usable(s, e) == e # NoRow /\ e.source = Peer(s) /\ e.exit # NoExit

\* A slip: the peer's own endpoint is taken over.
CandidatesOfAnyone(s, e) ==
    {r \in Ref : HostOf[r] = HostOf[e.ref] /\ ExitOf[r] = e.exit}

\* The service's own endpoints of the same host; the probe accepts the ones
\* with the same exit.  RebindAssumption: they are two at most, one per
\* protocol, so the code's [:2] leaves none out.
Candidates(s, e) ==
    {r \in Owned[s] : HostOf[r] = HostOf[e.ref] /\ ExitOf[r] = e.exit}

Consult(s, a) ==
    /\ wanted[s][a] = NoRow
    /\ \E e \in Preferences(s, a) :
         /\ Usable(s, e)
         /\ wanted' = [wanted EXCEPT ![s][a] = e]
    /\ UNCHANGED <<journal, native, applied, late>>

Apply(s, a) ==
    /\ wanted[s][a] # NoRow
    /\ \E r \in Candidates(s, wanted[s][a]) : native' = [native EXCEPT ![s][a] = r]
    /\ applied' = [applied EXCEPT ![s][a] = wanted[s][a]]
    /\ wanted' = [wanted EXCEPT ![s][a] = NoRow]
    /\ UNCHANGED <<journal, late>>

\* No candidate, none of them works now, no capacity, or the process stops.
Decline(s, a) ==
    /\ wanted[s][a] # NoRow
    /\ wanted' = [wanted EXCEPT ![s][a] = NoRow]
    /\ UNCHANGED <<journal, native, applied, late>>

-----------------------------------------------------------------------------

Next ==
    \E s \in Service :
        \/ Deliver(s) \/ ServeLate(s) \/ Confirm(s)
        \/ \E a \in Account :
             Move(s, a) \/ Report(s, a) \/ Consult(s, a) \/ Apply(s, a) \/ Decline(s, a)

Spec == RebindInit /\ [][Next]_vars

-----------------------------------------------------------------------------
(* What the two services may rely on.                                      *)

\* The variables' types; a connection uses only the service's own proxies.
TypeOK ==
    /\ preferred \in [Service -> [Account -> Event \cup {NoRow}]]
    /\ observed \in [Service -> [Account -> Binding \cup {NoRow}]]
    /\ seen \in [Service -> Seq(Event)]
    /\ outbox \in [Service -> SUBSET [rowid : Nat, event : Event]]
    /\ \A s \in Service, a \in Account :
         /\ native[s][a] \in Owned[s]
         /\ applied[s][a] \in Event \cup {NoRow}
         /\ wanted[s][a] \in Event \cup {NoRow}
    /\ late \subseteq Event

Echoes(s, a) ==
    /\ applied[s][a] # NoRow
    /\ preferred'[s][a] # preferred[s][a]
    /\ preferred'[s][a].source = s

(***************************************************************************)
(* "Publish committed native changes; applying a peer preference produces  *)
(* no echo" (bindings.py:116): while a connection uses what the peer       *)
(* preferred, its service publishes nothing for the account.               *)
(***************************************************************************)
NoEcho == [][\A s \in Service, a \in Account : ~Echoes(s, a)]_vars

(***************************************************************************)
(* There is an echo only if the service's own journal holds something      *)
(* newer than the preference that was applied, or has not received it yet  *)
(* (it was read from the peer's journal), or if the probe of the exit      *)
(* failed when the binding was reported (bindings.py:126-137).             *)
(***************************************************************************)
EchoOnlyWhenOvertaken ==
    [][\A s \in Service, a \in Account :
         Echoes(s, a) =>
             preferred[s][a] # applied[s][a] \/ preferred'[s][a].exit = NoExit]_vars

\* A consumer of s would still move the account to another exit.
WouldFollow(s, a) ==
    \E e \in Preferences(s, a) :
        /\ Usable(s, e)
        /\ Candidates(s, e) # {}
        /\ ExitOf[native[s][a]] # e.exit

\* All is delivered, reported with its exit and followed where it can be.
Settled(a) ==
    \A s \in Service :
        /\ \A e \in Queued(s) : e.account # a
        /\ observed[s][a] = [ref |-> native[s][a], exit |-> ExitOf[native[s][a]]]
        /\ wanted[s][a] = NoRow
        /\ ~WouldFollow(s, a)

SameExit(a) == ExitOf[native[0][a]] = ExitOf[native[1][a]]

\* The other service has a proxy with the exit the preference leads to.
Possible(a) ==
    LET e == preferred[0][a]
        leads == IF e.exit = NoExit THEN [e EXCEPT !.exit = ExitOf[e.ref]] ELSE e
    IN  Candidates(Peer(e.source), leads) # {}

(***************************************************************************)
(* When nothing is left to do for an account, both services use the same   *)
(* exit for it, or the preference was published without an exit, or the    *)
(* other service has no such proxy: whoever moved, read, reported or       *)
(* committed in whatever order, and whatever replaced or late events come  *)
(* in between, no preference has been lost on the way.                     *)
(***************************************************************************)
SettledOnOneExit ==
    \A a \in Account :
        Settled(a) => SameExit(a) \/ ~Possible(a) \/ preferred[0][a].exit = NoExit

(***************************************************************************)
(* "Reuse one proxy exit for the same native Telegram identity where       *)
(* possible" (.agents/tasks/work-shared-proxy-bindings-20261006.md:5): as  *)
(* above, when both services know the exits they use.                      *)
(***************************************************************************)
OneExitWherePossible ==
    \A a \in Account : Settled(a) => SameExit(a) \/ ~Possible(a)
=============================================================================
