-------------------------- MODULE AccountSelection --------------------------
(***************************************************************************)
(* select_account_proxy (account_selection.py), called for several         *)
(* accounts at once.  Each call tries the account's present proxy, then    *)
(* the free exits it was given; a proxy is validated, and bound only if    *)
(* the exit is still free then.  Between any two awaits the other calls    *)
(* go on, proxies fail or recover, and the call may be cancelled.          *)
(*                                                                         *)
(* validate, bind and report_failure are the application's.  Of bind the   *)
(* code requires that it persists the binding atomically, and only while   *)
(* the exit has room; of the verdict, that it tells a dead proxy from an   *)
(* account that cannot be used.                                            *)
(***************************************************************************)
EXTENDS FreeExits, FiniteSets

CONSTANTS
    Account,
    Callers,       \* bound: accounts that select; the others only hold a row
    Pool,          \* the proxies, in the order of the pool file
    ExitOf,        \* the physical exit of each proxy
    Unmapped,      \* proxies whose exit the application cannot tell
    BusyExits,     \* exits the peer project uses
    MaxAccounts,   \* accounts that may share an exit
    Limit,         \* candidates tried at most
    Nothing        \* None

Proxy == ToSet(Pool)
Exits == {ExitOf[p] : p \in Proxy}

ASSUME SelectionAssumption ==
    /\ IsFiniteSet(Account)
    /\ Pool \in Seq(Proxy)
    /\ \A i, j \in DOMAIN Pool : Pool[i] = Pool[j] => i = j
    /\ DOMAIN ExitOf = Proxy
    /\ Callers \subseteq Account
    /\ Unmapped \subseteq Proxy
    /\ MaxAccounts \in Nat \ {0}
    /\ Limit \in Nat \ {0}
    /\ Nothing \notin Proxy \cup Exits

VARIABLES
    works,         \* proxies a validation finds good now
    bound,         \* [account]: its row in the application's database
    using,         \* [account]: the proxy its connection was given
    call           \* [account]: the select_account_proxy() under way

vars == <<works, bound, using, call>>

(***************************************************************************)
(* Of a call: where it is, the proxy it tries, what is left of its route,  *)
(* and what it has seen.  Two fields are history only: the proxies it has  *)
(* found bad, and those of its route that have been good, and had room for *)
(* the account, ever since it began.                                       *)
(***************************************************************************)
Idle == [step |-> "idle", proxy |-> Nothing, rest |-> <<>>, seen |-> {},
         failed |-> {}, steady |-> {}]

\* none: the last call has raised NoAccountProxy.
Resting == {"idle", "none"}

Load(p) == Cardinality({a \in Account : bound[a] = p})

\* The exit of p has room for account a, which may be there already.
Room(rows, a, p) ==
    Cardinality({b \in Account \ {a} : rows[b] # Nothing /\ ExitOf[rows[b]] = ExitOf[p]})
        < MaxAccounts

\* The rows may be left from before the application started.
Init ==
    /\ works = Proxy
    /\ bound \in [Account -> (Proxy \ Unmapped) \cup {Nothing}]
    /\ \A a \in Account : bound[a] # Nothing => Room(bound, a, bound[a])
    /\ using = [a \in Account |-> Nothing]
    /\ call = [a \in Account |-> Idle]

\* The calls after a step that leads to these good proxies and these rows.
Witnessed(calls, good, rows) ==
    [a \in Account |->
        [calls[a] EXCEPT !.steady = {p \in @ : p \in good /\ Room(rows, a, p)}]]

\* A slip: the candidates come before the present proxy.
CurrentLast(a, candidates) == candidates \o <<bound[a]>>

CurrentFirst(a, candidates) == <<bound[a]>> \o candidates

Route(a) ==
    CurrentFirst(a, FreeExitCandidates(Pool, [p \in Proxy |-> Load(p)],
        [p \in Proxy |-> IF p \in Unmapped THEN Nothing ELSE ExitOf[p]],
        Nothing, BusyExits, MaxAccounts, Limit))

\* Where in its route a call finds a proxy it has not tried.
Untried(route, seen) == {i \in DOMAIN route : route[i] \notin seen \cup {Nothing}}

\* A slip: what was tried is not remembered.
TurnAgain(c) ==
    LET left == Untried(c.rest, {})
    IN  IF left = {} THEN [c EXCEPT !.step = "none", !.proxy = Nothing, !.rest = <<>>]
        ELSE [c EXCEPT !.step = "validating", !.proxy = c.rest[Min(left)],
                       !.rest = SubSeq(@, Min(left) + 1, Len(@))]

\* The next turn of the loop: the first entry that is a proxy not yet seen.
Turn(c) ==
    LET left == Untried(c.rest, c.seen)
        next == c.rest[Min(left)]
    IN  IF left = {} THEN [Idle EXCEPT !.step = "none", !.steady = c.steady]
        ELSE [c EXCEPT !.step = "validating", !.proxy = next, !.seen = @ \cup {next},
                       !.rest = SubSeq(@, Min(left) + 1, Len(@))]

Start(a) ==
    /\ a \in Callers
    /\ call[a].step \in Resting
    /\ LET route == Route(a)
           good == {p \in ToSet(route) : p \in works /\ Room(bound, a, p)}
       IN  call' = [call EXCEPT ![a] = Turn([Idle EXCEPT !.rest = route, !.steady = good])]
    /\ using' = [using EXCEPT ![a] = Nothing]
    /\ UNCHANGED <<works, bound>>

\* await validate(proxy) returns: the proxy is good.
Validated(a) ==
    /\ call[a].step = "validating"
    /\ call[a].proxy \in works
    /\ call' = [call EXCEPT ![a].step = "binding"]
    /\ UNCHANGED <<works, bound, using>>

\* The proxy is not; report_failure(proxy) begins.
FoundBad(a) ==
    /\ call[a].step = "validating"
    /\ call[a].proxy \notin works
    /\ call' = [call EXCEPT ![a].step = "reporting", ![a].failed = @ \cup {call[a].proxy}]
    /\ UNCHANGED <<works, bound, using>>

Reported(a) ==
    /\ call[a].step = "reporting"
    /\ call' = [call EXCEPT ![a] = Turn(@)]
    /\ UNCHANGED <<works, bound, using>>

\* AccountProxyUnavailable: no other proxy would help.
Unavailable(a) ==
    /\ call[a].step = "validating"
    /\ call' = [call EXCEPT ![a] = Idle]
    /\ UNCHANGED <<works, bound, using>>

\* Slips: what bind returns is not looked at; a lost race ends the loop.
RefusedTaken(c) == [c EXCEPT !.step = "bound"]
RefusedEnds(c) == [Idle EXCEPT !.step = "none", !.steady = c.steady]

\* bind() was False: another account has won the exit.
Refused(c) == Turn(c)

\* await bind(proxy) returns.
Bind(a) ==
    /\ call[a].step = "binding"
    /\ IF Room(bound, a, call[a].proxy)
       THEN /\ bound' = [bound EXCEPT ![a] = call[a].proxy]
            /\ call' = Witnessed([call EXCEPT ![a].step = "bound"], works, bound')
       ELSE /\ call' = [call EXCEPT ![a] = Refused(@)]
            /\ UNCHANGED bound
    /\ UNCHANGED <<works, using>>

Return(a) ==
    /\ call[a].step = "bound"
    /\ using' = [using EXCEPT ![a] = call[a].proxy]
    /\ call' = [call EXCEPT ![a] = Idle]
    /\ UNCHANGED <<works, bound>>

\* The task is cancelled, or one of the callbacks raises; a committed row
\* stays.
Cancel(a) ==
    /\ call[a].step \notin Resting
    /\ call' = [call EXCEPT ![a] = Idle]
    /\ UNCHANGED <<works, bound, using>>

\* The application gives the account's proxy up.
Release(a) ==
    /\ call[a].step \in Resting
    /\ bound[a] # Nothing
    /\ bound' = [bound EXCEPT ![a] = Nothing]
    /\ using' = [using EXCEPT ![a] = Nothing]
    /\ UNCHANGED <<works, call>>

\* A proxy fails or recovers.
Change(p) ==
    /\ works' = IF p \in works THEN works \ {p} ELSE works \cup {p}
    /\ call' = Witnessed(call, works', bound)
    /\ UNCHANGED <<bound, using>>

Next ==
    \/ \E a \in Account :
         \/ Start(a) \/ Validated(a) \/ FoundBad(a) \/ Reported(a) \/ Unavailable(a)
         \/ Bind(a) \/ Return(a) \/ Cancel(a) \/ Release(a)
    \/ \E p \in Proxy \ Unmapped : Change(p)

Spec == Init /\ [][Next]_vars

-----------------------------------------------------------------------------
\* The values the variables range over; a call has seen what it tries, and
\* tries nothing that it has found bad.
TypeOK ==
    /\ works \subseteq Proxy
    /\ bound \in [Account -> Proxy \cup {Nothing}]
    /\ using \in [Account -> Proxy \cup {Nothing}]
    /\ \A a \in Account :
         /\ call[a].step \in Resting \cup {"validating", "reporting", "binding", "bound"}
         /\ call[a].proxy \in call[a].seen \cup {Nothing}
         /\ call[a].step \in {"validating", "binding", "bound"} =>
              call[a].proxy \notin call[a].failed
         /\ call[a].seen \cup call[a].failed \cup call[a].steady \subseteq Proxy
         /\ call[a].rest \in Seq(Proxy \cup {Nothing})

(***************************************************************************)
(* No exit carries more connections than it may, and every connection uses *)
(* the proxy the database knows, though exits that were free when they     *)
(* were listed and validated are filled by others before bind()            *)
(* (account_selection.py:86-94).                                           *)
(***************************************************************************)
NoSharing ==
    /\ \A a \in Account : using[a] \in {Nothing, bound[a]}
    /\ \A x \in Exits :
         Cardinality({a \in Account : using[a] # Nothing /\ ExitOf[using[a]] = x})
            <= MaxAccounts

(***************************************************************************)
(* An account is moved from one proxy to another only if this very call    *)
(* has found the old one bad; not by a lost race, nor by a call that was   *)
(* cancelled after its bind (account_selection.py:82).                     *)
(***************************************************************************)
MovesOnlyFromTheBad ==
    [][\A a \in Account :
         (bound[a] # Nothing /\ bound'[a] \notin {Nothing, bound[a]})
            => bound[a] \in call[a].failed]_vars

(***************************************************************************)
(* NoAccountProxy is the truth: none of the present proxy and the          *)
(* candidates was good and free from the beginning of the call to its end, *)
(* whichever of them were lost to others or failed on the way.             *)
(***************************************************************************)
NothingFreeIsMissed ==
    \A a \in Account : call[a].step = "none" => call[a].steady = {}

(***************************************************************************)
(* The candidates are the freest there are, and as many as the limit       *)
(* allows: sampling one tier never drops a proxy of lower load, nor adds   *)
(* one of a higher (account_selection.py:45-63).                           *)
(***************************************************************************)
CandidatesAreFreest ==
    \A a \in Account :
        LET offered == Tail(Route(a))
            free == {p \in Proxy \ Unmapped :
                        Load(p) < MaxAccounts /\ ExitOf[p] \notin BusyExits}
        IN  /\ ToSet(offered) \subseteq free
            /\ Cardinality(ToSet(offered)) = Len(offered)
            /\ Len(offered) = IF Cardinality(free) < Limit THEN Cardinality(free) ELSE Limit
            /\ \A p \in ToSet(offered), q \in free \ ToSet(offered) : Load(p) <= Load(q)
=============================================================================
