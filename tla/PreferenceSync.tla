--------------------------- MODULE PreferenceSync ---------------------------
(***************************************************************************)
(* What the binding exchange promises, without journals, requests or       *)
(* retries: each service has one preference per account; it moves on by    *)
(* the service's own choice, or by taking over something the peer chose,   *)
(* and never back.  BindingExchange implements this specification.         *)
(***************************************************************************)
EXTENDS BindingEvents

VARIABLE pref      \* [service][account]: the preferred event, or NoRow

Init == pref = [s \in Service |-> [a \in Account |-> NoRow]]

\* The service's native binding changed: a choice newer than what it knew.
Choose(s, a) ==
    \E r \in Ref, x \in Exit \cup {NoExit} :
        pref' = [pref EXCEPT ![s][a] = NewEvent(pref[s][a], s, a, r, x)]

(***************************************************************************)
(* What the peer can have chosen, given what it prefers now: its present   *)
(* choice, or an earlier one.                                              *)
(***************************************************************************)
Chosen(p, a) ==
    IF pref[p][a] = NoRow THEN {}
    ELSE {e \in [account : {a}, source : {p}, revision : 1..pref[p][a].revision,
                 ref : Ref, exit : Exit \cup {NoExit}] :
            e = pref[p][a] \/ Older(e, pref[p][a])}

\* The peer's choice replaces an older preference.
Adopt(s, a) ==
    \E e \in Chosen(Peer(s), a) :
        /\ ~Covers(pref[s][a], e)
        /\ pref' = [pref EXCEPT ![s][a] = e]

Next == \E s \in Service, a \in Account : Choose(s, a) \/ Adopt(s, a)

Spec == Init /\ [][Next]_pref
=============================================================================
