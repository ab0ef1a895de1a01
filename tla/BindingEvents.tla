--------------------------- MODULE BindingEvents ---------------------------
(***************************************************************************)
(* Binding events and their versions (BindingEvent in bindings.py), shared *)
(* by the journals and by the abstract specification of what they promise. *)
(***************************************************************************)
EXTENDS Integers

CONSTANTS
    Account,       \* native Telegram user ids
    Ref,           \* credential-free proxy references (public_proxy_ref)
    Exit,          \* verified public exit addresses
    NoExit,        \* exit_ip is None: the exit is not verified
    NoRow          \* SELECT ... fetchone() found nothing

(***************************************************************************)
(* The two services.  Versions compare as the tuples (revision, source),   *)
(* so a service is numbered by the order of its source name: of the names  *)
(* in the tests, "autosell" is 0 and "tgc" is 1.                           *)
(***************************************************************************)
Service == {0, 1}
Peer(s) == 1 - s

(***************************************************************************)
(* A binding event.  Its idempotency key is the SHA-256 of all its fields, *)
(* so the event itself stands for its key.                                 *)
(***************************************************************************)
Event == [account : Account, source : Service, revision : Nat \ {0},
          ref : Ref, exit : Exit \cup {NoExit}]

\* BindingEvent.version, compared as a tuple.
Older(e, f) ==
    \/ e.revision < f.revision
    \/ e.revision = f.revision /\ e.source < f.source

\* "old and old.version >= event.version": the row is not older than e.
Covers(row, e) == row # NoRow /\ ~Older(row, e)

\* A slip: the next event keeps the revision of the one it replaces.
NextRevisionKept(desired) == IF desired = NoRow THEN 1 ELSE desired.revision

\* desired.revision + 1 if desired else 1
NextRevision(desired) == IF desired = NoRow THEN 1 ELSE desired.revision + 1

NewEvent(desired, s, a, r, x) ==
    [account |-> a, source |-> s, revision |-> NextRevision(desired),
     ref |-> r, exit |-> x]
=============================================================================
