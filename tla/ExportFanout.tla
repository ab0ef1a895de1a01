---------------------------- MODULE ExportFanout ----------------------------
(***************************************************************************)
(* A producer replaces its export and tells its consumers (notify_targets  *)
(* in notifications.py); a consumer that has been told loads the export.   *)
(* A consumer may be down, hang or answer with an error; the others are to *)
(* be told all the same, and what they then load is no older than what was *)
(* announced.  The producer's order of work is the application's.          *)
(***************************************************************************)
EXTENDS PoolFile

CONSTANTS
    Broken,        \* consumers that may fail or hang
    Concurrent     \* producers that pass concurrent=True to notify_targets

ASSUME FanoutAssumption ==
    /\ Broken \subseteq Reader
    /\ Concurrent \subseteq Writer

VARIABLES
    sending,       \* [writer][consumer]: its request in this fan-out
    told           \* [consumer]: texts announced to it and not looked at yet

vars == <<fileVars, sending, told>>

Unsent == [r \in Reader |-> "unsent"]

Init ==
    /\ FileInit
    /\ sending = [w \in Writer |-> Unsent]
    /\ told = [r \in Reader |-> {}]

Answered(w) == {r \in Reader : sending[w][r] \in {"sent", "failed"}}

\* The write has returned; notify_targets begins.
Announce(w) ==
    /\ writer[w].step = "replaced"
    /\ writer' = [writer EXCEPT ![w].step = "notifying"]
    /\ sending' = [sending EXCEPT ![w] = Unsent]
    /\ UNCHANGED <<files, reader, asked, told>>

\* _send posts to consumer r; the next one waits for its answer unless the
\* sends are concurrent.
Send(w, r) ==
    /\ writer[w].step = "notifying"
    /\ sending[w][r] = "unsent"
    /\ w \in Concurrent \/ \A q \in Reader : sending[w][q] \in {"unsent", "sent", "failed"}
    /\ sending' = [sending EXCEPT ![w][r] = "posted"]
    /\ UNCHANGED <<fileVars, told>>

\* The consumer's callback is called.
Hear(w, r) ==
    /\ sending[w][r] = "posted"
    /\ sending' = [sending EXCEPT ![w][r] = "heard"]
    /\ told' = [told EXCEPT ![r] = @ \cup {writer[w].text}]
    /\ UNCHANGED fileVars

\* Its status is below 400.
Accept(w, r) ==
    /\ sending[w][r] = "heard"
    /\ sending' = [sending EXCEPT ![w][r] = "sent"]
    /\ UNCHANGED <<fileVars, told>>

\* Slips: the first error ends the fan-out; a request has no timeout.
RejectAll(w, r) ==
    /\ r \in Broken
    /\ sending[w][r] \in {"posted", "heard"}
    /\ sending' = [sending EXCEPT ![w][r] = "failed"]
    /\ writer' = [writer EXCEPT ![w] = Resting]
    /\ UNCHANGED <<files, reader, asked, told>>
RejectNever(w, r) == FALSE /\ UNCHANGED vars

\* Any exception of _send: no connection, a timeout, an error status.
Reject(w, r) ==
    /\ r \in Broken
    /\ sending[w][r] \in {"posted", "heard"}
    /\ sending' = [sending EXCEPT ![w][r] = "failed"]
    /\ UNCHANGED <<fileVars, told>>

\* All have been answered: NotificationResult is returned.
Return(w) ==
    /\ writer[w].step = "notifying"
    /\ Answered(w) = Reader
    /\ writer' = [writer EXCEPT ![w] = Resting]
    /\ UNCHANGED <<files, reader, asked, sending, told>>

StopProducer(w) ==
    /\ Stop(w)
    /\ sending' = [sending EXCEPT ![w] = Unsent]
    /\ UNCHANGED told

\* A consumer loads the export: because it was told, or by its timer.
Look(r) ==
    /\ Open(r)
    /\ told' = [told EXCEPT ![r] = {}]
    /\ UNCHANGED sending

Next ==
    \/ \E w \in Writer :
         \/ Create(w) /\ UNCHANGED <<sending, told>>
         \/ Fill(w) /\ UNCHANGED <<sending, told>>
         \/ Replace(w) /\ UNCHANGED <<sending, told>>
         \/ Fail(w) /\ UNCHANGED <<sending, told>>
         \/ StopProducer(w) \/ Announce(w) \/ Return(w)
         \/ \E r \in Reader : Send(w, r) \/ Hear(w, r) \/ Accept(w, r) \/ Reject(w, r)
    \/ \E r \in Reader :
         \/ Look(r)
         \/ Read(r) /\ UNCHANGED <<sending, told>>

(***************************************************************************)
(* The event loop of a producer goes on, its requests time out, and the    *)
(* consumers that are not broken answer.                                   *)
(***************************************************************************)
FanoutStep(w) ==
    \/ Announce(w) \/ Return(w)
    \/ \E r \in Reader : Send(w, r) \/ Reject(w, r)
    \/ \E r \in Reader \ Broken : Hear(w, r) \/ Accept(w, r)

Fairness == \A w \in Writer : WF_vars(FanoutStep(w))

Spec == Init /\ [][Next]_vars /\ Fairness

-----------------------------------------------------------------------------
\* The types of the variables.
Types ==
    /\ target \in Content
    /\ temp \in [Writer -> Content]
    /\ litter \subseteq Content
    /\ writer \in [Writer -> [step : {"idle", "created", "filled", "replaced", "notifying"},
                              text : 0..MaxText]]
    /\ reader \in [Reader -> [open : BOOLEAN, content : Content]]
    /\ installed \in Seq(Text)
    /\ asked \in 0..MaxText
    /\ sending \in [Writer -> [Reader -> {"unsent", "posted", "heard", "sent", "failed"}]]
    /\ told \in [Reader -> SUBSET Text]

\* The values the variables range over, and when a temporary and a request
\* exist.
TypeOK ==
    /\ Types
    /\ NothingLeftBehind
    /\ \A w \in Writer, r \in Reader :
         sending[w][r] \in {"posted", "heard"} => writer[w].step = "notifying"

(***************************************************************************)
(* A consumer is never told too early: what was announced to it is the     *)
(* export, or has been and was replaced since, so a load that begins after *)
(* the call returns the announced text or a later one.                     *)
(***************************************************************************)
AnnouncedIsThere ==
    \A r \in Reader : told[r] # {} =>
        /\ told[r] \subseteq ToSet(installed)
        /\ target = [text |-> Last(installed), whole |-> TRUE]

(***************************************************************************)
(* The failure of one consumer costs no other its notification: a fan-out  *)
(* that ends has been accepted by every consumer that works                *)
(* (notifications.py:107-116).                                             *)
(***************************************************************************)
OthersAreTold ==
    \A w \in Writer :
        (writer[w].step = "idle" /\ sending[w] # Unsent) =>
            \A r \in Reader \ Broken : sending[w][r] = "sent"

\* A fan-out ends, even if a consumer hangs (notifications.py:91, 114).
FanoutEnds == \A w \in Writer : []<>(writer[w].step # "notifying")
=============================================================================
