----------------------------- MODULE AtomicFile -----------------------------
(***************************************************************************)
(* What a private text file promises its users, without temporaries: a     *)
(* write happens at one moment between its call and its return, or not at  *)
(* all; a reader gets what the file held at one moment.                    *)
(***************************************************************************)
CONSTANTS Writer, Reader, Text, Empty

VARIABLES
    file,          \* the text, or Empty where there is no file yet
    asked,         \* [writer]: the text it is to write, or Empty
    written,       \* writers whose text has been in the file since they asked
    held           \* [reader]: the text it is reading, or Empty

vars == <<file, asked, written, held>>

Init ==
    /\ file = Empty
    /\ asked = [w \in Writer |-> Empty]
    /\ written = {}
    /\ held = [r \in Reader |-> Empty]

Ask(w) ==
    /\ asked[w] = Empty
    /\ \E t \in Text : asked' = [asked EXCEPT ![w] = t]
    /\ UNCHANGED <<file, written, held>>

Write(w) ==
    /\ asked[w] # Empty
    /\ w \notin written
    /\ file' = asked[w]
    /\ written' = written \cup {w}
    /\ UNCHANGED <<asked, held>>

\* A return, an error or a stop: with the text in the file, or without.
End(w) ==
    /\ asked[w] # Empty
    /\ asked' = [asked EXCEPT ![w] = Empty]
    /\ written' = written \ {w}
    /\ UNCHANGED <<file, held>>

Read(r) ==
    /\ held' = [held EXCEPT ![r] = file]
    /\ UNCHANGED <<file, asked, written>>

Close(r) ==
    /\ held' = [held EXCEPT ![r] = Empty]
    /\ UNCHANGED <<file, asked, written>>

Next ==
    \/ \E w \in Writer : Ask(w) \/ Write(w) \/ End(w)
    \/ \E r \in Reader : Read(r) \/ Close(r)

Spec == Init /\ [][Next]_vars
=============================================================================
