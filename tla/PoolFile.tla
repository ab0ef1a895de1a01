------------------------------ MODULE PoolFile ------------------------------
(***************************************************************************)
(* The file a pool or an export is kept in (write_private_text in          *)
(* storage.py, FileProxyPool in pool.py), step by step: the text goes into *)
(* a temporary file of the same directory, which then takes the target's   *)
(* name.  Several processes may write; readers open the target at any time *)
(* and read what they opened; a writer may fail or stop anywhere.          *)
(*                                                                         *)
(* mkstemp draws a name at random and never one that exists; names are     *)
(* taken to be new each time, so that a writer's temporary is its own.     *)
(***************************************************************************)
EXTENDS Integers, Sequences, SequencesExt

CONSTANTS
    Writer,
    Reader,
    MaxText        \* bound: texts written

ASSUME FileAssumption == MaxText \in Nat

\* Texts are numbered in the order they are asked for; 0 is the text of a
\* file that does not exist, for which load() returns no proxies.
Text == 1..MaxText
NoFile == [text |-> 0, whole |-> TRUE]
Content == [text : Text, whole : BOOLEAN] \cup {NoFile}

VARIABLES
    target,        \* the file under its name
    temp,          \* [writer]: its temporary file, or NoFile
    litter,        \* temporaries whose writer has stopped
    writer,        \* [writer]: the write under way
    reader,        \* [reader]: what it has opened and is reading
    installed,     \* history: the texts that have been the target, in order
    asked          \* history: texts asked for so far

files == <<target, temp, litter, installed>>
fileVars == <<files, writer, reader, asked>>

Resting == [step |-> "idle", text |-> 0]
Closed == [open |-> FALSE, content |-> NoFile]

FileInit ==
    /\ target = NoFile
    /\ temp = [w \in Writer |-> NoFile]
    /\ litter = {}
    /\ writer = [w \in Writer |-> Resting]
    /\ reader = [r \in Reader |-> Closed]
    /\ installed = <<>>
    /\ asked = 0

-----------------------------------------------------------------------------
(* write_private_text                                                      *)

\* A slip: the target itself is opened for writing.
CreateInPlace(w) ==
    /\ writer[w].step = "idle"
    /\ asked < MaxText
    /\ asked' = asked + 1
    /\ writer' = [writer EXCEPT ![w] = [step |-> "created", text |-> asked']]
    /\ temp' = [temp EXCEPT ![w] = [text |-> asked', whole |-> FALSE]]
    /\ target' = temp'[w]
    /\ UNCHANGED <<litter, installed, reader>>

\* mkstemp and fchmod: an empty file that only the owner may read.
Create(w) ==
    /\ writer[w].step = "idle"
    /\ asked < MaxText
    /\ asked' = asked + 1
    /\ writer' = [writer EXCEPT ![w] = [step |-> "created", text |-> asked']]
    /\ temp' = [temp EXCEPT ![w] = [text |-> asked', whole |-> FALSE]]
    /\ UNCHANGED <<target, litter, installed, reader>>

\* output.write and the close that flushes it.
Fill(w) ==
    /\ writer[w].step = "created"
    /\ writer' = [writer EXCEPT ![w].step = "filled"]
    /\ temp' = [temp EXCEPT ![w] = [text |-> writer[w].text, whole |-> TRUE]]
    /\ UNCHANGED <<target, litter, installed, reader, asked>>

\* os.replace; the unlink that follows finds nothing.
Replace(w) ==
    /\ writer[w].step = "filled"
    /\ target' = temp[w]
    /\ temp' = [temp EXCEPT ![w] = NoFile]
    /\ installed' = Append(installed, writer[w].text)
    /\ writer' = [writer EXCEPT ![w].step = "replaced"]
    /\ UNCHANGED <<litter, reader, asked>>

\* Slips: an error leaves the temporary where it is; a return in the finally
\* clause hides the error from the caller.
FailUncleaned(w) ==
    /\ writer[w].step \in {"created", "filled"}
    /\ writer' = [writer EXCEPT ![w] = Resting]
    /\ UNCHANGED <<files, reader, asked>>
FailSilently(w) ==
    /\ writer[w].step \in {"created", "filled"}
    /\ temp' = [temp EXCEPT ![w] = NoFile]
    /\ writer' = [writer EXCEPT ![w].step = "replaced"]
    /\ UNCHANGED <<target, litter, installed, reader, asked>>

\* A step raises (no space, no permission): the temporary is unlinked and
\* the error goes to the caller.
Fail(w) ==
    /\ writer[w].step \in {"created", "filled"}
    /\ temp' = [temp EXCEPT ![w] = NoFile]
    /\ writer' = [writer EXCEPT ![w] = Resting]
    /\ UNCHANGED <<target, litter, installed, reader, asked>>

\* The process stops: nothing is unlinked.
Stop(w) ==
    /\ writer[w].step # "idle"
    /\ litter' = litter \cup ({temp[w]} \ {NoFile})
    /\ temp' = [temp EXCEPT ![w] = NoFile]
    /\ writer' = [writer EXCEPT ![w] = Resting]
    /\ UNCHANGED <<target, installed, reader, asked>>

-----------------------------------------------------------------------------
(* FileProxyPool.load: read_text opens the file, and reads what it opened. *)

Open(r) ==
    /\ ~reader[r].open
    /\ reader' = [reader EXCEPT ![r] = [open |-> TRUE, content |-> target]]
    /\ UNCHANGED <<files, writer, asked>>

Read(r) ==
    /\ reader[r].open
    /\ reader' = [reader EXCEPT ![r] = Closed]
    /\ UNCHANGED <<files, writer, asked>>

-----------------------------------------------------------------------------
(***************************************************************************)
(* With the temporaries hidden, the file is an AtomicFile: a write happens *)
(* at once or not at all, wherever its writer fails or stops, and whoever  *)
(* opens the file finds one whole text (storage.py:9-19, pool.py:80-84).   *)
(***************************************************************************)
Seen(content) == IF content.whole THEN content.text ELSE MaxText + 1

Atomic == INSTANCE AtomicFile WITH
    Empty <- 0,
    file <- Seen(target),
    asked <- [w \in Writer |-> writer[w].text],
    written <- {w \in Writer : writer[w].step \notin {"idle", "created", "filled"}},
    held <- [r \in Reader |-> Seen(reader[r].content)]

ImplementsAtomicFile == Atomic!Spec

(***************************************************************************)
(* Every temporary has a writer at work on it; only a process that was     *)
(* stopped leaves one behind (storage.py:15-19).                           *)
(***************************************************************************)
NothingLeftBehind ==
    \A w \in Writer :
        temp[w] # NoFile => /\ writer[w].step \in {"created", "filled"}
                            /\ temp[w].text = writer[w].text
=============================================================================
