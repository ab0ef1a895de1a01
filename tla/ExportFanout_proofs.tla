------------------------- MODULE ExportFanout_proofs -------------------------
(***************************************************************************)
(* That an export is replaced as a whole and announced only when it is     *)
(* there, for any producers, consumers and texts, wherever writers fail or *)
(* stop, and that a broken consumer costs the others nothing.              *)
(***************************************************************************)
EXTENDS ExportFanout, TLAPS

(***************************************************************************)
(* The parts of the inductive invariant.  A filled temporary is whole and  *)
(* has its writer's text, and a text that is announced has been installed; *)
(* the target is whole and the text installed last, and whoever reads has  *)
(* a whole text; a consumer is told installed texts only; a producer that  *)
(* is not telling has told nobody yet, or everyone who works.              *)
(***************************************************************************)
WritesAreTold ==
    \A w \in Writer :
        /\ writer[w].text = 0 <=> writer[w].step = "idle"
        /\ writer[w].step = "created" => temp[w] = [text |-> writer[w].text, whole |-> FALSE]
        /\ writer[w].step = "filled" => temp[w] = [text |-> writer[w].text, whole |-> TRUE]
        /\ writer[w].step \in {"replaced", "notifying"} => writer[w].text \in ToSet(installed)

TextsAreWhole ==
    /\ target.whole
    /\ \A r \in Reader : reader[r].content.whole
    /\ installed # <<>> => target = [text |-> Last(installed), whole |-> TRUE]

ToldIsInstalled == \A r \in Reader : told[r] \subseteq ToSet(installed)

SendsAreKnown ==
    \A w \in Writer :
        /\ \A r \in Reader : sending[w][r] \in {"posted", "heard"} => writer[w].step = "notifying"
        /\ \A r \in Reader \ Broken : sending[w][r] # "failed"
        /\ writer[w].step # "notifying" =>
             \/ sending[w] = Unsent
             \/ \A r \in Reader \ Broken : sending[w][r] = "sent"

\* The inductive invariant.
FanoutInv ==
    /\ Types
    /\ NothingLeftBehind
    /\ WritesAreTold
    /\ TextsAreWhole
    /\ ToldIsInstalled
    /\ SendsAreKnown

WriterType == [step : {"idle", "created", "filled", "replaced", "notifying"}, text : 0..MaxText]

-----------------------------------------------------------------------------

\* The values that processes return to are well formed.
LEMMA Beginnings ==
    /\ Resting \in WriterType
    /\ NoFile \in Content /\ NoFile.whole
    /\ Unsent \in [Reader -> {"unsent", "posted", "heard", "sent", "failed"}]
BY FileAssumption DEF Resting, WriterType, NoFile, Content, Unsent

\* What a text that is installed changes in the list of them.
LEMMA Installing ==
    ASSUME NEW s \in Seq(Text), NEW t \in Text
    PROVE  /\ Append(s, t) \in Seq(Text) /\ Append(s, t) # <<>>
           /\ Last(Append(s, t)) = t
           /\ t \in ToSet(Append(s, t))
           /\ ToSet(s) \subseteq ToSet(Append(s, t))
<1>1. /\ Len(Append(s, t)) = Len(s) + 1
      /\ Append(s, t)[Len(s) + 1] = t
      /\ \A i \in 1..Len(s) : Append(s, t)[i] = s[i]
      /\ DOMAIN s = 1..Len(s) /\ DOMAIN Append(s, t) = 1..(Len(s) + 1)
      /\ Len(s) \in Nat
  OBVIOUS
<1>2. Append(s, t) \in Seq(Text)
  OBVIOUS
<1>3. Append(s, t) # <<>>
  BY <1>1
<1>4. Last(Append(s, t)) = t
  BY <1>1 DEF Last
<1>5. t \in ToSet(Append(s, t))
  BY <1>1 DEF ToSet
<1>6. ToSet(s) \subseteq ToSet(Append(s, t))
  BY <1>1 DEF ToSet
<1> QED
  BY <1>2, <1>3, <1>4, <1>5, <1>6

\* A writer's own steps.
LEMMA WritingPreserves ==
    ASSUME FanoutInv, NEW w \in Writer, UNCHANGED <<sending, told>>,
           Create(w) \/ Fill(w) \/ Replace(w) \/ Fail(w)
    PROVE  FanoutInv'
<1>1. CASE Create(w)
  <2>1. asked' \in Text /\ asked' \in 0..MaxText /\ asked' # 0
    BY <1>1, FileAssumption DEF Create, FanoutInv, Types, Text
  <2>2. NothingLeftBehind'
    BY <1>1, <2>1 DEF Create, FanoutInv, Types, NothingLeftBehind, NoFile
  <2>3. Types'
    BY <1>1, <2>1, <2>2 DEF Create, FanoutInv, Types, Content, Text
  <2>4. WritesAreTold'
    BY <1>1, <2>1 DEF Create, FanoutInv, Types, WritesAreTold
  <2>5. TextsAreWhole' /\ ToldIsInstalled'
    BY <1>1 DEF Create, FanoutInv, Types, TextsAreWhole, ToldIsInstalled
  <2>6. SendsAreKnown'
    BY <1>1 DEF Create, FanoutInv, Types, SendsAreKnown
  <2> QED
    BY <2>2, <2>3, <2>4, <2>5, <2>6 DEF FanoutInv
<1>2. CASE Fill(w)
  <2>1. /\ temp[w] = [text |-> writer[w].text, whole |-> FALSE]
        /\ writer[w].step = "created" /\ writer[w].text \in Text
    BY <1>2, FileAssumption DEF Fill, FanoutInv, Types, WritesAreTold, Text
  <2> DEFINE full == [text |-> writer[w].text, whole |-> TRUE]
  <2>2. full \in Content
    BY <2>1 DEF Content
  <2>3. temp' = [temp EXCEPT ![w] = full]
    BY <1>2 DEF Fill
  <2>4. writer' = [writer EXCEPT ![w] = [step |-> "filled", text |-> writer[w].text]]
    <3>1. writer[w] \in WriterType
      BY DEF FanoutInv, Types, WriterType
    <3>2. [writer[w] EXCEPT !.step = "filled"] = [step |-> "filled", text |-> writer[w].text]
      BY <3>1 DEF WriterType
    <3> QED
      BY <1>2, <3>2 DEF Fill
  <2>5. UNCHANGED <<target, litter, installed, reader, asked, sending, told>>
    BY <1>2 DEF Fill
  <2>6. full.text = writer[w].text
    OBVIOUS
  <2>7. Types'
    <3> HIDE DEF full
    <3>1. temp' \in [Writer -> Content]
      BY <2>2, <2>3 DEF FanoutInv, Types
    <3>2. writer' \in [Writer -> WriterType]
      BY <2>4 DEF FanoutInv, Types, WriterType
    <3> QED
      BY <2>5, <3>1, <3>2 DEF FanoutInv, Types, WriterType
  <2>8. NothingLeftBehind'
    <3> HIDE DEF full
    <3> QED
      BY <2>3, <2>4, <2>6 DEF FanoutInv, Types, NothingLeftBehind
  <2>9. WritesAreTold'
    BY <2>1, <2>3, <2>4, <2>5 DEF FanoutInv, Types, WritesAreTold
  <2>10. TextsAreWhole' /\ ToldIsInstalled'
    BY <2>5 DEF FanoutInv, TextsAreWhole, ToldIsInstalled
  <2>11. SendsAreKnown'
    BY <2>1, <2>4, <2>5 DEF FanoutInv, Types, SendsAreKnown
  <2> QED
    BY <2>7, <2>8, <2>9, <2>10, <2>11 DEF FanoutInv
<1>3. CASE Replace(w)
  <2>1. /\ temp[w] = [text |-> writer[w].text, whole |-> TRUE]
        /\ writer[w].text \in Text /\ installed \in Seq(Text)
        /\ temp[w] \in Content
    BY <1>3 DEF Replace, FanoutInv, Types, WritesAreTold, Content, Text
  <2>2. /\ installed' \in Seq(Text) /\ installed' # <<>>
        /\ Last(installed') = writer[w].text
        /\ writer[w].text \in ToSet(installed')
        /\ ToSet(installed) \subseteq ToSet(installed')
    BY <1>3, <2>1, Installing DEF Replace
  <2>3. NothingLeftBehind'
    BY <1>3 DEF Replace, FanoutInv, Types, NothingLeftBehind, NoFile
  <2>4. Types'
    BY <1>3, <2>1, <2>2, <2>3 DEF Replace, FanoutInv, Types, Content
  <2>5. WritesAreTold'
    BY <1>3, <2>2 DEF Replace, FanoutInv, Types, WritesAreTold
  <2>6. TextsAreWhole' /\ ToldIsInstalled'
    BY <1>3, <2>1, <2>2 DEF Replace, FanoutInv, Types, TextsAreWhole, ToldIsInstalled
  <2>7. SendsAreKnown'
    BY <1>3 DEF Replace, FanoutInv, Types, SendsAreKnown
  <2> QED
    BY <2>3, <2>4, <2>5, <2>6, <2>7 DEF FanoutInv
<1>4. CASE Fail(w)
  <2>0. NothingLeftBehind'
    BY <1>4 DEF Fail, FanoutInv, Types, NothingLeftBehind
  <2>1. Types'
    BY <1>4, Beginnings DEF Fail, FanoutInv, Types, WriterType
  <2>2. WritesAreTold'
    BY <1>4 DEF Fail, FanoutInv, Types, WritesAreTold, Resting
  <2>3. TextsAreWhole' /\ ToldIsInstalled'
    BY <1>4 DEF Fail, FanoutInv, TextsAreWhole, ToldIsInstalled
  <2>4. SendsAreKnown'
    BY <1>4 DEF Fail, FanoutInv, Types, SendsAreKnown, Resting
  <2> QED
    BY <2>0, <2>1, <2>2, <2>3, <2>4 DEF FanoutInv
<1> QED
  BY <1>1, <1>2, <1>3, <1>4

\* A producer that is stopped, and its fan-out, step by step.
LEMMA TellingPreserves ==
    ASSUME FanoutInv, NEW w \in Writer,
           \/ StopProducer(w) \/ Announce(w) \/ Return(w)
           \/ \E r \in Reader : Send(w, r) \/ Hear(w, r) \/ Accept(w, r) \/ Reject(w, r)
    PROVE  FanoutInv'
<1> USE DEF FanoutInv
<1>1. CASE StopProducer(w)
  <2>0. NothingLeftBehind'
    BY <1>1 DEF StopProducer, Stop, Types, NothingLeftBehind
  <2>1. Types'
    <3>1. writer' \in [Writer -> WriterType] /\ temp' \in [Writer -> Content] /\ litter' \subseteq Content
      BY <1>1, Beginnings DEF StopProducer, Stop, Types, WriterType
    <3>2. sending' \in [Writer -> [Reader -> {"unsent", "posted", "heard", "sent", "failed"}]]
      BY <1>1, Beginnings DEF StopProducer, Types
    <3> QED
      BY <1>1, <3>1, <3>2 DEF StopProducer, Stop, Types, WriterType
  <2>2. WritesAreTold'
    BY <1>1 DEF StopProducer, Stop, Types, WritesAreTold, Resting
  <2>3. TextsAreWhole' /\ ToldIsInstalled'
    BY <1>1 DEF StopProducer, Stop, TextsAreWhole, ToldIsInstalled
  <2>4. SendsAreKnown'
    BY <1>1 DEF StopProducer, Stop, Types, SendsAreKnown, Resting, Unsent
  <2> QED
    BY <2>0, <2>1, <2>2, <2>3, <2>4
<1>2. CASE Announce(w)
  <2>0. NothingLeftBehind'
    BY <1>2 DEF Announce, Types, NothingLeftBehind, files
  <2>1. Types'
    <3>1. writer' \in [Writer -> WriterType]
      BY <1>2 DEF Announce, Types, WriterType
    <3>2. sending' \in [Writer -> [Reader -> {"unsent", "posted", "heard", "sent", "failed"}]]
      BY <1>2, Beginnings DEF Announce, Types
    <3> QED
      BY <1>2, <3>1, <3>2 DEF Announce, Types, WriterType, files
  <2>2. WritesAreTold'
    BY <1>2 DEF Announce, Types, WritesAreTold, files
  <2>3. TextsAreWhole' /\ ToldIsInstalled'
    BY <1>2 DEF Announce, TextsAreWhole, ToldIsInstalled, files
  <2>4. SendsAreKnown'
    BY <1>2 DEF Announce, Types, SendsAreKnown, Unsent
  <2> QED
    BY <2>0, <2>1, <2>2, <2>3, <2>4
<1>3. CASE Return(w)
  <2>0. NothingLeftBehind'
    BY <1>3 DEF Return, Types, NothingLeftBehind, files
  <2>1. Types'
    BY <1>3, Beginnings DEF Return, Types, WriterType, files
  <2>2. WritesAreTold'
    BY <1>3 DEF Return, Types, WritesAreTold, Resting, files
  <2>3. TextsAreWhole' /\ ToldIsInstalled'
    BY <1>3 DEF Return, TextsAreWhole, ToldIsInstalled, files
  <2>4. SendsAreKnown'
    <3>1. \A r \in Reader \ Broken : sending[w][r] = "sent"
      BY <1>3 DEF Return, Answered, SendsAreKnown
    <3>2. \A r \in Reader : sending[w][r] \notin {"posted", "heard"}
      BY <1>3 DEF Return, Answered
    <3>3. writer' = [writer EXCEPT ![w] = Resting] /\ sending' = sending
      BY <1>3 DEF Return
    <3> QED
      BY <3>1, <3>2, <3>3 DEF Types, SendsAreKnown
  <2> QED
    BY <2>0, <2>1, <2>2, <2>3, <2>4
<1>4. ASSUME NEW r \in Reader, Send(w, r) \/ Accept(w, r) \/ Reject(w, r)
      PROVE  FanoutInv'
  <2>1. PICK state \in {"posted", "sent", "failed"} :
          /\ sending' = [sending EXCEPT ![w][r] = state]
          /\ state = "failed" => r \in Broken
          /\ writer[w].step = "notifying"
    BY <1>4 DEF Send, Accept, Reject, SendsAreKnown
  <2>2. UNCHANGED <<target, temp, litter, installed, writer, reader, asked, told>>
    BY <1>4 DEF Send, Accept, Reject, fileVars, files
  <2>3. SendsAreKnown'
    BY <2>1, <2>2 DEF SendsAreKnown
  <2>4. Types'
    BY <2>1, <2>2 DEF Types, SendsAreKnown, NothingLeftBehind
  <2> QED
    BY <2>2, <2>3, <2>4 DEF NothingLeftBehind, WritesAreTold, TextsAreWhole, ToldIsInstalled
<1>5. ASSUME NEW r \in Reader, Hear(w, r) PROVE FanoutInv'
  <2>1. /\ sending' = [sending EXCEPT ![w][r] = "heard"]
        /\ told' = [told EXCEPT ![r] = @ \cup {writer[w].text}]
        /\ UNCHANGED <<target, temp, litter, installed, writer, reader, asked>>
    BY <1>5 DEF Hear, fileVars, files
  <2>2. writer[w].step = "notifying"
    BY <1>5 DEF Hear, SendsAreKnown
  <2>3. writer[w].text \in Text /\ writer[w].text \in ToSet(installed)
    BY <2>2, FileAssumption DEF Types, WritesAreTold, Text
  <2>4. SendsAreKnown'
    BY <2>1, <2>2 DEF SendsAreKnown
  <2>5. Types'
    BY <2>1, <2>2, <2>3 DEF Types, SendsAreKnown, NothingLeftBehind
  <2>6. ToldIsInstalled'
    BY <2>1, <2>3 DEF ToldIsInstalled, Types
  <2> QED
    BY <2>1, <2>4, <2>5, <2>6 DEF NothingLeftBehind, WritesAreTold, TextsAreWhole
<1> QED
  BY <1>1, <1>2, <1>3, <1>4, <1>5

\* A consumer that loads the export.
LEMMA ReadingPreserves ==
    ASSUME FanoutInv, NEW r \in Reader, Look(r) \/ (Read(r) /\ UNCHANGED <<sending, told>>)
    PROVE  FanoutInv'
<1>1. /\ UNCHANGED <<target, temp, litter, installed, writer, asked, sending>>
      /\ told' \in {told, [told EXCEPT ![r] = {}]}
  BY DEF Look, Open, Read, files
<1>2. /\ reader' \in [Reader -> [open : BOOLEAN, content : Content]]
      /\ \A q \in Reader : reader'[q].content \in {reader[q].content, target, NoFile}
  <2>1. target \in Content /\ reader \in [Reader -> [open : BOOLEAN, content : Content]]
    BY DEF FanoutInv, Types
  <2>2. CASE Look(r)
    BY <2>1, <2>2 DEF Look, Open
  <2>3. CASE Read(r)
    BY <2>1, <2>3, Beginnings DEF Read, Closed
  <2> QED
    BY <2>2, <2>3
<1>3. Types'
  <2>1. told' \in [Reader -> SUBSET Text]
    BY <1>1 DEF FanoutInv, Types
  <2> QED
    BY <1>1, <1>2, <2>1 DEF FanoutInv, Types
<1>4. TextsAreWhole'
  <2>1. \A q \in Reader : reader'[q].content.whole
    BY <1>2, Beginnings DEF FanoutInv, TextsAreWhole
  <2> QED
    BY <1>1, <2>1 DEF FanoutInv, TextsAreWhole
<1>5. ToldIsInstalled'
  BY <1>1 DEF FanoutInv, Types, ToldIsInstalled
<1>6. NothingLeftBehind'
  BY <1>1 DEF FanoutInv, NothingLeftBehind
<1> QED
  BY <1>1, <1>3, <1>4, <1>5, <1>6 DEF FanoutInv, WritesAreTold, SendsAreKnown

\* Every step keeps the invariant.
LEMMA StepPreserves == ASSUME FanoutInv, [Next]_vars PROVE FanoutInv'
<1>1. CASE UNCHANGED vars
  BY <1>1 DEF vars, fileVars, files, FanoutInv, Types, NothingLeftBehind, WritesAreTold, TextsAreWhole,
         ToldIsInstalled, SendsAreKnown
<1>2. CASE Next
  BY <1>2, WritingPreserves, TellingPreserves, ReadingPreserves DEF Next
<1> QED
  BY <1>1, <1>2

\* The parts above hold together in every behaviour, for any producers and
\* consumers (storage.py:7-19, notifications.py:96-116).
THEOREM FanoutInvHolds == Spec => []FanoutInv
<1>1. Init => FanoutInv
  <2> SUFFICES ASSUME Init PROVE FanoutInv
    OBVIOUS
  <2>1. Types /\ NothingLeftBehind
    BY FileAssumption DEF Init, FileInit, Types, NothingLeftBehind, Content, NoFile, Resting, Closed, Unsent, Text
  <2>2. WritesAreTold /\ TextsAreWhole
    BY DEF Init, FileInit, WritesAreTold, TextsAreWhole, NoFile, Resting, Closed
  <2>3. ToldIsInstalled /\ SendsAreKnown
    BY DEF Init, ToldIsInstalled, SendsAreKnown, Unsent
  <2> QED
    BY <2>1, <2>2, <2>3 DEF FanoutInv
<1> QED
  BY <1>1, StepPreserves, PTL DEF Spec

\* The variables keep their types, every temporary has a writer at work on it
\* (storage.py:15-19), and requests exist only in a fan-out.
THEOREM TypeCorrect == Spec => []TypeOK
<1>1. FanoutInv => TypeOK
  BY DEF FanoutInv, TypeOK, SendsAreKnown
<1> QED
  BY <1>1, FanoutInvHolds, PTL

\* Whoever of the consumers fails, a fan-out that ends has been accepted by
\* every one that works (notifications.py:107-116).
THEOREM OthersHear == Spec => []OthersAreTold
<1>1. FanoutInv => OthersAreTold
  BY DEF FanoutInv, SendsAreKnown, OthersAreTold
<1> QED
  BY <1>1, FanoutInvHolds, PTL

\* What is announced to a consumer is in the export, or was and has been
\* replaced (storage.py:14, notifications.py:96).
THEOREM NobodyIsToldEarly == Spec => []AnnouncedIsThere
<1>1. FanoutInv => AnnouncedIsThere
  <2> SUFFICES ASSUME FanoutInv, NEW r \in Reader, told[r] # {}
               PROVE  /\ told[r] \subseteq ToSet(installed)
                      /\ target = [text |-> Last(installed), whole |-> TRUE]
    BY DEF AnnouncedIsThere
  <2>1. told[r] \subseteq ToSet(installed)
    BY DEF FanoutInv, ToldIsInstalled
  <2>2. installed # <<>>
    BY <2>1 DEF ToSet
  <2> QED
    BY <2>1, <2>2 DEF FanoutInv, TextsAreWhole
<1> QED
  BY <1>1, FanoutInvHolds, PTL

-----------------------------------------------------------------------------
(* The refinement.                                                         *)

\* Create asks, Replace writes, and whatever ends a write ends it; readers get
\* what was the target when they opened it.  All other steps are hidden.
LEMMA StepRefines == ASSUME FanoutInv, FanoutInv', [Next]_vars PROVE [Atomic!Next]_(Atomic!vars)
<1> DEFINE asks == [w \in Writer |-> writer[w].text]
           done == {w \in Writer : writer[w].step \notin {"idle", "created", "filled"}}
           holds == [r \in Reader |-> Seen(reader[r].content)]
<1>0. Types /\ WritesAreTold /\ TextsAreWhole /\ NothingLeftBehind
  BY DEF FanoutInv
<1>1. ASSUME NEW w \in Writer, Create(w) PROVE Atomic!Ask(w)
  <2>1. asks[w] = 0 /\ asked' \in Text
    BY <1>0, <1>1, FileAssumption DEF Create, Types, WritesAreTold, Text
  <2>2. asks' = [asks EXCEPT ![w] = asked']
    BY <1>0, <1>1 DEF Create, Types
  <2>3. UNCHANGED <<Seen(target), done, holds>>
    BY <1>0, <1>1 DEF Create, Types
  <2> QED
    BY <2>1, <2>2, <2>3 DEF Atomic!Ask
<1>2. ASSUME NEW w \in Writer, Replace(w) PROVE Atomic!Write(w)
  <2>1. temp[w] = [text |-> writer[w].text, whole |-> TRUE] /\ temp[w] \in Content
    BY <1>0, <1>2 DEF Replace, WritesAreTold, Types
  <2>2. asks[w] # 0 /\ w \notin done
    BY <1>0, <1>2 DEF Replace, WritesAreTold
  <2>3. Seen(target') = asks[w]
    BY <1>2, <2>1 DEF Replace, Seen
  <2>4. done' = done \cup {w}
    BY <1>0, <1>2 DEF Replace, Types
  <2>5. UNCHANGED <<asks, holds>>
    BY <1>0, <1>2 DEF Replace, Types
  <2> QED
    BY <2>2, <2>3, <2>4, <2>5 DEF Atomic!Write
<1>3. ASSUME NEW w \in Writer, Fail(w) \/ Stop(w) \/ Return(w) PROVE Atomic!End(w)
  <2>1. writer[w].step # "idle" /\ writer' = [writer EXCEPT ![w] = Resting] /\ UNCHANGED <<target, reader>>
    BY <1>3 DEF Fail, Stop, Return, files
  <2>2. asks[w] # 0
    BY <1>0, <2>1 DEF WritesAreTold
  <2>3. asks' = [asks EXCEPT ![w] = 0]
    BY <1>0, <2>1 DEF Types, Resting
  <2>4. done' = done \ {w}
    BY <1>0, <2>1 DEF Types, Resting
  <2>5. UNCHANGED <<Seen(target), holds>>
    BY <2>1
  <2> QED
    BY <2>2, <2>3, <2>4, <2>5 DEF Atomic!End
<1>4. ASSUME NEW r \in Reader, Open(r) PROVE Atomic!Read(r)
  <2>1. holds' = [holds EXCEPT ![r] = Seen(target)]
    BY <1>0, <1>4 DEF Open, Types
  <2>2. UNCHANGED <<Seen(target), asks, done>>
    BY <1>4 DEF Open, files
  <2> QED
    BY <2>1, <2>2 DEF Atomic!Read
<1>5. ASSUME NEW r \in Reader, Read(r) PROVE Atomic!Close(r)
  <2>1. Seen(NoFile) = 0
    BY DEF Seen, NoFile
  <2>2. holds' = [holds EXCEPT ![r] = 0]
    BY <1>0, <1>5, <2>1 DEF Read, Closed, Types
  <2>3. UNCHANGED <<Seen(target), asks, done>>
    BY <1>5 DEF Read, files
  <2> QED
    BY <2>2, <2>3 DEF Atomic!Close
<1>6. ASSUME NEW w \in Writer, Fill(w) \/ Announce(w) PROVE UNCHANGED Atomic!vars
  <2>1. UNCHANGED <<target, reader>>
    BY <1>6 DEF Fill, Announce, files
  <2>2. PICK step \in {"filled", "notifying"} : writer' = [writer EXCEPT ![w].step = step]
    BY <1>6 DEF Fill, Announce
  <2>3. /\ step = "filled" => writer[w].step = "created"
        /\ step = "notifying" => writer[w].step = "replaced"
    BY <1>0, <1>6, <2>2 DEF Fill, Announce, Types
  <2>4. UNCHANGED asks
    BY <1>0, <2>2 DEF Types
  <2>5. UNCHANGED done
    BY <1>0, <2>2, <2>3 DEF Types
  <2> QED
    BY <2>1, <2>4, <2>5 DEF Atomic!vars
<1>7. ASSUME UNCHANGED fileVars PROVE UNCHANGED Atomic!vars
  BY <1>7 DEF fileVars, files, Atomic!vars
<1>8. ASSUME NEW w \in Writer, NEW r \in Reader, Send(w, r) \/ Hear(w, r) \/ Accept(w, r) \/ Reject(w, r)
      PROVE  UNCHANGED Atomic!vars
  BY <1>7, <1>8 DEF Send, Hear, Accept, Reject
<1>9. CASE Next
  BY <1>1, <1>2, <1>3, <1>4, <1>5, <1>6, <1>8, <1>9 DEF Next, StopProducer, Look, Atomic!Next
<1>10. CASE UNCHANGED vars
  BY <1>7, <1>10 DEF vars
<1> QED
  BY <1>9, <1>10

\* The pool file is an AtomicFile, wherever its writers fail or stop
\* (storage.py:7-19, pool.py:80-84).
THEOREM Refinement == Spec => ImplementsAtomicFile
<1>1. Init => Atomic!Init
  BY DEF Init, FileInit, Atomic!Init, Seen, NoFile, Resting, Closed
<1> QED
  BY <1>1, StepRefines, FanoutInvHolds, PTL DEF Spec, ImplementsAtomicFile, Atomic!Spec
=============================================================================
