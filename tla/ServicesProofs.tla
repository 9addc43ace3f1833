--------------------------- MODULE ServicesProofs ---------------------------
(***************************************************************************)
(* Theorems about four of the services, for any number of processes,       *)
(* files, vaults, requests and faults.  A project's link names a           *)
(* connection, and the registry keeps the connections of others.  A write  *)
(* request replaces what its caller named.  A choice left out of the gap   *)
(* ledger is shown by it, or its line is run together with one cut short.  *)
(* Where no two processes move or append at the same time, an interview is *)
(* shown whole and in order.  The fifth, the embedding index, has a module *)
(* of its own.                                                             *)
(***************************************************************************)
EXTENDS Services, SequenceTheorems, WellFoundedInduction, TLAPS

(* The gap ledger *)

WindowIsANumber == Window \in Nat

Whole == Choices \cup {Other}
Lines == Whole \cup {CutLine} \cup {Gaps!Glued(e) : e \in Whole}

\* A line cut short is no line of another kind.
CutLineDiffers == CutLine \notin Whole \cup {Gaps!Glued(e) : e \in Whole}

Recording ==
  [stage : {"idle", "append", "mark"}, event : Choices \cup {Other}, file : Nat, offset : Nat,
   fresh : BOOLEAN, clean : BOOLEAN]

\* The line of a choice behind an offset of a file, on its own or run together with another.
StandsBehind(f, c, offset) ==
  \E i \in 1..Len(glFiles[f]) : i > offset /\ glFiles[f][i] \in {c, Gaps!Glued(c)}

\* A writer appends no earlier than where the file it opened ended; where that end was clean,
\* only a later line can have been cut short.
OpensAtTheEnd(w) ==
  LET r == glProc[w] IN
  /\ r.stage # "idle" => r.file \in 1..Len(glFiles)
  /\ r.stage = "append" =>
       /\ r.offset <= Len(glFiles[r.file])
       /\ r.clean /\ r.offset > 0 => glFiles[r.file][r.offset] # CutLine
  /\ r.stage = "mark" /\ r.event \in Choices => StandsBehind(r.file, r.event, r.offset)

\* A marker is of a line that was written, behind its offset.
MarkersPoint ==
  \A m \in glMarkers : m.file \in 1..Len(glFiles) /\ StandsBehind(m.file, m.choice, m.offset)

LedgerInv ==
  /\ glFiles \in Seq(Seq(Lines)) /\ glCurrent \in 0..Len(glFiles)
  /\ glMarkers \subseteq [file : Nat, choice : Choices, offset : Nat]
  /\ glProc \in [Recorders -> Recording]
  /\ \A w \in Recorders : OpensAtTheEnd(w)
  /\ MarkersPoint

\* Files grow at the end, new ones come behind the old, and only a line cut short changes.
Grown ==
  /\ Len(glFiles) <= Len(glFiles')
  /\ \A f \in 1..Len(glFiles) :
       /\ Len(glFiles[f]) <= Len(glFiles'[f])
       /\ \A i \in 1..Len(glFiles[f]) :
            glFiles[f][i] # CutLine => glFiles'[f][i] = glFiles[f][i]

\* What a file has it keeps, so that another writer's step disturbs neither a writer nor a marker.
LEMMA StandsStill ==
  ASSUME CutLineDiffers, LedgerInv, Grown, glFiles' \in Seq(Seq(Lines)),
         NEW f \in 1..Len(glFiles), NEW c \in Choices, NEW offset, StandsBehind(f, c, offset)
  PROVE  StandsBehind(f, c, offset)'
<1>1. Len(glFiles[f]) \in Nat /\ Len(glFiles'[f]) \in Nat
  <2>1. glFiles[f] \in Seq(Lines)
    BY DEF LedgerInv
  <2>2. glFiles'[f] \in Seq(Lines)
    BY DEF LedgerInv, Grown
  <2> QED BY <2>1, <2>2
<1>2. PICK i \in 1..Len(glFiles[f]) : i > offset /\ glFiles[f][i] \in {c, Gaps!Glued(c)}
  BY DEF StandsBehind
<1>3. glFiles[f][i] # CutLine
  BY <1>2 DEF CutLineDiffers, Whole
<1>4. i \in 1..Len(glFiles'[f]) /\ glFiles'[f][i] = glFiles[f][i]
  BY <1>1, <1>3 DEF Grown
<1> QED BY <1>2, <1>4 DEF StandsBehind

\* One writer's step: it goes to r, and adds markers that point.
LEMMA OneRecorder ==
  ASSUME CutLineDiffers, LedgerInv, NEW w \in Recorders, NEW r \in Recording,
         glProc' = [glProc EXCEPT ![w] = r], Grown, glFiles' \in Seq(Seq(Lines)),
         glCurrent' \in 0..Len(glFiles'), OpensAtTheEnd(w)',
         \A m \in glMarkers' \ glMarkers :
           /\ m \in [file : Nat, choice : Choices, offset : Nat]
           /\ m.file \in 1..Len(glFiles') /\ StandsBehind(m.file, m.choice, m.offset)'
  PROVE  LedgerInv'
<1>0. /\ glProc' \in [Recorders -> Recording]
      /\ glMarkers' \subseteq [file : Nat, choice : Choices, offset : Nat]
      /\ Len(glFiles) \in Nat /\ Len(glFiles') \in Nat /\ Len(glFiles) <= Len(glFiles')
  BY DEF LedgerInv, Grown
<1>1. ASSUME NEW q \in Recorders, q # w PROVE OpensAtTheEnd(q)'
  <2>1. glProc'[q] = glProc[q] /\ OpensAtTheEnd(q) /\ glProc[q] \in Recording
    BY <1>1 DEF LedgerInv
  <2>2. CASE glProc[q].stage = "idle"
    BY <2>1, <2>2 DEF OpensAtTheEnd
  <2>3. CASE glProc[q].stage # "idle"
    <3> DEFINE f == glProc[q].file
    <3>1. f \in 1..Len(glFiles)
      BY <2>1, <2>3 DEF OpensAtTheEnd
    <3>2. /\ Len(glFiles[f]) <= Len(glFiles'[f]) /\ f \in 1..Len(glFiles')
          /\ Len(glFiles[f]) \in Nat /\ Len(glFiles'[f]) \in Nat
      <4>1. f \in 1..Len(glFiles')
        BY <1>0, <3>1
      <4>2. glFiles[f] \in Seq(Lines) /\ glFiles'[f] \in Seq(Lines)
        BY <3>1, <4>1 DEF LedgerInv
      <4> QED BY <3>1, <4>1, <4>2 DEF Grown
    <3>3. glProc[q].stage = "mark" /\ glProc[q].event \in Choices =>
            StandsBehind(f, glProc[q].event, glProc[q].offset)'
      BY <2>1, <3>1, StandsStill DEF OpensAtTheEnd
    <3>4. ASSUME glProc[q].stage = "append", glProc[q].clean, glProc[q].offset > 0
          PROVE  glFiles'[f][glProc[q].offset] # CutLine
      <4>1. /\ glProc[q].offset \in 1..Len(glFiles[f])
            /\ glFiles[f][glProc[q].offset] # CutLine
        BY <2>1, <3>2, <3>4 DEF OpensAtTheEnd, Recording
      <4> QED BY <3>1, <4>1 DEF Grown
    <3>5. glProc[q].stage = "append" => glProc[q].offset <= Len(glFiles'[f])
      BY <2>1, <3>2 DEF OpensAtTheEnd, Recording
    <3>6. glProc[q].stage = "mark" /\ glProc[q].event \in Choices =>
            \E i \in 1..Len(glFiles'[f]) :
              i > glProc[q].offset /\ glFiles'[f][i] \in {glProc[q].event, Gaps!Glued(glProc[q].event)}
      BY <2>1, <3>3 DEF StandsBehind
    <3> QED BY <2>1, <3>2, <3>4, <3>5, <3>6 DEF OpensAtTheEnd, StandsBehind
  <2> QED BY <2>2, <2>3
<1>2. MarkersPoint'
  <2> SUFFICES ASSUME NEW m \in glMarkers'
               PROVE  m.file \in 1..Len(glFiles') /\ StandsBehind(m.file, m.choice, m.offset)'
    BY DEF MarkersPoint
  <2>1. CASE m \in glMarkers
    <3>1. m.file \in 1..Len(glFiles) /\ StandsBehind(m.file, m.choice, m.offset)
      BY <2>1 DEF LedgerInv, MarkersPoint
    <3> QED BY <1>0, <3>1, StandsStill
  <2>2. CASE m \notin glMarkers
    BY <2>2
  <2> QED BY <2>1, <2>2
<1> QED BY <1>0, <1>1, <1>2 DEF LedgerInv

\* A line more at the end of one file, or one cut short there that takes it in.
LEMMA LineGrows ==
  ASSUME CutLineDiffers, LedgerInv, NEW f \in 1..Len(glFiles), NEW line \in Whole \cup {CutLine},
         NEW clean \in BOOLEAN, glFiles' = [glFiles EXCEPT ![f] = Gaps!With(@, line, clean)]
  PROVE  /\ Grown /\ glFiles' \in Seq(Seq(Lines)) /\ Len(glFiles') = Len(glFiles)
         /\ Len(glFiles[f]) \in Nat /\ Len(glFiles'[f]) \in Nat
         /\ \/ /\ Len(glFiles'[f]) = Len(glFiles[f]) + 1
               /\ glFiles'[f][Len(glFiles'[f])] = line
            \/ /\ clean /\ Len(glFiles'[f]) = Len(glFiles[f]) /\ Len(glFiles[f]) > 0
               /\ glFiles[f][Len(glFiles[f])] = CutLine
               /\ line # CutLine => glFiles'[f][Len(glFiles[f])] = Gaps!Glued(line)
<1>1. glFiles \in Seq(Seq(Lines)) /\ glFiles[f] \in Seq(Lines)
  BY DEF LedgerInv
<1> DEFINE old == glFiles[f]
           new == Gaps!With(old, line, clean)
<1>2. /\ new \in Seq(Lines)
      /\ Len(old) <= Len(new)
      /\ \A i \in 1..Len(old) : old[i] # CutLine => new[i] = old[i]
      /\ \/ Len(new) = Len(old) + 1 /\ new[Len(new)] = line
         \/ /\ clean /\ Len(new) = Len(old) /\ Len(old) > 0 /\ old[Len(old)] = CutLine
            /\ line # CutLine => new[Len(old)] = Gaps!Glued(line)
  <2>1. CASE clean /\ ~Gaps!EndsClean(old)
    <3> DEFINE l == IF line = CutLine THEN CutLine ELSE Gaps!Glued(line)
    <3>1. new = [old EXCEPT ![Len(old)] = l]
      BY <2>1 DEF Gaps!With
    <3>2. old # <<>> /\ old[Len(old)] = CutLine /\ Len(old) \in Nat /\ Len(old) > 0
      BY <1>1, <2>1, EmptySeq DEF Gaps!EndsClean
    <3>3. l \in Lines /\ (line # CutLine => l = Gaps!Glued(line))
      BY DEF Lines
    <3> HIDE DEF l, new, old
    <3>4. old \in Seq(Lines)
      BY <1>1 DEF old
    <3>5. new \in Seq(Lines) /\ Len(new) = Len(old) /\ new[Len(old)] = l
          /\ \A i \in 1..Len(old) : i # Len(old) => new[i] = old[i]
      BY <3>1, <3>2, <3>3, <3>4
    <3> QED BY <2>1, <3>2, <3>3, <3>5
  <2>2. CASE ~(clean /\ ~Gaps!EndsClean(old))
    <3>1. new = Append(old, line) /\ line \in Lines
      BY <2>2 DEF Gaps!With, Lines
    <3> HIDE DEF new
    <3> QED BY <1>1, <3>1
  <2> QED BY <2>1, <2>2
<1>3. Len(old) \in Nat /\ Len(new) \in Nat
  <2> HIDE DEF new
  <2> QED BY <1>1, <1>2
<1>4. glFiles' = [glFiles EXCEPT ![f] = new]
  OBVIOUS
<1> HIDE DEF new
<1>5. glFiles' \in Seq(Seq(Lines)) /\ Len(glFiles') = Len(glFiles) /\ glFiles'[f] = new
      /\ \A g \in 1..Len(glFiles) \ {f} : glFiles'[g] = glFiles[g]
  BY <1>1, <1>2, <1>4
<1>6. \A g \in 1..Len(glFiles) : Len(glFiles[g]) \in Nat
  BY <1>1
<1>7. Len(glFiles) \in Nat
  BY <1>1
<1> QED BY <1>2, <1>3, <1>5, <1>6, <1>7 DEF Grown

LEMMA GapsIdle == Gaps!Idle \in Recording /\ Gaps!Idle.stage = "idle"
BY DEF Gaps!Idle, Recording

LEMMA StaysGrown == ASSUME LedgerInv, glFiles' = glFiles PROVE Grown
<1>1. \A f \in 1..Len(glFiles) : Len(glFiles[f]) \in Nat
  BY DEF LedgerInv
<1> QED BY <1>1 DEF Grown, LedgerInv

LEMMA OpenKeeps ==
  ASSUME CutLineDiffers, LedgerInv, NEW w \in Recorders, Gaps!Open(w)
  PROVE  LedgerInv'
<1>1. PICK e \in Choices \cup {Other} :
        /\ IF glCurrent = 0
           THEN /\ glFiles' = Append(glFiles, <<>>)
                /\ glCurrent' = Len(glFiles) + 1
           ELSE UNCHANGED <<glFiles, glCurrent>>
        /\ glProc' = [glProc EXCEPT ![w] =
                        [stage |-> "append", event |-> e, file |-> glCurrent',
                         offset |-> Len(glFiles'[glCurrent']),
                         fresh |-> ~Gaps!HasIdentity(glFiles'[glCurrent']),
                         clean |-> Gaps!EndsClean(glFiles'[glCurrent'])]]
  BY DEF Gaps!Open
<1> DEFINE none == <<>>
           r == [stage |-> "append", event |-> e, file |-> glCurrent',
                 offset |-> Len(glFiles'[glCurrent']),
                 fresh |-> ~Gaps!HasIdentity(glFiles'[glCurrent']),
                 clean |-> Gaps!EndsClean(glFiles'[glCurrent'])]
<1>2. none \in Seq(Lines) /\ Len(none) = 0
  OBVIOUS
<1>3. glFiles \in Seq(Seq(Lines)) /\ glCurrent \in 0..Len(glFiles) /\ glProc \in [Recorders -> Recording]
  BY DEF LedgerInv
<1> HIDE DEF none
<1>4. /\ glFiles' \in Seq(Seq(Lines)) /\ glCurrent' \in 1..Len(glFiles') /\ Grown
  <2>1. CASE glCurrent = 0
    <3>1. glFiles' = Append(glFiles, none) /\ glCurrent' = Len(glFiles) + 1
      BY <1>1, <2>1 DEF none
    <3>2. /\ glFiles' \in Seq(Seq(Lines)) /\ Len(glFiles') = Len(glFiles) + 1
          /\ \A f \in 1..Len(glFiles) : glFiles'[f] = glFiles[f]
      BY <1>2, <1>3, <3>1
    <3>3. \A f \in 1..Len(glFiles) : Len(glFiles[f]) \in Nat
      BY <1>3
    <3> QED BY <1>3, <3>1, <3>2, <3>3 DEF Grown
  <2>2. CASE glCurrent # 0
    BY <1>1, <1>3, <2>2, StaysGrown
  <2> QED BY <2>1, <2>2
<1>5. Len(glFiles'[glCurrent']) \in Nat
  BY <1>4
<1>6. r \in Recording /\ r.stage = "append" /\ r.file = glCurrent'
      /\ r.offset = Len(glFiles'[glCurrent']) /\ r.clean = Gaps!EndsClean(glFiles'[glCurrent'])
  BY <1>3, <1>4, <1>5 DEF Recording, Whole, Gaps!HasIdentity, Gaps!EndsClean
<1>7. glProc' = [glProc EXCEPT ![w] = r]
  BY <1>1
<1> HIDE DEF r
<1>8. OpensAtTheEnd(w)'
  <2>1. glProc'[w] = r
    BY <1>3, <1>7
  <2>2. r.offset > 0 /\ r.clean => glFiles'[r.file][r.offset] # CutLine
    <3>1. r.offset > 0 => glFiles'[glCurrent'] # <<>>
      BY <1>5, <1>6
    <3> QED BY <1>6, <3>1 DEF Gaps!EndsClean
  <2>3. r.offset <= Len(glFiles'[r.file])
    BY <1>5, <1>6
  <2> QED BY <1>4, <1>6, <2>1, <2>2, <2>3 DEF OpensAtTheEnd
<1>9. glMarkers' = glMarkers /\ glCurrent' \in 0..Len(glFiles')
  BY <1>4 DEF Gaps!Open
<1> QED BY <1>4, <1>6, <1>7, <1>8, <1>9, OneRecorder

LEMMA AppendKeeps ==
  ASSUME CutLineDiffers, LedgerInv, NEW w \in Recorders, Gaps!AppendLine(w) \/ Gaps!Crash(w)
  PROVE  LedgerInv'
<1> DEFINE p == glProc[w]
<1>0. /\ p \in Recording /\ p.stage = "append" /\ p.file \in 1..Len(glFiles)
      /\ p.offset <= Len(glFiles[p.file]) /\ glProc \in [Recorders -> Recording]
      /\ glCurrent' = glCurrent /\ glCurrent \in 0..Len(glFiles) /\ glMarkers' = glMarkers
  BY DEF LedgerInv, OpensAtTheEnd, Gaps!AppendLine, Gaps!Crash
<1>1. PICK line \in Whole \cup {CutLine} :
        /\ glFiles' = [glFiles EXCEPT ![p.file] = Gaps!With(@, line, p.clean)]
        /\ Gaps!AppendLine(w) => line = p.event
  BY <1>0 DEF Gaps!AppendLine, Gaps!Crash, Whole, Recording
<1>2. /\ Grown /\ glFiles' \in Seq(Seq(Lines)) /\ Len(glFiles') = Len(glFiles)
      /\ Len(glFiles[p.file]) \in Nat /\ Len(glFiles'[p.file]) \in Nat
      /\ \/ /\ Len(glFiles'[p.file]) = Len(glFiles[p.file]) + 1
            /\ glFiles'[p.file][Len(glFiles'[p.file])] = line
         \/ /\ p.clean /\ Len(glFiles'[p.file]) = Len(glFiles[p.file])
            /\ Len(glFiles[p.file]) > 0 /\ glFiles[p.file][Len(glFiles[p.file])] = CutLine
            /\ line # CutLine => glFiles'[p.file][Len(glFiles[p.file])] = Gaps!Glued(line)
  <2>1. p.clean \in BOOLEAN
    BY <1>0 DEF Recording
  <2> QED BY <1>0, <1>1, <2>1, LineGrows
<1>3. CASE Gaps!Finish(w)
  <2>1. glProc' = [glProc EXCEPT ![w] = Gaps!Idle]
    BY <1>3 DEF Gaps!Finish
  <2>2. OpensAtTheEnd(w)'
    BY <1>0, <2>1, GapsIdle DEF OpensAtTheEnd
  <2> QED BY <1>0, <1>2, <2>1, <2>2, GapsIdle, OneRecorder
<1>4. CASE Gaps!AppendLine(w) /\ glProc' = [glProc EXCEPT ![w].stage = "mark"]
  <2> DEFINE r == [p EXCEPT !.stage = "mark"]
  <2>1. glProc' = [glProc EXCEPT ![w] = r]
    BY <1>0, <1>4
  <2>2. /\ r \in Recording /\ r.stage = "mark" /\ r.file = p.file /\ r.event = p.event
        /\ r.offset = p.offset
    BY <1>0 DEF Recording
  <2> HIDE DEF r
  <2>3. OpensAtTheEnd(w)'
    <3>1. glProc'[w] = r
      BY <1>0, <2>1
    <3>2. p.offset \in Nat /\ p.event \in Whole /\ p.event # CutLine /\ line = p.event
      BY <1>0, <1>1, <1>4 DEF Recording, Whole, CutLineDiffers
    <3>3. \E i \in 1..Len(glFiles'[p.file]) :
            i > p.offset /\ glFiles'[p.file][i] \in {p.event, Gaps!Glued(p.event)}
      <4> DEFINE last == Len(glFiles'[p.file])
      <4>1. last \in 1..last /\ last > p.offset
        <5>1. p.clean /\ p.offset > 0 => glFiles[p.file][p.offset] # CutLine
          BY <1>0 DEF LedgerInv, OpensAtTheEnd
        <5> QED BY <1>0, <1>2, <3>2, <5>1
      <4>2. glFiles'[p.file][last] \in {p.event, Gaps!Glued(p.event)}
        BY <1>2, <3>2
      <4> QED BY <4>1, <4>2
    <3> QED BY <1>0, <1>2, <2>2, <3>1, <3>3 DEF OpensAtTheEnd, StandsBehind
  <2> QED BY <1>0, <1>2, <2>1, <2>2, <2>3, OneRecorder
<1> QED BY <1>3, <1>4 DEF Gaps!AppendLine, Gaps!Crash

LEMMA MarkKeeps ==
  ASSUME CutLineDiffers, LedgerInv, NEW w \in Recorders, Gaps!Mark(w)
  PROVE  LedgerInv'
<1> DEFINE p == glProc[w]
           new == Gaps!Marker(p.file, p.event, p.offset)
<1>0. /\ p \in Recording /\ p.stage = "mark" /\ p.file \in 1..Len(glFiles)
      /\ p.event \in Choices => StandsBehind(p.file, p.event, p.offset)
      /\ glProc \in [Recorders -> Recording] /\ glFiles \in Seq(Seq(Lines))
      /\ UNCHANGED <<glFiles, glCurrent>> /\ glCurrent \in 0..Len(glFiles)
      /\ glProc' = [glProc EXCEPT ![w] = Gaps!Idle]
  BY DEF LedgerInv, OpensAtTheEnd, Gaps!Mark, Gaps!Finish
<1>1. \A m \in glMarkers' \ glMarkers : m = new /\ p.event \in Choices
  BY DEF Gaps!Mark
<1>2. Grown
  BY <1>0, StaysGrown
<1>3. OpensAtTheEnd(w)'
  BY <1>0, GapsIdle DEF OpensAtTheEnd
<1>4. ASSUME NEW m \in glMarkers' \ glMarkers
      PROVE  /\ m \in [file : Nat, choice : Choices, offset : Nat]
             /\ m.file \in 1..Len(glFiles') /\ StandsBehind(m.file, m.choice, m.offset)'
  <2>1. m = [file |-> p.file, choice |-> p.event, offset |-> p.offset] /\ p.event \in Choices
    BY <1>1, <1>4 DEF Gaps!Marker
  <2>2. StandsBehind(m.file, m.choice, m.offset)
    BY <1>0, <2>1
  <2> QED BY <1>0, <2>1, <2>2 DEF Recording, StandsBehind
<1> QED BY <1>0, <1>2, <1>3, <1>4, GapsIdle, OneRecorder

LEMMA LedgerStep ==
  ASSUME CutLineDiffers, LedgerInv, [Gaps!Next]_(Gaps!vars)
  PROVE  LedgerInv'
<1>1. CASE UNCHANGED Gaps!vars \/ Gaps!Rotate
  <2>1. UNCHANGED <<glFiles, glMarkers, glProc>> /\ glCurrent' \in {glCurrent, 0}
    BY <1>1 DEF Gaps!vars, Gaps!Rotate
  <2>2. Len(glFiles) \in Nat
    BY DEF LedgerInv
  <2>3. \A w \in Recorders : OpensAtTheEnd(w)'
    BY <2>1 DEF LedgerInv, OpensAtTheEnd, StandsBehind
  <2>4. MarkersPoint'
    BY <2>1 DEF LedgerInv, MarkersPoint, StandsBehind
  <2>5. glCurrent' \in 0..Len(glFiles')
    BY <2>1, <2>2 DEF LedgerInv
  <2> QED BY <2>1, <2>3, <2>4, <2>5 DEF LedgerInv
<1>2. ASSUME NEW w \in Recorders,
             Gaps!Open(w) \/ Gaps!AppendLine(w) \/ Gaps!Mark(w) \/ Gaps!Crash(w)
      PROVE  LedgerInv'
  BY <1>2, OpenKeeps, AppendKeeps, MarkKeeps
<1> QED BY <1>1, <1>2 DEF Gaps!Next

LEMMA LedgerInit == Gaps!Init => LedgerInv
<1> SUFFICES ASSUME Gaps!Init PROVE LedgerInv
  OBVIOUS
<1>1. /\ glFiles = <<>> /\ glCurrent = 0 /\ glMarkers = {}
      /\ glProc = [w \in Recorders |-> Gaps!Idle]
  BY DEF Gaps!Init
<1>2. glFiles \in Seq(Seq(Lines)) /\ Len(glFiles) = 0
  BY <1>1
<1> QED BY <1>1, <1>2, GapsIdle DEF LedgerInv, OpensAtTheEnd, MarkersPoint

\* A choice that a repeat leaves out because its marker counts is one that a reader of the
\* ledger is shown, or one whose line stands there run together with one a crash cut short
\* (gap-ledger.ts:24-47), for any number of processes, choices, files and crashes: markers of a
\* ledger moved aside, of a line that was not written or of one the window has left behind do
\* not count.
THEOREM OnlyGluedLinesHideChoices ==
  ASSUME WindowIsANumber, CutLineDiffers
  PROVE  Gaps!Spec => []OnlyGluedChoicesAreHidden
<1>1. LedgerInv => OnlyGluedChoicesAreHidden
  <2> SUFFICES ASSUME LedgerInv, glCurrent # 0, NEW c \in Choices, Gaps!Seen(glCurrent, c)
               PROVE  c \in Gaps!Kept(glCurrent) \/ Gaps!Glued(c) \in Gaps!Kept(glCurrent)
    BY DEF OnlyGluedChoicesAreHidden, Gaps!OnlyGluedChoicesAreHidden
  <2>1. PICK m \in glMarkers :
          m.file = glCurrent /\ m.choice = c /\ Len(glFiles[glCurrent]) - m.offset <= Window
    BY DEF Gaps!Seen
  <2>2. PICK i \in 1..Len(glFiles[glCurrent]) :
          i > m.offset /\ glFiles[glCurrent][i] \in {c, Gaps!Glued(c)}
    BY <2>1 DEF LedgerInv, MarkersPoint, StandsBehind
  <2>3. glFiles[glCurrent] \in Seq(Lines) /\ m.offset \in Nat
    BY <2>1 DEF LedgerInv, MarkersPoint
  <2>4. i \in DOMAIN glFiles[glCurrent] /\ i > Len(glFiles[glCurrent]) - Window
    BY <2>1, <2>2, <2>3 DEF WindowIsANumber
  <2> QED BY <2>2, <2>4 DEF Gaps!Kept
<1>2. LedgerInv /\ [Gaps!Next]_(Gaps!vars) => LedgerInv'
  BY LedgerStep
<1> QED BY LedgerInit, <1>1, <1>2, PTL DEF Gaps!Spec

-----------------------------------------------------------------------------
(* The note write *)

\* What a request saves tells that it was this request.
ContentsTellTheirWriter == Requests \cap (Edits \cup {Absent}) = {}

Contents == Requests \cup Edits \cup {Absent}

Stages == {"idle", "source", "judge", "stage", "validate", "recheck", "publish",
           "revalidate", "lastcheck", "rename"}

Attempts ==
  [stage : Stages, ifMatch : Contents, expected : Contents, witness : Nat,
   needsSource : BOOLEAN, late : BOOLEAN]

\* What a request relies on from its judgement on.
Judged(r) ==
  LET q == nwReq[r] IN
  /\ q.stage \notin {"idle", "source", "judge"} => q.ifMatch = q.expected
  /\ q.stage \in {"revalidate", "lastcheck", "rename"} => q.expected = Absent /\ ~nwHardLinks
  /\ q.stage \in {"publish", "rename"} => nwNote = q.expected \/ q.late
  /\ q.stage # "idle" /\ nwNote = r => q.expected = r

WriteInv ==
  /\ nwNote \in Contents /\ nwHardLinks \in BOOLEAN /\ nwTemplates \in Nat
  /\ nwReq \in [Requests -> Attempts]
  /\ \A r \in Requests : Judged(r)

\* One request's step, with the note as it is.
LEMMA OneRequest ==
  ASSUME WriteInv, NEW r \in Requests, NEW q \in Attempts, nwReq' = [nwReq EXCEPT ![r] = q],
         UNCHANGED <<nwNote, nwHardLinks, nwTemplates>>, Judged(r)'
  PROVE  WriteInv'
<1>1. ASSUME NEW p \in Requests PROVE Judged(p)'
  <2>1. CASE p = r
    BY <2>1
  <2>2. CASE p # r
    <3>1. nwReq'[p] = nwReq[p] /\ Judged(p)
      BY <2>2 DEF WriteInv
    <3> QED BY <3>1 DEF Judged
  <2> QED BY <2>1, <2>2
<1> QED BY <1>1 DEF WriteInv

LEMMA WriteIdle ==
  Write!Idle \in Attempts /\ Write!Idle.stage = "idle"
BY DEF Write!Idle, Attempts, Stages, Contents

LEMMA RetryKeeps ==
  ASSUME WriteInv, NEW r \in Requests, Write!Retry(r),
         UNCHANGED <<nwNote, nwHardLinks, nwTemplates>>
  PROVE  WriteInv'
<1>1. nwReq' = [nwReq EXCEPT ![r] = Write!Idle] /\ nwReq \in [Requests -> Attempts]
  BY DEF Write!Retry, WriteInv
<1>2. Judged(r)'
  BY <1>1, WriteIdle DEF Judged
<1> QED BY <1>1, <1>2, WriteIdle, OneRequest

\* A request goes on to a stage, which asks no more than what it found.
LEMMA ToKeeps ==
  ASSUME WriteInv, NEW r \in Requests, NEW stage \in Stages, Write!To(r, stage),
         UNCHANGED <<nwNote, nwHardLinks, nwTemplates>>, nwReq[r].stage # "idle",
         stage \notin {"idle", "source", "judge"} => nwReq[r].ifMatch = nwReq[r].expected,
         stage \in {"revalidate", "lastcheck", "rename"} =>
           nwReq[r].expected = Absent /\ ~nwHardLinks,
         stage \in {"publish", "rename"} => nwNote = nwReq[r].expected
  PROVE  WriteInv'
<1> DEFINE q == [nwReq[r] EXCEPT !.stage = stage]
<1>1. nwReq \in [Requests -> Attempts] /\ Judged(r)
  BY DEF WriteInv
<1>2. /\ q \in Attempts /\ q.stage = stage /\ q.ifMatch = nwReq[r].ifMatch
      /\ q.expected = nwReq[r].expected
  BY <1>1 DEF Attempts
<1>3. nwReq' = [nwReq EXCEPT ![r] = q]
  BY <1>1 DEF Write!To
<1> HIDE DEF q
<1>4. nwReq'[r] = q
  BY <1>1, <1>3
<1>5. Judged(r)'
  BY <1>1, <1>2, <1>4 DEF Judged
<1> QED BY <1>2, <1>3, <1>5, OneRequest

LEMMA ReadTargetKeeps ==
  ASSUME WriteInv, NEW r \in Requests, Write!ReadTarget(r)
  PROVE  WriteInv'
<1>1. PICK m \in {Absent} \cup Edits \cup Requests :
        nwReq' = [nwReq EXCEPT ![r] = [Write!Idle EXCEPT !.stage = "source", !.ifMatch = m,
                                                         !.expected = nwNote]]
  BY DEF Write!ReadTarget
<1> DEFINE q == [Write!Idle EXCEPT !.stage = "source", !.ifMatch = m, !.expected = nwNote]
<1>2. q \in Attempts /\ q.stage = "source"
  <2>1. nwNote \in Contents /\ m \in Contents
    BY DEF WriteInv, Contents
  <2>2. Write!Idle \in Attempts /\ "source" \in Stages
    BY WriteIdle DEF Stages
  <2> QED BY <2>1, <2>2 DEF Attempts
<1> HIDE DEF q
<1>3. nwReq'[r] = q
  BY <1>1 DEF q, WriteInv
<1>4. Judged(r)'
  BY <1>2, <1>3 DEF Judged, Write!ReadTarget, q
<1> QED BY <1>2, <1>3, <1>4, OneRequest DEF Write!ReadTarget

LEMMA ReadTemplatesKeeps ==
  ASSUME WriteInv, NEW r \in Requests, Write!ReadTemplates(r)
  PROVE  WriteInv'
<1>0. nwReq \in [Requests -> Attempts] /\ Judged(r) /\ nwTemplates \in Nat
      /\ nwReq[r].stage = "source"
  BY DEF WriteInv, Write!ReadTemplates
<1>1. PICK needs \in BOOLEAN :
        nwReq' = [nwReq EXCEPT ![r].stage = "judge", ![r].witness = nwTemplates,
                               ![r].needsSource = needs]
  <2>1. PICK named \in BOOLEAN :
          nwReq' = [nwReq EXCEPT ![r].stage = "judge", ![r].witness = nwTemplates,
                                 ![r].needsSource = named \/ nwReq[r].expected = Absent]
    BY DEF Write!ReadTemplates
  <2>2. (named \/ nwReq[r].expected = Absent) \in BOOLEAN
    OBVIOUS
  <2> QED BY <2>1, <2>2
<1> DEFINE q == [nwReq[r] EXCEPT !.stage = "judge", !.witness = nwTemplates,
                                 !.needsSource = needs]
<1>2. nwReq' = [nwReq EXCEPT ![r] = q]
  BY <1>0, <1>1
<1>3. q \in Attempts /\ q.stage = "judge" /\ q.expected = nwReq[r].expected
  BY <1>0 DEF Attempts, Stages
<1> HIDE DEF q
<1>4. Judged(r)'
  BY <1>0, <1>2, <1>3 DEF Judged, Write!ReadTemplates
<1> QED BY <1>2, <1>3, <1>4, OneRequest DEF Write!ReadTemplates

\* The checks before the publication.
LEMMA ChecksKeep ==
  ASSUME WriteInv, NEW r \in Requests,
         \/ Write!Judge(r) \/ Write!Stage(r) \/ Write!Validate(r) \/ Write!Recheck(r)
         \/ Write!LinkFails(r)
  PROVE  WriteInv'
<1>0. Judged(r) /\ UNCHANGED <<nwNote, nwHardLinks, nwTemplates>> /\ nwReq[r].stage # "idle"
  BY DEF WriteInv, Write!Judge, Write!Stage, Write!Validate, Write!Recheck, Write!LinkFails
<1>1. CASE Write!Retry(r)
  BY <1>0, <1>1, RetryKeeps
<1>2. ASSUME ~Write!Retry(r)
      PROVE  \E stage \in {"stage", "validate", "publish", "recheck", "lastcheck", "rename",
                           "revalidate"} :
               /\ Write!To(r, stage)
               /\ nwReq[r].ifMatch = nwReq[r].expected
               /\ stage \in {"revalidate", "lastcheck", "rename"} =>
                    nwReq[r].expected = Absent /\ ~nwHardLinks
               /\ stage \in {"publish", "rename"} => nwNote = nwReq[r].expected
  <2>1. CASE Write!Judge(r)
    BY <1>2, <2>1 DEF Write!Judge, Write!Precondition
  <2>2. CASE Write!Stage(r)
    BY <1>0, <1>2, <2>2 DEF Write!Stage, Write!Drifted, Judged
  <2>3. CASE Write!Validate(r)
    BY <1>0, <1>2, <2>3 DEF Write!Validate, Judged
  <2>4. CASE Write!Recheck(r)
    BY <1>0, <1>2, <2>4 DEF Write!Recheck, Write!Drifted, Judged
  <2>5. CASE Write!LinkFails(r)
    BY <1>0, <1>2, <2>5 DEF Write!LinkFails, Judged
  <2> QED BY <2>1, <2>2, <2>3, <2>4, <2>5
<1> QED BY <1>0, <1>1, <1>2, ToKeeps DEF Stages

\* The note changes under every request's feet; those past their last check are late.
LEMMA OvertakeIs ==
  ASSUME WriteInv, NEW others \in SUBSET Requests
  PROVE  /\ Write!Overtake(others) \in [Requests -> Attempts]
         /\ \A r \in Requests :
              LET q == Write!Overtake(others)[r] IN
              /\ q.stage = nwReq[r].stage /\ q.ifMatch = nwReq[r].ifMatch
              /\ q.expected = nwReq[r].expected
              /\ r \in others /\ q.stage \in {"publish", "rename"} => q.late
<1>1. ASSUME NEW r \in Requests
      PROVE  LET q == [nwReq[r] EXCEPT !.late = @ \/ (r \in others /\ nwReq[r].stage \in Write!Publishing)]
             IN  /\ q \in Attempts /\ q.stage = nwReq[r].stage /\ q.ifMatch = nwReq[r].ifMatch
                 /\ q.expected = nwReq[r].expected
                 /\ r \in others /\ q.stage \in {"publish", "rename"} => q.late
  BY DEF WriteInv, Attempts, Write!Publishing
<1> QED BY <1>1 DEF Write!Overtake

LEMMA PublishKeeps ==
  ASSUME ContentsTellTheirWriter, WriteInv, NEW r \in Requests, Write!Publish(r)
  PROVE  WriteInv'
<1> DEFINE over == Write!Overtake(Requests \ {r})
<1>1. /\ nwReq' = [over EXCEPT ![r] = Write!Idle] /\ nwNote' = r
      /\ UNCHANGED <<nwHardLinks, nwTemplates>>
  BY DEF Write!Publish
<1>2. /\ over \in [Requests -> Attempts]
      /\ \A p \in Requests :
           /\ over[p].stage = nwReq[p].stage /\ over[p].ifMatch = nwReq[p].ifMatch
           /\ over[p].expected = nwReq[p].expected
           /\ p \in Requests \ {r} /\ over[p].stage \in {"publish", "rename"} => over[p].late
  BY OvertakeIs
<1> HIDE DEF over
<1>3. nwReq' \in [Requests -> Attempts]
  BY <1>1, <1>2, WriteIdle
<1>4. ASSUME NEW p \in Requests PROVE Judged(p)'
  <2>1. CASE p = r
    BY <1>1, <1>2, <2>1, WriteIdle DEF Judged
  <2>2. CASE p # r
    <3>1. nwReq'[p] = over[p] /\ Judged(p)
      BY <1>1, <1>2, <2>2 DEF WriteInv
    <3> QED BY <1>1, <1>2, <2>2, <3>1 DEF Judged
  <2> QED BY <2>1, <2>2
<1> QED BY <1>1, <1>3, <1>4 DEF WriteInv, Contents

LEMMA EditKeeps ==
  ASSUME ContentsTellTheirWriter, WriteInv, Write!Edit
  PROVE  WriteInv'
<1>1. /\ nwReq' = Write!Overtake(Requests) /\ nwNote' \in {Absent} \cup Edits
      /\ UNCHANGED <<nwHardLinks, nwTemplates>>
  BY DEF Write!Edit
<1>2. /\ nwReq' \in [Requests -> Attempts]
      /\ \A p \in Requests :
           /\ nwReq'[p].stage = nwReq[p].stage /\ nwReq'[p].ifMatch = nwReq[p].ifMatch
           /\ nwReq'[p].expected = nwReq[p].expected
           /\ nwReq'[p].stage \in {"publish", "rename"} => nwReq'[p].late
  BY <1>1, OvertakeIs
<1>3. ASSUME NEW p \in Requests PROVE Judged(p)'
  BY <1>1, <1>2 DEF Judged, WriteInv, ContentsTellTheirWriter
<1> QED BY <1>1, <1>2, <1>3 DEF WriteInv, Contents

LEMMA WriteStep ==
  ASSUME ContentsTellTheirWriter, WriteInv, [Write!Next]_(Write!vars)
  PROVE  WriteInv'
<1>1. CASE UNCHANGED Write!vars \/ Write!ChangeTemplates
  BY <1>1 DEF Write!vars, Write!ChangeTemplates, WriteInv, Judged
<1>2. ASSUME NEW r \in Requests, Write!ReadTarget(r) \/ Write!ReadTemplates(r)
      PROVE  WriteInv'
  BY <1>2, ReadTargetKeeps, ReadTemplatesKeeps
<1>3. ASSUME NEW r \in Requests,
             \/ Write!Judge(r) \/ Write!Stage(r) \/ Write!Validate(r) \/ Write!Recheck(r)
             \/ Write!LinkFails(r)
      PROVE  WriteInv'
  BY <1>3, ChecksKeep
<1> QED BY <1>1, <1>2, <1>3, PublishKeeps, EditKeeps DEF Write!Next

LEMMA WriteInit == Write!Init => WriteInv
<1> SUFFICES ASSUME Write!Init PROVE WriteInv
  OBVIOUS
<1>1. \A r \in Requests : nwReq[r].stage = "idle"
  BY WriteIdle DEF Write!Init
<1> QED BY <1>1, WriteIdle DEF Write!Init, WriteInv, Judged, Contents

\* What a step may publish.
ReplacesTheNamed ==
  \A r \in Requests : Write!Publishes(r) =>
    \/ nwNote = nwReq[r].ifMatch
    \/ nwReq[r].late /\ (nwReq[r].ifMatch # Absent \/ ~nwHardLinks)

LEMMA OtherStagesStay ==
  ASSUME WriteInv, NEW r \in Requests, Write!Next, nwReq[r].stage \in {"publish", "rename"},
         nwReq'[r].stage = "idle"
  PROVE  Write!Publish(r) \/ (Write!LinkFails(r) /\ nwNote' = nwNote)
<1>0. nwReq \in [Requests -> Attempts]
  BY DEF WriteInv
<1>1. CASE Write!Edit
  BY <1>1, OvertakeIs DEF Write!Edit
<1>2. CASE Write!ChangeTemplates
  BY <1>2 DEF Write!ChangeTemplates
<1>3. ASSUME NEW p \in Requests, p # r, Write!Publish(p) PROVE FALSE
  <2> DEFINE over == Write!Overtake(Requests \ {p})
  <2>1. nwReq' = [over EXCEPT ![p] = Write!Idle]
    BY <1>3 DEF Write!Publish
  <2>2. over[r].stage = nwReq[r].stage /\ over \in [Requests -> Attempts]
    BY OvertakeIs
  <2> HIDE DEF over
  <2> QED BY <1>3, <2>1, <2>2
<1>4. ASSUME NEW p \in Requests, p # r,
             \/ Write!ReadTarget(p) \/ Write!ReadTemplates(p) \/ Write!Judge(p) \/ Write!Stage(p)
             \/ Write!Validate(p) \/ Write!Recheck(p) \/ Write!LinkFails(p)
      PROVE  FALSE
  BY <1>0, <1>4 DEF Write!ReadTarget, Write!ReadTemplates, Write!Judge, Write!Stage,
     Write!Validate, Write!Recheck, Write!LinkFails, Write!Retry, Write!To
<1>5. /\ ~Write!ReadTarget(r) /\ ~Write!ReadTemplates(r) /\ ~Write!Judge(r) /\ ~Write!Stage(r)
      /\ ~Write!Validate(r) /\ ~Write!Recheck(r)
  BY DEF Write!ReadTarget, Write!ReadTemplates, Write!Judge, Write!Stage, Write!Validate,
     Write!Recheck
<1> QED BY <1>1, <1>2, <1>3, <1>4, <1>5 DEF Write!Next, Write!LinkFails

\* A request replaces the revision its caller named and nothing else (note-write.ts:9-23),
\* whoever else saves meanwhile: only a change after its last check can be lost.
THEOREM TheNamedRevisionIsReplaced ==
  ASSUME ContentsTellTheirWriter
  PROVE  Write!Spec => OnlyTheNamedRevisionIsReplaced
<1>1. WriteInv /\ [Write!Next]_(Write!vars) => [ReplacesTheNamed]_(Write!vars)
  <2> SUFFICES ASSUME WriteInv, Write!Next, NEW r \in Requests, Write!Publishes(r)
               PROVE  \/ nwNote = nwReq[r].ifMatch
                      \/ nwReq[r].late /\ (nwReq[r].ifMatch # Absent \/ ~nwHardLinks)
    BY DEF ReplacesTheNamed
  <2>1. /\ nwReq[r].stage \in {"publish", "rename"} /\ nwReq'[r].stage = "idle" /\ nwNote' = r
        /\ Judged(r)
    BY DEF Write!Publishes, Write!Publishing, WriteInv
  <2>2. CASE Write!Publish(r)
    BY <2>1, <2>2 DEF Write!Publish, Judged
  <2>3. CASE Write!LinkFails(r) /\ nwNote' = nwNote
    BY <2>1, <2>3 DEF Write!LinkFails, Judged, ContentsTellTheirWriter
  <2> QED BY <2>1, <2>2, <2>3, OtherStagesStay
<1>2. OnlyTheNamedRevisionIsReplaced <=> [][ReplacesTheNamed]_(Write!vars)
  BY DEF OnlyTheNamedRevisionIsReplaced, Write!OnlyTheNamedRevisionIsReplaced, ReplacesTheNamed
<1> QED BY WriteInit, WriteStep, <1>1, <1>2, PTL DEF Write!Spec

-----------------------------------------------------------------------------
(* The connections *)

\* A registry has one connection more than another.
Adds(after, before, v, entry) ==
  /\ DOMAIN Connection!Entries(after) = DOMAIN Connection!Entries(before) \cup {v}
  /\ \A w \in DOMAIN Connection!Entries(after) :
       Connection!Entries(after)[w] = IF w = v THEN entry ELSE Connection!Entries(before)[w]

\* A sealed change of the registry adds one connection, or finds it there.
SealedChange(m) ==
  \E v, entry :
    /\ Adds(m.after, m.before, v, entry)
    /\ v \in DOMAIN Connection!Entries(m.before) => Connection!Entries(m.before)[v] = entry

\* A sealed link names a connection the registry has.
SealedLink(m) ==
  /\ m.after.kind = "link"
  /\ \E v \in Vaults : Connection!IsConnected(v, m.after.id, m.after.portable)

\* What an operation has left is sealed so; in the steps that use it, it is there.
Sealed(o) ==
  /\ cnFiles[o].manifest # Nothing \/ cnRun[o].at \in {"replacing", "receipt"} =>
       SealedChange(cnFiles[o].manifest)
  /\ cnFiles[o].linkManifest # Nothing \/ cnRun[o].at \in {"writing", "linked"} =>
       SealedLink(cnFiles[o].linkManifest)

\* Whoever has begun has planned for a vault.
Planned(o) ==
  /\ cnRun[o].at # "new" => cnRun[o].plan.vault \in Vaults
  /\ cnFiles[o].intent # Nothing => cnFiles[o].intent.vault \in Vaults

FilesAndRuns ==
  /\ DOMAIN cnRun = Ops /\ DOMAIN cnFiles = Ops
  /\ \A o \in Ops :
       /\ DOMAIN cnRun[o] = {"at", "plan", "portable", "id"}
       /\ DOMAIN cnFiles[o] = {"intent", "manifest", "receipt", "linkManifest", "linkReceipt"}

ConnectionInv ==
  /\ FilesAndRuns
  /\ \A o \in Ops : Planned(o) /\ Sealed(o)
  /\ Connection!LinksPointToConnections

\* The registry keeps its connections.
Kept ==
  \A v \in DOMAIN Connection!Entries(cnRegistry) :
    v \in DOMAIN Connection!Entries(cnRegistry') /\
      Connection!Entries(cnRegistry')[v] = Connection!Entries(cnRegistry)[v]

\* What a change makes of a registry.
LEMMA ChangeAdds ==
  ASSUME NEW document, NEW v, NEW entry, NEW select
  PROVE  Adds(Connection!WithConnection(document, v, entry, select), document, v, entry)
<1> DEFINE e == [w \in DOMAIN Connection!Entries(document) \cup {v} |->
                   IF w = v THEN entry ELSE Connection!Entries(document)[w]]
           s == IF select THEN entry.id
                ELSE IF document.kind = "connections" THEN document.selected ELSE Nothing
           changed == [kind |-> "connections", entries |-> e, selected |-> s]
<1>1. Connection!WithConnection(document, v, entry, select) = changed
  BY DEF Connection!WithConnection
<1> HIDE DEF s
<1>2. /\ DOMAIN e = DOMAIN Connection!Entries(document) \cup {v}
      /\ \A w \in DOMAIN e : e[w] = IF w = v THEN entry ELSE Connection!Entries(document)[w]
  OBVIOUS
<1> HIDE DEF e
<1>3. Connection!Entries(changed) = e
  BY DEF Connection!Entries
<1> HIDE DEF changed
<1>4. Adds(changed, document, v, entry)
  BY <1>2, <1>3 DEF Adds
<1> QED BY <1>1, <1>4

\* A sealed change keeps the connections of the registry it was sealed for.
LEMMA ChangeKeeps ==
  ASSUME NEW m, SealedChange(m), cnRegistry = m.before, cnRegistry' = m.after
  PROVE  Kept
BY DEF SealedChange, Adds, Kept

\* So do all steps: only a sealed change and a migration replace the registry.
LEMMA RegistryKeeps ==
  ASSUME ConnectionInv, [Connection!Next]_(Connection!vars)
  PROVE  Kept
<1>1. CASE UNCHANGED cnRegistry
  BY <1>1 DEF Kept
<1>2. ASSUME NEW o \in Ops, Connection!Replace(o) PROVE Kept
  <2>1. SealedChange(cnFiles[o].manifest)
    BY <1>2 DEF ConnectionInv, Sealed, Connection!Replace, Connection!At
  <2>2. \/ UNCHANGED cnRegistry
        \/ /\ cnRegistry \in {cnFiles[o].manifest.before, cnFiles[o].manifest.after}
           /\ cnRegistry' = cnFiles[o].manifest.after
    BY <1>2 DEF Connection!Replace
  <2> QED BY <1>1, <2>1, <2>2, ChangeKeeps
<1>3. ASSUME NEW portable \in Portables, Connection!Migrate(portable) PROVE Kept
  BY <1>3 DEF Connection!Migrate, Connection!Entries, Kept
<1>4. ASSUME NEW o \in Ops, Connection!Step(o), ~Connection!Replace(o) PROVE UNCHANGED cnRegistry
  BY <1>4 DEF Connection!Step, Connection!Prepare, Connection!Seal, Connection!ReadSettings,
     Connection!Publish, Connection!CheckSettings, Connection!BeginReserve, Connection!Reserve,
     Connection!BeginUpsert, Connection!SealManifest, Connection!WriteReceipt,
     Connection!BeginLink, Connection!SealLink, Connection!WriteLink, Connection!WriteLinkReceipt,
     Connection!Project, Connection!Interrupt, Connection!RemoveLocks, Connection!Resume,
     Connection!hostVars
<1>5. CASE \/ Connection!RemoveProjection \/ Connection!RemoveRecord
           \/ \E v \in Vaults : Connection!BeginRemoval(v)
  BY <1>1, <1>5 DEF Connection!BeginRemoval, Connection!RemoveProjection, Connection!RemoveRecord,
     Connection!hostVars
<1> QED BY <1>1, <1>2, <1>3, <1>4, <1>5 DEF Connection!Next, Connection!vars

\* A connection stays one, and what names it goes on naming it.
LEMMA ConnectedStays ==
  ASSUME Kept, NEW v, NEW id, NEW portable, Connection!IsConnected(v, id, portable)
  PROVE  Connection!IsConnected(v, id, portable)'
BY DEF Kept, Connection!IsConnected

LEMMA SealedLinkStays ==
  ASSUME Kept, NEW m, SealedLink(m)
  PROVE  SealedLink(m)'
BY ConnectedStays DEF SealedLink

LEMMA LinkStays ==
  ASSUME ConnectionInv, Kept, cnLink' = cnLink
  PROVE  Connection!LinksPointToConnections'
<1> SUFFICES ASSUME cnLink.kind = "link"
             PROVE  \E v \in Vaults : Connection!IsConnected(v, cnLink.id, cnLink.portable)'
  BY DEF Connection!LinksPointToConnections
<1>1. PICK v \in Vaults : Connection!IsConnected(v, cnLink.id, cnLink.portable)
  BY DEF ConnectionInv, Connection!LinksPointToConnections
<1>2. Connection!IsConnected(v, cnLink.id, cnLink.portable)'
  BY <1>1, ConnectedStays
<1> QED BY <1>2

\* A step of one operation.
LEMMA OperationStep ==
  ASSUME ConnectionInv, Kept, FilesAndRuns', NEW o \in Ops,
         \A p \in Ops \ {o} : cnRun'[p] = cnRun[p] /\ cnFiles'[p] = cnFiles[p],
         Planned(o)', Sealed(o)', Connection!LinksPointToConnections'
  PROVE  ConnectionInv'
<1>1. ASSUME NEW p \in Ops, p # o PROVE Planned(p)' /\ Sealed(p)'
  <2>1. cnRun'[p] = cnRun[p] /\ cnFiles'[p] = cnFiles[p] /\ Planned(p) /\ Sealed(p)
    BY <1>1 DEF ConnectionInv
  <2>2. ASSUME NEW m, SealedLink(m) PROVE SealedLink(m)'
    BY <2>2, SealedLinkStays
  <2>3. ASSUME NEW m, SealedChange(m) PROVE SealedChange(m)'
    BY <2>3 DEF SealedChange
  <2> QED BY <2>1, <2>2, <2>3 DEF Planned, Sealed
<1> QED BY <1>1 DEF ConnectionInv

\* An operation goes to a stage and leaves its manifests as they are.
LEMMA GoesKeeps ==
  ASSUME ConnectionInv, Kept, NEW o \in Ops, NEW stage,
         FilesAndRuns', \A p \in Ops \ {o} : cnRun'[p] = cnRun[p] /\ cnFiles'[p] = cnFiles[p],
         cnRun'[o].at = stage, Planned(o)', cnFiles'[o].manifest = cnFiles[o].manifest,
         cnFiles'[o].linkManifest = cnFiles[o].linkManifest,
         stage \in {"replacing", "receipt"} => SealedChange(cnFiles[o].manifest),
         stage \in {"writing", "linked"} => SealedLink(cnFiles[o].linkManifest),
         cnLink' = cnLink
  PROVE  ConnectionInv'
<1>1. Sealed(o)
  BY DEF ConnectionInv
<1>2. ASSUME NEW m, SealedLink(m) PROVE SealedLink(m)'
  BY <1>2, SealedLinkStays
<1>3. ASSUME NEW m, SealedChange(m) PROVE SealedChange(m)'
  BY <1>3 DEF SealedChange
<1>4. Sealed(o)'
  BY <1>1, <1>2, <1>3 DEF Sealed
<1> QED BY <1>4, LinkStays, OperationStep

\* The shapes of files and runs after a step of one operation.
LEMMA GoShape ==
  ASSUME FilesAndRuns, NEW o \in Ops, NEW stage, Connection!Go(o, stage)
  PROVE  /\ DOMAIN cnRun' = Ops /\ cnRun'[o].at = stage /\ cnRun'[o].plan = cnRun[o].plan
         /\ \A p \in Ops : DOMAIN cnRun'[p] = {"at", "plan", "portable", "id"}
         /\ \A p \in Ops \ {o} : cnRun'[p] = cnRun[p]
BY DEF FilesAndRuns, Connection!Go

LEMMA LeaveShape ==
  ASSUME FilesAndRuns, NEW o \in Ops, NEW document,
         NEW name \in {"intent", "manifest", "receipt", "linkManifest", "linkReceipt"},
         Connection!Leave(o, name, document)
  PROVE  /\ DOMAIN cnFiles' = Ops /\ cnFiles'[o][name] = document
         /\ \A p \in Ops : DOMAIN cnFiles'[p] =
              {"intent", "manifest", "receipt", "linkManifest", "linkReceipt"}
         /\ \A p \in Ops \ {o} : cnFiles'[p] = cnFiles[p]
         /\ \A n \in {"intent", "manifest", "linkManifest"} \ {name} :
              cnFiles'[o][n] = cnFiles[o][n]
BY DEF FilesAndRuns, Connection!Leave

\* An operation goes on and leaves no manifest.
LEMMA GoKeeps ==
  ASSUME ConnectionInv, Kept, NEW o \in Ops, NEW stage, Connection!Go(o, stage),
         cnRun[o].at # "new",
         \/ cnFiles' = cnFiles \/ Connection!Leave(o, "intent", cnRun[o].plan)
         \/ \E name \in {"receipt", "linkReceipt"} : \E document :
              Connection!Leave(o, name, document),
         stage \in {"replacing", "receipt"} => SealedChange(cnFiles[o].manifest),
         stage \in {"writing", "linked"} => SealedLink(cnFiles[o].linkManifest),
         cnLink' = cnLink
  PROVE  ConnectionInv'
<1>1. FilesAndRuns /\ Planned(o)
  BY DEF ConnectionInv
<1>2. /\ DOMAIN cnFiles' = Ops
      /\ \A p \in Ops : DOMAIN cnFiles'[p] =
           {"intent", "manifest", "receipt", "linkManifest", "linkReceipt"}
      /\ \A p \in Ops \ {o} : cnFiles'[p] = cnFiles[p]
      /\ cnFiles'[o].manifest = cnFiles[o].manifest
      /\ cnFiles'[o].linkManifest = cnFiles[o].linkManifest
      /\ cnFiles'[o].intent \in {cnFiles[o].intent, cnRun[o].plan}
  <2>1. CASE cnFiles' = cnFiles
    BY <1>1, <2>1 DEF FilesAndRuns
  <2>2. CASE Connection!Leave(o, "intent", cnRun[o].plan)
    BY <1>1, <2>2, LeaveShape
  <2>3. CASE \E name \in {"receipt", "linkReceipt"} : \E document :
               Connection!Leave(o, name, document)
    BY <1>1, <2>3, LeaveShape
  <2> QED BY <2>1, <2>2, <2>3
<1>3. /\ DOMAIN cnRun' = Ops /\ cnRun'[o].at = stage /\ cnRun'[o].plan = cnRun[o].plan
      /\ \A p \in Ops : DOMAIN cnRun'[p] = {"at", "plan", "portable", "id"}
      /\ \A p \in Ops \ {o} : cnRun'[p] = cnRun[p]
  BY <1>1, GoShape
<1>4. FilesAndRuns'
  BY <1>2, <1>3 DEF FilesAndRuns
<1>5. Planned(o)'
  BY <1>1, <1>2, <1>3 DEF Planned
<1> QED BY <1>2, <1>3, <1>4, <1>5, GoesKeeps

\* The steps of an operation that use no manifest.
LEMMA SettingsKeep ==
  ASSUME ConnectionInv, Kept, NEW o \in Ops,
         \/ Connection!Seal(o) \/ Connection!ReadSettings(o) \/ Connection!Publish(o)
         \/ Connection!CheckSettings(o) \/ Connection!Project(o)
         \/ \E dies \in BOOLEAN : Connection!Interrupt(o, dies)
  PROVE  ConnectionInv'
<1>1. PICK stage : /\ Connection!Go(o, stage)
                   /\ stage \in {"settings", "check", "publish", "stopped", "reserve", "done"}
  BY DEF Connection!Seal, Connection!ReadSettings, Connection!Publish, Connection!CheckSettings,
     Connection!Project, Connection!Interrupt, Connection!FirstStage
<1>2. \/ cnFiles' = cnFiles
      \/ Connection!Leave(o, "intent", cnRun[o].plan)
  BY DEF Connection!Seal, Connection!ReadSettings, Connection!Publish, Connection!CheckSettings,
     Connection!Project, Connection!Interrupt, Connection!Plan
<1>4. cnRun[o].at # "new"
  BY DEF Connection!Seal, Connection!ReadSettings, Connection!Publish, Connection!CheckSettings,
     Connection!Project, Connection!Interrupt, Connection!At
<1>3. cnLink' = cnLink
  BY DEF Connection!Seal, Connection!ReadSettings, Connection!Publish, Connection!CheckSettings,
     Connection!Project, Connection!Interrupt, Connection!projectVars
<1> QED BY <1>1, <1>2, <1>3, <1>4, GoKeeps

\* The steps that begin an operation, or take it up again.
LEMMA BeginningsKeep ==
  ASSUME ConnectionInv, Kept, NEW o \in Ops,
         \/ \E v \in Vaults, select \in Selections : Connection!Prepare(o, v, select)
         \/ Connection!Resume(o)
  PROVE  ConnectionInv'
<1>1. /\ cnFiles' = cnFiles /\ cnLink' = cnLink
  BY DEF Connection!Prepare, Connection!Resume, Connection!projectVars
<1>2. FilesAndRuns
  BY DEF ConnectionInv
<1>3. \/ \E plan : /\ plan.vault \in Vaults
                  /\ cnRun' = [cnRun EXCEPT ![o].at = "approved", ![o].plan = plan]
      \/ \E stage \in {"settings", "check"} : \E plan :
           /\ plan.vault \in Vaults
           /\ cnRun' = [cnRun EXCEPT ![o] = [at |-> stage, plan |-> plan, portable |-> Nothing,
                                             id |-> Nothing]]
  <2>1. ASSUME NEW v \in Vaults, NEW select \in Selections, Connection!Prepare(o, v, select)
        PROVE  \E plan : /\ plan.vault \in Vaults
                         /\ cnRun' = [cnRun EXCEPT ![o].at = "approved", ![o].plan = plan]
    <3> DEFINE plan == [vault |-> v, select |-> select, publish |-> cnSettings[v] = Nothing,
                        portable |-> IF cnSettings[v] = Nothing THEN o ELSE cnSettings[v],
                        registry |-> cnRegistry, link |-> cnLink]
    <3>1. cnRun' = [cnRun EXCEPT ![o].at = "approved", ![o].plan = plan]
      BY <2>1 DEF Connection!Prepare
    <3>2. plan.vault \in Vaults
      OBVIOUS
    <3> QED BY <3>1, <3>2
  <2>2. CASE Connection!Resume(o)
    BY <2>2 DEF Connection!Resume, Connection!FirstStage, ConnectionInv, Planned
  <2> QED BY <2>1, <2>2
<1>4. PICK stage : /\ stage \in {"approved", "settings", "check"} /\ cnRun'[o].at = stage
                   /\ cnRun'[o].plan.vault \in Vaults
  BY <1>2, <1>3 DEF FilesAndRuns
<1>5. \A p \in Ops \ {o} : cnRun'[p] = cnRun[p]
  BY <1>2, <1>3 DEF FilesAndRuns
<1>6. FilesAndRuns'
  BY <1>1, <1>2, <1>3 DEF FilesAndRuns
<1>7. Planned(o)'
  BY <1>1, <1>4 DEF ConnectionInv, Planned
<1> QED BY <1>1, <1>4, <1>5, <1>6, <1>7, GoesKeeps

\* The steps of the registry.
LEMMA ReserveKeeps ==
  ASSUME ConnectionInv, Kept, NEW o \in Ops, Connection!BeginReserve(o) \/ Connection!Reserve(o)
  PROVE  ConnectionInv'
<1>1. /\ cnFiles' = cnFiles /\ cnLink' = cnLink
  BY DEF Connection!BeginReserve, Connection!Reserve, Connection!projectVars
<1>2. FilesAndRuns
  BY DEF ConnectionInv
<1>3. PICK stage \in {"stopped", "reserving", "register"} :
        \/ cnRun' = [cnRun EXCEPT ![o].at = stage]
        \/ \E portable : cnRun' = [cnRun EXCEPT ![o].at = stage, ![o].portable = portable]
        \/ \E id : cnRun' = [cnRun EXCEPT ![o].at = stage, ![o].id = id]
  BY DEF Connection!BeginReserve, Connection!Reserve, Connection!Go
<1>4. /\ cnRun'[o].at = stage /\ \A p \in Ops \ {o} : cnRun'[p] = cnRun[p]
      /\ DOMAIN cnRun' = Ops /\ cnRun'[o].plan = cnRun[o].plan
      /\ \A p \in Ops : DOMAIN cnRun'[p] = {"at", "plan", "portable", "id"}
  BY <1>2, <1>3 DEF FilesAndRuns
<1>5. FilesAndRuns'
  BY <1>1, <1>2, <1>4 DEF FilesAndRuns
<1>6. cnRun[o].at # "new"
  BY DEF Connection!BeginReserve, Connection!Reserve, Connection!At
<1>7. Planned(o)'
  BY <1>1, <1>4, <1>6 DEF ConnectionInv, Planned
<1> QED BY <1>1, <1>4, <1>5, <1>7, GoesKeeps

LEMMA BeginUpsertKeeps ==
  ASSUME ConnectionInv, Kept, NEW o \in Ops, Connection!BeginUpsert(o)
  PROVE  ConnectionInv'
<1>1. PICK stage \in {"stopped", "sealing"} : Connection!Go(o, stage)
  BY DEF Connection!BeginUpsert
<1>2. cnFiles' = cnFiles /\ cnLink' = cnLink /\ cnRun[o].at # "new"
  BY DEF Connection!BeginUpsert, Connection!projectVars, Connection!At
<1> QED BY <1>1, <1>2, GoKeeps

LEMMA SealManifestKeeps ==
  ASSUME ConnectionInv, Kept, NEW o \in Ops, Connection!SealManifest(o)
  PROVE  ConnectionInv'
<1>0. FilesAndRuns /\ Planned(o) /\ Sealed(o) /\ cnLink' = cnLink /\ cnRun[o].at # "new"
  BY DEF ConnectionInv, Connection!SealManifest, Connection!projectVars, Connection!At
<1>1. CASE Connection!Go(o, "stopped") /\ cnFiles' = cnFiles
  BY <1>0, <1>1, GoKeeps
<1>2. CASE Connection!Go(o, "replacing") /\ cnFiles' = cnFiles /\ cnFiles[o].manifest # Nothing
  BY <1>0, <1>2, GoKeeps DEF Sealed
<1>3. ASSUME NEW m, Connection!Leave(o, "manifest", m), Connection!Go(o, "replacing"),
             SealedChange(m)
      PROVE  ConnectionInv'
  <2>1. /\ DOMAIN cnFiles' = Ops /\ cnFiles'[o].manifest = m
        /\ \A p \in Ops : DOMAIN cnFiles'[p] =
             {"intent", "manifest", "receipt", "linkManifest", "linkReceipt"}
        /\ \A p \in Ops \ {o} : cnFiles'[p] = cnFiles[p]
        /\ cnFiles'[o].linkManifest = cnFiles[o].linkManifest
        /\ cnFiles'[o].intent = cnFiles[o].intent
    BY <1>0, <1>3, LeaveShape
  <2>2. /\ DOMAIN cnRun' = Ops /\ cnRun'[o].at = "replacing" /\ cnRun'[o].plan = cnRun[o].plan
        /\ \A p \in Ops : DOMAIN cnRun'[p] = {"at", "plan", "portable", "id"}
        /\ \A p \in Ops \ {o} : cnRun'[p] = cnRun[p]
    BY <1>0, <1>3, GoShape
  <2>3. FilesAndRuns'
    BY <2>1, <2>2 DEF FilesAndRuns
  <2>4. SealedChange(m)'
    BY <1>3 DEF SealedChange, Adds
  <2>5. ASSUME NEW l, SealedLink(l) PROVE SealedLink(l)'
    BY <2>5, SealedLinkStays
  <2>6. Sealed(o)'
    BY <1>0, <2>1, <2>2, <2>4, <2>5 DEF Sealed
  <2>7. Planned(o)'
    BY <1>0, <2>1, <2>2 DEF Planned
  <2> QED BY <1>0, <2>1, <2>2, <2>3, <2>6, <2>7, LinkStays, OperationStep
<1>4. \/ Connection!Go(o, "stopped") /\ cnFiles' = cnFiles
      \/ Connection!Go(o, "replacing") /\ cnFiles' = cnFiles /\ cnFiles[o].manifest # Nothing
      \/ \E m : Connection!Leave(o, "manifest", m) /\ Connection!Go(o, "replacing") /\ SealedChange(m)
  <2>1. CASE cnFiles[o].manifest # Nothing
    BY <2>1 DEF Connection!SealManifest, Connection!EndUpsert
  <2>2. CASE /\ cnFiles[o].manifest = Nothing
             /\ ~(Connection!Go(o, "stopped") /\ cnFiles' = cnFiles)
    <3> DEFINE v == Connection!Plan(o).vault
               entry == [id |-> cnRun[o].id, portable |-> Connection!Plan(o).portable]
               after == Connection!WithConnection(cnRegistry, v, entry, Connection!Plan(o).select)
               m == [input |-> Connection!Input(o), before |-> cnRegistry, after |-> after]
    <3>1. /\ Connection!Leave(o, "manifest", m) /\ Connection!Go(o, "replacing")
          /\ v \in DOMAIN Connection!Entries(cnRegistry) =>
               Connection!Entries(cnRegistry)[v] = entry
      BY <2>2 DEF Connection!SealManifest, Connection!EndUpsert
    <3>2. Adds(after, cnRegistry, v, entry)
      BY ChangeAdds
    <3> HIDE DEF v, entry, after
    <3>3. SealedChange(m)
      BY <3>1, <3>2 DEF SealedChange
    <3> QED BY <3>1, <3>3
  <2>3. CASE Connection!Go(o, "stopped") /\ cnFiles' = cnFiles
    BY <2>3
  <2> QED BY <2>1, <2>2, <2>3
<1> QED BY <1>1, <1>2, <1>3, <1>4

\* The registry is replaced, and the receipt written.
LEMMA ReplaceKeeps ==
  ASSUME ConnectionInv, Kept, NEW o \in Ops, Connection!Replace(o) \/ Connection!WriteReceipt(o)
  PROVE  ConnectionInv'
<1>1. cnLink' = cnLink /\ cnRun[o].at \in {"replacing", "receipt"}
  BY DEF Connection!Replace, Connection!WriteReceipt, Connection!projectVars, Connection!At
<1>2. SealedChange(cnFiles[o].manifest)
  BY <1>1 DEF ConnectionInv, Sealed
<1>3. PICK stage \in {"link", "stopped", "receipt"} : Connection!Go(o, stage)
  BY DEF Connection!Replace, Connection!WriteReceipt, Connection!EndUpsert
<1>4. \/ cnFiles' = cnFiles
      \/ \E document : Connection!Leave(o, "receipt", document)
  BY DEF Connection!Replace, Connection!WriteReceipt
<1> QED BY <1>1, <1>2, <1>3, <1>4, GoKeeps

\* The steps of the link.
LEMMA BeginLinkKeeps ==
  ASSUME ConnectionInv, Kept, NEW o \in Ops, Connection!BeginLink(o)
  PROVE  ConnectionInv'
<1>1. PICK stage \in {"linking", "stopped"} : Connection!Go(o, stage)
  BY DEF Connection!BeginLink
<1>2. cnFiles' = cnFiles /\ cnLink' = cnLink /\ cnRun[o].at # "new"
  BY DEF Connection!BeginLink, Connection!At
<1> QED BY <1>1, <1>2, GoKeeps

LEMMA SealLinkKeeps ==
  ASSUME ConnectionInv, Kept, NEW o \in Ops, Connection!SealLink(o)
  PROVE  ConnectionInv'
<1>0. FilesAndRuns /\ Planned(o) /\ Sealed(o) /\ cnLink' = cnLink /\ cnRun[o].at = "linking"
  BY DEF ConnectionInv, Connection!SealLink, Connection!At
<1>1. CASE Connection!Go(o, "stopped") /\ cnFiles' = cnFiles
  BY <1>0, <1>1, GoKeeps
<1>2. CASE Connection!Go(o, "writing") /\ cnFiles' = cnFiles /\ cnFiles[o].linkManifest # Nothing
  BY <1>0, <1>2, GoKeeps DEF Sealed
<1>3. ASSUME NEW m, Connection!Leave(o, "linkManifest", m), Connection!Go(o, "writing"),
             SealedLink(m)
      PROVE  ConnectionInv'
  <2>1. /\ DOMAIN cnFiles' = Ops /\ cnFiles'[o].linkManifest = m
        /\ \A p \in Ops : DOMAIN cnFiles'[p] =
             {"intent", "manifest", "receipt", "linkManifest", "linkReceipt"}
        /\ \A p \in Ops \ {o} : cnFiles'[p] = cnFiles[p]
        /\ cnFiles'[o].manifest = cnFiles[o].manifest
        /\ cnFiles'[o].intent = cnFiles[o].intent
    BY <1>0, <1>3, LeaveShape
  <2>2. /\ DOMAIN cnRun' = Ops /\ cnRun'[o].at = "writing" /\ cnRun'[o].plan = cnRun[o].plan
        /\ \A p \in Ops : DOMAIN cnRun'[p] = {"at", "plan", "portable", "id"}
        /\ \A p \in Ops \ {o} : cnRun'[p] = cnRun[p]
    BY <1>0, <1>3, GoShape
  <2>3. FilesAndRuns'
    BY <2>1, <2>2 DEF FilesAndRuns
  <2>4. SealedLink(m)'
    BY <1>3, SealedLinkStays
  <2>5. ASSUME NEW l, SealedChange(l) PROVE SealedChange(l)'
    BY <2>5 DEF SealedChange, Adds
  <2>6. Sealed(o)'
    BY <1>0, <2>1, <2>2, <2>4, <2>5 DEF Sealed
  <2>7. Planned(o)'
    BY <1>0, <2>1, <2>2 DEF Planned
  <2> QED BY <1>0, <2>1, <2>2, <2>3, <2>6, <2>7, LinkStays, OperationStep
<1>4. \/ Connection!Go(o, "stopped") /\ cnFiles' = cnFiles
      \/ Connection!Go(o, "writing") /\ cnFiles' = cnFiles /\ cnFiles[o].linkManifest # Nothing
      \/ \E m : /\ Connection!Leave(o, "linkManifest", m) /\ Connection!Go(o, "writing")
                /\ SealedLink(m)
  <2>1. CASE cnFiles[o].linkManifest # Nothing
    BY <2>1 DEF Connection!SealLink, Connection!EndLink
  <2>2. CASE /\ cnFiles[o].linkManifest = Nothing
             /\ ~(Connection!Go(o, "stopped") /\ cnFiles' = cnFiles)
    <3> DEFINE v == Connection!Plan(o).vault
               after == [kind |-> "link", id |-> cnRun[o].id, portable |-> Connection!Plan(o).portable]
               m == [input |-> Connection!LinkInput(o), before |-> cnLink, after |-> after]
    <3>1. /\ Connection!Leave(o, "linkManifest", m) /\ Connection!Go(o, "writing")
          /\ Connection!IsConnected(v, after.id, after.portable)
      BY <2>2 DEF Connection!SealLink, Connection!IsReceiptLive, Connection!EndLink
    <3>2. v \in Vaults
      BY <1>0 DEF Planned, Connection!Plan
    <3>3. m.after = after /\ after.kind = "link"
      OBVIOUS
    <3> HIDE DEF v, after, m
    <3>4. SealedLink(m)
      BY <3>1, <3>2, <3>3 DEF SealedLink
    <3> QED BY <3>1, <3>4
  <2>3. CASE Connection!Go(o, "stopped") /\ cnFiles' = cnFiles
    BY <2>3
  <2> QED BY <2>1, <2>2, <2>3
<1> QED BY <1>1, <1>2, <1>3, <1>4

LEMMA WriteLinkKeeps ==
  ASSUME ConnectionInv, Kept, NEW o \in Ops, Connection!WriteLink(o)
  PROVE  ConnectionInv'
<1>0. FilesAndRuns /\ Planned(o) /\ Sealed(o) /\ cnFiles' = cnFiles /\ cnRun[o].at = "writing"
  BY DEF ConnectionInv, Connection!WriteLink, Connection!At
<1>1. PICK stage \in {"project", "stopped", "linked"} : Connection!Go(o, stage)
  BY DEF Connection!WriteLink, Connection!EndLink
<1>2. SealedLink(cnFiles[o].linkManifest)
  BY <1>0 DEF Sealed
<1>3. CASE cnLink' = cnLink
  BY <1>0, <1>1, <1>2, <1>3, GoKeeps
<1>4. CASE cnLink' = cnFiles[o].linkManifest.after
  <2>1. ASSUME NEW m, SealedLink(m) PROVE SealedLink(m)'
    BY <2>1, SealedLinkStays
  <2>2. Connection!LinksPointToConnections'
    <3>1. PICK m : m = cnFiles[o].linkManifest
      OBVIOUS
    <3>2. SealedLink(m)'
      BY <1>2, <2>1, <3>1
    <3> QED BY <1>4, <3>1, <3>2 DEF SealedLink, Connection!LinksPointToConnections
  <2>3. /\ DOMAIN cnRun' = Ops /\ cnRun'[o].at = stage /\ cnRun'[o].plan = cnRun[o].plan
        /\ \A p \in Ops : DOMAIN cnRun'[p] = {"at", "plan", "portable", "id"}
        /\ \A p \in Ops \ {o} : cnRun'[p] = cnRun[p]
    BY <1>0, <1>1, GoShape
  <2>4. ASSUME NEW m, SealedChange(m) PROVE SealedChange(m)'
    BY <2>4 DEF SealedChange, Adds
  <2>5. Sealed(o)' /\ Planned(o)' /\ FilesAndRuns'
    BY <1>0, <1>1, <2>1, <2>3, <2>4 DEF Sealed, Planned, FilesAndRuns
  <2> QED BY <1>0, <2>2, <2>3, <2>5, OperationStep
<1> QED BY <1>3, <1>4 DEF Connection!WriteLink

LEMMA WriteLinkReceiptKeeps ==
  ASSUME ConnectionInv, Kept, NEW o \in Ops, Connection!WriteLinkReceipt(o)
  PROVE  ConnectionInv'
<1>1. PICK stage \in {"project", "stopped"} : Connection!Go(o, stage)
  BY DEF Connection!WriteLinkReceipt, Connection!EndLink
<1>2. cnLink' = cnLink /\ cnRun[o].at # "new"
  BY DEF Connection!WriteLinkReceipt, Connection!At
<1>3. cnFiles' = cnFiles \/ \E document : Connection!Leave(o, "linkReceipt", document)
  BY DEF Connection!WriteLinkReceipt
<1> QED BY <1>1, <1>2, <1>3, GoKeeps

\* What leaves operations and files alone.
LEMMA OthersKeep ==
  ASSUME ConnectionInv, Kept, cnRun' = cnRun, cnFiles' = cnFiles,
         cnLink' = cnLink \/ cnLink'.kind = "missing"
  PROVE  ConnectionInv'
<1>1. Connection!LinksPointToConnections'
  BY LinkStays DEF Connection!LinksPointToConnections
<1>2. ASSUME NEW o \in Ops PROVE Planned(o)' /\ Sealed(o)'
  <2>1. Planned(o) /\ Sealed(o)
    BY DEF ConnectionInv
  <2>2. ASSUME NEW m, SealedLink(m) PROVE SealedLink(m)'
    BY <2>2, SealedLinkStays
  <2>3. ASSUME NEW m, SealedChange(m) PROVE SealedChange(m)'
    BY <2>3 DEF SealedChange, Adds
  <2> QED BY <2>1, <2>2, <2>3 DEF Planned, Sealed
<1> QED BY <1>1, <1>2 DEF ConnectionInv, FilesAndRuns

LEMMA ConnectionStep ==
  ASSUME ConnectionInv, [Connection!Next]_(Connection!vars)
  PROVE  ConnectionInv'
<1>0. Kept
  BY RegistryKeeps
<1>1. CASE UNCHANGED Connection!vars
  BY <1>0, <1>1, OthersKeep DEF Connection!vars
<1>2. ASSUME NEW o \in Ops, Connection!RemoveLocks(o) PROVE ConnectionInv'
  BY <1>0, <1>2, OthersKeep DEF Connection!RemoveLocks
<1>3. ASSUME NEW o \in Ops, Connection!Step(o), ~Connection!RemoveLocks(o) PROVE ConnectionInv'
  BY <1>0, <1>3, SettingsKeep, BeginningsKeep, ReserveKeeps, BeginUpsertKeeps, SealManifestKeeps,
     ReplaceKeeps, BeginLinkKeeps, SealLinkKeeps, WriteLinkKeeps, WriteLinkReceiptKeeps
  DEF Connection!Step
<1>4. ASSUME NEW v \in Vaults, Connection!BeginRemoval(v) PROVE ConnectionInv'
  BY <1>0, <1>4, OthersKeep DEF Connection!BeginRemoval
<1>5. ASSUME NEW portable \in Portables, Connection!Migrate(portable) PROVE ConnectionInv'
  BY <1>0, <1>5, OthersKeep DEF Connection!Migrate, Connection!projectVars
<1>6. CASE Connection!RemoveProjection
  BY <1>0, <1>6, OthersKeep DEF Connection!RemoveProjection
<1>7. CASE Connection!RemoveRecord
  BY <1>0, <1>7, OthersKeep DEF Connection!RemoveRecord, Connection!Missing
<1> QED BY <1>1, <1>2, <1>3, <1>4, <1>5, <1>6, <1>7 DEF Connection!Next

LEMMA ConnectionInit == Connection!Init => ConnectionInv
<1> SUFFICES ASSUME Connection!Init PROVE ConnectionInv
  OBVIOUS
<1>1. FilesAndRuns
  BY DEF Connection!Init, Connection!NoFiles, FilesAndRuns
<1>2. \A o \in Ops : Planned(o) /\ Sealed(o)
  BY DEF Connection!Init, Connection!NoFiles, Planned, Sealed
<1>3. Connection!LinksPointToConnections
  BY DEF Connection!Init, Connection!Missing, Connection!LinksPointToConnections
<1> QED BY <1>1, <1>2, <1>3 DEF ConnectionInv

\* Whatever was interrupted, a link names a connection the registry has
\* (connection-coordinator.ts:652).
THEOREM LinksAreConnected == Connection!Spec => []LinksPointToConnections
<1>1. ConnectionInv => LinksPointToConnections
  BY DEF ConnectionInv, LinksPointToConnections
<1> QED BY ConnectionInit, ConnectionStep, <1>1, PTL DEF Connection!Spec

\* No operation, however late it is resumed and whoever registered meanwhile, takes a vault out
\* of the registry or changes what it is registered as (connection-registry.ts:895).
THEOREM RegisteredConnectionsStay == Connection!Spec => ConnectionsStay
<1>1. ConnectionInv /\ [Connection!Next]_(Connection!vars) => [Kept]_(Connection!vars)
  BY RegistryKeeps
<1>2. ConnectionsStay <=> [][Kept]_(Connection!vars)
  BY DEF ConnectionsStay, Connection!ConnectionsStay, Kept
<1> QED BY ConnectionInit, ConnectionStep, <1>1, <1>2, PTL DEF Connection!Spec

-----------------------------------------------------------------------------
(* The interview log: what reading a log returns *)

\* A set that has 0 and, with a number, the next one, has every number: the principle of
\* induction for a property that is written as a set.
LEMMA NumbersOf ==
  ASSUME NEW S, 0 \in S, \A n \in Nat : n \in S => n + 1 \in S
  PROVE  \A n \in Nat : n \in S
<1> DEFINE T == Nat \ S
           R == OpToRel(<, Nat)
<1> SUFFICES ASSUME NEW m \in Nat, m \notin S PROVE FALSE
  OBVIOUS
<1>1. T \subseteq Nat /\ T # {}
  OBVIOUS
<1>2. PICK t \in T : \A y \in T : <<y, t>> \notin R
  <2> HIDE DEF T
  <2> QED BY <1>1, NatLessThanWellFounded, WFMin
<1>3. t \in Nat /\ t \notin S
  OBVIOUS
<1>4. t # 0 /\ t - 1 \in Nat
  BY <1>3
<1>5. t - 1 \in T
  BY <1>3, <1>4
<1>6. <<t - 1, t>> \in R
  <2>1. R = {ss \in Nat \X Nat : ss[1] < ss[2]}
    BY DEF OpToRel
  <2>2. <<t - 1, t>> \in Nat \X Nat /\ <<t - 1, t>>[1] = t - 1 /\ <<t - 1, t>>[2] = t
    BY <1>3, <1>4
  <2> HIDE DEF R
  <2> QED BY <1>3, <2>1, <2>2
<1> QED BY <1>2, <1>5, <1>6

\* A bounded set of numbers has a highest, and that is what Max returns.
LEMMA MaxIs ==
  ASSUME NEW S \in SUBSET Int, NEW m \in S, \A y \in S : y <= m
  PROVE  Interview!Max(S) = m
<1>1. Interview!Max(S) \in S /\ \A y \in S : Interview!Max(S) >= y
  <2>1. \A y \in S : m >= y
    OBVIOUS
  <2> QED BY <2>1 DEF Interview!Max
<1> DEFINE x == Interview!Max(S)
<1>2. x \in Int /\ m \in Int /\ x >= m /\ x <= m
  <2> HIDE DEF x
  <2>1. x \in S /\ \A y \in S : x >= y
    BY <1>1 DEF x
  <2> QED BY <2>1
<1> HIDE DEF x
<1>3. x = m
  BY <1>2
<1> QED BY <1>3 DEF x

LEMMA HighestOf ==
  ASSUME NEW k \in Nat, NEW S \in SUBSET (0..k), S # {}
  PROVE  /\ Interview!Max(S) \in S
         /\ \A y \in S : y <= Interview!Max(S)
<1> DEFINE T == {n \in Nat : \A U \in SUBSET (0..n) : U # {} => \E m \in U : \A y \in U : y <= m}
<1>1. 0 \in T
  <2> SUFFICES ASSUME NEW U \in SUBSET (0..0), U # {}
               PROVE  \E m \in U : \A y \in U : y <= m
    OBVIOUS
  <2>1. PICK u \in U : TRUE
    OBVIOUS
  <2>2. u = 0 /\ \A y \in U : y <= u
    BY <2>1
  <2> QED BY <2>2
<1>2. ASSUME NEW n \in Nat, n \in T PROVE n + 1 \in T
  <2> SUFFICES ASSUME NEW U \in SUBSET (0..n + 1), U # {}
               PROVE  \E m \in U : \A y \in U : y <= m
    OBVIOUS
  <2>1. CASE n + 1 \in U
    BY <2>1
  <2>2. CASE n + 1 \notin U
    <3>1. U \in SUBSET (0..n)
      BY <2>2
    <3> QED BY <1>2, <3>1
  <2> QED BY <2>1, <2>2
<1>3. k \in T
  <2> HIDE DEF T
  <2> QED BY <1>1, <1>2, NumbersOf
<1>4. PICK m \in S : \A y \in S : y <= m
  BY <1>3
<1>5. Interview!Max(S) = m
  <2>1. S \in SUBSET Int
    OBVIOUS
  <2> QED BY <1>4, <2>1, MaxIs
<1> QED BY <1>4, <1>5

LogLines == [event : Nat, seq : Nat]

\* No log is not a log.
LogsAreLogs == NoFile \notin Seq(LogLines)

\* What a reader has after n lines, from what it has after the one before.
ReadTo(lines, g, n) ==
  IF n = 0 THEN <<>>
  ELSE IF lines[n].event = 0 THEN g[n - 1] ELSE Append(g[n - 1], lines[n])

IsReading(lines, g, n) == g = [k \in 0..n |-> ReadTo(lines, g, k)]

\* The lines can be read one after the other, in one way.
LEMMA ReadingExists ==
  ASSUME NEW lines, NEW n \in Nat
  PROVE  \E g : IsReading(lines, g, n)
<1> DEFINE S == {k \in Nat : \E g : IsReading(lines, g, k)}
<1>1. 0 \in S
  <2> DEFINE g == [k \in 0..0 |-> <<>>]
  <2>1. IsReading(lines, g, 0)
    BY DEF IsReading, ReadTo
  <2> HIDE DEF g
  <2> QED BY <2>1
<1>2. ASSUME NEW k \in Nat, k \in S PROVE k + 1 \in S
  <2>1. PICK g : IsReading(lines, g, k)
    BY <1>2
  <2> DEFINE h == [i \in 0..k + 1 |-> IF i = k + 1 THEN ReadTo(lines, g, k + 1) ELSE g[i]]
  <2>2. ASSUME NEW i \in 0..k + 1 PROVE h[i] = ReadTo(lines, h, i)
    <3>1. CASE i = k + 1
      BY <3>1 DEF ReadTo
    <3>2. CASE i # k + 1
      <4>1. h[i] = g[i] /\ g[i] = ReadTo(lines, g, i)
        BY <2>1, <3>2 DEF IsReading
      <4>2. i # 0 => h[i - 1] = g[i - 1]
        BY <3>2
      <4> QED BY <4>1, <4>2 DEF ReadTo
    <3> QED BY <3>1, <3>2
  <2>3. IsReading(lines, h, k + 1)
    <3>1. h = [i \in 0..k + 1 |-> h[i]]
      OBVIOUS
    <3> HIDE DEF h
    <3> QED BY <2>2, <3>1 DEF IsReading
  <2> HIDE DEF h
  <2> QED BY <2>3
<1>3. n \in S
  <2> HIDE DEF S
  <2> QED BY <1>1, <1>2, NumbersOf
<1> QED BY <1>3

LEMMA ReadingsAgree ==
  ASSUME NEW lines, NEW more, NEW n \in Nat, NEW m \in Nat, n <= m,
         \A i \in 1..n : more[i] = lines[i],
         NEW g, IsReading(lines, g, n), NEW h, IsReading(more, h, m)
  PROVE  \A k \in 0..n : h[k] = g[k]
<1> DEFINE S == {k \in Nat : k <= n => h[k] = g[k]}
<1>1. 0 \in S
  BY DEF IsReading, ReadTo
<1>2. ASSUME NEW k \in Nat, k \in S PROVE k + 1 \in S
  <2> SUFFICES ASSUME k + 1 <= n PROVE h[k + 1] = g[k + 1]
    OBVIOUS
  <2>1. g[k + 1] = ReadTo(lines, g, k + 1) /\ h[k + 1] = ReadTo(more, h, k + 1)
    <3>1. k + 1 \in 0..n /\ k + 1 \in 0..m
      OBVIOUS
    <3> QED BY <3>1 DEF IsReading
  <2>2. h[k] = g[k] /\ more[k + 1] = lines[k + 1]
    BY <1>2
  <2> QED BY <2>1, <2>2 DEF ReadTo
<1>3. \A k \in Nat : k \in S
  <2> HIDE DEF S
  <2> QED BY <1>1, <1>2, NumbersOf
<1> QED BY <1>3

LEMMA WholeIsRead ==
  ASSUME NEW lines, Len(lines) \in Nat
  PROVE  \E g : IsReading(lines, g, Len(lines)) /\ Interview!Whole(lines) = g[Len(lines)]
<1> DEFINE g == CHOOSE g : IsReading(lines, g, Len(lines))
<1>1. IsReading(lines, g, Len(lines))
  BY ReadingExists
<1>2. Interview!Whole(lines) = g[Len(lines)]
  BY DEF Interview!Whole, IsReading, ReadTo
<1> HIDE DEF g
<1> QED BY <1>1, <1>2

\* What a reader of a log has when there is one line more: that line too, unless it was cut short.
LEMMA WholeOfNone == Interview!Whole(<<>>) = <<>>
<1>1. Len(<<>>) = 0
  OBVIOUS
<1>2. PICK g : IsReading(<<>>, g, 0) /\ Interview!Whole(<<>>) = g[0]
  BY <1>1, WholeIsRead
<1> QED BY <1>2 DEF IsReading, ReadTo

LEMMA WholeOfOneMore ==
  ASSUME NEW lines \in Seq(LogLines), NEW l \in LogLines
  PROVE  Interview!Whole(Append(lines, l)) =
           IF l.event = 0 THEN Interview!Whole(lines)
           ELSE Append(Interview!Whole(lines), l)
<1> DEFINE more == Append(lines, l)
           n == Len(lines)
<1>1. /\ n \in Nat /\ Len(more) = n + 1 /\ more[n + 1] = l
      /\ \A i \in 1..n : more[i] = lines[i]
  OBVIOUS
<1>2. PICK g : IsReading(lines, g, n) /\ Interview!Whole(lines) = g[n]
  BY <1>1, WholeIsRead
<1> HIDE DEF more
<1>3. PICK h : IsReading(more, h, n + 1) /\ Interview!Whole(more) = h[n + 1]
  BY <1>1, WholeIsRead
<1>4. h[n] = g[n]
  <2>1. n + 1 \in Nat /\ n <= n + 1 /\ n \in 0..n
    BY <1>1
  <2> HIDE DEF n
  <2> QED BY <1>1, <1>2, <1>3, <2>1, ReadingsAgree
<1>5. h[n + 1] = ReadTo(more, h, n + 1)
  BY <1>1, <1>3 DEF IsReading
<1> QED BY <1>1, <1>2, <1>3, <1>4, <1>5 DEF ReadTo, more

\* What is read of a log are lines.
LEMMA WholeIsLines ==
  ASSUME NEW lines \in Seq(LogLines)
  PROVE  Interview!Whole(lines) \in Seq(LogLines)
<1> DEFINE n == Len(lines)
<1>1. n \in Nat /\ \A i \in 1..n : lines[i] \in LogLines
  OBVIOUS
<1>2. PICK g : IsReading(lines, g, n) /\ Interview!Whole(lines) = g[n]
  BY <1>1, WholeIsRead
<1> DEFINE S == {k \in Nat : k <= n => g[k] \in Seq(LogLines)}
<1> HIDE DEF n
<1>3. \A k \in 0..n : g[k] = ReadTo(lines, g, k)
  BY <1>2 DEF IsReading
<1>4. 0 \in S
  <2>1. 0 \in 0..n
    BY <1>1
  <2>2. g[0] = <<>>
    BY <1>3, <2>1 DEF ReadTo
  <2> QED BY <2>2, EmptySeq
<1>5. ASSUME NEW k \in Nat, k \in S PROVE k + 1 \in S
  <2> SUFFICES ASSUME k + 1 <= n PROVE g[k + 1] \in Seq(LogLines)
    OBVIOUS
  <2>1. k + 1 \in 0..n /\ k + 1 \in 1..n /\ k + 1 # 0 /\ (k + 1) - 1 = k /\ k <= n
    BY <1>1
  <2>2. g[k + 1] = IF lines[k + 1].event = 0 THEN g[k] ELSE Append(g[k], lines[k + 1])
    BY <1>3, <2>1 DEF ReadTo
  <2>3. g[k] \in Seq(LogLines) /\ lines[k + 1] \in LogLines
    BY <1>1, <1>5, <2>1
  <2> HIDE DEF S
  <2> QED BY <2>2, <2>3, AppendProperties
<1>6. \A k \in Nat : k \in S
  <2> HIDE DEF S
  <2> QED BY <1>4, <1>5, NumbersOf
<1> QED BY <1>1, <1>2, <1>6

\* The lines of a log, whether it exists or not, and what a writer does to them.
Logs == Seq(LogLines) \cup {NoFile}

LEMMA ParsedIsLines ==
  ASSUME NEW f \in Logs
  PROVE  /\ Interview!Parsed(f) \in Seq(LogLines)
         /\ Interview!Parsed(NoFile) = <<>>
BY WholeIsLines, EmptySeq DEF Logs, Interview!Parsed

\* A writer that knows how the log ends puts its line whole at the end, and what is cut short
\* is never read.
LEMMA WithOneMore ==
  ASSUME LogsAreLogs, NEW f \in Logs, NEW l \in LogLines,
         NEW more, more = Interview!With(f, l, Interview!EndsClean(f))
  PROVE  /\ more \in Logs
         /\ Interview!Parsed(more) =
              IF l.event = 0 THEN Interview!Parsed(f)
              ELSE Append(Interview!Parsed(f), l)
<1> DEFINE old == IF f = NoFile THEN <<>> ELSE f
<1>1. old \in Seq(LogLines) /\ more = Append(old, l)
  BY EmptySeq DEF Logs, Interview!With, Interview!Lines
<1>2. more \in Seq(LogLines) /\ more # NoFile
  <2> HIDE DEF old
  <2>1. old \in Seq(LogLines) /\ l \in LogLines
    BY <1>1
  <2>2. Append(old, l) \in Seq(LogLines)
    BY <2>1, AppendProperties
  <2>3. more \in Seq(LogLines)
    BY <1>1, <2>2
  <2> QED BY <2>3 DEF LogsAreLogs
<1>3. Interview!Parsed(more) = Interview!Whole(more)
  BY <1>2 DEF Interview!Parsed
<1>4. Interview!Parsed(f) = Interview!Whole(old)
  BY WholeOfNone DEF Interview!Parsed
<1> HIDE DEF old
<1> QED BY <1>1, <1>2, <1>3, <1>4, WholeOfOneMore DEF Logs

\* The highest number in a log is at least each line's.
LEMMA HighestIsHigh ==
  ASSUME NEW lines \in Seq(LogLines)
  PROVE  /\ Interview!Highest(lines) \in Nat
         /\ \A i \in 1..Len(lines) : lines[i].seq <= Interview!Highest(lines)
<1> DEFINE n == Len(lines)
           T == {k \in Nat : k <= n => \E b \in Nat : \A i \in 1..k : lines[i].seq <= b}
           S == {0} \cup {lines[i].seq : i \in DOMAIN lines}
<1>1. n \in Nat /\ DOMAIN lines = 1..n /\ \A i \in 1..n : lines[i].seq \in Nat
  <2>1. n \in Nat /\ DOMAIN lines = 1..n /\ \A i \in 1..n : lines[i] \in LogLines
    OBVIOUS
  <2> QED BY <2>1 DEF LogLines
<1> HIDE DEF n
<1>2. 0 \in T
  OBVIOUS
<1>3. ASSUME NEW k \in Nat, k \in T PROVE k + 1 \in T
  <2> SUFFICES ASSUME k + 1 <= n
               PROVE  \E b \in Nat : \A i \in 1..k + 1 : lines[i].seq <= b
    OBVIOUS
  <2>1. PICK b \in Nat : \A i \in 1..k : lines[i].seq <= b
    BY <1>1, <1>3
  <2>2. lines[k + 1].seq \in Nat
    BY <1>1
  <2>3. CASE lines[k + 1].seq <= b
    <3>1. \A i \in 1..k + 1 : lines[i].seq <= b
      BY <2>1, <2>3
    <3> QED BY <3>1
  <2>4. CASE ~(lines[k + 1].seq <= b)
    <3> DEFINE c == lines[k + 1].seq
    <3>1. \A i \in 1..k + 1 : lines[i].seq <= c
      <4> SUFFICES ASSUME NEW i \in 1..k + 1 PROVE lines[i].seq <= c
        OBVIOUS
      <4>1. lines[i].seq \in Nat
        BY <1>1
      <4> QED BY <2>1, <2>2, <2>4, <4>1
    <3> HIDE DEF c
    <3> QED BY <2>2, <3>1 DEF c
  <2> QED BY <2>3, <2>4
<1>4. n \in T
  <2> HIDE DEF T
  <2> QED BY <1>1, <1>2, <1>3, NumbersOf
<1>5. PICK b \in Nat : \A i \in 1..n : lines[i].seq <= b
  BY <1>1, <1>4
<1>6. S \in SUBSET (0..b) /\ S # {}
  BY <1>1, <1>5
<1>7. Interview!Max(S) \in S /\ \A y \in S : y <= Interview!Max(S)
  <2> HIDE DEF S
  <2> QED BY <1>6, HighestOf
<1>8. Interview!Highest(lines) = Interview!Max(S)
  BY DEF Interview!Highest
<1>9. \A i \in 1..n : lines[i].seq \in S
  BY <1>1
<1> HIDE DEF S
<1>10. Interview!Highest(lines) \in Nat
  <2>1. \A y \in S : y \in Nat
    BY <1>5, <1>6
  <2> QED BY <1>7, <1>8, <2>1
<1>11. ASSUME NEW i \in 1..n PROVE lines[i].seq <= Interview!Highest(lines)
  BY <1>7, <1>8, <1>9
<1> QED BY <1>10, <1>11 DEF n

\* The first n events of the source end the target.
Ends(target, source, n) ==
  /\ n \in 0..Len(source)
  /\ n <= Len(target)
  /\ \A i \in 1..n : target[Len(target) - n + i] = source[i]

LEMMA CopiedIs ==
  ASSUME NEW target \in Seq(Nat), NEW source \in Seq(Nat)
  PROVE  /\ Ends(target, source, Interview!CopiedPrefix(target, source))
         /\ \A n : Ends(target, source, n) => n <= Interview!CopiedPrefix(target, source)
<1> DEFINE S == {n \in 0..Len(source) :
                   /\ n <= Len(target)
                   /\ \A i \in 1..n : target[Len(target) - n + i] = source[i]}
<1>1. Len(source) \in Nat /\ S \in SUBSET (0..Len(source))
  OBVIOUS
<1>2. 0 \in S
  OBVIOUS
<1>3. Interview!CopiedPrefix(target, source) = Interview!Max(S)
  BY DEF Interview!CopiedPrefix
<1>4. \A n : n \in S <=> Ends(target, source, n)
  BY DEF Ends
<1> HIDE DEF S
<1>5. Interview!Max(S) \in S /\ \A y \in S : y <= Interview!Max(S)
  BY <1>1, <1>2, HighestOf
<1> QED BY <1>3, <1>4, <1>5

LEMMA CopiedFound ==
  ASSUME NEW target \in Seq(Nat), NEW source \in Seq(Nat), NEW m \in Nat,
         Ends(target, source, m), \A n \in Nat : Ends(target, source, n) => n <= m
  PROVE  Interview!CopiedPrefix(target, source) = m
<1> DEFINE c == Interview!CopiedPrefix(target, source)
<1>1. Ends(target, source, c) /\ m <= c
  BY CopiedIs
<1> HIDE DEF c
<1>2. c \in Nat
  BY <1>1 DEF Ends
<1>3. c = m
  BY <1>1, <1>2
<1> QED BY <1>3 DEF c

-----------------------------------------------------------------------------
(* The interview log: two logs, the events in them and their order *)

\* The lines of a log hold recorded events and their numbers grow.
Rows(lines, n) ==
  /\ lines \in Seq(LogLines)
  /\ \A i \in 1..Len(lines) : lines[i].event \in 1..n
  /\ \A i, j \in 1..Len(lines) : i < j => lines[i].seq < lines[j].seq

Has(lines, e) == \E i \in 1..Len(lines) : lines[i].event = e

\* Pending events stand in the order of their appends, and a recorded event is in a log.
HoldAll(own, pending, n) ==
  /\ Rows(own, n) /\ Rows(pending, n)
  /\ \A i, j \in 1..Len(pending) : i < j => pending[i].event < pending[j].event
  /\ \A e \in 1..n : Has(own, e) \/ Has(pending, e)

EndsWith(own, pending, n) ==
  /\ n \in 0..Len(pending)
  /\ n <= Len(own)
  /\ \A i \in 1..n : own[Len(own) - n + i].event = pending[i].event

Copied(own, pending) ==
  Interview!CopiedPrefix(Interview!EventsOf(own), Interview!EventsOf(pending))

\* Two events are different, and those of one writer stand in its order.
Precedes(e, f, h) == e # f /\ (h[e] = h[f] => e < f)

\* The log under the id, and behind it what is not copied yet, is in order.
Orderly(own, pending, h) ==
  /\ \A i, j \in 1..Len(own) : i < j => Precedes(own[i].event, own[j].event, h)
  /\ \A i \in 1..Len(own) : \A j \in 1..Len(pending) :
        j > Copied(own, pending) => Precedes(own[i].event, pending[j].event, h)

LineOf(e, lines) == [event |-> e, seq |-> Interview!Highest(lines) + 1]

\* A log has one line more, for an event.
OneMore(lines, more, e) == more = Append(lines, LineOf(e, lines))

LEMMA EventsAre ==
  ASSUME NEW lines \in Seq(LogLines)
  PROVE  /\ Interview!EventsOf(lines) \in Seq(Nat)
         /\ Len(Interview!EventsOf(lines)) = Len(lines)
         /\ \A i \in 1..Len(lines) : Interview!EventsOf(lines)[i] = lines[i].event
<1>1. /\ Len(lines) \in Nat /\ DOMAIN lines = 1..Len(lines)
      /\ \A i \in 1..Len(lines) : lines[i].event \in Nat
  <2>1. \A i \in 1..Len(lines) : lines[i] \in LogLines
    OBVIOUS
  <2> QED BY <2>1, LenProperties DEF LogLines
<1>2. Interview!EventsOf(lines) = [i \in 1..Len(lines) |-> lines[i].event]
  BY <1>1 DEF Interview!EventsOf
<1> QED BY <1>1, <1>2

LEMMA CopiedLines ==
  ASSUME NEW own \in Seq(LogLines), NEW pending \in Seq(LogLines)
  PROVE  /\ EndsWith(own, pending, Copied(own, pending))
         /\ \A n : EndsWith(own, pending, n) => n <= Copied(own, pending)
<1> DEFINE t == Interview!EventsOf(own)
           s == Interview!EventsOf(pending)
<1>1. /\ t \in Seq(Nat) /\ Len(t) = Len(own) /\ Len(own) \in Nat
      /\ \A i \in 1..Len(own) : t[i] = own[i].event
  BY EventsAre, LenProperties
<1>2. /\ s \in Seq(Nat) /\ Len(s) = Len(pending) /\ Len(pending) \in Nat
      /\ \A i \in 1..Len(pending) : s[i] = pending[i].event
  BY EventsAre, LenProperties
<1>3. Copied(own, pending) = Interview!CopiedPrefix(t, s)
  BY DEF Copied
<1> HIDE DEF t, s
<1>4. ASSUME NEW n PROVE Ends(t, s, n) <=> EndsWith(own, pending, n)
  <2>1. ASSUME n \in 0..Len(pending), n <= Len(own), NEW i \in 1..n
        PROVE  t[Len(t) - n + i] = own[Len(own) - n + i].event /\ s[i] = pending[i].event
    <3>1. Len(own) - n + i \in 1..Len(own) /\ i \in 1..Len(pending)
      BY <1>1, <1>2, <2>1
    <3> QED BY <1>1, <1>2, <3>1
  <2> QED BY <1>1, <1>2, <2>1 DEF Ends, EndsWith
<1>5. /\ Ends(t, s, Interview!CopiedPrefix(t, s))
      /\ \A n : Ends(t, s, n) => n <= Interview!CopiedPrefix(t, s)
  BY <1>1, <1>2, CopiedIs
<1> QED BY <1>3, <1>4, <1>5

LEMMA CopiedBounds ==
  ASSUME NEW own \in Seq(LogLines), NEW pending \in Seq(LogLines)
  PROVE  /\ Copied(own, pending) \in 0..Len(pending)
         /\ Copied(own, pending) \in Nat
         /\ Copied(own, pending) <= Len(own)
         /\ \A i \in 1..Copied(own, pending) : Has(own, pending[i].event)
<1> DEFINE c == Copied(own, pending)
<1>1. EndsWith(own, pending, c)
  BY CopiedLines
<1>2. Len(own) \in Nat /\ Len(pending) \in Nat
  BY LenProperties
<1> HIDE DEF c
<1>3. c \in 0..Len(pending) /\ c \in Nat /\ c <= Len(own)
  BY <1>1, <1>2 DEF EndsWith
<1>4. ASSUME NEW i \in 1..c PROVE Has(own, pending[i].event)
  <2>1. Len(own) - c + i \in 1..Len(own)
    BY <1>2, <1>3
  <2> QED BY <1>1, <2>1 DEF EndsWith, Has
<1> QED BY <1>3, <1>4 DEF c

LEMMA CopiedLinesFound ==
  ASSUME NEW own \in Seq(LogLines), NEW pending \in Seq(LogLines), NEW m \in Nat,
         EndsWith(own, pending, m),
         \A n \in Nat : EndsWith(own, pending, n) => n <= m
  PROVE  Copied(own, pending) = m
<1> DEFINE c == Copied(own, pending)
<1>1. EndsWith(own, pending, c) /\ m <= c /\ c \in Nat
  BY CopiedLines, CopiedBounds
<1> HIDE DEF c
<1>2. c = m
  BY <1>1
<1> QED BY <1>2 DEF c

\* One line more.
LEMMA RowsGrow ==
  ASSUME NEW k \in Nat, NEW m \in Nat, k <= m, NEW lines, Rows(lines, k), NEW e \in 1..m,
         NEW more, OneMore(lines, more, e)
  PROVE  /\ Rows(more, m)
         /\ Len(lines) \in Nat
         /\ Len(more) = Len(lines) + 1
         /\ \A i \in 1..Len(lines) : more[i] = lines[i]
         /\ more[Len(lines) + 1].event = e
<1> DEFINE l == LineOf(e, lines)
           n == Len(lines)
<1>1. lines \in Seq(LogLines) /\ n \in Nat
  BY LenProperties DEF Rows
<1>2. /\ Interview!Highest(lines) \in Nat
      /\ \A i \in 1..n : lines[i].seq <= Interview!Highest(lines)
  BY <1>1, HighestIsHigh
<1>3. l \in LogLines /\ l.event = e /\ l.seq = Interview!Highest(lines) + 1
  BY <1>2 DEF LineOf, LogLines
<1> HIDE DEF l, n
<1>4. more = Append(lines, l)
  BY DEF l, OneMore
<1>5. /\ more \in Seq(LogLines) /\ Len(more) = n + 1
      /\ \A i \in 1..n : more[i] = lines[i]
      /\ more[n + 1] = l
  BY <1>1, <1>3, <1>4, AppendProperties DEF n
<1>6. ASSUME NEW i \in 1..n + 1 PROVE more[i].event \in 1..m
  <2>1. CASE i = n + 1
    BY <1>3, <1>5, <2>1
  <2>2. CASE i # n + 1
    <3>1. i \in 1..n
      BY <1>1, <2>2
    <3>2. lines[i].event \in 1..k
      BY <3>1 DEF Rows, n
    <3> QED BY <1>5, <3>1, <3>2
  <2> QED BY <2>1, <2>2
<1>7. ASSUME NEW i \in 1..n + 1, NEW j \in 1..n + 1, i < j
      PROVE  more[i].seq < more[j].seq
  <2>1. i \in 1..n /\ more[i] = lines[i]
    BY <1>1, <1>5, <1>7
  <2>2. lines[i].seq \in Nat
    <3>1. lines[i] \in LogLines
      BY <1>1, <2>1 DEF n
    <3> QED BY <3>1 DEF LogLines
  <2>3. CASE j = n + 1
    <3>1. lines[i].seq <= Interview!Highest(lines) /\ more[j].seq = Interview!Highest(lines) + 1
      BY <1>2, <1>3, <1>5, <2>1, <2>3
    <3> QED BY <1>2, <2>1, <2>2, <3>1
  <2>4. CASE j # n + 1
    <3>1. j \in 1..n /\ more[j] = lines[j]
      BY <1>1, <1>5, <2>4
    <3> QED BY <1>7, <2>1, <3>1 DEF Rows, n
  <2> QED BY <2>3, <2>4
<1> QED BY <1>1, <1>3, <1>5, <1>6, <1>7 DEF Rows, n

LEMMA RowsStay ==
  ASSUME NEW k \in Nat, NEW m \in Nat, k <= m, NEW lines, Rows(lines, k)
  PROVE  Rows(lines, m)
<1>1. ASSUME NEW i \in 1..Len(lines) PROVE lines[i].event \in 1..m
  <2>1. lines[i].event \in 1..k
    BY DEF Rows
  <2> QED BY <2>1
<1> QED BY <1>1 DEF Rows

LEMMA RowsNone == ASSUME NEW n PROVE Rows(<<>>, n) /\ Len(<<>>) = 0
BY EmptySeq DEF Rows

\* An event that is in the shorter log is in the longer one.
LEMMA HasMore ==
  ASSUME NEW lines, Len(lines) \in Nat, NEW more, Len(more) = Len(lines) + 1,
         \A i \in 1..Len(lines) : more[i] = lines[i]
  PROVE  /\ \A e : Has(lines, e) => Has(more, e)
         /\ Has(more, more[Len(lines) + 1].event)
<1>1. ASSUME NEW e, NEW i \in 1..Len(lines), lines[i].event = e PROVE Has(more, e)
  <2>1. i \in 1..Len(more) /\ more[i].event = e
    BY <1>1
  <2> QED BY <2>1 DEF Has
<1>2. Len(lines) + 1 \in 1..Len(more)
  OBVIOUS
<1> QED BY <1>1, <1>2 DEF Has

\* What is ordered stays ordered when more is recorded.
LEMMA PrecedesStays ==
  ASSUME NEW h \in Seq(Interviewers), NEW v \in Interviewers,
         NEW e \in 1..Len(h), NEW f \in 1..Len(h), Precedes(e, f, h)
  PROVE  Precedes(e, f, Append(h, v))
<1>1. Append(h, v)[e] = h[e] /\ Append(h, v)[f] = h[f]
  BY AppendProperties
<1> QED BY <1>1 DEF Precedes

LEMMA PrecedesNew ==
  ASSUME NEW h \in Seq(Interviewers), NEW v \in Interviewers, NEW e \in 1..Len(h)
  PROVE  Precedes(e, Len(h) + 1, Append(h, v))
<1>1. Len(h) \in Nat
  BY LenProperties
<1> QED BY <1>1 DEF Precedes

\* An event is appended to the pending log.
LEMMA PendingGrows ==
  ASSUME NEW h \in Seq(Interviewers), NEW v \in Interviewers,
         NEW own, NEW pending, HoldAll(own, pending, Len(h)),
         NEW more, OneMore(pending, more, Len(h) + 1)
  PROVE  /\ HoldAll(own, more, Len(h) + 1)
         /\ Orderly(own, pending, h) => Orderly(own, more, Append(h, v))
<1> DEFINE n == Len(h)
           hn == Append(h, v)
           p == Len(pending)
           c == Copied(own, pending)
<1>1. n \in Nat /\ hn \in Seq(Interviewers) /\ Len(hn) = n + 1 /\ \A i \in 1..n : hn[i] = h[i]
  BY AppendProperties, LenProperties
<1>2. Rows(own, n) /\ Rows(pending, n)
  BY DEF HoldAll
<1> HIDE DEF hn
<1>3. n <= n + 1 /\ n + 1 \in 1..n + 1 /\ n + 1 \in Nat
  BY <1>1
<1>4. /\ Rows(more, n + 1) /\ p \in Nat /\ Len(more) = p + 1
      /\ \A i \in 1..p : more[i] = pending[i]
      /\ more[p + 1].event = n + 1
  <2> DEFINE e == n + 1
  <2>1. e \in Nat /\ n <= e /\ e \in 1..e /\ OneMore(pending, more, e)
    BY <1>3
  <2> HIDE DEF e, n, p
  <2>2. /\ Rows(more, e) /\ Len(pending) \in Nat /\ Len(more) = Len(pending) + 1
        /\ \A i \in 1..Len(pending) : more[i] = pending[i]
        /\ more[Len(pending) + 1].event = e
    BY <1>1, <1>2, <2>1, RowsGrow
  <2> QED BY <2>2 DEF e, p
<1>5. Rows(own, n + 1)
  BY <1>2, <1>3, RowsStay
<1>6. ASSUME NEW i \in 1..p + 1, NEW j \in 1..p + 1, i < j
      PROVE  more[i].event < more[j].event
  <2>1. i \in 1..p /\ more[i] = pending[i] /\ pending[i].event \in 1..n
    BY <1>2, <1>4, <1>6 DEF Rows
  <2>2. CASE j = p + 1
    BY <1>1, <1>4, <2>1, <2>2
  <2>3. CASE j # p + 1
    <3>1. j \in 1..p /\ more[j] = pending[j]
      BY <1>4, <2>3
    <3> QED BY <1>6, <2>1, <3>1 DEF HoldAll
  <2> QED BY <2>2, <2>3
<1>7. ASSUME NEW e \in 1..n + 1 PROVE Has(own, e) \/ Has(more, e)
  <2>1. /\ \A f : Has(pending, f) => Has(more, f)
        /\ Has(more, n + 1)
    <3>1. /\ Len(pending) \in Nat /\ Len(more) = Len(pending) + 1
          /\ \A i \in 1..Len(pending) : more[i] = pending[i]
      BY <1>4
    <3>2. /\ \A f : Has(pending, f) => Has(more, f)
          /\ Has(more, more[Len(pending) + 1].event)
      BY <3>1, HasMore
    <3> QED BY <1>4, <3>2
  <2>2. CASE e = n + 1
    BY <2>1, <2>2
  <2>3. CASE e # n + 1
    <3>1. e \in 1..n
      BY <1>1, <2>3
    <3> QED BY <2>1, <3>1 DEF HoldAll
  <2> QED BY <2>2, <2>3
<1>8. HoldAll(own, more, n + 1)
  BY <1>1, <1>4, <1>5, <1>6, <1>7 DEF HoldAll
<1>9. Copied(own, more) = c
  <2>1. own \in Seq(LogLines) /\ pending \in Seq(LogLines) /\ more \in Seq(LogLines)
    BY <1>2, <1>4 DEF Rows
  <2>2. /\ EndsWith(own, pending, c) /\ c \in Nat /\ Len(own) \in Nat
        /\ \A m : EndsWith(own, pending, m) => m <= c
    BY <2>1, CopiedLines, CopiedBounds, LenProperties
  <2> HIDE DEF c, p
  <2>3. ASSUME NEW m \in Nat, m <= p PROVE EndsWith(own, more, m) <=> EndsWith(own, pending, m)
    BY <1>4, <2>3 DEF EndsWith, p
  <2>4. c <= p
    BY <2>2, <1>4 DEF EndsWith, p
  <2>5. ASSUME NEW m \in Nat, EndsWith(own, more, m) PROVE m <= p
    <3> SUFFICES ASSUME ~(m <= p) PROVE FALSE
      OBVIOUS
    <3>1. m = p + 1 /\ m <= Len(own) /\ m \in 1..m
      BY <1>4, <2>5 DEF EndsWith
    <3>2. own[Len(own) - m + m].event = n + 1
      BY <1>4, <2>5, <3>1 DEF EndsWith
    <3>3. Len(own) - m + m = Len(own) /\ Len(own) \in 1..Len(own)
      BY <2>2, <3>1
    <3> QED BY <1>1, <1>2, <3>2, <3>3 DEF Rows
  <2>6. EndsWith(own, more, c) /\ \A m \in Nat : EndsWith(own, more, m) => m <= c
    BY <2>2, <2>3, <2>4, <2>5
  <2> QED BY <2>1, <2>2, <2>6, CopiedLinesFound
<1>10. ASSUME Orderly(own, pending, h) PROVE Orderly(own, more, hn)
  <2>1. ASSUME NEW i \in 1..Len(own), NEW j \in 1..Len(own), i < j
        PROVE  Precedes(own[i].event, own[j].event, hn)
    <3>1. Precedes(own[i].event, own[j].event, h)
      BY <1>10, <2>1 DEF Orderly
    <3>2. own[i].event \in 1..n /\ own[j].event \in 1..n
      BY <1>2 DEF Rows
    <3> QED BY <3>1, <3>2, PrecedesStays DEF hn
  <2>2. ASSUME NEW i \in 1..Len(own), NEW j \in 1..p + 1, j > c
        PROVE  Precedes(own[i].event, more[j].event, hn)
    <3>1. own[i].event \in 1..n
      BY <1>2 DEF Rows
    <3>2. CASE j = p + 1
      BY <1>4, <3>1, <3>2, PrecedesNew DEF hn
    <3>3. CASE j # p + 1
      <4>1. j \in 1..p
        BY <1>4, <3>3
      <4>2. more[j] = pending[j] /\ pending[j].event \in 1..n
        BY <1>2, <1>4, <4>1 DEF Rows
      <4>3. Precedes(own[i].event, pending[j].event, h)
        BY <1>10, <2>2, <4>1 DEF Orderly
      <4> QED BY <3>1, <4>2, <4>3, PrecedesStays DEF hn
    <3> QED BY <3>2, <3>3
  <2> QED BY <1>4, <1>9, <2>1, <2>2 DEF Orderly
<1> QED BY <1>8, <1>10 DEF hn

\* Nothing is copied where the last event under the id is not pending.
LEMMA NoneCopied ==
  ASSUME NEW own \in Seq(LogLines), NEW pending \in Seq(LogLines),
         Len(own) >= 1 => \A j \in 1..Len(pending) : own[Len(own)].event # pending[j].event
  PROVE  Copied(own, pending) = 0
<1>1. Len(own) \in Nat /\ Len(pending) \in Nat
  BY LenProperties
<1>2. EndsWith(own, pending, 0)
  BY <1>1 DEF EndsWith
<1>3. ASSUME NEW m \in Nat, EndsWith(own, pending, m) PROVE m <= 0
  <2> SUFFICES ASSUME m >= 1 PROVE FALSE
    OBVIOUS
  <2>1. m \in 1..m /\ m \in 1..Len(pending) /\ Len(own) >= 1 /\ Len(own) - m + m = Len(own)
    BY <1>1, <1>3 DEF EndsWith
  <2>2. own[Len(own) - m + m].event = pending[m].event
    BY <1>3, <2>1 DEF EndsWith
  <2> QED BY <2>1, <2>2
<1> QED BY <1>2, <1>3, CopiedLinesFound

\* An event is appended under the id, where no copy is unfinished.
LEMMA OwnGrows ==
  ASSUME NEW h \in Seq(Interviewers), NEW v \in Interviewers,
         NEW own, NEW pending, HoldAll(own, pending, Len(h)),
         NEW more, OneMore(own, more, Len(h) + 1)
  PROVE  /\ HoldAll(more, pending, Len(h) + 1)
         /\ /\ Orderly(own, pending, h)
            /\ Copied(own, pending) = 0
            /\ \A i \in 1..Len(pending) : h[pending[i].event] # v
            => Orderly(more, pending, Append(h, v))
<1> DEFINE n == Len(h)
           hn == Append(h, v)
           o == Len(own)
<1>1. n \in Nat /\ hn \in Seq(Interviewers) /\ \A i \in 1..n : hn[i] = h[i]
  BY AppendProperties, LenProperties
<1>2. Rows(own, n) /\ Rows(pending, n)
  BY DEF HoldAll
<1>3. hn[n + 1] = v
  BY AppendProperties
<1> HIDE DEF hn
<1>4. n <= n + 1 /\ n + 1 \in 1..n + 1 /\ n + 1 \in Nat
  BY <1>1
<1>5. /\ Rows(more, n + 1) /\ o \in Nat /\ Len(more) = o + 1
      /\ \A i \in 1..o : more[i] = own[i]
      /\ more[o + 1].event = n + 1
  <2> DEFINE e == n + 1
  <2>1. e \in Nat /\ n <= e /\ e \in 1..e /\ OneMore(own, more, e)
    BY <1>4
  <2> HIDE DEF e, n, o
  <2>2. /\ Rows(more, e) /\ Len(own) \in Nat /\ Len(more) = Len(own) + 1
        /\ \A i \in 1..Len(own) : more[i] = own[i]
        /\ more[Len(own) + 1].event = e
    BY <1>1, <1>2, <2>1, RowsGrow
  <2> QED BY <2>2 DEF e, o
<1>6. Rows(pending, n + 1)
  BY <1>1, <1>2, <1>4, RowsStay
<1>7. ASSUME NEW e \in 1..n + 1 PROVE Has(more, e) \/ Has(pending, e)
  <2>1. /\ \A f : Has(own, f) => Has(more, f)
        /\ Has(more, n + 1)
    <3>1. /\ Len(own) \in Nat /\ Len(more) = Len(own) + 1
          /\ \A i \in 1..Len(own) : more[i] = own[i]
      BY <1>5
    <3>2. /\ \A f : Has(own, f) => Has(more, f)
          /\ Has(more, more[Len(own) + 1].event)
      BY <3>1, HasMore
    <3> QED BY <1>5, <3>2
  <2>2. CASE e = n + 1
    BY <2>1, <2>2
  <2>3. CASE e # n + 1
    <3>1. e \in 1..n
      BY <1>1, <2>3
    <3> QED BY <2>1, <3>1 DEF HoldAll
  <2> QED BY <2>2, <2>3
<1>8. HoldAll(more, pending, n + 1)
  BY <1>5, <1>6, <1>7 DEF HoldAll
<1>9. ASSUME NEW i \in 1..Len(pending)
      PROVE  pending[i].event \in 1..n /\ pending[i].event # n + 1
  <2>1. pending[i].event \in 1..n
    BY <1>2 DEF Rows
  <2> QED BY <1>1, <2>1
<1>10. Copied(more, pending) = 0
  <2>1. more \in Seq(LogLines) /\ pending \in Seq(LogLines)
    BY <1>2, <1>5 DEF Rows
  <2>2. \A j \in 1..Len(pending) : more[Len(more)].event # pending[j].event
    BY <1>5, <1>9
  <2> QED BY <2>1, <2>2, NoneCopied
<1>11. ASSUME Orderly(own, pending, h), Copied(own, pending) = 0,
              \A i \in 1..Len(pending) : h[pending[i].event] # v
       PROVE  Orderly(more, pending, hn)
  <2>1. ASSUME NEW i \in 1..o + 1, NEW j \in 1..o + 1, i < j
        PROVE  Precedes(more[i].event, more[j].event, hn)
    <3>1. i \in 1..o /\ more[i] = own[i] /\ own[i].event \in 1..n
      BY <1>2, <1>5, <2>1 DEF Rows
    <3>2. CASE j = o + 1
      BY <1>5, <3>1, <3>2, PrecedesNew DEF hn
    <3>3. CASE j # o + 1
      <4>1. j \in 1..o
        BY <1>5, <3>3
      <4>2. more[j] = own[j] /\ own[j].event \in 1..n
        BY <1>2, <1>5, <4>1 DEF Rows
      <4>3. Precedes(own[i].event, own[j].event, h)
        BY <1>11, <2>1, <3>1, <4>1 DEF Orderly
      <4> QED BY <3>1, <4>2, <4>3, PrecedesStays DEF hn
    <3> QED BY <3>2, <3>3
  <2>2. ASSUME NEW i \in 1..o + 1, NEW j \in 1..Len(pending)
        PROVE  Precedes(more[i].event, pending[j].event, hn)
    <3>1. pending[j].event \in 1..n /\ pending[j].event # n + 1
      BY <1>9
    <3>2. CASE i = o + 1
      <4>1. hn[pending[j].event] # hn[n + 1]
        BY <1>1, <1>3, <1>11, <3>1
      <4> QED BY <1>5, <3>1, <3>2, <4>1 DEF Precedes
    <3>3. CASE i # o + 1
      <4>1. i \in 1..o
        BY <1>5, <3>3
      <4>2. more[i] = own[i] /\ own[i].event \in 1..n
        BY <1>2, <1>5, <4>1 DEF Rows
      <4>3. j > 0
        OBVIOUS
      <4>4. Precedes(own[i].event, pending[j].event, h)
        BY <1>11, <4>1, <4>3 DEF Orderly
      <4> QED BY <3>1, <4>2, <4>4, PrecedesStays DEF hn
    <3> QED BY <3>2, <3>3
  <2> QED BY <1>5, <2>1, <2>2 DEF Orderly
<1> QED BY <1>8, <1>11 DEF hn

\* The next pending event is copied.
LEMMA CopyGrows ==
  ASSUME NEW n \in Nat, NEW own, NEW pending, HoldAll(own, pending, n),
         NEW e \in 1..n, NEW more, OneMore(own, more, e)
  PROVE  /\ HoldAll(more, pending, n)
         /\ \A f : Has(own, f) => Has(more, f)
         /\ Has(more, e)
         /\ \A h : /\ Orderly(own, pending, h)
                   /\ Copied(own, pending) < Len(pending)
                   /\ e = pending[Copied(own, pending) + 1].event
                   => /\ Copied(more, pending) = Copied(own, pending) + 1
                      /\ Orderly(more, pending, h)
<1> DEFINE o == Len(own)
           c == Copied(own, pending)
<1>1. Rows(own, n) /\ Rows(pending, n) /\ n <= n
  BY DEF HoldAll
<1>2. /\ Rows(more, n) /\ o \in Nat /\ Len(more) = o + 1
      /\ \A i \in 1..o : more[i] = own[i]
      /\ more[o + 1].event = e
  BY <1>1, RowsGrow
<1>3. (\A f : Has(own, f) => Has(more, f)) /\ Has(more, e)
  <2>1. /\ \A f : Has(own, f) => Has(more, f)
        /\ Has(more, more[Len(own) + 1].event)
    BY <1>2, HasMore
  <2> QED BY <1>2, <2>1
<1>4. HoldAll(more, pending, n)
  BY <1>2, <1>3 DEF HoldAll
<1>5. ASSUME NEW h, Orderly(own, pending, h), c < Len(pending), e = pending[c + 1].event
      PROVE  Copied(more, pending) = c + 1 /\ Orderly(more, pending, h)
  <2>1. /\ own \in Seq(LogLines) /\ pending \in Seq(LogLines) /\ more \in Seq(LogLines)
        /\ Len(pending) \in Nat
    BY <1>1, <1>2, LenProperties DEF Rows
  <2>2. EndsWith(own, pending, c) /\ c \in Nat
    BY <2>1, CopiedLines, CopiedBounds
  <2> HIDE DEF c
  <2>3. c <= o /\ c + 1 \in Nat
    BY <2>2 DEF EndsWith
  <2>4. EndsWith(more, pending, c + 1)
    <3>1. c + 1 \in 0..Len(pending) /\ c + 1 <= Len(more)
      BY <1>2, <1>5, <2>1, <2>2, <2>3
    <3>2. ASSUME NEW i \in 1..c + 1
          PROVE  more[Len(more) - (c + 1) + i].event = pending[i].event
      <4>1. Len(more) - (c + 1) + i = o - c + i
        BY <1>2, <2>2
      <4>2. CASE i = c + 1
        <5>1. o - c + i = o + 1
          BY <1>2, <2>2, <4>2
        <5> QED BY <1>2, <1>5, <4>1, <4>2, <5>1
      <4>3. CASE i # c + 1
        <5>1. i \in 1..c /\ o - c + i \in 1..o
          BY <1>2, <2>2, <2>3, <4>3
        <5>2. own[o - c + i].event = pending[i].event
          BY <2>2, <5>1 DEF EndsWith
        <5> QED BY <1>2, <4>1, <5>1, <5>2
      <4> QED BY <4>2, <4>3
    <3> QED BY <3>1, <3>2 DEF EndsWith
  <2>5. ASSUME NEW m \in Nat, EndsWith(more, pending, m) PROVE m <= c + 1
    <3> SUFFICES ASSUME m > c + 1 PROVE FALSE
      BY <2>3
    <3>1. m \in 1..m /\ m \in 1..Len(pending) /\ Len(more) - m + m = o + 1
      BY <1>2, <2>1, <2>2, <2>5 DEF EndsWith
    <3>2. more[Len(more) - m + m].event = pending[m].event
      BY <2>5, <3>1 DEF EndsWith
    <3>3. c + 1 \in 1..Len(pending) /\ c + 1 < m
      BY <1>5, <2>1, <2>2
    <3>4. pending[c + 1].event < pending[m].event
      BY <3>1, <3>3 DEF HoldAll
    <3>5. pending[c + 1].event \in 1..n /\ pending[m].event \in 1..n
      BY <1>1, <3>1, <3>3 DEF Rows
    <3> QED BY <1>2, <1>5, <3>1, <3>2, <3>4, <3>5
  <2>6. Copied(more, pending) = c + 1
    BY <2>1, <2>3, <2>4, <2>5, CopiedLinesFound
  <2>7. c + 1 \in 1..Len(pending) /\ c + 1 > c
    BY <1>5, <2>1, <2>2
  <2>8. ASSUME NEW i \in 1..o, NEW j \in 1..Len(pending), j > c
        PROVE  Precedes(own[i].event, pending[j].event, h)
    BY <1>5, <2>8 DEF Orderly, c
  <2>9. ASSUME NEW i \in 1..o + 1, NEW j \in 1..o + 1, i < j
        PROVE  Precedes(more[i].event, more[j].event, h)
    <3>1. i \in 1..o /\ more[i] = own[i]
      BY <1>2, <2>9
    <3>2. CASE j = o + 1
      BY <1>2, <1>5, <2>7, <2>8, <3>1, <3>2
    <3>3. CASE j # o + 1
      <4>1. j \in 1..o /\ more[j] = own[j]
        BY <1>2, <3>3
      <4> QED BY <1>5, <2>9, <3>1, <4>1 DEF Orderly
    <3> QED BY <3>2, <3>3
  <2>10. ASSUME NEW i \in 1..o + 1, NEW j \in 1..Len(pending), j > c + 1
         PROVE  Precedes(more[i].event, pending[j].event, h)
    <3>1. CASE i = o + 1
      <4>1. pending[c + 1].event < pending[j].event
        BY <2>7, <2>10 DEF HoldAll
      <4>2. pending[c + 1].event \in 1..n /\ pending[j].event \in 1..n
        BY <1>1, <2>7 DEF Rows
      <4> QED BY <1>2, <1>5, <3>1, <4>1, <4>2 DEF Precedes
    <3>2. CASE i # o + 1
      <4>1. i \in 1..o /\ j > c
        BY <1>2, <2>2, <2>10, <3>2
      <4> QED BY <1>2, <2>8, <4>1
    <3> QED BY <3>1, <3>2
  <2> QED BY <1>2, <2>6, <2>9, <2>10 DEF Orderly
<1> QED BY <1>3, <1>4, <1>5

\* The pending log becomes the log under the id.
LEMMA PendingMoves ==
  ASSUME NEW n \in Nat, NEW h, NEW pending, HoldAll(<<>>, pending, n)
  PROVE  HoldAll(pending, <<>>, n) /\ Orderly(pending, <<>>, h)
<1>1. Rows(<<>>, n) /\ Len(<<>>) = 0 /\ Rows(pending, n)
  BY RowsNone DEF HoldAll
<1>2. \A e : ~Has(<<>>, e)
  BY <1>1 DEF Has
<1>3. HoldAll(pending, <<>>, n)
  BY <1>1, <1>2 DEF HoldAll
<1>4. ASSUME NEW i \in 1..Len(pending), NEW j \in 1..Len(pending), i < j
      PROVE  Precedes(pending[i].event, pending[j].event, h)
  <2>1. pending[i].event < pending[j].event
    BY <1>4 DEF HoldAll
  <2>2. pending[i].event \in 1..n /\ pending[j].event \in 1..n
    BY <1>1 DEF Rows
  <2> QED BY <2>1, <2>2 DEF Precedes
<1> QED BY <1>1, <1>3, <1>4 DEF Orderly

\* Everything pending is under the id, and the pending log is removed.
LEMMA PendingGoes ==
  ASSUME NEW n \in Nat, NEW h, NEW own, NEW pending, HoldAll(own, pending, n),
         \A i \in 1..Len(pending) : Has(own, pending[i].event)
  PROVE  /\ HoldAll(own, <<>>, n)
         /\ Orderly(own, pending, h) => Orderly(own, <<>>, h)
<1>1. Rows(<<>>, n) /\ Len(<<>>) = 0
  BY RowsNone
<1>2. \A e : Has(pending, e) => Has(own, e)
  BY DEF Has
<1>3. HoldAll(own, <<>>, n)
  BY <1>1, <1>2 DEF HoldAll
<1> QED BY <1>1, <1>3 DEF Orderly

-----------------------------------------------------------------------------
(* The interview log: the inductive invariant *)

Own == Interview!Parsed(ilFile["id"])
Pending == Interview!Parsed(ilFile["pending"])

InterviewStages == {"idle", "source", "target", "rename", "plan", "trim", "copy", "writecopy",
           "append", "write"}

InterviewTypes ==
  /\ ilFile \in [Interview!Keys -> Logs]
  /\ ilStage \in [Interviewers -> InterviewStages]
  /\ ilKey \in [Interviewers -> Interview!Keys]
  /\ ilPlan \in [Interviewers -> Seq(Nat)]
  /\ ilSeen \in [Interviewers -> [seq : Nat, clean : BOOLEAN]]
  /\ ilHistory \in Seq(Interviewers)

\* Before the first seal everything is pending.
BeforeTheId == ~ilIssued => Own = <<>>

\* A plan is the uncopied events in their order.
IsPlan(own, pending, plan) ==
  /\ Len(plan) = Len(pending) - Copied(own, pending)
  /\ \A i \in 1..Len(plan) : plan[i] = pending[Copied(own, pending) + i].event

\* The key of a process that looks for the pending log, or moves it, is the vault id.
Keyed(w) ==
  /\ ilStage[w] \notin {"idle", "append", "write"} => ilKey[w] = "id"
  /\ ilStage[w] # "idle" /\ ilKey[w] = "id" => ilIssued

\* What a process that is under way has read is so still.
Aware(w) ==
  LET f == ilFile[ilKey[w]] IN
  /\ ilStage[w] = "rename" => ilFile["id"] = NoFile
  /\ ilStage[w] = "trim" => ilPlan[w] = Interview!EventsOf(Pending)
  /\ ilStage[w] \in {"copy", "writecopy"} => IsPlan(Own, Pending, ilPlan[w])
  /\ ilStage[w] = "writecopy" => ilPlan[w] # <<>>
  /\ ilStage[w] \in {"write", "writecopy"} =>
       /\ ilSeen[w].seq = Interview!Highest(Interview!Parsed(f)) + 1
       /\ ilSeen[w].clean = Interview!EndsClean(f)
  /\ ilStage[w] \in {"append", "write"} /\ ilKey[w] = "id" => Pending = <<>>

InterviewInv ==
  /\ InterviewTypes
  /\ HoldAll(Own, Pending, Len(ilHistory))
  /\ Orderly(Own, Pending, ilHistory)
  /\ BeforeTheId
  /\ \A w \in Interviewers : Keyed(w) /\ Aware(w)
  /\ Interview!OneUnderway

LEMMA OwnPendingAre ==
  ASSUME InterviewInv
  PROVE  /\ Own \in Seq(LogLines) /\ Pending \in Seq(LogLines)
         /\ Rows(Own, Len(ilHistory)) /\ Rows(Pending, Len(ilHistory))
         /\ Len(ilHistory) \in Nat /\ Len(Own) \in Nat /\ Len(Pending) \in Nat
<1>1. Rows(Own, Len(ilHistory)) /\ Rows(Pending, Len(ilHistory))
  BY DEF InterviewInv, HoldAll
<1>2. Own \in Seq(LogLines) /\ Pending \in Seq(LogLines) /\ ilHistory \in Seq(Interviewers)
  BY <1>1 DEF Rows, InterviewInv, InterviewTypes
<1> QED BY <1>1, <1>2, LenProperties

LEMMA NothingRead == NoFile \in Logs /\ Interview!Parsed(NoFile) = <<>> /\ Len(<<>>) = 0
<1>1. NoFile \in Logs
  BY DEF Logs
<1> QED BY <1>1, ParsedIsLines

\* One log is written.
LEMMA IdWritten ==
  ASSUME InterviewTypes, NEW f \in Logs, ilFile' = [ilFile EXCEPT !["id"] = f]
  PROVE  /\ ilFile' \in [Interview!Keys -> Logs]
         /\ Own' = Interview!Parsed(f)
         /\ Pending' = Pending
<1>1. /\ ilFile' \in [Interview!Keys -> Logs]
      /\ ilFile'["id"] = f
      /\ ilFile'["pending"] = ilFile["pending"]
  BY DEF InterviewTypes, Interview!Keys
<1> QED BY <1>1 DEF Own, Pending

LEMMA PendingWritten ==
  ASSUME InterviewTypes, NEW f \in Logs, ilFile' = [ilFile EXCEPT !["pending"] = f]
  PROVE  /\ ilFile' \in [Interview!Keys -> Logs]
         /\ Pending' = Interview!Parsed(f)
         /\ Own' = Own
<1>1. /\ ilFile' \in [Interview!Keys -> Logs]
      /\ ilFile'["pending"] = f
      /\ ilFile'["id"] = ilFile["id"]
  BY DEF InterviewTypes, Interview!Keys
<1> QED BY <1>1 DEF Own, Pending

\* The step of one process, to stage s with plan p and what is read r.
Moves(w, s, p, r) ==
  /\ s \in InterviewStages /\ p \in Seq(Nat) /\ r \in [seq : Nat, clean : BOOLEAN]
  /\ ilStage' = [ilStage EXCEPT ![w] = s]
  /\ ilPlan' = [ilPlan EXCEPT ![w] = p]
  /\ ilSeen' = [ilSeen EXCEPT ![w] = r]

\* Where a process moves or appends, it alone knows the logs, so that only its own knowledge
\* has to be shown again.
LEMMA OneMoves ==
  ASSUME InterviewInv, NEW w \in Interviewers, NEW s, NEW p, NEW r, Moves(w, s, p, r),
         UNCHANGED ilIssued, ilKey' = ilKey,
         ilFile' \in [Interview!Keys -> Logs], ilHistory' \in Seq(Interviewers),
         HoldAll(Own, Pending, Len(ilHistory))', Orderly(Own, Pending, ilHistory)',
         BeforeTheId', Keyed(w)', Aware(w)', Interview!OneUnderway',
         ilFile' = ilFile \/ Interview!Underway(w)
  PROVE  InterviewInv'
<1>1. /\ InterviewTypes'
      /\ ilStage'[w] = s
      /\ \A v \in Interviewers : v # w =>
           ilStage'[v] = ilStage[v] /\ ilPlan'[v] = ilPlan[v] /\ ilSeen'[v] = ilSeen[v]
  BY DEF InterviewInv, InterviewTypes, Moves
<1>2. ASSUME NEW v \in Interviewers, v # w PROVE Keyed(v)' /\ Aware(v)'
  <2>1. /\ Keyed(v) /\ Aware(v) /\ ilKey'[v] = ilKey[v]
        /\ ilStage'[v] = ilStage[v] /\ ilPlan'[v] = ilPlan[v] /\ ilSeen'[v] = ilSeen[v]
    BY <1>1, <1>2 DEF InterviewInv
  <2>2. Keyed(v)'
    BY <2>1 DEF Keyed
  <2>3. CASE ilFile' = ilFile
    <3>1. Own' = Own /\ Pending' = Pending
      BY <2>3 DEF Own, Pending
    <3> QED BY <2>1, <2>2, <2>3, <3>1 DEF Aware
  <2>4. CASE Interview!Underway(w)
    <3>1. ~Interview!Underway(v)
      BY <1>2, <2>4 DEF InterviewInv, Interview!OneUnderway
    <3>2. ilStage[v] \in {"idle", "source"} \/ (ilStage[v] = "append" /\ ilKey[v] # "id")
      BY <3>1 DEF Interview!Underway
    <3> QED BY <2>1, <2>2, <3>2 DEF Aware
  <2> QED BY <2>3, <2>4
<1> QED BY <1>1, <1>2 DEF InterviewInv

\* A step that writes nothing.
LEMMA NothingWritten ==
  ASSUME InterviewInv, NEW w \in Interviewers, NEW s, NEW p, NEW r, Moves(w, s, p, r),
         UNCHANGED <<ilIssued, ilKey, ilFile, ilHistory>>,
         Keyed(w)', Aware(w)', Interview!OneUnderway'
  PROVE  InterviewInv'
<1>1. Own' = Own /\ Pending' = Pending
  BY DEF Own, Pending
<1>2. /\ HoldAll(Own, Pending, Len(ilHistory))' /\ Orderly(Own, Pending, ilHistory)'
      /\ BeforeTheId'
      /\ ilFile' \in [Interview!Keys -> Logs] /\ ilHistory' \in Seq(Interviewers)
  BY <1>1 DEF InterviewInv, InterviewTypes, BeforeTheId
<1> QED BY <1>2, OneMoves

LEMMA IssueKeeps ==
  ASSUME InterviewInv, Interview!Issue, Interview!OneUnderway'
  PROVE  InterviewInv'
<1>1. /\ UNCHANGED <<ilFile, ilStage, ilKey, ilPlan, ilSeen, ilHistory>>
      /\ ilIssued'
  BY DEF Interview!Issue
<1>2. Own' = Own /\ Pending' = Pending
  BY <1>1 DEF Own, Pending
<1>3. \A w \in Interviewers : Keyed(w)' /\ Aware(w)'
  BY <1>1, <1>2 DEF InterviewInv, Keyed, Aware
<1> QED BY <1>1, <1>2, <1>3 DEF InterviewInv, InterviewTypes, BeforeTheId

LEMMA ChooseKeyKeeps ==
  ASSUME InterviewInv, NEW w \in Interviewers, Interview!ChooseKey(w), Interview!OneUnderway'
  PROVE  InterviewInv'
<1>1. /\ UNCHANGED <<ilIssued, ilFile, ilPlan, ilSeen, ilHistory>>
      /\ ilStage' = [ilStage EXCEPT ![w] = IF ilIssued THEN "source" ELSE "append"]
      /\ ilKey' = [ilKey EXCEPT ![w] = IF ilIssued THEN "id" ELSE "pending"]
  BY DEF Interview!ChooseKey, Interview!Goto
<1>2. Own' = Own /\ Pending' = Pending
  BY <1>1 DEF Own, Pending
<1>3. InterviewTypes
  BY DEF InterviewInv
<1>4. /\ ilStage' \in [Interviewers -> InterviewStages]
      /\ ilStage'[w] = IF ilIssued THEN "source" ELSE "append"
      /\ \A v \in Interviewers : v # w => ilStage'[v] = ilStage[v]
  BY <1>1, <1>3 DEF InterviewTypes, InterviewStages
<1>5. /\ ilKey' \in [Interviewers -> Interview!Keys]
      /\ ilKey'[w] = IF ilIssued THEN "id" ELSE "pending"
      /\ \A v \in Interviewers : v # w => ilKey'[v] = ilKey[v]
  BY <1>1, <1>3 DEF InterviewTypes, Interview!Keys
<1>6. InterviewTypes'
  BY <1>1, <1>3, <1>4, <1>5 DEF InterviewTypes
<1>7. ASSUME NEW v \in Interviewers PROVE Keyed(v)' /\ Aware(v)'
  <2>1. CASE v = w
    BY <1>1, <1>4, <1>5, <2>1 DEF Keyed, Aware
  <2>2. CASE v # w
    <3>1. /\ Keyed(v) /\ Aware(v)
          /\ ilStage'[v] = ilStage[v] /\ ilKey'[v] = ilKey[v]
      BY <1>4, <1>5, <2>2 DEF InterviewInv
    <3> QED BY <1>1, <1>2, <3>1 DEF Keyed, Aware
  <2> QED BY <2>1, <2>2
<1> QED BY <1>1, <1>2, <1>6, <1>7 DEF InterviewInv, BeforeTheId

\* The record of what w read and planned is well-typed, and its key is one of two.
LEMMA WriterTypes ==
  ASSUME InterviewInv, NEW w \in Interviewers
  PROVE  /\ ilPlan[w] \in Seq(Nat) /\ ilSeen[w] \in [seq : Nat, clean : BOOLEAN]
         /\ ilPlan = [ilPlan EXCEPT ![w] = ilPlan[w]]
         /\ ilSeen = [ilSeen EXCEPT ![w] = ilSeen[w]]
         /\ ilKey[w] \in {"pending", "id"}
         /\ ilFile[ilKey[w]] \in Logs /\ ilFile["id"] \in Logs /\ ilFile["pending"] \in Logs
         /\ \A s : [ilStage EXCEPT ![w] = s][w] = s
         /\ Keyed(w) /\ Aware(w)
BY DEF InterviewInv, InterviewTypes, Interview!Keys

LEMMA LookKeeps ==
  ASSUME InterviewInv, NEW w \in Interviewers, Interview!OneUnderway',
         Interview!LookForSource(w) \/ Interview!LookForTarget(w)
  PROVE  InterviewInv'
<1> DEFINE s == ilStage'[w]
<1>1. /\ UNCHANGED <<ilIssued, ilFile, ilKey, ilPlan, ilSeen, ilHistory>>
      /\ s \in {"append", "target", "rename", "plan"}
      /\ ilStage' = [ilStage EXCEPT ![w] = s]
      /\ ilStage[w] \in {"source", "target"}
      /\ s = "append" => ilFile["pending"] = NoFile
      /\ s = "rename" => ilFile["id"] = NoFile
  <2>1. CASE Interview!LookForSource(w)
    BY <2>1, WriterTypes DEF Interview!LookForSource, Interview!Goto
  <2>2. CASE Interview!LookForTarget(w)
    BY <2>2, WriterTypes DEF Interview!LookForTarget, Interview!Goto
  <2> QED BY <2>1, <2>2
<1> HIDE DEF s
<1>2. Moves(w, s, ilPlan[w], ilSeen[w]) /\ ilStage'[w] = s
  BY <1>1, WriterTypes DEF Moves, InterviewStages
<1>3. Keyed(w)'
  BY <1>1, <1>2, WriterTypes DEF Keyed
<1>4. Aware(w)'
  <2>1. s = "append" => Pending' = <<>>
    BY <1>1, NothingRead DEF Pending
  <2> QED BY <1>1, <1>2, <2>1 DEF Aware
<1> QED BY <1>1, <1>2, <1>3, <1>4, NothingWritten

\* A set of events is copied as it is planned.
LEMMA UncopiedIs ==
  ASSUME NEW own \in Seq(LogLines), NEW pending \in Seq(LogLines),
         NEW plan, plan = Interview!Uncopied(Interview!EventsOf(own), Interview!EventsOf(pending))
  PROVE  plan \in Seq(Nat) /\ IsPlan(own, pending, plan)
<1> DEFINE c == Copied(own, pending)
           p == Len(pending)
           events == Interview!EventsOf(pending)
<1>1. c \in 0..p /\ c \in Nat /\ p \in Nat
  BY CopiedBounds, LenProperties
<1>2. /\ events \in Seq(Nat) /\ Len(events) = p
      /\ \A i \in 1..p : events[i] = pending[i].event
  BY EventsAre
<1>3. plan = SubSeq(events, c + 1, Len(events))
  BY DEF Interview!Uncopied, Copied
<1> HIDE DEF c, p, events
<1>4. \A i \in c + 1..p : events[i] \in Nat
  BY <1>1, <1>2, ElementOfSeq
<1>5. /\ SubSeq(events, c + 1, p) \in Seq(Nat)
      /\ Len(SubSeq(events, c + 1, p)) = IF c + 1 <= p THEN p - (c + 1) + 1 ELSE 0
      /\ \A i \in 1..p - (c + 1) + 1 : SubSeq(events, c + 1, p)[i] = events[c + 1 + i - 1]
  BY <1>1, <1>4, SubSeqProperties
<1>6. Len(plan) = p - c
  BY <1>1, <1>2, <1>3, <1>5
<1>7. ASSUME NEW i \in 1..p - c PROVE plan[i] = pending[c + i].event
  <2>1. i \in 1..p - (c + 1) + 1 /\ c + 1 + i - 1 = c + i /\ c + i \in 1..p
    BY <1>1
  <2> QED BY <1>2, <1>3, <1>5, <2>1
<1> QED BY <1>2, <1>3, <1>5, <1>6, <1>7 DEF IsPlan, c, p

LEMMA ReadLogsKeeps ==
  ASSUME InterviewInv, NEW w \in Interviewers, Interview!OneUnderway',
         Interview!ReadSource(w) \/ Interview!ReadTarget(w)
  PROVE  InterviewInv'
<1>1. Own \in Seq(LogLines) /\ Pending \in Seq(LogLines) /\ InterviewTypes
  BY OwnPendingAre DEF InterviewInv
<1>2. CASE Interview!ReadSource(w)
  <2> DEFINE p == Interview!EventsOf(Pending)
  <2>1. /\ UNCHANGED <<ilIssued, ilFile, ilKey, ilSeen, ilHistory>>
        /\ ilStage[w] = "plan" /\ ilStage' = [ilStage EXCEPT ![w] = "trim"]
        /\ ilPlan' = [ilPlan EXCEPT ![w] = p] /\ p \in Seq(Nat)
    BY <1>1, <1>2, EventsAre DEF Interview!ReadSource, Interview!Goto, Pending
  <2>2. ilPlan'[w] = p /\ Pending' = Pending
    BY <1>1, <2>1 DEF InterviewTypes, Pending
  <2> HIDE DEF p
  <2>3. Moves(w, "trim", p, ilSeen[w]) /\ ilStage'[w] = "trim"
    BY <2>1, WriterTypes DEF Moves, InterviewStages
  <2>4. Keyed(w)' /\ Aware(w)'
    BY <2>1, <2>2, <2>3, WriterTypes DEF Keyed, Aware, p
  <2> QED BY <2>1, <2>3, <2>4, NothingWritten
<1>3. CASE Interview!ReadTarget(w)
  <2> DEFINE p == Interview!Uncopied(Interview!EventsOf(Own), Interview!EventsOf(Pending))
  <2>1. /\ UNCHANGED <<ilIssued, ilFile, ilKey, ilSeen, ilHistory>>
        /\ ilStage[w] = "trim" /\ ilStage' = [ilStage EXCEPT ![w] = "copy"]
        /\ ilPlan' = [ilPlan EXCEPT ![w] = p]
    BY <1>1, <1>3, WriterTypes DEF Interview!ReadTarget, Interview!Goto, Own, Aware
  <2>2. p \in Seq(Nat) /\ IsPlan(Own, Pending, p)
    BY <1>1, UncopiedIs
  <2> HIDE DEF p
  <2>3. ilPlan'[w] = p /\ Own' = Own /\ Pending' = Pending
    BY <1>1, <2>1 DEF InterviewTypes, Own, Pending
  <2>4. Moves(w, "copy", p, ilSeen[w]) /\ ilStage'[w] = "copy"
    BY <2>1, <2>2, WriterTypes DEF Moves, InterviewStages
  <2>5. IsPlan(Own', Pending', p)
    BY <2>2, <2>3
  <2>6. Keyed(w)' /\ Aware(w)'
    BY <2>1, <2>3, <2>4, <2>5, WriterTypes DEF Keyed, Aware
  <2> QED BY <2>1, <2>4, <2>6, NothingWritten
<1> QED BY <1>2, <1>3

LEMMA ReadLogKeeps ==
  ASSUME InterviewInv, NEW w \in Interviewers, Interview!OneUnderway', Interview!ReadLog(w)
  PROVE  InterviewInv'
<1> DEFINE f == ilFile[ilKey[w]]
           r == [seq |-> Interview!Highest(Interview!Parsed(f)) + 1,
                 clean |-> Interview!EndsClean(f)]
           s == IF ilStage[w] = "append" THEN "write" ELSE "writecopy"
<1>1. /\ UNCHANGED <<ilIssued, ilFile, ilKey, ilPlan, ilHistory>>
      /\ ilStage[w] = "append" \/ (ilStage[w] = "copy" /\ ilPlan[w] # <<>>)
      /\ ilStage' = [ilStage EXCEPT ![w] = s]
      /\ ilSeen' = [ilSeen EXCEPT ![w] = r]
  BY DEF Interview!ReadLog, Interview!Goto
<1>2. r \in [seq : Nat, clean : BOOLEAN]
  <2>1. Interview!Highest(Interview!Parsed(f)) \in Nat
    BY WriterTypes, ParsedIsLines, HighestIsHigh
  <2>2. Interview!EndsClean(f) \in BOOLEAN
    BY DEF Interview!EndsClean
  <2> QED BY <2>1, <2>2
<1>3. /\ r.seq = Interview!Highest(Interview!Parsed(f)) + 1
      /\ r.clean = Interview!EndsClean(f)
  OBVIOUS
<1>4. ilSeen'[w] = r /\ Own' = Own /\ Pending' = Pending /\ ilFile'[ilKey'[w]] = f
  BY <1>1 DEF Own, Pending, InterviewInv, InterviewTypes
<1>5. Moves(w, s, ilPlan[w], r) /\ ilStage'[w] = s
  BY <1>1, <1>2, WriterTypes DEF Moves, InterviewStages
<1> HIDE DEF r
<1>6. Keyed(w)'
  BY <1>1, <1>5, WriterTypes DEF Keyed
<1>7. Aware(w)'
  <2>1. IsPlan(Own, Pending, ilPlan[w]) => IsPlan(Own', Pending', ilPlan'[w])
    BY <1>1, <1>4
  <2>2. /\ ilSeen'[w].seq = Interview!Highest(Interview!Parsed(ilFile'[ilKey'[w]])) + 1
        /\ ilSeen'[w].clean = Interview!EndsClean(ilFile'[ilKey'[w]])
    BY <1>3, <1>4
  <2>3. CASE ilStage[w] = "append"
    <3>1. s = "write" /\ (ilKey'[w] = "id" => Pending' = <<>>)
      BY <1>1, <1>4, <2>3, WriterTypes DEF Aware
    <3> QED BY <1>5, <2>2, <3>1 DEF Aware
  <2>4. CASE ilStage[w] = "copy" /\ ilPlan[w] # <<>>
    <3>1. s = "writecopy" /\ IsPlan(Own', Pending', ilPlan'[w]) /\ ilPlan'[w] # <<>>
      BY <1>1, <2>1, <2>4, WriterTypes DEF Aware
    <3> QED BY <1>5, <2>2, <3>1 DEF Aware
  <2> QED BY <1>1, <2>3, <2>4
<1> QED BY <1>1, <1>5, <1>6, <1>7, NothingWritten

\* The line of an event at the end of a log whose end and highest number are known.
LEMMA WithEventIs ==
  ASSUME LogsAreLogs, InterviewInv, NEW w \in Interviewers, ilStage[w] \in {"write", "writecopy"},
         NEW e \in Nat, e # 0, NEW more, ilFile' = Interview!WithEvent(w, e),
         NEW old, old = Interview!Parsed(ilFile[ilKey[w]]), more = Append(old, LineOf(e, old))
  PROVE  /\ ilFile' \in [Interview!Keys -> Logs]
         /\ Own' = (IF ilKey[w] = "id" THEN more ELSE Own)
         /\ Pending' = (IF ilKey[w] = "pending" THEN more ELSE Pending)
<1> DEFINE f == ilFile[ilKey[w]]
           l == LineOf(e, old)
           g == Interview!With(f, l, Interview!EndsClean(f))
<1>1. f \in Logs /\ InterviewTypes /\ ilKey[w] \in {"pending", "id"} /\ "id" # "pending"
  BY WriterTypes DEF InterviewInv
<1>2. l \in LogLines /\ l.event = e
  <2>1. Interview!Highest(old) \in Nat
    BY <1>1, ParsedIsLines, HighestIsHigh
  <2> QED BY <2>1 DEF LineOf, LogLines
<1>3. ilFile' = [ilFile EXCEPT ![ilKey[w]] = g]
  <2>1. /\ ilSeen[w].seq = Interview!Highest(old) + 1
        /\ ilSeen[w].clean = Interview!EndsClean(f)
    BY WriterTypes DEF Aware
  <2>2. l = [event |-> e, seq |-> ilSeen[w].seq]
    BY <2>1 DEF LineOf
  <2> QED BY <2>1, <2>2 DEF Interview!WithEvent
<1> HIDE DEF l
<1>4. g \in Logs /\ Interview!Parsed(g) = more
  BY <1>1, <1>2, WithOneMore DEF l
<1> HIDE DEF g, f
<1>5. CASE ilKey[w] = "id"
  BY <1>1, <1>3, <1>4, <1>5, IdWritten
<1>6. CASE ilKey[w] = "pending"
  BY <1>1, <1>3, <1>4, <1>6, PendingWritten
<1> QED BY <1>1, <1>5, <1>6

LEMMA CrashKeeps ==
  ASSUME LogsAreLogs, InterviewInv, NEW w \in Interviewers, Interview!OneUnderway',
         Interview!Crash(w)
  PROVE  InterviewInv'
<1> DEFINE none == <<>>
           f == ilFile[ilKey[w]]
           g == Interview!With(f, Interview!Torn, Interview!EndsClean(f))
<1>1. /\ UNCHANGED <<ilIssued, ilKey, ilSeen, ilHistory>>
      /\ ilStage' = [ilStage EXCEPT ![w] = "idle"]
      /\ ilPlan' = [ilPlan EXCEPT ![w] = none]
      /\ none \in Seq(Nat)
  BY DEF Interview!Crash, Interview!Goto
<1> HIDE DEF none
<1>2. Moves(w, "idle", none, ilSeen[w]) /\ ilStage'[w] = "idle"
  BY <1>1, WriterTypes DEF Moves, InterviewStages
<1>3. Keyed(w)' /\ Aware(w)'
  BY <1>2 DEF Keyed, Aware
<1>4. CASE UNCHANGED ilFile
  BY <1>1, <1>2, <1>3, <1>4, NothingWritten
<1>5. CASE ~UNCHANGED ilFile
  <2>1. /\ ilStage[w] \in {"write", "writecopy"}
        /\ ilFile' = [ilFile EXCEPT ![ilKey[w]] = g]
    BY <1>5, WriterTypes DEF Interview!Crash, Aware
  <2>2. g \in Logs /\ Interview!Parsed(g) = Interview!Parsed(f)
    <3>1. Interview!Torn \in LogLines /\ Interview!Torn.event = 0
      BY DEF Interview!Torn, LogLines
    <3> QED BY <3>1, WriterTypes, WithOneMore
  <2> HIDE DEF g
  <2>3. InterviewTypes /\ ilKey[w] \in {"pending", "id"}
    BY WriterTypes DEF InterviewInv
  <2>4. ilFile' \in [Interview!Keys -> Logs] /\ Own' = Own /\ Pending' = Pending
    <3>1. CASE ilKey[w] = "id"
      BY <2>1, <2>2, <2>3, <3>1, IdWritten DEF Own
    <3>2. CASE ilKey[w] = "pending"
      BY <2>1, <2>2, <2>3, <3>2, PendingWritten DEF Pending
    <3> QED BY <2>3, <3>1, <3>2
  <2>5. /\ HoldAll(Own, Pending, Len(ilHistory))' /\ Orderly(Own, Pending, ilHistory)'
        /\ BeforeTheId' /\ ilHistory' \in Seq(Interviewers)
    BY <1>1, <2>4 DEF InterviewInv, InterviewTypes, BeforeTheId
  <2>6. Interview!Underway(w)
    BY <2>1 DEF Interview!Underway
  <2> QED BY <1>1, <1>2, <1>3, <2>4, <2>5, <2>6, OneMoves
<1> QED BY <1>4, <1>5

LEMMA MoveByRenameKeeps ==
  ASSUME InterviewInv, NEW w \in Interviewers, Interview!OneUnderway',
         Interview!MoveByRename(w)
  PROVE  InterviewInv'
<1>1. /\ UNCHANGED <<ilIssued, ilKey, ilPlan, ilSeen, ilHistory>>
      /\ ilStage[w] = "rename" /\ ilFile["id"] = NoFile /\ ilKey[w] = "id" /\ ilIssued
  BY WriterTypes DEF Interview!MoveByRename, Aware, Keyed
<1>2. CASE ilFile["pending"] = NoFile
  <2>1. ilStage' = [ilStage EXCEPT ![w] = "idle"] /\ UNCHANGED ilFile
    BY <1>2 DEF Interview!MoveByRename, Interview!Goto
  <2>2. Moves(w, "idle", ilPlan[w], ilSeen[w]) /\ ilStage'[w] = "idle"
    BY <1>1, <2>1, WriterTypes DEF Moves, InterviewStages
  <2>3. Keyed(w)' /\ Aware(w)'
    BY <2>2 DEF Keyed, Aware
  <2> QED BY <1>1, <2>1, <2>2, <2>3, NothingWritten
<1>3. CASE ilFile["pending"] # NoFile
  <2>1. /\ ilFile' = [pending |-> NoFile, id |-> ilFile["pending"]]
        /\ ilStage' = [ilStage EXCEPT ![w] = "append"]
    BY <1>3 DEF Interview!MoveByRename, Interview!Goto
  <2>2. Moves(w, "append", ilPlan[w], ilSeen[w]) /\ ilStage'[w] = "append"
    BY <1>1, <2>1, WriterTypes DEF Moves, InterviewStages
  <2>3. /\ ilFile' \in [Interview!Keys -> Logs]
        /\ Own' = Pending /\ Pending' = <<>> /\ Own = <<>>
    <3>1. ilFile'["id"] = ilFile["pending"] /\ ilFile'["pending"] = NoFile
      BY <2>1
    <3>2. ilFile' \in [Interview!Keys -> Logs]
      BY <2>1, WriterTypes, NothingRead DEF Interview!Keys
    <3> QED BY <1>1, <3>1, <3>2, NothingRead DEF Own, Pending
  <2>4. Len(ilHistory) \in Nat /\ HoldAll(<<>>, Pending, Len(ilHistory))
    BY <2>3, OwnPendingAre DEF InterviewInv
  <2>5. HoldAll(Pending, <<>>, Len(ilHistory)) /\ Orderly(Pending, <<>>, ilHistory)
    BY <2>4, PendingMoves
  <2>6. /\ HoldAll(Own, Pending, Len(ilHistory))' /\ Orderly(Own, Pending, ilHistory)'
        /\ BeforeTheId' /\ ilHistory' \in Seq(Interviewers)
    BY <1>1, <2>3, <2>5 DEF InterviewInv, InterviewTypes, BeforeTheId
  <2>7. Keyed(w)' /\ Aware(w)' /\ Interview!Underway(w)
    BY <1>1, <2>2, <2>3 DEF Keyed, Aware, Interview!Underway
  <2> QED BY <1>1, <2>2, <2>3, <2>6, <2>7, OneMoves
<1> QED BY <1>2, <1>3

LEMMA FinishCopyKeeps ==
  ASSUME InterviewInv, NEW w \in Interviewers, Interview!OneUnderway', Interview!FinishCopy(w)
  PROVE  InterviewInv'
<1>1. /\ UNCHANGED <<ilIssued, ilKey, ilPlan, ilSeen, ilHistory>>
      /\ ilStage[w] = "copy" /\ ilPlan[w] = <<>> /\ ilKey[w] = "id" /\ ilIssued
      /\ ilFile' = [ilFile EXCEPT !["pending"] = NoFile]
      /\ ilStage' = [ilStage EXCEPT ![w] = "append"]
      /\ IsPlan(Own, Pending, ilPlan[w])
  BY WriterTypes DEF Interview!FinishCopy, Interview!Goto, Keyed, Aware
<1>2. Moves(w, "append", ilPlan[w], ilSeen[w]) /\ ilStage'[w] = "append"
  BY <1>1, WriterTypes DEF Moves, InterviewStages
<1>3. ilFile' \in [Interview!Keys -> Logs] /\ Own' = Own /\ Pending' = <<>>
  <2>1. InterviewTypes
    BY DEF InterviewInv
  <2> QED BY <1>1, <2>1, NothingRead, PendingWritten
<1>4. Len(ilHistory) \in Nat /\ HoldAll(Own, Pending, Len(ilHistory))
  BY OwnPendingAre DEF InterviewInv
<1>5. \A i \in 1..Len(Pending) : Has(Own, Pending[i].event)
  <2>1. /\ Copied(Own, Pending) \in Nat /\ Len(Pending) \in Nat
        /\ \A i \in 1..Copied(Own, Pending) : Has(Own, Pending[i].event)
    BY OwnPendingAre, CopiedBounds
  <2>2. Len(Pending) = Copied(Own, Pending)
    <3>1. Len(ilPlan[w]) = 0
      BY <1>1
    <3>2. Len(ilPlan[w]) = Len(Pending) - Copied(Own, Pending)
      BY <1>1 DEF IsPlan
    <3> QED BY <2>1, <3>1, <3>2
  <2> QED BY <2>1, <2>2
<1>6. HoldAll(Own, <<>>, Len(ilHistory)) /\ Orderly(Own, <<>>, ilHistory)
  BY <1>4, <1>5, PendingGoes DEF InterviewInv
<1>7. /\ HoldAll(Own, Pending, Len(ilHistory))' /\ Orderly(Own, Pending, ilHistory)'
      /\ BeforeTheId' /\ ilHistory' \in Seq(Interviewers)
  BY <1>1, <1>3, <1>6 DEF InterviewInv, InterviewTypes, BeforeTheId
<1>8. Keyed(w)' /\ Aware(w)' /\ Interview!Underway(w)
  BY <1>1, <1>2, <1>3 DEF Keyed, Aware, Interview!Underway
<1> QED BY <1>1, <1>2, <1>3, <1>7, <1>8, OneMoves

LEMMA CopyEventKeeps ==
  ASSUME LogsAreLogs, InterviewInv, NEW w \in Interviewers, Interview!OneUnderway',
         Interview!CopyEvent(w)
  PROVE  InterviewInv'
<1> DEFINE plan == ilPlan[w]
           rest == Tail(plan)
           e == Head(plan)
           n == Len(ilHistory)
           c == Copied(Own, Pending)
           p == Len(Pending)
           more == Append(Own, LineOf(e, Own))
<1>1. /\ UNCHANGED <<ilIssued, ilKey, ilSeen, ilHistory>>
      /\ ilStage[w] = "writecopy" /\ plan # <<>> /\ IsPlan(Own, Pending, plan)
      /\ ilKey[w] = "id" /\ ilIssued
      /\ ilStage' = [ilStage EXCEPT ![w] = "copy"]
      /\ ilFile' = Interview!WithEvent(w, e)
      /\ ilPlan' = [ilPlan EXCEPT ![w] = rest]
  BY WriterTypes DEF Interview!CopyEvent, Interview!Goto, Keyed, Aware
<1>2. /\ n \in Nat /\ HoldAll(Own, Pending, n) /\ Rows(Pending, n)
      /\ Orderly(Own, Pending, ilHistory)
  BY OwnPendingAre DEF InterviewInv
<1>3. /\ plan \in Seq(Nat) /\ rest \in Seq(Nat) /\ Len(plan) \in Nat
      /\ Len(rest) = Len(plan) - 1 /\ Len(plan) >= 1
      /\ e = plan[1]
      /\ \A i \in 1..Len(rest) : rest[i] = plan[i + 1]
  <2>1. plan \in Seq(Nat)
    BY WriterTypes
  <2> HIDE DEF plan
  <2>2. Len(plan) \in Nat /\ Len(plan) >= 1 /\ Head(plan) = plan[1]
    BY <1>1, <2>1, EmptySeq
  <2> QED BY <1>1, <2>1, <2>2, HeadTailProperties
<1>4. c \in Nat /\ p \in Nat
  BY OwnPendingAre, CopiedBounds
<1>5. Len(plan) = p - c /\ \A i \in 1..Len(plan) : plan[i] = Pending[c + i].event
  BY <1>1 DEF IsPlan
<1> HIDE DEF e, rest, plan, more, c, p
<1>6. c < p /\ e = Pending[c + 1].event /\ c + 1 \in 1..p
  BY <1>3, <1>4, <1>5
<1>7. e \in 1..n
  BY <1>2, <1>6 DEF Rows, p
<1>8. ilFile' \in [Interview!Keys -> Logs] /\ Own' = more /\ Pending' = Pending
  <2>1. e \in Nat /\ e # 0 /\ Own = Interview!Parsed(ilFile[ilKey[w]])
    BY <1>1, <1>2, <1>7 DEF Own
  <2> QED BY <1>1, <2>1, WithEventIs DEF more
<1>9. /\ HoldAll(more, Pending, n)
      /\ Copied(more, Pending) = c + 1
      /\ Orderly(more, Pending, ilHistory)
  <2>1. OneMore(Own, more, e)
    BY DEF OneMore, more
  <2> QED BY <1>2, <1>6, <1>7, <2>1, CopyGrows DEF c, p
<1>10. IsPlan(more, Pending, rest)
  <2>1. Len(rest) = p - (c + 1)
    BY <1>3, <1>4, <1>5
  <2>2. ASSUME NEW i \in 1..Len(rest) PROVE rest[i] = Pending[c + 1 + i].event
    <3>1. i + 1 \in 1..Len(plan) /\ c + (i + 1) = c + 1 + i
      BY <1>3, <1>4
    <3> QED BY <1>3, <1>5, <3>1
  <2> QED BY <1>9, <2>1, <2>2 DEF IsPlan, p
<1>11. Moves(w, "copy", rest, ilSeen[w]) /\ ilStage'[w] = "copy" /\ ilPlan'[w] = rest
  BY <1>1, <1>3, WriterTypes DEF Moves, InterviewStages, InterviewInv, InterviewTypes
<1>12. /\ HoldAll(Own, Pending, Len(ilHistory))' /\ Orderly(Own, Pending, ilHistory)'
       /\ BeforeTheId' /\ ilHistory' \in Seq(Interviewers)
  BY <1>1, <1>8, <1>9 DEF InterviewInv, InterviewTypes, BeforeTheId
<1>13. IsPlan(Own', Pending', ilPlan'[w])
  BY <1>8, <1>10, <1>11
<1>14. Keyed(w)' /\ Aware(w)' /\ Interview!Underway(w)
  BY <1>1, <1>11, <1>13 DEF Keyed, Aware, Interview!Underway
<1> QED BY <1>1, <1>8, <1>11, <1>12, <1>14, OneMoves

LEMMA AppendEventKeeps ==
  ASSUME LogsAreLogs, InterviewInv, NEW w \in Interviewers, Interview!OneUnderway',
         Interview!AppendEvent(w)
  PROVE  InterviewInv'
<1> DEFINE n == Len(ilHistory)
           hn == Append(ilHistory, w)
<1>1. /\ UNCHANGED <<ilIssued, ilKey, ilPlan, ilSeen>>
      /\ ilStage[w] = "write"
      /\ ilFile' = Interview!WithEvent(w, n + 1)
      /\ ilHistory' = hn
      /\ ilStage' = [ilStage EXCEPT ![w] = "idle"]
  BY DEF Interview!AppendEvent, Interview!Goto
<1>2. /\ n \in Nat /\ HoldAll(Own, Pending, n) /\ Orderly(Own, Pending, ilHistory)
      /\ ilHistory \in Seq(Interviewers) /\ ilKey[w] \in {"pending", "id"}
      /\ Pending \in Seq(LogLines) /\ Own \in Seq(LogLines)
  BY OwnPendingAre, WriterTypes DEF InterviewInv, InterviewTypes
<1>3. hn \in Seq(Interviewers) /\ Len(hn) = n + 1 /\ n + 1 \in Nat /\ n + 1 # 0
  BY <1>2, AppendProperties
<1> HIDE DEF hn
<1>4. Moves(w, "idle", ilPlan[w], ilSeen[w]) /\ ilStage'[w] = "idle"
  BY <1>1, WriterTypes DEF Moves, InterviewStages
<1>5. Keyed(w)' /\ Aware(w)' /\ Interview!Underway(w)
  BY <1>1, <1>4 DEF Keyed, Aware, Interview!Underway
<1>6. CASE ilKey[w] = "pending"
  <2> DEFINE more == Append(Pending, LineOf(n + 1, Pending))
  <2>1. OneMore(Pending, more, n + 1)
    BY DEF OneMore
  <2> HIDE DEF more
  <2>2. HoldAll(Own, more, n + 1) /\ Orderly(Own, more, hn)
    BY <1>2, <2>1, PendingGrows DEF hn
  <2>3. ilFile' \in [Interview!Keys -> Logs] /\ Pending' = more /\ Own' = Own
    BY <1>1, <1>3, <1>6, WithEventIs DEF Pending, more
  <2>4. /\ HoldAll(Own, Pending, Len(ilHistory))' /\ Orderly(Own, Pending, ilHistory)'
        /\ BeforeTheId'
    BY <1>1, <1>3, <2>2, <2>3 DEF InterviewInv, BeforeTheId
  <2> QED BY <1>1, <1>3, <1>4, <1>5, <2>3, <2>4, OneMoves
<1>7. CASE ilKey[w] = "id"
  <2> DEFINE more == Append(Own, LineOf(n + 1, Own))
  <2>1. OneMore(Own, more, n + 1)
    BY DEF OneMore
  <2> HIDE DEF more
  <2>2. ilIssued /\ Pending = <<>> /\ Len(Pending) = 0
    BY <1>1, <1>7, WriterTypes DEF Aware, Keyed
  <2>3. Copied(Own, Pending) = 0
    <3>1. Copied(Own, Pending) \in 0..Len(Pending)
      BY <1>2, CopiedBounds
    <3> QED BY <2>2, <3>1
  <2>4. HoldAll(more, Pending, n + 1) /\ Orderly(more, Pending, hn)
    BY <1>2, <2>1, <2>2, <2>3, OwnGrows DEF hn
  <2>5. ilFile' \in [Interview!Keys -> Logs] /\ Own' = more /\ Pending' = Pending
    BY <1>1, <1>3, <1>7, WithEventIs DEF Own, more
  <2>6. /\ HoldAll(Own, Pending, Len(ilHistory))' /\ Orderly(Own, Pending, ilHistory)'
        /\ BeforeTheId'
    BY <1>1, <1>3, <2>2, <2>4, <2>5 DEF InterviewInv, BeforeTheId
  <2> QED BY <1>1, <1>3, <1>4, <1>5, <2>5, <2>6, OneMoves
<1> QED BY <1>2, <1>6, <1>7

LEMMA InterviewStep ==
  ASSUME LogsAreLogs
  PROVE  InterviewInv /\ [Interview!NextApart]_(Interview!vars) => InterviewInv'
<1>1. ASSUME InterviewInv, Interview!NextApart PROVE InterviewInv'
  <2>1. Interview!Next /\ Interview!OneUnderway'
    BY <1>1 DEF Interview!NextApart
  <2>2. CASE Interview!Issue
    BY <1>1, <2>1, <2>2, IssueKeeps
  <2>3. ASSUME NEW w \in Interviewers,
               \/ Interview!ChooseKey(w) \/ Interview!LookForSource(w)
               \/ Interview!LookForTarget(w) \/ Interview!MoveByRename(w)
               \/ Interview!ReadSource(w) \/ Interview!ReadTarget(w) \/ Interview!FinishCopy(w)
               \/ Interview!ReadLog(w) \/ Interview!CopyEvent(w) \/ Interview!AppendEvent(w)
               \/ Interview!Crash(w)
        PROVE  InterviewInv'
    BY <1>1, <2>1, <2>3, ChooseKeyKeeps, LookKeeps, MoveByRenameKeeps, ReadLogsKeeps,
       FinishCopyKeeps, ReadLogKeeps, CopyEventKeeps, AppendEventKeeps, CrashKeeps
  <2> QED BY <2>1, <2>2, <2>3 DEF Interview!Next
<1>2. ASSUME InterviewInv, UNCHANGED Interview!vars PROVE InterviewInv'
  <2>1. UNCHANGED <<ilIssued, ilFile, ilStage, ilKey, ilPlan, ilSeen, ilHistory>>
    BY <1>2 DEF Interview!vars
  <2>2. Own' = Own /\ Pending' = Pending
    BY <2>1 DEF Own, Pending
  <2> QED BY <1>2, <2>1, <2>2 DEF InterviewInv, InterviewTypes, BeforeTheId, Keyed, Aware,
                                  Interview!OneUnderway, Interview!Underway
<1> QED BY <1>1, <1>2

LEMMA InterviewInit == Interview!Init => InterviewInv
<1> SUFFICES ASSUME Interview!Init PROVE InterviewInv
  OBVIOUS
<1>1. InterviewTypes
  BY NothingRead, EmptySeq DEF Interview!Init, InterviewTypes, InterviewStages, Interview!Keys
<1>2. Own = <<>> /\ Pending = <<>> /\ Len(ilHistory) = 0
  BY NothingRead DEF Interview!Init, Interview!Keys, Own, Pending
<1>3. HoldAll(Own, Pending, Len(ilHistory))
  BY <1>2, NothingRead, RowsNone DEF HoldAll
<1>4. \A w \in Interviewers : ilStage[w] = "idle"
  BY DEF Interview!Init
<1>5. Orderly(Own, Pending, ilHistory)
  BY <1>2, NothingRead DEF Orderly
<1> QED BY <1>1, <1>2, <1>3, <1>4, <1>5 DEF InterviewInv, BeforeTheId, Keyed, Aware,
                                           Interview!OneUnderway, Interview!Underway

\* What a reader is shown: the log under the id and behind it what is not copied yet.
LEMMA ViewIs ==
  ASSUME InterviewInv, ilIssued
  PROVE  /\ DOMAIN Interview!View = 1..Len(Own) + (Len(Pending) - Copied(Own, Pending))
         /\ \A i \in 1..Len(Own) : Interview!View[i] = Own[i]
         /\ \A i \in 1..Len(Pending) - Copied(Own, Pending) :
              /\ Interview!View[Len(Own) + i].event = Pending[Copied(Own, Pending) + i].event
              /\ Interview!View[Len(Own) + i].seq = Interview!Highest(Own) + i
<1> DEFINE o == Len(Own)
           c == Copied(Own, Pending)
           m == Len(Pending) - c
           u == Interview!Uncopied(Interview!EventsOf(Own), Interview!EventsOf(Pending))
           high == Interview!Highest(Own)
           behind == [i \in DOMAIN u |-> [event |-> u[i], seq |-> high + i]]
<1>1. /\ Own \in Seq(LogLines) /\ Pending \in Seq(LogLines) /\ o \in Nat
      /\ Len(Pending) \in Nat
  BY OwnPendingAre
<1>2. c \in 0..Len(Pending) /\ c \in Nat /\ m \in Nat
  BY <1>1, CopiedBounds
<1>3. /\ u \in Seq(Nat) /\ Len(u) = m
      /\ \A i \in 1..m : u[i] = Pending[c + i].event
  BY <1>1, UncopiedIs DEF IsPlan
<1>4. high \in Nat
  BY <1>1, HighestIsHigh
<1>5. Interview!View = Own \o behind
  BY DEF Interview!View, Own, Pending
<1> HIDE DEF o, c, m, u, high
<1>6. DOMAIN u = 1..m /\ \A i \in 1..m : u[i] \in Nat
  BY <1>3, LenProperties, ElementOfSeq
<1>7. /\ behind \in Seq(LogLines) /\ Len(behind) = m
      /\ \A i \in 1..m : behind[i].event = u[i] /\ behind[i].seq = high + i
  <2>1. \A i \in 1..m : [event |-> u[i], seq |-> high + i] \in LogLines
    BY <1>4, <1>6 DEF LogLines
  <2>2. behind = [i \in 1..m |-> [event |-> u[i], seq |-> high + i]]
    BY <1>6
  <2>3. behind \in [1..m -> LogLines]
    BY <2>1, <2>2
  <2>4. behind \in Seq(LogLines) /\ Len(behind) = m
    <3> HIDE DEF behind
    <3> QED BY <1>2, <2>3
  <2> QED BY <2>2, <2>4
<1> HIDE DEF behind
<1>8. /\ Own \o behind \in Seq(LogLines) /\ Len(Own \o behind) = o + m
      /\ \A i \in 1..o + m : (Own \o behind)[i] = IF i <= o THEN Own[i] ELSE behind[i - o]
  BY <1>1, <1>7, ConcatProperties DEF o
<1>9. DOMAIN Interview!View = 1..o + m
  BY <1>5, <1>8, LenProperties
<1>10. ASSUME NEW i \in 1..o PROVE Interview!View[i] = Own[i]
  <2>1. i \in 1..o + m /\ i <= o
    BY <1>1, <1>2
  <2> QED BY <1>5, <1>8, <2>1
<1>11. ASSUME NEW i \in 1..m
       PROVE  /\ Interview!View[o + i].event = Pending[c + i].event
              /\ Interview!View[o + i].seq = high + i
  <2>1. o + i \in 1..o + m /\ ~(o + i <= o) /\ (o + i) - o = i
    BY <1>1, <1>2
  <2> QED BY <1>3, <1>5, <1>7, <1>8, <2>1
<1> QED BY <1>9, <1>10, <1>11 DEF o, c, m, high

LEMMA ShownIsWhole ==
  ASSUME InterviewInv
  PROVE  InterviewIsWhole
<1> DEFINE n == Len(ilHistory)
           o == Len(Own)
           c == Copied(Own, Pending)
           p == Len(Pending)
           view == Interview!View
<1>1. /\ Own \in Seq(LogLines) /\ Pending \in Seq(LogLines) /\ Rows(Own, n) /\ Rows(Pending, n)
      /\ n \in Nat /\ o \in Nat /\ p \in Nat
      /\ DOMAIN ilHistory = 1..n /\ DOMAIN Pending = 1..p
  BY OwnPendingAre, LenProperties DEF InterviewInv, InterviewTypes
<1>2. /\ c \in 0..p /\ c \in Nat /\ \A i \in 1..c : Has(Own, Pending[i].event)
  BY <1>1, CopiedBounds
<1>3. /\ \A i, j \in 1..p : i < j => Pending[i].event < Pending[j].event
      /\ \A e \in 1..n : Has(Own, e) \/ Has(Pending, e)
  BY DEF InterviewInv, HoldAll
<1>4. ASSUME NEW i \in 1..p, NEW j \in 1..p, i < j
      PROVE  Precedes(Pending[i].event, Pending[j].event, ilHistory)
  <2>1. Pending[i].event \in 1..n /\ Pending[j].event \in 1..n
    BY <1>1 DEF Rows
  <2> QED BY <1>3, <1>4, <2>1 DEF Precedes
<1> SUFFICES /\ \A e \in 1..n : \E i \in DOMAIN view : view[i].event = e
             /\ \A i, j \in DOMAIN view :
                  i < j => /\ view[i].seq < view[j].seq
                           /\ Precedes(view[i].event, view[j].event, ilHistory)
  BY <1>1 DEF InterviewIsWhole, Interview!InterviewIsWhole, Precedes
<1>5. CASE ~ilIssued
  <2>1. view = Pending /\ Own = <<>>
    BY <1>5 DEF Interview!View, Pending, BeforeTheId, InterviewInv
  <2>2. \A e : ~Has(Own, e)
    <3>1. Len(<<>>) = 0
      OBVIOUS
    <3> QED BY <2>1, <3>1 DEF Has
  <2>3. ASSUME NEW e \in 1..n PROVE \E i \in DOMAIN view : view[i].event = e
    BY <1>1, <1>3, <2>1, <2>2 DEF Has
  <2>4. \A i, j \in DOMAIN view : i < j => /\ view[i].seq < view[j].seq
                                         /\ Precedes(view[i].event, view[j].event, ilHistory)
    BY <1>1, <1>4, <2>1 DEF Rows
  <2> QED BY <2>3, <2>4
<1>6. CASE ilIssued
  <2> DEFINE m == p - c
             high == Interview!Highest(Own)
  <2>1. /\ DOMAIN view = 1..o + m
        /\ \A i \in 1..o : view[i] = Own[i]
        /\ \A i \in 1..m : view[o + i].event = Pending[c + i].event /\ view[o + i].seq = high + i
    BY <1>6, ViewIs
  <2>2. high \in Nat /\ \A i \in 1..o : Own[i].seq <= high
    BY <1>1, HighestIsHigh
  <2> HIDE DEF n, o, c, p, view, high, m
  <2>3. m \in Nat /\ m = p - c
    BY <1>1, <1>2 DEF m
  <2>4. ASSUME NEW e, Has(Own, e) PROVE \E i \in DOMAIN view : view[i].event = e
    <3>1. PICK i \in 1..o : Own[i].event = e
      BY <2>4 DEF Has, o
    <3>2. i \in DOMAIN view /\ view[i].event = e
      BY <1>1, <2>1, <2>3, <3>1
    <3> QED BY <3>2
  <2>5. ASSUME NEW e \in 1..n PROVE \E i \in DOMAIN view : view[i].event = e
    <3>1. CASE Has(Own, e)
      BY <2>4, <3>1
    <3>2. CASE Has(Pending, e)
      <4>1. PICK j \in 1..p : Pending[j].event = e
        BY <3>2 DEF Has, p
      <4>2. CASE j <= c
        <5>1. Has(Own, e)
          BY <1>2, <4>1, <4>2
        <5> QED BY <2>4, <5>1
      <4>3. CASE ~(j <= c)
        <5>1. j - c \in 1..m /\ c + (j - c) = j /\ o + (j - c) \in 1..o + m
          BY <1>1, <1>2, <2>3, <4>3
        <5>2. view[o + (j - c)].event = e
          BY <2>1, <4>1, <5>1
        <5> QED BY <2>1, <5>1, <5>2
      <4> QED BY <4>2, <4>3
    <3> QED BY <1>3, <3>1, <3>2
  <2>6. ASSUME NEW i \in 1..o + m, NEW j \in 1..o + m, i < j
        PROVE  view[i].seq < view[j].seq /\ Precedes(view[i].event, view[j].event, ilHistory)
    <3>1. Orderly(Own, Pending, ilHistory)
      BY DEF InterviewInv
    <3>2. CASE j <= o
      <4>1. i \in 1..o /\ j \in 1..o
        BY <1>1, <2>6, <3>2
      <4>2. Own[i].seq < Own[j].seq
        BY <1>1, <2>6, <4>1 DEF Rows, o
      <4>3. Precedes(Own[i].event, Own[j].event, ilHistory)
        BY <2>6, <3>1, <4>1 DEF Orderly, o
      <4> QED BY <2>1, <4>1, <4>2, <4>3
    <3>3. CASE i <= o /\ ~(j <= o)
      <4>1. i \in 1..o /\ j - o \in 1..m /\ o + (j - o) = j
        BY <1>1, <2>3, <3>3
      <4>2. c + (j - o) \in 1..p /\ c + (j - o) > c
        BY <1>1, <1>2, <2>3, <4>1
      <4>3. Own[i].seq <= high /\ view[j].seq = high + (j - o) /\ Own[i].seq \in Nat
        <5>1. Own[i] \in LogLines
          BY <1>1, <4>1, ElementOfSeq DEF o
        <5> QED BY <2>1, <2>2, <4>1, <5>1 DEF LogLines
      <4>4. Precedes(Own[i].event, Pending[c + (j - o)].event, ilHistory)
        BY <3>1, <4>1, <4>2 DEF Orderly, o, p, c
      <4>5. view[i].seq < view[j].seq
        BY <2>1, <2>2, <4>1, <4>3
      <4> QED BY <2>1, <4>1, <4>4, <4>5
    <3>4. CASE ~(i <= o) /\ ~(j <= o)
      <4>1. /\ i - o \in 1..m /\ o + (i - o) = i
            /\ j - o \in 1..m /\ o + (j - o) = j
            /\ i - o < j - o
        BY <1>1, <2>3, <2>6, <3>4
      <4>2. c + (i - o) \in 1..p /\ c + (j - o) \in 1..p /\ c + (i - o) < c + (j - o)
        BY <1>1, <1>2, <2>3, <4>1
      <4>3. view[i].seq = high + (i - o) /\ view[j].seq = high + (j - o)
        BY <2>1, <4>1
      <4>4. view[i].seq < view[j].seq
        BY <2>2, <4>1, <4>3
      <4> QED BY <1>4, <2>1, <4>1, <4>2, <4>4
    <3> QED BY <2>6, <3>2, <3>3, <3>4, <1>1
  <2> QED BY <2>1, <2>5, <2>6
<1> QED BY <1>5, <1>6

\* Where no two processes move or append at the same time, whoever they are, however late one
\* appends under the key it chose and wherever one dies: every event whose append returned is in
\* the interview a reader is shown, once, in its writer's order and with growing numbers
\* (interview-log.ts migrateInterviewLog, interview-resume.ts vaultLog).
THEOREM InterviewIsKeptWhole ==
  ASSUME LogsAreLogs
  PROVE  Interview!SpecApart => []InterviewIsWhole
BY InterviewInit, InterviewStep, ShownIsWhole, PTL DEF Interview!SpecApart

-----------------------------------------------------------------------------
(* The composition *)

\* What the services do beside each other each of them does alone, so what is proved of one
\* holds of the five.
THEOREM ServicesAreTheirParts ==
  ServicesSpec => /\ Spec /\ Connection!Spec /\ Write!Spec
                  /\ Gaps!Spec /\ Interview!SpecApart
<1>1. ServicesInit => /\ Init /\ Connection!Init /\ Write!Init
                      /\ Gaps!Init /\ Interview!Init
  BY DEF ServicesInit
<1>2. [ServicesNext]_serviceVars => [Next]_vars
  BY DEF ServicesNext, serviceVars, vars
<1>3. [ServicesNext]_serviceVars => [Connection!Next]_(Connection!vars)
  BY DEF ServicesNext, serviceVars, cnVars, Connection!vars
<1>4. [ServicesNext]_serviceVars => [Write!Next]_(Write!vars)
  BY DEF ServicesNext, serviceVars, nwVars, Write!vars
<1>5. [ServicesNext]_serviceVars => [Gaps!Next]_(Gaps!vars)
  BY DEF ServicesNext, serviceVars, glVars, Gaps!vars
<1>6. [ServicesNext]_serviceVars => [Interview!NextApart]_(Interview!vars)
  BY DEF ServicesNext, serviceVars, ilVars, Interview!vars
<1> QED BY <1>1, <1>2, <1>3, <1>4, <1>5, <1>6, PTL
  DEF ServicesSpec, Spec, Connection!Spec, Write!Spec, Gaps!Spec, Interview!SpecApart
=============================================================================
