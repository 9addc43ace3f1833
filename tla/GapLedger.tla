----------------------------- MODULE GapLedger -----------------------------
(***************************************************************************)
(* The gap ledger (contract/gap-ledger.ts): an append-only file of what a  *)
(* write met at the edge of the contract.  A choice is recorded once: a    *)
(* marker beside the ledger, named by the ledger's first line and the      *)
(* choice, holds where its event starts, and a repeat that finds it is not *)
(* appended.  A reader sees the newest Window lines only, the owner may    *)
(* move the ledger aside at any time, and several processes append, each   *)
(* through the file it opened, with no lock between them.  Whether the     *)
(* file ends with a line cut short, which the next write has to end first, *)
(* is read before the write: a line cut short in between is run together   *)
(* with the line that is written, and neither parses.                      *)
(*                                                                         *)
(* A file is named by a number, never used twice, which stands for the     *)
(* first line of its own (gap-ledger.ts:30 documents the identical first   *)
(* lines left out here); every line has length one.  Gaps of other kinds   *)
(* and resolutions are lines no marker is about.                           *)
(***************************************************************************)
EXTENDS Integers, Sequences, FiniteSets

CONSTANTS Writers,      \* the processes that record gaps
          Choices,      \* the choices a write can meet
          Other,        \* a line that is not a choice
          Torn,         \* a line a crash cut short
          Window,       \* how many lines a reader keeps
          MaxLines, MaxFiles, MaxCrashes

VARIABLES files,        \* the lines of each file that was a ledger
          current,      \* the file at the ledger's path, 0 when there is none
          markers,      \* [file, choice] pairs with the offset they hold
          proc,         \* where each writer stands
          crashes

vars == <<files, current, markers, proc, crashes>>

Idle == [stage |-> "idle", event |-> Other, file |-> 0, offset |-> 0, fresh |-> FALSE,
         clean |-> FALSE]

Init ==
    /\ files = << >>
    /\ current = 0
    /\ markers = {}
    /\ proc = [w \in Writers |-> Idle]
    /\ crashes = 0

---------------------------------------------------------------------------

\* A ledger is named by its first line once that line is whole.
HasIdentity(lines) == Len(lines) > 1 \/ (lines # << >> /\ lines[1] # Torn)

\* The last line is ended.
EndsClean(lines) == lines = << >> \/ lines[Len(lines)] # Torn

\* An event's line that is run together with one cut short.
Glued(e) == <<e>>

\* What a write leaves in a file: a writer that found the end clean does not end the line
\* that another has cut short since.  Two fragments are one.
With(lines, line, clean) ==
    IF clean /\ ~EndsClean(lines)
    THEN [lines EXCEPT ![Len(lines)] = IF line = Torn THEN Torn ELSE Glued(line)]
    ELSE Append(lines, line)

\* A marker counts while its event starts in the window of the ledger's size.
Seen(f, c) ==
    /\ HasIdentity(files[f])
    /\ \E m \in markers :
          m.file = f /\ m.choice = c /\ Len(files[f]) - m.offset <= Window

\* The ledger is opened, or created, and its size, its name, the markers and its last byte
\* are read.
Open(w) ==
    /\ proc[w].stage = "idle"
    /\ \E e \in Choices \cup {Other} :
          /\ IF current = 0
             THEN /\ Len(files) < MaxFiles
                  /\ files' = Append(files, << >>)
                  /\ current' = Len(files) + 1
             ELSE UNCHANGED <<files, current>>
          /\ current # 0 => Len(files[current]) < MaxLines /\ (e = Other \/ ~Seen(current, e))
          /\ proc' = [proc EXCEPT ![w] =
                        [stage |-> "append", event |-> e, file |-> current',
                         offset |-> Len(files'[current']),
                         fresh |-> ~HasIdentity(files'[current']),
                         clean |-> EndsClean(files'[current'])]]
    /\ UNCHANGED <<markers, crashes>>

Finish(w) == proc' = [proc EXCEPT ![w] = Idle]

\* The line is written to the file that was opened, wherever that file is now.
AppendLine(w) ==
    LET p == proc[w]
    IN /\ p.stage = "append"
       /\ files' = [files EXCEPT ![p.file] = With(@, p.event, p.clean)]
       /\ IF p.fresh \/ p.event \in Choices
          THEN proc' = [proc EXCEPT ![w].stage = "mark"]
          ELSE Finish(w)
       /\ UNCHANGED <<current, markers, crashes>>

\* Mutant of Marker: it is named by the ledger that is at the path by now.
MarkerAtPath(f, c, offset) == [file |-> current, choice |-> c, offset |-> offset]

Marker(f, c, offset) == [file |-> f, choice |-> c, offset |-> offset]

\* The first append to a ledger deletes the markers of every other one; the
\* marker of a choice replaces an older one of its name.  Both may fail.
Mark(w) ==
    LET p == proc[w]
        own == {m \in markers : m.file = p.file}
        new == Marker(p.file, p.event, p.offset)
        Marked(ms) == {m \in ms : m.file # new.file \/ m.choice # new.choice} \cup {new}
    IN /\ p.stage = "mark"
       /\ \E kept \in {markers, IF p.fresh THEN own ELSE markers} :
             markers' \in {kept, IF p.event \in Choices THEN Marked(kept) ELSE kept}
       /\ Finish(w)
       /\ UNCHANGED <<files, current, crashes>>

\* The owner moves the ledger aside; a writer that holds it appends to it still.
Rotate ==
    /\ current # 0
    /\ current' = 0
    /\ UNCHANGED <<files, markers, proc, crashes>>

\* A process dies part way through its line.  One that dies before its line,
\* or before its markers, is one whose next step fails or never comes.
Crash(w) ==
    /\ proc[w].stage = "append"
    /\ crashes < MaxCrashes
    /\ crashes' = crashes + 1
    /\ files' = [files EXCEPT ![proc[w].file] = With(@, Torn, proc[w].clean)]
    /\ Finish(w)
    /\ UNCHANGED <<current, markers>>

Next ==
    \/ \E w \in Writers : Open(w) \/ AppendLine(w) \/ Mark(w) \/ Crash(w)
    \/ Rotate

Spec == Init /\ [][Next]_vars

---------------------------------------------------------------------------

\* The lines a reader of the ledger keeps.
Kept(f) == {files[f][i] : i \in {j \in DOMAIN files[f] : j > Len(files[f]) - Window}}

\* "never a lost or hidden event" (gap-ledger.ts:360): a choice that a repeat leaves out
\* because its marker counts is one that a reader of the ledger is shown.
SeenChoicesAreShown ==
    current # 0 =>
        \A c \in Choices : Seen(current, c) => c \in Kept(current)

\* A choice that is left out and not shown is one whose line stands, in the window, run
\* together with one a crash cut short: it is never one of a ledger moved aside, of a line
\* that was not written or of one the window has left behind (gap-ledger.ts:24-47).
OnlyGluedChoicesAreHidden ==
    current # 0 =>
        \A c \in Choices :
            Seen(current, c) => c \in Kept(current) \/ Glued(c) \in Kept(current)

============================================================================
