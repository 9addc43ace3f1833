--------------------------- MODULE InterviewLog ---------------------------
(***************************************************************************)
(* The interview's append-only event log and its move from the pending key *)
(* to the vault id (contract/interview-log.ts, contract/                   *)
(* interview-resume.ts).  Until the first seal a vault has no id and every *)
(* event goes to the log of the pending key; a writer that finds the id    *)
(* moves that log under the id before it appends.  The move is a rename    *)
(* when there is no log under the id yet and otherwise a copy, one append  *)
(* per event, which a crash may cut short anywhere; the next writer starts *)
(* it again.  Between choosing its key and appending a writer may be       *)
(* overtaken by others, so a pending log can appear again after the move.  *)
(*                                                                         *)
(* A step is one call on the file system.  No lock between processes       *)
(* guards an append or a move (interview-log.ts:26): what a process read   *)
(* may be out of date when it writes, renames or removes.                  *)
(*                                                                         *)
(* An event is a number, in the order of the appends; two events never     *)
(* have the same time, type, question and payload, so copyKey is the       *)
(* number.                                                                 *)
(***************************************************************************)
EXTENDS Integers, Sequences, FiniteSetsExt

CONSTANTS Writers,      \* the processes that record interview events
          NoFile,       \* a log that does not exist
          MaxEvents,    \* bound: how many events are recorded
          MaxCrashes    \* bound: how many times a process dies

VARIABLES issued,       \* whether the settings hold a vault id
          file,         \* the lines of the log of each key, or NoFile
          stage,        \* what a writer is doing
          key,          \* the key it chose
          plan,         \* the events a copying writer has yet to append
          seen,         \* what an append read: its number and how the log ended
          history,      \* who wrote event n: the appends that returned
          crashes

vars == <<issued, file, stage, key, plan, seen, history, crashes>>

Keys == {"pending", "id"}
Torn == [event |-> 0, seq |-> 0]      \* a line cut short
Garbled == [event |-> 0, seq |-> 1]   \* a line run together with one cut short

Init ==
    /\ issued = FALSE
    /\ file = [k \in Keys |-> NoFile]
    /\ stage = [w \in Writers |-> "idle"]
    /\ key = [w \in Writers |-> "pending"]
    /\ plan = [w \in Writers |-> << >>]
    /\ seen = [w \in Writers |-> [seq |-> 1, clean |-> TRUE]]
    /\ history = << >>
    /\ crashes = 0

---------------------------------------------------------------------------

\* The lines that parse: a write cut short is skipped, never removed.
Whole(lines) ==
    LET first[n \in 0..Len(lines)] ==
            IF n = 0 THEN << >>
            ELSE IF lines[n].event = 0 THEN first[n - 1] ELSE Append(first[n - 1], lines[n])
    IN first[Len(lines)]

Parsed(f) == IF f = NoFile THEN << >> ELSE Whole(f)

EventsOf(lines) == [i \in DOMAIN lines |-> lines[i].event]

Highest(lines) == Max({0} \cup {lines[i].seq : i \in DOMAIN lines})

Lines(f) == IF f = NoFile THEN << >> ELSE f

EndsClean(f) == Lines(f) = << >> \/ f[Len(f)] # Torn

\* A log after a write.  Its writer ends a line cut short that it has read, and runs into
\* one that was cut short since; two fragments are one.
With(f, line, clean) ==
    LET old == Lines(f)
    IN IF clean /\ ~EndsClean(f)
       THEN [old EXCEPT ![Len(old)] = IF line = Torn THEN Torn ELSE Garbled]
       ELSE Append(old, line)

\* Mutant of CopiedPrefix: a copy cut short is not recognised.
NothingCopied(target, source) == 0

\* How many leading events of the source already end the target.
CopiedPrefix(target, source) ==
    Max({n \in 0..Len(source) :
            /\ n <= Len(target)
            /\ \A i \in 1..n : target[Len(target) - n + i] = source[i]})

Uncopied(target, source) == SubSeq(source, CopiedPrefix(target, source) + 1, Len(source))

---------------------------------------------------------------------------

Goto(w, label) == stage' = [stage EXCEPT ![w] = label]

\* The first seal writes the vault id into the settings.
Issue ==
    /\ ~issued
    /\ issued' = TRUE
    /\ UNCHANGED <<file, stage, key, plan, seen, history, crashes>>

\* The key the next event is logged under.
ChooseKey(w) ==
    /\ stage[w] = "idle"
    /\ Len(history) + Cardinality({v \in Writers : stage[v] # "idle"}) < MaxEvents
    /\ key' = [key EXCEPT ![w] = IF issued THEN "id" ELSE "pending"]
    /\ Goto(w, IF issued THEN "source" ELSE "append")
    /\ UNCHANGED <<issued, file, plan, seen, history, crashes>>

\* No pending log is left to move.
LookForSource(w) ==
    /\ stage[w] = "source"
    /\ Goto(w, IF file["pending"] = NoFile THEN "append" ELSE "target")
    /\ UNCHANGED <<issued, file, key, plan, seen, history, crashes>>

LookForTarget(w) ==
    /\ stage[w] = "target"
    /\ Goto(w, IF file["id"] = NoFile THEN "rename" ELSE "plan")
    /\ UNCHANGED <<issued, file, key, plan, seen, history, crashes>>

\* There was no log under the id: the pending log takes its place, or the one that is there
\* by now.  A pending log that has gone fails the move and the event with it.
MoveByRename(w) ==
    /\ stage[w] = "rename"
    /\ \/ /\ file["pending"] = NoFile
          /\ Goto(w, "idle")
          /\ UNCHANGED file
       \/ /\ file["pending"] # NoFile
          /\ file' = [pending |-> NoFile, id |-> file["pending"]]
          /\ Goto(w, "append")
    /\ UNCHANGED <<issued, key, plan, seen, history, crashes>>

\* There is one already: the pending log is read, then the log under the id, and the events
\* the latter does not end with are to be copied.
ReadSource(w) ==
    /\ stage[w] = "plan"
    /\ plan' = [plan EXCEPT ![w] = EventsOf(Parsed(file["pending"]))]
    /\ Goto(w, "trim")
    /\ UNCHANGED <<issued, file, key, seen, history, crashes>>

ReadTarget(w) ==
    /\ stage[w] = "trim"
    /\ plan' = [plan EXCEPT ![w] = Uncopied(EventsOf(Parsed(file["id"])), @)]
    /\ Goto(w, "copy")
    /\ UNCHANGED <<issued, file, key, seen, history, crashes>>

\* Everything is under the id: the pending log is removed.
FinishCopy(w) ==
    /\ stage[w] = "copy"
    /\ plan[w] = << >>
    /\ file' = [file EXCEPT !["pending"] = NoFile]
    /\ Goto(w, "append")
    /\ UNCHANGED <<issued, key, plan, seen, history, crashes>>

\* An append reads the log for the next number and for how it ends.
ReadLog(w) ==
    /\ stage[w] = "append" \/ (stage[w] = "copy" /\ plan[w] # << >>)
    /\ seen' = [seen EXCEPT ![w] = [seq |-> Highest(Parsed(file[key[w]])) + 1,
                                   clean |-> EndsClean(file[key[w]])]]
    /\ Goto(w, IF stage[w] = "append" THEN "write" ELSE "writecopy")
    /\ UNCHANGED <<issued, file, key, plan, history, crashes>>

\* The log of the key of w with event e at its end.
WithEvent(w, e) ==
    [file EXCEPT ![key[w]] = With(@, [event |-> e, seq |-> seen[w].seq], seen[w].clean)]

CopyEvent(w) ==
    /\ stage[w] = "writecopy"
    /\ file' = WithEvent(w, Head(plan[w]))
    /\ plan' = [plan EXCEPT ![w] = Tail(@)]
    /\ Goto(w, "copy")
    /\ UNCHANGED <<issued, key, seen, history, crashes>>

AppendEvent(w) ==
    /\ stage[w] = "write"
    /\ file' = WithEvent(w, Len(history) + 1)
    /\ history' = Append(history, w)
    /\ Goto(w, "idle")
    /\ UNCHANGED <<issued, key, plan, seen, crashes>>

\* A process dies: before it writes its next line, or part way through it.
Crash(w) ==
    /\ stage[w] # "idle"
    /\ crashes < MaxCrashes
    /\ crashes' = crashes + 1
    /\ Goto(w, "idle")
    /\ plan' = [plan EXCEPT ![w] = << >>]
    /\ \/ UNCHANGED file
       \/ /\ stage[w] \in {"write", "writecopy"}
          /\ file' = [file EXCEPT ![key[w]] = With(@, Torn, seen[w].clean)]
    /\ UNCHANGED <<issued, key, seen, history>>

Next ==
    \/ Issue
    \/ \E w \in Writers :
          \/ ChooseKey(w) \/ LookForSource(w) \/ LookForTarget(w) \/ MoveByRename(w)
          \/ ReadSource(w) \/ ReadTarget(w) \/ FinishCopy(w)
          \/ ReadLog(w) \/ CopyEvent(w) \/ AppendEvent(w) \/ Crash(w)

Spec == Init /\ [][Next]_vars

\* A process has read something that its next calls rest on: it may be overtaken between
\* choosing its key and this.
Underway(w) == stage[w] \notin {"idle", "source"} /\ (stage[w] = "append" => key[w] = "id")

\* No process moves the pending log or appends while another does.
OneUnderway == \A v, w \in Writers : Underway(v) /\ Underway(w) => v = w

\* The behaviours in which this is so, which nothing in the code ensures.
NextApart == Next /\ OneUnderway'
SpecApart == Init /\ [][NextApart]_vars

---------------------------------------------------------------------------

\* What a reader is shown: the log under the id, then what is still pending,
\* numbered as the move will number it.
View ==
    LET own == Parsed(file["id"])
        pending == Parsed(file["pending"])
        moved == Uncopied(EventsOf(own), EventsOf(pending))
    IN IF ~issued THEN pending
       ELSE own \o [i \in DOMAIN moved |-> [event |-> moved[i], seq |-> Highest(own) + i]]

\* Where no two processes move or append at the same time, however late a process appends
\* under the key it chose and wherever one dies: every event whose append returned is in the
\* interview a reader is shown, once, whichever log it went to and wherever a line or a move
\* was cut short; those of one process stand in the order it recorded them (the later answer
\* to a question wins), and the numbers grow (a confirmation counts when its number is above
\* its proposal's).  The retry of a move changes none of it (interview-log.ts
\* migrateInterviewLog, interview-resume.ts vaultLog).
InterviewIsWhole ==
    /\ DOMAIN history \subseteq {View[i].event : i \in DOMAIN View}
    /\ \A i, j \in DOMAIN View : i < j =>
          /\ View[i].seq < View[j].seq
          /\ View[i].event # View[j].event
          /\ history[View[i].event] = history[View[j].event]
                => View[i].event < View[j].event

\* A copy was cut short: the log under the id ends with some of the pending log's events, and
\* nobody is copying the others.
HalfCopied ==
    LET own == EventsOf(Parsed(file["id"]))
        pending == EventsOf(Parsed(file["pending"]))
    IN /\ CopiedPrefix(own, pending) \in 1..(Len(pending) - 1)
       /\ \A w \in Writers : stage[w] \notin {"copy", "writecopy"}

\* "every later append under the vault id first runs the move again ... so nothing is appended
\* after a partial copy before the copy is finished" (interview-log.ts:183-185).
NothingBehindAPartialCopy ==
    [][HalfCopied /\ history' # history => file'["id"] = file["id"]]_vars

===========================================================================
