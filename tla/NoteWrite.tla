----------------------------- MODULE NoteWrite -----------------------------
(***************************************************************************)
(* The note write behind MCP write: the pipeline that judges a request     *)
(* (write/pipeline.ts) and the publication of the judged note              *)
(* (write/note-write.ts).  Between the reading of the note and of the      *)
(* templates that the verdict is about and the syscall that publishes, the *)
(* request awaits several times, and an editor, another request or a       *)
(* change of the templates may step in.  Every check is made again as late *)
(* as the code can; the model keeps each check a step of its own.          *)
(*                                                                         *)
(* A content stands for its revision.  The judge is a choice of its        *)
(* outcome; a request that only checks, or is refused, changes nothing and *)
(* is not a step.  The temporary file a crash leaves behind is not state.  *)
(***************************************************************************)
EXTENDS Naturals

CONSTANTS Requests,     \* write requests, each with the content it would save
          Edits,        \* the contents the owner's editor may save
          Absent,       \* no note; as an ifMatch: none was given
          MaxEdits,     \* how often the editor saves or removes the note
          MaxTemplates, \* how often the templates change
          MaxTries      \* how often a request is sent

VARIABLES note,         \* the content at the target path
          hardLinks,    \* whether the filesystem can hard-link
          templates,    \* the witness of the template files
          req,          \* what each request has read and where it stands
          tries, edits

vars == <<note, hardLinks, templates, req, tries, edits>>

Idle == [stage |-> "idle", ifMatch |-> Absent, expected |-> Absent, witness |-> 0,
         needsSource |-> FALSE, late |-> FALSE]

Init ==
    /\ note \in {Absent} \cup Edits
    /\ hardLinks \in BOOLEAN
    /\ templates = 0
    /\ req = [r \in Requests |-> Idle]
    /\ tries = [r \in Requests |-> 0]
    /\ edits = 0

---------------------------------------------------------------------------

Publishing == {"publish", "rename"}

\* Another hand changed the note: a request past its last check cannot know.
Overtake(others) ==
    [r \in Requests |->
        [req[r] EXCEPT !.late = @ \/ (r \in others /\ req[r].stage \in Publishing)]]

To(r, stage) == req' = [req EXCEPT ![r].stage = stage]

\* The request ends without publishing; the caller may send it again.
Retry(r) == req' = [req EXCEPT ![r] = Idle]

\* The target is resolved and its content read; the caller named a revision or none.
ReadTarget(r) ==
    /\ req[r].stage = "idle"
    /\ tries[r] < MaxTries
    /\ tries' = [tries EXCEPT ![r] = @ + 1]
    /\ \E m \in {Absent} \cup Edits \cup Requests :
          req' = [req EXCEPT ![r] = [Idle EXCEPT !.stage = "source", !.ifMatch = m,
                                                 !.expected = note]]
    /\ UNCHANGED <<note, hardLinks, templates, edits>>

\* The live templates are read; only a new note or a named template depends on them.
ReadTemplates(r) ==
    /\ req[r].stage = "source"
    /\ \E named \in BOOLEAN :
          req' = [req EXCEPT ![r].stage = "judge", ![r].witness = templates,
                             ![r].needsSource = named \/ req[r].expected = Absent]
    /\ UNCHANGED <<note, hardLinks, templates, tries, edits>>

\* An overwrite must name the revision it replaces, a new note must name none.
Precondition(r) == req[r].ifMatch = req[r].expected

\* The verdict: save, unless the precondition fails, the note is kept as a
\* draft outside the vault, or the templates moved before the draft.
Judge(r) ==
    /\ req[r].stage = "judge"
    /\ \/ Precondition(r) /\ To(r, "stage")
       \/ Retry(r)
    /\ UNCHANGED <<note, hardLinks, templates, tries, edits>>

Drifted(r) == note # req[r].expected

\* The temporary is written and the target checked against what was judged.
Stage(r) ==
    /\ req[r].stage = "stage"
    /\ IF Drifted(r) THEN Retry(r)
       ELSE To(r, IF req[r].needsSource THEN "validate" ELSE "publish")
    /\ UNCHANGED <<note, hardLinks, templates, tries, edits>>

\* The templates are scanned again, here and before the rename of the fallback.
Validate(r) ==
    /\ req[r].stage \in {"validate", "revalidate"}
    /\ IF req[r].witness # templates THEN Retry(r)
       ELSE To(r, IF req[r].stage = "validate" THEN "recheck" ELSE "lastcheck")
    /\ UNCHANGED <<note, hardLinks, templates, tries, edits>>

\* Mutant of Recheck: the target is not looked at again after the scan.
RecheckNothing(r) ==
    /\ req[r].stage \in {"recheck", "lastcheck"}
    /\ To(r, IF req[r].stage = "recheck" THEN "publish" ELSE "rename")
    /\ UNCHANGED <<note, hardLinks, templates, tries, edits>>

\* The scan may have taken long: the target is checked once more.
Recheck(r) ==
    /\ req[r].stage \in {"recheck", "lastcheck"}
    /\ IF Drifted(r) THEN Retry(r)
       ELSE To(r, IF req[r].stage = "recheck" THEN "publish" ELSE "rename")
    /\ UNCHANGED <<note, hardLinks, templates, tries, edits>>

\* rename() over the note, or link() where there must be none.
Publish(r) ==
    /\ \/ req[r].stage = "publish" /\ req[r].expected # Absent
       \/ req[r].stage = "publish" /\ hardLinks /\ note = Absent
       \/ req[r].stage = "rename"
    /\ note' = r
    /\ req' = [Overtake(Requests \ {r}) EXCEPT ![r] = Idle]
    /\ UNCHANGED <<hardLinks, templates, tries, edits>>

\* link() finds a note, or cannot link at all and the fallback begins.
LinkFails(r) ==
    /\ req[r].stage = "publish" /\ req[r].expected = Absent
    /\ \/ hardLinks /\ note # Absent /\ Retry(r)
       \/ ~hardLinks /\ To(r, "revalidate")
    /\ UNCHANGED <<note, hardLinks, templates, tries, edits>>

\* The owner's editor saves, or removes, the note.
Edit ==
    /\ edits < MaxEdits
    /\ edits' = edits + 1
    /\ note' \in ({Absent} \cup Edits) \ {note}
    /\ req' = Overtake(Requests)
    /\ UNCHANGED <<hardLinks, templates, tries>>

ChangeTemplates ==
    /\ templates < MaxTemplates
    /\ templates' = templates + 1
    /\ UNCHANGED <<note, hardLinks, req, tries, edits>>

Next ==
    \/ \E r \in Requests :
          \/ ReadTarget(r) \/ ReadTemplates(r) \/ Judge(r) \/ Stage(r) \/ Validate(r)
          \/ Recheck(r) \/ Publish(r) \/ LinkFails(r)
    \/ Edit \/ ChangeTemplates

Spec == Init /\ [][Next]_vars

---------------------------------------------------------------------------

Publishes(r) == req[r].stage \in Publishing /\ req'[r].stage = "idle" /\ note' = r

\* A request replaces the revision its caller named and nothing else, whatever
\* the owner or another request did while it was judged, staged or waiting
\* for the templates to be scanned: only a change in the last gap, between the
\* final check and the rename, can be lost, and where the filesystem can
\* hard-link a new note has not even that gap (note-write.ts:9-23).
OnlyTheNamedRevisionIsReplaced ==
    [][\A r \in Requests : Publishes(r) =>
          \/ note = req[r].ifMatch
          \/ req[r].late /\ (req[r].ifMatch # Absent \/ ~hardLinks)]_vars

============================================================================
