------------------------ MODULE MaintenanceController ------------------------
(***************************************************************************)
(* The scheduler that keeps the index of one vault current                 *)
(* (src/kernel/engine/maintenance-controller.ts) beside the notes, the     *)
(* policy that excludes notes, the operating system's watcher and the work *)
(* on the index (src/kernel/engine/embed/maintenance.ts).                  *)
(*                                                                         *)
(* The controller is JavaScript: a step is what runs between two awaits,   *)
(* and what the others do falls between steps.  A version of a note is a   *)
(* number; 0 stands for a note that is not there.  Delays are left out: a  *)
(* timer that is set may fire at any moment.                               *)
(***************************************************************************)
EXTENDS Integers, FiniteSets

CONSTANTS
  Notes,
  Full,            \* mode "full": vectors too, mode "lexical" otherwise
  MaxPendingPaths, \* more hints than this become a scan
  BatchSize,       \* notes embedded by one cycle
  WatcherLoses,    \* the operating system may drop an event without saying so
  Sealed,          \* the policy is changed in the sealed contract too, which is not watched
  MaxEdits,        \* bound: changes of notes and of the policy
  MaxFaults        \* bound: failures

ASSUME ControllerAssumption ==
  /\ Full \in BOOLEAN /\ WatcherLoses \in BOOLEAN /\ Sealed \in BOOLEAN
  /\ MaxPendingPaths \in Nat \ {0} /\ BatchSize \in Nat \ {0}
  /\ MaxEdits \in Nat /\ MaxFaults \in Nat

VARIABLES
  disk, excluded,   \* the version of each note, and the notes the policy excludes
  index, queued,    \* the version indexed of each note, and the notes whose vectors are due
  events,           \* changes the watcher has still to report
  hints, needsScan, \* what the controller has been told
  watching, timer, phase,
  vectorsDue,       \* pendingVectors > 0, as the last cycle counted them
  cyc,              \* the cycle that is active
  hook,             \* the note it has handed to a hook, and what the hook has read of it
  aborted, stopping, owner,
  scope,            \* hooks.isCurrent(): owner token, vault and model are still the same
  edits, faults,    \* what the bounds have left
  unseen            \* notes changed unknown to the watcher since a scan read them

sources == <<disk, excluded, events, edits, unseen>>
work == <<index, queued, cyc, hook>>
told == <<hints, needsScan, watching, timer, phase, vectorsDue>>
life == <<aborted, stopping, owner>>
vars == <<sources, work, told, life, scope, faults>>

Absent == 0
Unread == -1
Unknown == "unknown"  \* an event without a usable note path

\* vec: the notes to do are those whose vectors are due; left: how many more it may embed.
NoCycle == [pc |-> "none", seen |-> [n \in Notes |-> Unread], todo |-> {}, gone |-> {},
            vec |-> FALSE, left |-> 0]

\* policy: the policy that a purge compares with later; stale: its transaction refused.
NoHook == [note |-> {}, read |-> Absent, policy |-> {}, stale |-> FALSE]

Active == cyc.pc # "none"
Current == ~aborted /\ scope

\* What a complete inventory shows of a note.
Visible(n) == IF n \in excluded THEN Absent ELSE disk[n]
UpToDate(n) == index[n] = Visible(n)

-----------------------------------------------------------------------------
(* The vault and the watcher *)

Spend == faults < MaxFaults /\ faults' = faults + 1

\* A change is reported as that of a note, or of unknown place; a watcher may drop it.
Reported(event, ns) ==
  \/ watching /\ events' = events \cup {event} /\ UNCHANGED <<unseen, faults>>
  \/ ~watching /\ unseen' = unseen \cup ns /\ UNCHANGED <<events, faults>>
  \/ watching /\ WatcherLoses /\ Spend /\ unseen' = unseen \cup ns /\ UNCHANGED events

Edit(n) ==
  /\ edits < MaxEdits /\ edits' = edits + 1
  /\ \E v \in {edits + 2, Absent} : v # disk[n] /\ disk' = [disk EXCEPT ![n] = v]
  /\ \E event \in {n, Unknown} : Reported(event, {n})
  /\ UNCHANGED <<excluded, work, told, life, scope>>

\* The policy is in files that are no notes, whose event names none, and in the sealed
\* contract, which is outside the vault.
ChangePolicy(n) ==
  /\ edits < MaxEdits /\ edits' = edits + 1
  /\ excluded' = IF n \in excluded THEN excluded \ {n} ELSE excluded \cup {n}
  /\ \/ Reported(Unknown, {n})
     \/ Sealed /\ unseen' = unseen \cup {n} /\ UNCHANGED <<events, faults>>
  /\ UNCHANGED <<disk, work, told, life, scope>>

-----------------------------------------------------------------------------
(* notify, schedule and the timers *)

Schedule(active) == timer' = (timer \/ (~aborted /\ ~active))

\* Mutant of Notify: hints that do not fit are forgotten without a scan.
NotifyDropping(event) ==
  /\ event \in events /\ events' = events \ {event}
  /\ ~aborted
  /\ IF event = Unknown \/ Cardinality(hints) >= MaxPendingPaths
     THEN hints' = {} /\ UNCHANGED needsScan
     ELSE hints' = hints \cup {event} /\ UNCHANGED needsScan
  /\ phase' = IF phase = "idle" THEN "catching-up" ELSE phase
  /\ Schedule(Active)
  /\ UNCHANGED <<disk, excluded, edits, unseen, work, watching, vectorsDue, life, scope, faults>>

Notify(event) ==
  /\ event \in events /\ events' = events \ {event}
  /\ ~aborted
  /\ IF event = Unknown \/ Cardinality(hints) >= MaxPendingPaths
     THEN hints' = {} /\ needsScan' = TRUE
     ELSE hints' = hints \cup {event} /\ UNCHANGED needsScan
  /\ phase' = IF phase = "idle" THEN "catching-up" ELSE phase
  /\ Schedule(Active)
  /\ UNCHANGED <<disk, excluded, edits, unseen, work, watching, vectorsDue, life, scope, faults>>

\* The watcher fails: it is closed, and what it has not reported is not reported any more.
WatcherFails ==
  /\ Spend /\ watching /\ ~aborted
  /\ watching' = FALSE /\ needsScan' = TRUE /\ phase' = "backoff" /\ events' = {}
  /\ Schedule(Active)
  /\ UNCHANGED <<disk, excluded, edits, unseen, work, hints, vectorsDue, life, scope>>

\* Mutant of Periodic: the interval only sets the timer.
PeriodicWithoutScan ==
  /\ ~aborted
  /\ phase' = IF phase = "idle" THEN "catching-up" ELSE phase
  /\ Schedule(Active)
  /\ UNCHANGED <<sources, work, hints, needsScan, watching, vectorsDue, life, scope, faults>>

\* The interval of start(): a whole scan, whatever the events said.
Periodic ==
  /\ ~aborted /\ needsScan' = TRUE
  /\ phase' = IF phase = "idle" THEN "catching-up" ELSE phase
  /\ Schedule(Active)
  /\ UNCHANGED <<sources, work, hints, watching, vectorsDue, life, scope, faults>>

-----------------------------------------------------------------------------
(* cycle *)

\* The cycle is over without error; flush() sets the timer again if something is left.
Finished(watched, ns, hs, due) ==
  /\ cyc' = NoCycle /\ hook' = NoHook
  /\ vectorsDue' = due
  /\ phase' = IF ~watched THEN "backoff"
              ELSE IF ns \/ hs # {} \/ (Full /\ due) THEN "catching-up" ELSE "idle"
  /\ timer' = (~watched \/ ns \/ hs # {} \/ (Full /\ due))

\* The cycle failed: stopped meanwhile, out of scope for good, or to be tried again.
Failed ==
  /\ hook' = NoHook
  /\ IF aborted
     THEN cyc' = NoCycle /\ UNCHANGED <<told, life>>
     ELSE IF scope
     THEN /\ cyc' = NoCycle
          /\ needsScan' = TRUE /\ phase' = "backoff" /\ timer' = TRUE
          /\ UNCHANGED <<hints, watching, vectorsDue, life>>
     ELSE /\ cyc' = [NoCycle EXCEPT !.pc = "release"]
          /\ needsScan' = TRUE /\ phase' = "failed" /\ aborted' = TRUE
          /\ watching' = FALSE /\ owner' = "releasing"
          /\ UNCHANGED <<hints, timer, vectorsDue, stopping>>

\* attachWatcher registers, unless the operating system refuses.
AttachedWatcher ==
  \/ watching' = TRUE /\ UNCHANGED faults
  \/ ~watching /\ watching' = FALSE /\ Spend

Selected(full) ==
  IF full THEN [NoCycle EXCEPT !.pc = "scan"]
          ELSE [NoCycle EXCEPT !.pc = "work", !.todo = hints]

\* The timer fires and a cycle takes what has been told so far.  A watcher that could not be
\* registered asks for a scan.
Flush ==
  /\ timer /\ ~aborted /\ ~Active
  /\ IF Current
     THEN /\ AttachedWatcher
          /\ cyc' = Selected(needsScan \/ ~watching')
          /\ needsScan' = FALSE /\ hints' = {}
          /\ timer' = FALSE /\ phase' = "catching-up"
          /\ UNCHANGED <<hook, vectorsDue, life>>
     ELSE Failed /\ UNCHANGED faults
  /\ UNCHANGED <<sources, index, queued, scope>>

\* The inventory reads the notes one after another.
ScanNote(n) ==
  /\ cyc.pc = "scan" /\ cyc.seen[n] = Unread
  /\ cyc' = [cyc EXCEPT !.seen[n] = Visible(n)]
  /\ unseen' = unseen \ {n}
  /\ UNCHANGED <<disk, excluded, events, edits, index, queued, hook, told, life, scope, faults>>

\* Only a complete inventory admits deletions.
Scanned ==
  /\ cyc.pc = "scan" /\ \A n \in Notes : cyc.seen[n] # Unread
  /\ IF Current
     THEN /\ cyc' = [NoCycle EXCEPT
               !.pc = "work",
               !.todo = {n \in Notes : cyc.seen[n] # Absent /\ index[n] # cyc.seen[n]},
               !.gone = {n \in Notes : cyc.seen[n] = Absent /\ index[n] # Absent}]
          /\ UNCHANGED <<hook, told, life>>
     ELSE Failed
  /\ UNCHANGED <<sources, index, queued, scope, faults>>

\* Where a note goes whose exclusion has been read: one that is hidden is skipped, but for
\* the inventory.
Route(n, purge, back) ==
  IF n \notin excluded THEN "source" ELSE IF purge THEN "capture" ELSE back

Handed(n, label) ==
  hook' = IF label \in {"source", "capture", "lookup"} THEN [NoHook EXCEPT !.note = {n}] ELSE NoHook

\* apply(n) calls the hook, which begins with the exclusion.
Maintain ==
  LET purge == cyc.todo = {}
      next == IF purge THEN cyc.gone ELSE cyc.todo IN
  /\ cyc.pc = "work"
  /\ \E n \in next :
       IF Current
       THEN /\ cyc' = [cyc EXCEPT !.pc = Route(n, purge, "work"),
                                  !.todo = @ \ {n}, !.gone = @ \ {n}]
            /\ Handed(n, Route(n, purge, "work"))
            /\ UNCHANGED <<told, life>>
       ELSE Failed
  /\ UNCHANGED <<sources, index, queued, scope, faults>>

\* The hook goes on with what it has read.
Reads(h, label) ==
  /\ hook' = h
  /\ cyc' = [cyc EXCEPT !.pc = label]
  /\ UNCHANGED <<sources, index, queued, told, life, scope, faults>>

\* The source is read outside the writer lock; one that is missing is there to be deleted.
ReadSource ==
  /\ cyc.pc = "source"
  /\ \E n \in hook.note : Reads([hook EXCEPT !.read = disk[n]], "publish")

\* A note to be purged: its source first, then the digest of the policy.
Capture ==
  /\ cyc.pc = "capture"
  /\ \E n \in hook.note : Reads([hook EXCEPT !.read = disk[n]], "digest")

ReadPolicy ==
  /\ cyc.pc = "digest"
  /\ Reads([hook EXCEPT !.policy = excluded], "judge")

\* The hook returns, and apply() looks whether it is still current; "stale" asks for a scan.
Returned(stale) ==
  IF Current
  THEN /\ needsScan' = (needsScan \/ stale)
       /\ cyc' = [cyc EXCEPT !.pc = IF cyc.vec THEN "vectors" ELSE "work"]
       /\ hook' = NoHook
       /\ UNCHANGED <<hints, watching, timer, phase, vectorsDue, life>>
  ELSE Failed

\* The policy is read once more, and has to hide the note still.
Judge ==
  /\ cyc.pc = "judge"
  /\ IF Current /\ hook.note \subseteq excluded
     THEN cyc' = [cyc EXCEPT !.pc = "clear"] /\ UNCHANGED <<hook, told, life>>
     ELSE Returned(TRUE)
  /\ UNCHANGED <<sources, index, queued, scope, faults>>

\* The transaction of a purge looks at the source, not at the policy.
Clear ==
  /\ cyc.pc = "clear"
  /\ cyc' = [cyc EXCEPT !.pc = "reread"]
  /\ \E n \in hook.note :
       IF Current /\ disk[n] = hook.read
       THEN index' = [index EXCEPT ![n] = Absent] /\ queued' = queued \ {n} /\ UNCHANGED hook
       ELSE hook' = [hook EXCEPT !.stale = TRUE] /\ UNCHANGED <<index, queued>>
  /\ UNCHANGED <<sources, told, life, scope, faults>>

\* After it the digest of the policy is compared.
Reread ==
  /\ cyc.pc = "reread"
  /\ Returned(hook.stale \/ excluded # hook.policy)
  /\ UNCHANGED <<sources, index, queued, scope, faults>>

\* A note that is indexed as it was read is skipped.
Written(n, v) ==
  /\ index' = [index EXCEPT ![n] = v]
  /\ queued' = IF v = Absent THEN queued \ {n} ELSE IF v = index[n] THEN queued ELSE queued \cup {n}

\* Mutant of Publish: the source is not compared again under the lock.
PublishUnchecked ==
  /\ cyc.pc = "publish"
  /\ \E n \in hook.note :
       IF Current THEN Written(n, hook.read) ELSE UNCHANGED <<index, queued>>
  /\ Returned(FALSE)
  /\ UNCHANGED <<sources, scope, faults>>

\* The commit, under the writer lock, of a note that is still as it was read.
Publish ==
  /\ cyc.pc = "publish"
  /\ \E n \in hook.note :
       IF Current /\ disk[n] = hook.read
       THEN Written(n, hook.read) /\ Returned(FALSE)
       ELSE Returned(TRUE) /\ UNCHANGED <<index, queued>>
  /\ UNCHANGED <<sources, scope, faults>>

\* The index is done: vectors follow in mode full, unless something new has been told.
Applications ==
  /\ cyc.pc = "work" /\ cyc.todo = {} /\ cyc.gone = {}
  /\ IF ~Current THEN Failed
     ELSE IF Full /\ hints = {} /\ ~needsScan
     THEN cyc' = [cyc EXCEPT !.pc = "vectors", !.todo = queued, !.vec = TRUE, !.left = BatchSize]
          /\ UNCHANGED <<hook, told, life>>
     ELSE Finished(watching, needsScan, hints, queued # {})
          /\ UNCHANGED <<hints, needsScan, watching, life>>
  /\ UNCHANGED <<sources, index, queued, scope, faults>>

\* embed(n) begins with the exclusion as well: a hidden note is skipped.
Embed ==
  /\ cyc.pc = "vectors" /\ cyc.left > 0 /\ hints = {} /\ ~needsScan
  /\ \E n \in cyc.todo :
       LET label == IF n \in excluded THEN "vectors" ELSE "lookup" IN
       IF Current
       THEN /\ cyc' = [cyc EXCEPT !.pc = label, !.todo = @ \ {n}, !.left = @ - 1]
            /\ Handed(n, label)
            /\ UNCHANGED <<told, life>>
       ELSE Failed
  /\ UNCHANGED <<sources, index, queued, scope, faults>>

\* A note that is missing is left to maintainDocumentIndex; of another the source is read,
\* and the vectors are computed over many awaits.
LookUp ==
  /\ cyc.pc = "lookup"
  /\ \E n \in hook.note :
       Reads([hook EXCEPT !.read = disk[n]], IF disk[n] = Absent THEN "missing" ELSE "embed")

MaintainMissing ==
  /\ cyc.pc = "missing"
  /\ \E n \in hook.note :
       IF Current
       THEN /\ cyc' = [cyc EXCEPT !.pc = Route(n, FALSE, "vectors")]
            /\ Handed(n, Route(n, FALSE, "vectors"))
            /\ UNCHANGED <<told, life>>
       ELSE Failed
  /\ UNCHANGED <<sources, index, queued, scope, faults>>

\* Mutant of Embedded: the note is not taken out of the queue.
EmbeddedKeptQueued ==
  /\ cyc.pc = "embed"
  /\ \E n \in hook.note : Returned(disk[n] # hook.read \/ index[n] # hook.read)
  /\ UNCHANGED <<sources, index, queued, scope, faults>>

\* They are committed only for the version that was read and that is indexed.
Embedded ==
  /\ cyc.pc = "embed"
  /\ \E n \in hook.note :
       IF Current /\ disk[n] = hook.read /\ index[n] = hook.read
       THEN queued' = queued \ {n} /\ Returned(FALSE)
       ELSE Returned(TRUE) /\ UNCHANGED queued
  /\ UNCHANGED <<sources, index, scope, faults>>

EndOfVectors ==
  /\ cyc.pc = "vectors"
  /\ cyc.todo = {} \/ cyc.left = 0 \/ hints # {} \/ needsScan
  /\ Finished(watching, needsScan, hints, queued # {})
  /\ UNCHANGED <<sources, index, queued, hints, needsScan, watching, life, scope, faults>>

\* Any hook of the cycle may throw.
HookFails ==
  /\ Spend
  /\ cyc.pc = "scan" \/ hook.note # {}
  /\ Failed
  /\ UNCHANGED <<sources, index, queued, scope>>

-----------------------------------------------------------------------------
(* stop and release *)

\* Mutant of Stop: the owner is released without waiting for the cycle.
StopAndRelease ==
  /\ stopping = "no"
  /\ aborted' = TRUE /\ stopping' = "draining" /\ phase' = "stopping"
  /\ hints' = {} /\ watching' = FALSE /\ timer' = FALSE
  /\ owner' = IF owner = "held" THEN "releasing" ELSE owner
  /\ UNCHANGED <<sources, work, needsScan, vectorsDue, scope, faults>>

Stop ==
  /\ stopping = "no"
  /\ aborted' = TRUE /\ stopping' = "draining" /\ phase' = "stopping"
  /\ hints' = {} /\ watching' = FALSE /\ timer' = FALSE
  /\ UNCHANGED <<sources, work, needsScan, vectorsDue, owner, scope, faults>>

\* stop() gives its caller up; the cycle is still awaited.
StopTimesOut ==
  /\ stopping = "draining"
  /\ stopping' = "timed-out"
  /\ UNCHANGED <<sources, work, told, aborted, owner, scope, faults>>

\* Mutant of Drained: a stop that has timed out releases nothing.
DrainedOnTime ==
  /\ stopping = "draining" /\ ~Active
  /\ owner' = IF owner = "held" THEN "releasing" ELSE owner
  /\ stopping' = "stopped" /\ phase' = "stopped"
  /\ UNCHANGED <<sources, work, hints, needsScan, watching, timer, vectorsDue, aborted, scope, faults>>

\* The active cycle is over: the owner is released, once.
Drained ==
  /\ stopping \in {"draining", "timed-out"} /\ ~Active
  /\ owner' = IF owner = "held" THEN "releasing" ELSE owner
  /\ stopping' = "stopped" /\ phase' = "stopped"
  /\ UNCHANGED <<sources, work, hints, needsScan, watching, timer, vectorsDue, aborted, scope, faults>>

\* hooks.release(): the provider is disposed of, then the ownership record goes.
Released ==
  /\ owner = "releasing"
  /\ owner' = "free"
  /\ cyc' = IF cyc.pc = "release" THEN NoCycle ELSE cyc
  /\ UNCHANGED <<sources, index, queued, hook, told, aborted, stopping, scope, faults>>

\* The record of the owner, the vault or the model selection changes, or comes back.
ChangeScope ==
  /\ Spend /\ scope' = ~scope
  /\ UNCHANGED <<sources, work, told, life>>

-----------------------------------------------------------------------------
(* Specification *)

\* start(): the watcher is registered, or not, and the first scan is due.
Init ==
  /\ disk \in [Notes -> {Absent, 1}] /\ excluded \in {{}} \cup {{n} : n \in Notes}
  /\ index \in [Notes -> {Absent, 1}] /\ queued \in {{}, {n \in Notes : index[n] = 1}}
  /\ events = {} /\ hints = {} /\ needsScan = TRUE /\ timer = TRUE
  /\ watching \in BOOLEAN /\ phase = IF watching THEN "starting" ELSE "backoff"
  /\ vectorsDue = FALSE /\ cyc = NoCycle /\ hook = NoHook
  /\ aborted = FALSE /\ stopping = "no" /\ owner = "held" /\ scope = TRUE
  /\ edits = 0 /\ faults = 0 /\ unseen = Notes

CycleStep ==
  \/ (\E n \in Notes : ScanNote(n)) \/ Scanned
  \/ Maintain \/ ReadSource \/ Publish
  \/ Capture \/ ReadPolicy \/ Judge \/ Clear \/ Reread
  \/ Applications \/ Embed \/ LookUp \/ MaintainMissing \/ Embedded \/ EndOfVectors
  \/ HookFails

Deliver == \E event \in events : Notify(event)

Vault == \E n \in Notes : Edit(n) \/ ChangePolicy(n)

Event ==
  \/ Vault \/ Deliver \/ WatcherFails \/ Flush \/ CycleStep
  \/ Stop \/ StopTimesOut \/ Drained \/ Released \/ ChangeScope

Next == Event \/ Periodic

Spec == Init /\ [][Next]_vars

\* What the event loop has to run: a timer that is set, the cycle, the end of a stop.
Loop == Flush \/ CycleStep \/ Drained \/ Released

\* The event loop runs what is due: timers fire, hooks return, and a stop that has been
\* asked for is carried out.  Nobody has to edit, to stop the server or to fail.
Fairness == WF_vars(Deliver) /\ WF_vars(Periodic) /\ WF_vars(Loop)

FairSpec == Spec /\ Fairness

-----------------------------------------------------------------------------
(* Properties *)

\* The notes to do are those that the index is to be brought up to date on.
Applying == cyc.pc \notin {"none", "scan", "release"} /\ ~cyc.vec

\* A hook that purges a note, and has yet to look at the source in its transaction.
Purging == cyc.pc \in {"capture", "digest", "judge", "clear"}

\* The note is still to be looked at by the cycle, or being looked at in its present version.
InHand(n) ==
  \/ cyc.pc = "scan" /\ cyc.seen[n] \in {Unread, Visible(n)}
  \/ n \in cyc.todo \cup cyc.gone /\ Applying
  \/ n \in hook.note /\ (Purging \/ cyc.pc \in {"source", "publish"} \/ hook.stale)

\* A note the index is behind on is on its way: an event is under way, a hint or a scan is
\* due, or the cycle has it in hand (maintenance-controller.ts:197, "Events occurring during
\* this await remain in hints/needsScan for the next cycle").
Covered(n) == Unknown \in events \/ n \in events \/ n \in hints \/ needsScan \/ InHand(n)

\* No change is forgotten while the controller lives, whatever it is told during a scan and
\* however full the queue is, except one the watcher never saw.
NothingIsForgotten ==
  ~aborted => \A n \in Notes : UpToDate(n) \/ Covered(n) \/ n \in unseen

\* "Register before scanning. Missing filenames and errors invalidate inventory"
\* (maintenance-controller.ts:21): with a watcher that reports every change, no change is
\* forgotten at all, not even one made while no watcher was registered.
UnwatchedChangesAreScanned ==
  ~aborted /\ watching => \A n \in Notes : UpToDate(n) \/ Covered(n)

\* "Late completion still cannot commit" (maintenance-controller.ts:274): after a stop, or
\* out of scope, the index does not change.
NothingAfterAbort == [][index' # index \/ queued' # queued => ~aborted /\ scope]_vars

\* "Called only after active work drains, even if stop() times out first"
\* (maintenance-controller.ts:32): no hook is at work once the owner is let go.
ReleaseIsLast == owner # "held" => cyc.pc \in {"none", "release"}

\* A scan will look at the note, or the watcher has missed its change.
ScanIsDue(n) == n \in unseen \/ Unknown \in events \/ needsScan

\* A note that the vault shows leaves the index only where the policy has changed since the
\* purge looked at it, so that a scan follows which brings the note back; never because the
\* note itself is read before the writer lock is taken (maintenance.ts:103-136).
OnlyTheGoneArePurged ==
  [][\A n \in Notes : index[n] # Absent /\ index'[n] = Absent =>
       Visible(n) = Absent \/ (Purging /\ ScanIsDue(n))]_vars

\* "If a subsequent policy observation disagrees, the owner must rescan even if this deletion
\* committed" (maintenance.ts:120-121): a purge that is over and finds the note no longer
\* hidden asks for a scan.
PurgesAreJudgedAgain ==
  [][cyc.pc = "reread" /\ cyc'.pc = "work" =>
       needsScan' \/ \A n \in hook.note : n \in excluded]_vars

\* Edits, policy changes and failures being finitely many, the index comes to show the
\* vault, even if the watcher lost events.
IndexCatchesUp == <>[](aborted \/ \A n \in Notes : UpToDate(n))

\* In mode full the vectors follow; claimed where cycles are shorter than the scan interval,
\* for scans that fall due in every cycle put the vectors off for ever.
VectorsCatchUp == Full => <>[](aborted \/ queued = {})

\* A controller that is stopped, or has lost its scope, lets its owner go.
OwnerIsReleased == aborted ~> owner = "free"
=============================================================================
