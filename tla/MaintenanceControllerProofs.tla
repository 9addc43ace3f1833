--------------------- MODULE MaintenanceControllerProofs ---------------------
(***************************************************************************)
(* Proofs about MaintenanceController, for any number of notes, queue      *)
(* limits, batch sizes, edits and failures: no change is forgotten while   *)
(* the controller lives, nothing is written after it has been stopped, its *)
(* owner is let go last, and a note that is still shown is purged only     *)
(* where a scan will bring it back.                                        *)
(***************************************************************************)
EXTENDS MaintenanceController, TLAPS

-----------------------------------------------------------------------------
(* The inductive invariant *)

Steps == {"none", "scan", "work", "source", "publish", "capture", "digest", "judge", "clear",
          "reread", "vectors", "lookup", "missing", "embed", "release"}

Cycles ==
  [pc : Steps, seen : [Notes -> Int], todo : SUBSET Notes, gone : SUBSET Notes,
   vec : BOOLEAN, left : Nat]

Hooks == [note : SUBSET Notes, read : Nat, policy : SUBSET Notes, stale : BOOLEAN]

\* The versions on disk and in the index are natural numbers, and one that an inventory
\* has not read is none.
SourcesTyped ==
  /\ disk \in [Notes -> Nat] /\ excluded \subseteq Notes
  /\ events \subseteq Notes \cup {Unknown} /\ unseen \subseteq Notes
  /\ edits \in Nat

IndexTyped == index \in [Notes -> Nat] /\ queued \subseteq Notes

LifeTyped ==
  /\ hints \subseteq Notes
  /\ needsScan \in BOOLEAN /\ watching \in BOOLEAN /\ timer \in BOOLEAN
  /\ vectorsDue \in BOOLEAN /\ aborted \in BOOLEAN /\ scope \in BOOLEAN
  /\ phase \in {"starting", "idle", "catching-up", "backoff", "failed", "stopping", "stopped"}
  /\ stopping \in {"no", "draining", "timed-out", "stopped"}
  /\ owner \in {"held", "releasing", "free"}

TypeInv ==
  /\ SourcesTyped /\ IndexTyped /\ LifeTyped
  /\ cyc \in Cycles /\ hook \in Hooks /\ faults \in Nat

\* A cycle has one note in hand at a time, and only while a hook runs; no inventory both
\* indexes and purges a note; vectors come last.
OneAtATime ==
  /\ \A m, n \in hook.note : m = n
  /\ cyc.pc \in {"none", "scan", "work", "vectors", "release"} => hook.note = {}
  /\ hook.stale => cyc.pc = "reread"
  /\ cyc.pc \in {"none", "scan", "work", "release"} => ~cyc.vec
  /\ cyc.pc \in {"vectors", "lookup", "missing", "embed"} => cyc.vec
  /\ ~cyc.vec => cyc.todo \cap cyc.gone = {}

\* A note the policy hides leaves the index by an inventory only, so a hint, or a cycle that
\* only indexes the note, does not bring the index up to date.
HiddenIsScanned(n) ==
  n \in excluded /\ index[n] # Absent =>
    \/ ScanIsDue(n)
    \/ cyc.pc = "scan" /\ cyc.seen[n] \in {Unread, Absent}
    \/ Applying /\ n \in cyc.gone
    \/ n \in hook.note /\ (Purging \/ hook.stale)

\* The policy has changed since the hook found the note hidden, or found that it is not.
Overtaken(n) ==
  n \in hook.note /\ \/ Purging /\ n \notin excluded
                     \/ cyc.pc \in {"source", "publish"} /\ n \in excluded

OvertakenIsScanned(n) == Overtaken(n) => ScanIsDue(n)

Remembered(n) == UpToDate(n) \/ Covered(n) \/ n \in unseen

Kept(n) == Remembered(n) /\ HiddenIsScanned(n) /\ OvertakenIsScanned(n)

\* The controller has been stopped by whoever waits for it, and by whoever lets the owner
\* go; by then no cycle is at work.
LetGoLast ==
  /\ stopping # "no" => aborted
  /\ owner # "held" => aborted /\ cyc.pc \in {"none", "release"}

ControllerInv ==
  /\ TypeInv
  /\ OneAtATime
  /\ LetGoLast
  /\ ~aborted => \A n \in Notes : Kept(n)

-----------------------------------------------------------------------------
(* Type correctness *)

LEMMA NoCycleType ==
  /\ NoCycle \in Cycles /\ NoCycle.pc = "none" /\ ~NoCycle.vec
  /\ NoCycle.todo = {} /\ NoCycle.gone = {}
  /\ \A n \in Notes : NoCycle.seen[n] = Unread
  /\ NoHook \in Hooks /\ NoHook.note = {} /\ ~NoHook.stale
  /\ \A n \in Notes : [NoHook EXCEPT !.note = {n}] \in Hooks
<1>1. /\ NoCycle \in Cycles /\ NoCycle.pc = "none" /\ ~NoCycle.vec
      /\ NoCycle.todo = {} /\ NoCycle.gone = {}
      /\ \A n \in Notes : NoCycle.seen[n] = Unread
  BY DEF NoCycle, Cycles, Steps, Unread, Absent
<1>2. NoHook \in Hooks /\ NoHook.note = {} /\ ~NoHook.stale
  BY DEF NoHook, Hooks, Absent
<1>3. \A n \in Notes : [NoHook EXCEPT !.note = {n}] \in Hooks
  BY <1>2 DEF Hooks
<1> QED BY <1>1, <1>2, <1>3

\* A cycle that fails is over, and asks for a scan unless it was stopped.
LEMMA FailedEffect ==
  ASSUME LifeTyped, Failed
  PROVE  /\ cyc' \in Cycles /\ cyc'.pc \in {"none", "release"} /\ ~cyc'.vec
         /\ cyc'.todo = {} /\ hook' = NoHook
         /\ aborted' \/ needsScan'
         /\ aborted => aborted' /\ UNCHANGED owner
         /\ owner' # owner => aborted'
         /\ stopping' = stopping
         /\ scope' = scope => LifeTyped'
<1>1. CASE aborted
  BY <1>1, NoCycleType DEF Failed, told, life, LifeTyped
<1>2. CASE ~aborted /\ scope
  BY <1>2, NoCycleType DEF Failed, LifeTyped, life
<1>3. CASE ~aborted /\ ~scope
  <2>1. cyc' = [NoCycle EXCEPT !.pc = "release"]
    BY <1>3 DEF Failed
  <2>2. cyc' \in Cycles /\ cyc'.pc = "release" /\ ~cyc'.vec /\ cyc'.todo = {}
    BY <2>1, NoCycleType DEF Cycles, Steps
  <2> QED BY <1>3, <2>2 DEF Failed, LifeTyped
<1>4. aborted \in BOOLEAN /\ scope \in BOOLEAN
  BY DEF LifeTyped
<1> QED BY <1>1, <1>2, <1>3, <1>4

\* What the vault, the watcher and a stop leave typed.
LEMMA OutsideTyped ==
  ASSUME TypeInv,
         \/ Vault \/ Deliver \/ WatcherFails \/ Periodic
         \/ Stop \/ StopTimesOut \/ Drained \/ Released \/ ChangeScope
  PROVE  TypeInv'
<1>0. /\ SourcesTyped /\ IndexTyped /\ LifeTyped
      /\ cyc \in Cycles /\ hook \in Hooks /\ faults \in Nat
  BY DEF TypeInv
<1>1. CASE Vault
  <2>1. PICK n \in Notes : Edit(n) \/ ChangePolicy(n)
    BY <1>1 DEF Vault
  <2>2. UNCHANGED <<work, told, life, scope>>
    BY <2>1 DEF Edit, ChangePolicy
  <2>3. edits \in Nat /\ edits' = edits + 1 /\ edits' \in Nat
    BY <1>0, <2>1 DEF Edit, ChangePolicy, SourcesTyped
  <2>4. disk' \in [Notes -> Nat] /\ excluded' \subseteq Notes
    <3>1. CASE Edit(n)
      <4>1. PICK v \in {edits + 2, Absent} : disk' = [disk EXCEPT ![n] = v]
        BY <3>1 DEF Edit
      <4>2. v \in Nat
        BY <2>3 DEF Absent
      <4> QED BY <1>0, <3>1, <4>1, <4>2 DEF Edit, SourcesTyped
    <3>2. CASE ChangePolicy(n)
      BY <1>0, <3>2 DEF ChangePolicy, SourcesTyped
    <3> QED BY <2>1, <3>1, <3>2
  <2>5. /\ events' \subseteq Notes \cup {Unknown} /\ unseen' \subseteq Notes
        /\ faults' \in Nat
    <3>1. CASE \E event \in Notes \cup {Unknown} : Reported(event, {n})
      <4>1. PICK event \in Notes \cup {Unknown} : Reported(event, {n})
        BY <3>1
      <4> QED BY <1>0, <4>1 DEF Reported, Spend, SourcesTyped
    <3>2. CASE unseen' = unseen \cup {n} /\ UNCHANGED <<events, faults>>
      BY <1>0, <3>2 DEF SourcesTyped
    <3> QED BY <2>1, <3>1, <3>2 DEF Edit, ChangePolicy
  <2>6. SourcesTyped'
    BY <2>3, <2>4, <2>5 DEF SourcesTyped
  <2>7. IndexTyped' /\ LifeTyped' /\ cyc' \in Cycles /\ hook' \in Hooks
    BY <1>0, <2>2 DEF IndexTyped, LifeTyped, work, told, life
  <2> QED BY <2>5, <2>6, <2>7 DEF TypeInv
<1>2. CASE Deliver
  <2>1. PICK event \in events : Notify(event)
    BY <1>2 DEF Deliver
  <2>2. hints' \subseteq Notes /\ needsScan' \in BOOLEAN
    BY <1>0, <2>1 DEF Notify, SourcesTyped, LifeTyped
  <2>3. SourcesTyped' /\ IndexTyped' /\ cyc' \in Cycles /\ hook' \in Hooks /\ faults' \in Nat
    BY <1>0, <2>1 DEF Notify, SourcesTyped, IndexTyped, work
  <2>4. phase' \in {phase, "catching-up"} /\ UNCHANGED <<watching, vectorsDue, life, scope>>
    BY <2>1 DEF Notify
  <2>5. timer' \in BOOLEAN
    BY <2>1 DEF Notify, Schedule
  <2>6. LifeTyped'
    BY <1>0, <2>2, <2>4, <2>5 DEF LifeTyped, life
  <2> QED BY <2>3, <2>6 DEF TypeInv
<1>3. CASE WatcherFails \/ Periodic
  <2>1. timer' \in BOOLEAN
    BY <1>3 DEF WatcherFails, Periodic, Schedule
  <2>2. SourcesTyped' /\ IndexTyped' /\ cyc' \in Cycles /\ hook' \in Hooks /\ faults' \in Nat
    BY <1>0, <1>3
    DEF WatcherFails, Periodic, Spend, sources, work, SourcesTyped, IndexTyped
  <2>3. /\ UNCHANGED <<hints, vectorsDue, life, scope>> /\ needsScan' = TRUE
        /\ watching' \in BOOLEAN
    BY <1>0, <1>3 DEF WatcherFails, Periodic, LifeTyped
  <2>4. phase' \in {phase, "backoff", "catching-up"}
    BY <1>3 DEF WatcherFails, Periodic
  <2>5. LifeTyped'
    BY <1>0, <2>1, <2>3, <2>4 DEF LifeTyped, life
  <2> QED BY <2>2, <2>5 DEF TypeInv
<1>4. CASE Stop \/ StopTimesOut \/ Drained \/ ChangeScope
  <2>1. SourcesTyped' /\ IndexTyped' /\ cyc' \in Cycles /\ hook' \in Hooks /\ faults' \in Nat
    BY <1>0, <1>4
    DEF Stop, StopTimesOut, Drained, ChangeScope, Spend, sources, work, SourcesTyped, IndexTyped
  <2>2. Stop => LifeTyped'
    BY <1>0 DEF Stop, LifeTyped
  <2>3. StopTimesOut => LifeTyped'
    BY <1>0 DEF StopTimesOut, LifeTyped, told
  <2>4. Drained => LifeTyped'
    BY <1>0 DEF Drained, LifeTyped
  <2>5. ASSUME ChangeScope PROVE LifeTyped'
    <3>1. scope' \in BOOLEAN
      BY <2>5 DEF ChangeScope
    <3> QED BY <1>0, <2>5, <3>1 DEF ChangeScope, LifeTyped, told, life
  <2>6. LifeTyped'
    BY <1>4, <2>2, <2>3, <2>4, <2>5
  <2> QED BY <2>1, <2>6 DEF TypeInv
<1>5. CASE Released
  BY <1>0, <1>5, NoCycleType
  DEF TypeInv, Released, SourcesTyped, IndexTyped, LifeTyped, told, sources
<1> QED BY <1>1, <1>2, <1>3, <1>4, <1>5

\* The fields a step of a cycle sets.
LEMMA CycleFields ==
  ASSUME NEW c \in Cycles
  PROVE  /\ \A n \in Notes : \A v \in Int :
              [c EXCEPT !.seen[n] = v] \in Cycles
         /\ \A todo \in SUBSET Notes : \A gone \in SUBSET Notes :
              [NoCycle EXCEPT !.pc = "work", !.todo = todo, !.gone = gone] \in Cycles
<1>1. ASSUME NEW n \in Notes, NEW v \in Int PROVE [c EXCEPT !.seen[n] = v] \in Cycles
  BY DEF Cycles
<1>2. ASSUME NEW todo \in SUBSET Notes, NEW gone \in SUBSET Notes
      PROVE  [NoCycle EXCEPT !.pc = "work", !.todo = todo, !.gone = gone] \in Cycles
  BY NoCycleType DEF Cycles, Steps
<1> QED BY <1>1, <1>2

-----------------------------------------------------------------------------
(* Nothing is forgotten *)

\* A scan that is due brings every note up to date.
LEMMA ScanKeepsAll ==
  ASSUME needsScan'
  PROVE  \A n \in Notes : Kept(n)'
  BY DEF Kept, Remembered, Covered, HiddenIsScanned, OvertakenIsScanned, ScanIsDue

\* A note is kept by a step that neither changes it nor takes it out of the cycle's hands.
LEMMA StaysKept ==
  ASSUME NEW n \in Notes, Kept(n),
         UNCHANGED <<cyc, hook>>, index'[n] = index[n], Visible(n)' = Visible(n),
         n \in excluded' <=> n \in excluded,
         Unknown \in events => Unknown \in events' \/ needsScan',
         n \in events => n \in events' \/ n \in hints' \/ needsScan',
         n \in hints => n \in hints' \/ needsScan',
         needsScan => needsScan',
         n \in unseen => n \in unseen'
  PROVE  Kept(n)'
<1>1. Remembered(n)'
  BY DEF Kept, Remembered, UpToDate, Covered, InHand, Applying, Purging
<1>2. HiddenIsScanned(n)' /\ OvertakenIsScanned(n)'
  BY DEF Kept, HiddenIsScanned, OvertakenIsScanned, Overtaken, ScanIsDue, Applying, Purging
<1> QED BY <1>1, <1>2 DEF Kept

\* A note that a scan is due for, whether told or missed by the watcher.
LEMMA DueIsKept ==
  ASSUME NEW n \in Notes, n \in unseen' \/ Unknown \in events' \/ needsScan'
  PROVE  Kept(n)'
  BY DEF Kept, Remembered, Covered, HiddenIsScanned, OvertakenIsScanned, ScanIsDue

LEMMA FailureKeeps ==
  ASSUME ControllerInv, Failed, UNCHANGED <<sources, index, queued, scope>>, faults' \in Nat
  PROVE  ControllerInv'
<1>0. TypeInv /\ LetGoLast /\ LifeTyped
  BY DEF ControllerInv, TypeInv
<1>1. /\ cyc' \in Cycles /\ cyc'.pc \in {"none", "release"} /\ ~cyc'.vec
      /\ cyc'.todo = {} /\ hook' = NoHook
      /\ aborted' \/ needsScan'
      /\ aborted => aborted' /\ UNCHANGED owner
      /\ owner' # owner => aborted'
      /\ stopping' = stopping
      /\ LifeTyped'
  BY <1>0, FailedEffect
<1>2. TypeInv'
  BY <1>0, <1>1, NoCycleType DEF TypeInv, SourcesTyped, IndexTyped, sources
<1>3. OneAtATime' /\ LetGoLast'
  BY <1>0, <1>1, NoCycleType DEF OneAtATime, LetGoLast
<1>4. ~aborted' => \A n \in Notes : Kept(n)'
  BY <1>1, ScanKeepsAll
<1> QED BY <1>2, <1>3, <1>4 DEF ControllerInv

\* An edit of a note, or a change of what the policy excludes.
LEMMA VaultKeeps ==
  ASSUME ControllerInv, Vault
  PROVE  ControllerInv'
<1>0. TypeInv /\ TypeInv' /\ OneAtATime /\ LetGoLast
  BY OutsideTyped DEF ControllerInv
<1>1. PICK n \in Notes : Edit(n) \/ ChangePolicy(n)
  BY DEF Vault
<1>2. UNCHANGED <<index, cyc, hook, hints, needsScan, aborted, owner, stopping>>
  BY <1>1 DEF Edit, ChangePolicy, work, told, life
<1>3. OneAtATime' /\ LetGoLast'
  BY <1>0, <1>2 DEF OneAtATime, LetGoLast
<1>4. /\ events \subseteq events' /\ unseen \subseteq unseen'
  BY <1>1 DEF Edit, ChangePolicy, Reported
<1>5. ASSUME ~aborted, NEW m \in Notes PROVE Kept(m)'
  <2>0. Kept(m)
    BY <1>5 DEF ControllerInv
  <2>1. CASE Visible(m)' = Visible(m) /\ (m \in excluded' <=> m \in excluded)
    BY <1>2, <1>4, <2>0, <2>1, StaysKept
  <2>2. CASE Edit(n) /\ m # n
    <3>1. m \in excluded' <=> m \in excluded
      BY <2>2 DEF Edit
    <3>2. Visible(m)' = Visible(m)
      BY <1>0, <2>2 DEF Edit, Visible, TypeInv, SourcesTyped
    <3> QED BY <2>1, <3>1, <3>2
  <2>3. CASE ChangePolicy(n) /\ m # n
    <3>1. m \in excluded' <=> m \in excluded
      BY <2>3 DEF ChangePolicy
    <3>2. Visible(m)' = Visible(m)
      BY <2>3, <3>1 DEF ChangePolicy, Visible
    <3> QED BY <2>1, <3>1, <3>2
  <2>4. CASE ChangePolicy(n) /\ m = n
    <3>1. Unknown \in events' \/ n \in unseen'
      BY <2>4 DEF ChangePolicy, Reported
    <3> QED BY <2>4, <3>1, DueIsKept
  <2>5. CASE Edit(n) /\ m = n
    <3>1. Unknown \in events' \/ n \in events' \/ n \in unseen'
      BY <2>5 DEF Edit, Reported
    <3>2. excluded' = excluded
      BY <2>5 DEF Edit
    <3>3. HiddenIsScanned(m)' /\ OvertakenIsScanned(m)'
      BY <1>2, <1>4, <2>0, <3>2
      DEF Kept, HiddenIsScanned, OvertakenIsScanned, Overtaken, ScanIsDue, Applying, Purging
    <3>4. Remembered(m)'
      BY <2>5, <3>1 DEF Remembered, Covered
    <3> QED BY <3>3, <3>4 DEF Kept
  <2> QED BY <1>1, <2>2, <2>3, <2>4, <2>5
<1> QED BY <1>0, <1>2, <1>3, <1>5 DEF ControllerInv

\* What the watcher and the interval tell the controller.
LEMMA ToldKeeps ==
  ASSUME ControllerInv, Deliver \/ WatcherFails \/ Periodic
  PROVE  ControllerInv'
<1>0. TypeInv /\ TypeInv' /\ OneAtATime /\ LetGoLast
  BY OutsideTyped DEF ControllerInv
<1>1. UNCHANGED <<disk, excluded, index, cyc, hook, aborted, owner, stopping, unseen>>
  BY DEF Deliver, Notify, WatcherFails, Periodic, sources, work, life
<1>2. OneAtATime' /\ LetGoLast'
  BY <1>0, <1>1 DEF OneAtATime, LetGoLast
<1>3. CASE WatcherFails \/ Periodic
  <2>1. needsScan' = TRUE
    BY <1>3 DEF WatcherFails, Periodic
  <2> QED BY <1>0, <1>2, <2>1, ScanKeepsAll DEF ControllerInv
<1>4. CASE Deliver
  <2>1. PICK event \in events : Notify(event)
    BY <1>4 DEF Deliver
  <2>2. events' = events \ {event}
    BY <2>1 DEF Notify
  <2>3. CASE needsScan' = TRUE
    BY <1>0, <1>2, <2>3, ScanKeepsAll DEF ControllerInv
  <2>4. CASE event # Unknown /\ hints' = hints \cup {event} /\ needsScan' = needsScan
    <3>1. ASSUME ~aborted, NEW n \in Notes PROVE Kept(n)'
      <4>1. Kept(n) /\ Visible(n)' = Visible(n)
        BY <1>1, <3>1 DEF ControllerInv, Visible
      <4> QED BY <1>1, <2>2, <2>4, <4>1, StaysKept
    <3> QED BY <1>0, <1>1, <1>2, <3>1 DEF ControllerInv
  <2> QED BY <2>1, <2>3, <2>4 DEF Notify
<1> QED BY <1>3, <1>4

\* Stopping, the end of a stop and a change of scope.
LEMMA StopKeeps ==
  ASSUME ControllerInv, Stop \/ StopTimesOut \/ Drained \/ Released \/ ChangeScope
  PROVE  ControllerInv'
<1>0. TypeInv /\ TypeInv' /\ OneAtATime /\ LetGoLast
  BY OutsideTyped DEF ControllerInv
<1>1. CASE Stop
  <2>1. aborted' /\ UNCHANGED <<cyc, hook, owner>>
    BY <1>1 DEF Stop, work
  <2> QED BY <1>0, <2>1 DEF ControllerInv, OneAtATime, LetGoLast
<1>2. CASE StopTimesOut \/ ChangeScope
  <2>1. /\ UNCHANGED <<sources, work, told, aborted, owner>>
        /\ stopping' = stopping \/ stopping # "no"
    BY <1>2 DEF StopTimesOut, ChangeScope, life
  <2>2. OneAtATime' /\ LetGoLast'
    BY <1>0, <2>1 DEF OneAtATime, LetGoLast, work
  <2>3. ASSUME ~aborted, NEW n \in Notes PROVE Kept(n)'
    <3>1. Kept(n) /\ Visible(n)' = Visible(n)
      BY <2>1, <2>3 DEF ControllerInv, Visible, sources
    <3> QED BY <2>1, <3>1, StaysKept DEF sources, work, told
  <2> QED BY <1>0, <2>1, <2>2, <2>3 DEF ControllerInv
<1>3. CASE Drained
  <2>1. aborted /\ aborted' = aborted /\ cyc.pc = "none" /\ UNCHANGED <<cyc, hook>>
    BY <1>0, <1>3 DEF Drained, LetGoLast, Active, work
  <2> QED BY <1>0, <2>1 DEF ControllerInv, OneAtATime, LetGoLast
<1>4. CASE Released
  <2>1. aborted /\ aborted' = aborted /\ cyc.pc \in {"none", "release"}
    BY <1>0, <1>4 DEF Released, LetGoLast
  <2>2. (cyc' = cyc \/ cyc' = NoCycle) /\ hook' = hook
    BY <1>4 DEF Released
  <2>3. OneAtATime'
    BY <1>0, <2>1, <2>2, NoCycleType DEF OneAtATime
  <2>4. cyc'.pc \in {"none", "release"}
    BY <2>1, <2>2, NoCycleType
  <2> QED BY <1>0, <2>1, <2>3, <2>4 DEF ControllerInv, LetGoLast
<1> QED BY <1>1, <1>2, <1>3, <1>4

\* A timer fires and a cycle takes what has been told so far.
LEMMA FlushKeeps ==
  ASSUME ControllerInv, Flush
  PROVE  ControllerInv'
<1>0. TypeInv /\ OneAtATime /\ LetGoLast /\ faults \in Nat /\ LifeTyped /\ ~aborted
  BY DEF ControllerInv, TypeInv, Flush
<1>1. UNCHANGED <<sources, index, queued, scope>> /\ cyc.pc = "none"
  BY DEF Flush, Active
<1>2. faults' \in Nat
  BY <1>0 DEF Flush, AttachedWatcher, Spend
<1>5. hook.note = {} /\ ~hook.stale
  BY <1>0, <1>1 DEF OneAtATime
<1>3. CASE Failed
  BY <1>1, <1>2, <1>3, FailureKeeps
<1>4. CASE /\ AttachedWatcher
           /\ cyc' = Selected(needsScan \/ ~watching')
           /\ needsScan' = FALSE /\ hints' = {}
           /\ timer' = FALSE /\ phase' = "catching-up"
           /\ UNCHANGED <<hook, vectorsDue, life>>
  <2>1. watching' \in BOOLEAN
    BY <1>4 DEF AttachedWatcher
  <2>2. CASE (needsScan \/ ~watching') /\ cyc' = [NoCycle EXCEPT !.pc = "scan"]
    <3>1. /\ cyc' \in Cycles /\ cyc'.pc = "scan" /\ ~cyc'.vec
          /\ cyc'.todo = {} /\ \A n \in Notes : cyc'.seen[n] = Unread
      BY <2>2, NoCycleType DEF Cycles, Steps
    <3>2. TypeInv'
      BY <1>0, <1>1, <1>2, <1>4, <2>1, <3>1
      DEF TypeInv, SourcesTyped, IndexTyped, LifeTyped, sources, life
    <3>3. OneAtATime' /\ LetGoLast'
      BY <1>0, <1>4, <1>5, <3>1 DEF OneAtATime, LetGoLast, life
    <3>4. \A n \in Notes : Kept(n)'
      <4>1. hook'.note = {}
        BY <1>0, <1>1, <1>4 DEF OneAtATime
      <4> QED BY <3>1, <4>1
          DEF Kept, Remembered, Covered, InHand, HiddenIsScanned, OvertakenIsScanned, Overtaken
    <3> QED BY <3>2, <3>3, <3>4 DEF ControllerInv
  <2>3. CASE ~needsScan /\ cyc' = [NoCycle EXCEPT !.pc = "work", !.todo = hints]
    <3>1. /\ cyc' \in Cycles /\ cyc'.pc = "work" /\ ~cyc'.vec
          /\ cyc'.todo = hints /\ cyc'.gone = {}
      BY <1>0, <2>3, NoCycleType DEF Cycles, Steps, LifeTyped
    <3>2. TypeInv'
      BY <1>0, <1>1, <1>2, <1>4, <2>1, <3>1
      DEF TypeInv, SourcesTyped, IndexTyped, LifeTyped, sources, life
    <3>3. OneAtATime' /\ LetGoLast'
      BY <1>0, <1>4, <1>5, <3>1 DEF OneAtATime, LetGoLast, life
    <3>4. ASSUME NEW n \in Notes PROVE Kept(n)'
      <4>0. Kept(n)
        BY <1>0 DEF ControllerInv
      <4>1. /\ UpToDate(n)' <=> UpToDate(n)
            /\ UNCHANGED <<excluded, index, events, unseen>>
        BY <1>1 DEF sources, UpToDate, Visible
      <4>2. UpToDate(n) \/ Unknown \in events \/ n \in events \/ n \in hints \/ n \in unseen
        BY <1>0, <1>1, <2>3, <4>0 DEF Kept, Remembered, Covered, InHand, Applying, OneAtATime
      <4>3. Remembered(n)'
        BY <3>1, <4>1, <4>2 DEF Remembered, Covered, InHand, Applying
      <4>4. HiddenIsScanned(n)' /\ OvertakenIsScanned(n)'
        BY <1>0, <1>1, <1>4, <2>3, <3>1, <4>0, <4>1
        DEF Kept, HiddenIsScanned, OvertakenIsScanned, Overtaken, ScanIsDue, Applying, OneAtATime
      <4> QED BY <4>3, <4>4 DEF Kept
    <3> QED BY <3>2, <3>3, <3>4 DEF ControllerInv
  <2>4. needsScan \in BOOLEAN
    BY <1>0 DEF LifeTyped
  <2> QED BY <1>4, <2>1, <2>2, <2>3, <2>4 DEF Selected
<1> QED BY <1>3, <1>4 DEF Flush

\* The inventory reads one note.
LEMMA ScanNoteKeeps ==
  ASSUME ControllerInv, NEW n \in Notes, ScanNote(n)
  PROVE  ControllerInv'
<1>0. /\ TypeInv /\ OneAtATime /\ LetGoLast /\ cyc \in Cycles /\ cyc.pc = "scan"
      /\ cyc.seen[n] = Unread
  BY DEF ControllerInv, TypeInv, ScanNote
<1>1. /\ UNCHANGED <<disk, excluded, events, edits, index, queued, hook, told, life, scope, faults>>
      /\ unseen' = unseen \ {n} /\ cyc' = [cyc EXCEPT !.seen[n] = Visible(n)]
  BY DEF ScanNote
<1>2. Visible(n) \in Int
  BY <1>0 DEF Visible, TypeInv, SourcesTyped, Absent
<1>3. /\ cyc' \in Cycles /\ cyc'.pc = "scan" /\ cyc'.vec = cyc.vec
      /\ cyc'.todo = cyc.todo /\ cyc'.gone = cyc.gone
      /\ cyc'.seen[n] = Visible(n) /\ \A m \in Notes \ {n} : cyc'.seen[m] = cyc.seen[m]
  BY <1>0, <1>1, <1>2 DEF Cycles
<1>4. TypeInv'
  BY <1>0, <1>1, <1>3
  DEF TypeInv, SourcesTyped, IndexTyped, LifeTyped, told, life
<1>5. OneAtATime' /\ LetGoLast'
  BY <1>0, <1>1, <1>3 DEF OneAtATime, LetGoLast, life
<1>6. ASSUME ~aborted, NEW m \in Notes PROVE Kept(m)'
  <2>0. Kept(m) /\ Visible(m)' = Visible(m) /\ (UpToDate(m)' <=> UpToDate(m))
    BY <1>1, <1>6 DEF ControllerInv, Visible, UpToDate
  <2>1. Remembered(m)'
    <3>1. CASE m = n
      BY <1>3, <2>0, <3>1 DEF Remembered, Covered, InHand
    <3>2. CASE m # n
      <4>1. UpToDate(m) \/ Covered(m) \/ m \in unseen
        BY <2>0 DEF Kept, Remembered
      <4>2. InHand(m) => InHand(m)'
        BY <1>0, <1>1, <1>3, <2>0, <3>2 DEF InHand, Applying, OneAtATime
      <4> QED BY <1>1, <2>0, <3>2, <4>1, <4>2 DEF Remembered, Covered, told
    <3> QED BY <3>1, <3>2
  <2>2. HiddenIsScanned(m)'
    <3>1. CASE m = n
      BY <1>1, <1>3, <3>1 DEF HiddenIsScanned, Visible
    <3>2. CASE m # n
      BY <1>0, <1>1, <1>3, <2>0, <3>2
      DEF Kept, HiddenIsScanned, ScanIsDue, Applying, OneAtATime, told
    <3> QED BY <3>1, <3>2
  <2>3. OvertakenIsScanned(m)'
    BY <1>0, <1>1, <1>3 DEF OvertakenIsScanned, Overtaken, OneAtATime
  <2> QED BY <2>1, <2>2, <2>3 DEF Kept
<1> QED BY <1>1, <1>4, <1>5, <1>6 DEF ControllerInv, life

\* Every note has been read: the cycle goes on with those the index does not show as read.
LEMMA ScannedKeeps ==
  ASSUME ControllerInv, Scanned
  PROVE  ControllerInv'
<1>0. /\ TypeInv /\ OneAtATime /\ LetGoLast /\ cyc \in Cycles /\ cyc.pc = "scan"
      /\ \A n \in Notes : cyc.seen[n] # Unread
  BY DEF ControllerInv, TypeInv, Scanned
<1>1. UNCHANGED <<sources, index, queued, scope, faults>> /\ faults \in Nat
  BY <1>0 DEF Scanned, TypeInv
<1>2. CASE Failed
  BY <1>1, <1>2, FailureKeeps
<1> DEFINE todo == {n \in Notes : cyc.seen[n] # Absent /\ index[n] # cyc.seen[n]}
           gone == {n \in Notes : cyc.seen[n] = Absent /\ index[n] # Absent}
<1>3. CASE /\ cyc' = [NoCycle EXCEPT !.pc = "work", !.todo = todo, !.gone = gone]
           /\ UNCHANGED <<hook, told, life>>
  <2>1. todo \in SUBSET Notes /\ gone \in SUBSET Notes /\ todo \cap gone = {}
    OBVIOUS
  <2>2. \A n \in Notes : index[n] = cyc.seen[n] \/ n \in todo \cup gone
    BY DEF Absent
  <2>3. \A n \in Notes : cyc.seen[n] = Absent /\ index[n] # Absent => n \in gone
    OBVIOUS
  <2> HIDE DEF todo, gone
  <2>4. /\ cyc' \in Cycles /\ cyc'.pc = "work" /\ cyc'.todo = todo /\ cyc'.gone = gone
        /\ ~cyc'.vec
    BY <1>3, <2>1, NoCycleType DEF Cycles, Steps
  <2>5. TypeInv'
    BY <1>0, <1>1, <1>3, <2>4
    DEF TypeInv, SourcesTyped, IndexTyped, LifeTyped, sources, told, life
  <2>6. OneAtATime' /\ LetGoLast'
    BY <1>0, <1>3, <2>1, <2>4 DEF OneAtATime, LetGoLast, life
  <2>7. ASSUME ~aborted, NEW n \in Notes PROVE Kept(n)'
    <3>0. Kept(n) /\ Visible(n)' = Visible(n) /\ (UpToDate(n)' <=> UpToDate(n))
      BY <1>1, <2>7 DEF ControllerInv, Visible, UpToDate, sources
    <3>1. InHand(n) => UpToDate(n) \/ InHand(n)'
      BY <1>0, <2>2, <2>4 DEF InHand, UpToDate, Applying, OneAtATime
    <3>2. Remembered(n)'
      BY <1>1, <1>3, <3>0, <3>1 DEF Kept, Remembered, Covered, sources, told
    <3>3. HiddenIsScanned(n)'
      BY <1>0, <1>1, <1>3, <2>3, <2>4, <3>0
      DEF Kept, HiddenIsScanned, ScanIsDue, Applying, OneAtATime, sources, told
    <3>4. OvertakenIsScanned(n)'
      BY <1>0, <1>3, <2>4 DEF OvertakenIsScanned, Overtaken, OneAtATime
    <3> QED BY <3>2, <3>3, <3>4 DEF Kept
  <2> QED BY <1>3, <2>5, <2>6, <2>7 DEF ControllerInv, life
<1> QED BY <1>2, <1>3 DEF Scanned

\* A step of a cycle that goes on: what is left to show is that it keeps every note.
LEMMA StepKeeps ==
  ASSUME ControllerInv,
         UNCHANGED <<sources, hints, watching, timer, phase, vectorsDue, life, scope, faults>>,
         cyc.pc \notin {"none", "release"},
         cyc' \in Cycles, hook' \in Hooks, OneAtATime',
         index' \in [Notes -> Nat], queued' \subseteq Notes, needsScan' \in BOOLEAN,
         ~aborted => \A n \in Notes : Kept(n)'
  PROVE  ControllerInv'
<1>0. TypeInv /\ LetGoLast
  BY DEF ControllerInv
<1>1. TypeInv'
  BY <1>0 DEF TypeInv, SourcesTyped, IndexTyped, LifeTyped, sources, life
<1>2. LetGoLast'
  BY <1>0 DEF LetGoLast, life
<1> QED BY <1>1, <1>2 DEF ControllerInv, life

\* What the controller knows of a note whose hook has not begun or is over.
LEMMA NotesStand ==
  ASSUME NEW n \in Notes, UNCHANGED sources, index'[n] = index[n], needsScan => needsScan', UNCHANGED hints
  PROVE  /\ Visible(n)' = Visible(n) /\ (UpToDate(n)' <=> UpToDate(n))
         /\ ScanIsDue(n) => ScanIsDue(n)'
         /\ (n \in excluded' <=> n \in excluded) /\ UNCHANGED <<events, hints, unseen>>
  BY DEF Visible, UpToDate, ScanIsDue, sources

\* The record of a cycle, and of a hook, after a step that sets these fields.
LEMMA CycleAt ==
  ASSUME cyc \in Cycles, NEW label \in Steps
  PROVE  LET c == [cyc EXCEPT !.pc = label] IN
         /\ c \in Cycles /\ c.pc = label /\ c.todo = cyc.todo /\ c.gone = cyc.gone
         /\ c.vec = cyc.vec /\ c.left = cyc.left
  BY DEF Cycles

LEMMA CycleTakes ==
  ASSUME cyc \in Cycles, NEW label \in Steps, NEW n
  PROVE  LET c == [cyc EXCEPT !.pc = label, !.todo = @ \ {n}, !.gone = @ \ {n}] IN
         /\ c \in Cycles /\ c.pc = label /\ c.todo = cyc.todo \ {n} /\ c.gone = cyc.gone \ {n}
         /\ c.vec = cyc.vec
<1> DEFINE b == [cyc EXCEPT !.pc = label, !.todo = @ \ {n}]
           c == [cyc EXCEPT !.pc = label, !.todo = @ \ {n}, !.gone = @ \ {n}]
<1>1. /\ b \in Cycles /\ b.pc = label /\ b.todo = cyc.todo \ {n} /\ b.gone = cyc.gone /\ b.vec = cyc.vec
  BY DEF Cycles
<1>2. c = [b EXCEPT !.gone = cyc.gone \ {n}]
  OBVIOUS
<1>3. /\ c \in Cycles /\ c.pc = label /\ c.todo = cyc.todo \ {n} /\ c.gone = cyc.gone \ {n}
      /\ c.vec = cyc.vec
  <2> HIDE DEF b, c
  <2> QED BY <1>1, <1>2 DEF Cycles
<1> QED BY <1>3

\* The hook has a note in hand, or none.
LEMMA HandedEffect ==
  ASSUME NEW n \in Notes, NEW label, Handed(n, label)
  PROVE  /\ hook' \in Hooks /\ ~hook'.stale /\ \A x, y \in hook'.note : x = y
         /\ label \in {"source", "capture", "lookup"} => hook'.note = {n}
         /\ label \notin {"source", "capture", "lookup"} => hook'.note = {}
<1>1. ~[NoHook EXCEPT !.note = {n}].stale /\ [NoHook EXCEPT !.note = {n}].note = {n}
  BY DEF NoHook
<1> QED BY <1>1, NoCycleType DEF Handed

\* The cycle takes a note in hand.
LEMMA MaintainKeeps ==
  ASSUME ControllerInv, Maintain
  PROVE  ControllerInv'
<1> DEFINE next == IF cyc.todo = {} THEN cyc.gone ELSE cyc.todo
           label(n) == Route(n, cyc.todo = {}, "work")
<1>0. /\ TypeInv /\ OneAtATime /\ cyc \in Cycles /\ cyc.pc = "work" /\ index \in [Notes -> Nat]
      /\ queued \subseteq Notes /\ hook.note = {} /\ ~hook.stale /\ ~cyc.vec /\ faults \in Nat
      /\ UNCHANGED <<sources, index, queued, scope, faults>> /\ needsScan \in BOOLEAN
  BY DEF ControllerInv, TypeInv, IndexTyped, LifeTyped, Maintain, OneAtATime
<1>1. CASE Failed
  BY <1>0, <1>1, FailureKeeps
<1>2. CASE \E n \in next :
             /\ cyc' = [cyc EXCEPT !.pc = label(n), !.todo = @ \ {n}, !.gone = @ \ {n}]
             /\ Handed(n, label(n))
             /\ UNCHANGED <<told, life>>
  <2>1. PICK n \in next :
             /\ cyc' = [cyc EXCEPT !.pc = label(n), !.todo = @ \ {n}, !.gone = @ \ {n}]
             /\ Handed(n, label(n))
             /\ UNCHANGED <<told, life>>
    BY <1>2
  <2>2. n \in Notes /\ (cyc.todo # {} => n \notin cyc.gone)
    BY <1>0, <2>1 DEF Cycles, OneAtATime
  <2>3. label(n) \in {"source", "capture", "work"} /\ label(n) \in Steps
    BY DEF Route, Steps
  <2> DEFINE l == label(n)
  <2>4. /\ n \notin excluded => l = "source"
        /\ n \in excluded /\ cyc.todo = {} => l = "capture"
        /\ n \in excluded /\ cyc.todo # {} => l = "work"
    BY DEF Route
  <2> HIDE DEF l, label, next
  <2>5. /\ cyc' \in Cycles /\ cyc'.pc = l /\ cyc'.todo = cyc.todo \ {n}
        /\ cyc'.gone = cyc.gone \ {n} /\ ~cyc'.vec
    <3>1. cyc' = [cyc EXCEPT !.pc = l, !.todo = @ \ {n}, !.gone = @ \ {n}]
      BY <2>1 DEF l
    <3>2. l \in Steps
      BY <2>3 DEF l
    <3> QED BY <1>0, <3>1, <3>2, CycleTakes
  <2>6. /\ hook' \in Hooks /\ ~hook'.stale /\ \A x, y \in hook'.note : x = y
        /\ l \in {"source", "capture", "lookup"} => hook'.note = {n}
        /\ l \notin {"source", "capture", "lookup"} => hook'.note = {}
    BY <2>1, <2>2, HandedEffect DEF l
  <2>7. l \in {"source", "capture", "work"}
    BY <2>3 DEF l
  <2>8. OneAtATime'
    BY <1>0, <2>5, <2>6, <2>7 DEF OneAtATime
  <2>9. ASSUME ~aborted, NEW m \in Notes PROVE Kept(m)'
    <3>0. /\ Kept(m) /\ Visible(m)' = Visible(m) /\ (UpToDate(m)' <=> UpToDate(m))
          /\ ScanIsDue(m) => ScanIsDue(m)'
          /\ (m \in excluded' <=> m \in excluded)
          /\ UNCHANGED <<index, events, hints, needsScan, unseen>>
      BY <1>0, <2>1, <2>9, NotesStand DEF ControllerInv, told, sources
    <3>1. CASE m # n
      <4>1. InHand(m) => InHand(m)'
        BY <1>0, <2>5, <2>7, <3>1 DEF InHand, Applying
      <4>2. Remembered(m)'
        BY <3>0, <4>1 DEF Kept, Remembered, Covered
      <4>3. HiddenIsScanned(m)' /\ OvertakenIsScanned(m)'
        BY <1>0, <2>5, <2>6, <2>7, <3>0, <3>1
        DEF Kept, HiddenIsScanned, OvertakenIsScanned, Overtaken, Applying
      <4> QED BY <4>2, <4>3 DEF Kept
    <3>2. CASE m = n /\ n \notin excluded
      BY <2>4, <2>5, <2>6, <3>0, <3>2
      DEF Kept, Remembered, Covered, InHand, HiddenIsScanned, OvertakenIsScanned, Overtaken, Purging
    <3>3. CASE m = n /\ n \in excluded /\ cyc.todo = {}
      BY <2>4, <2>5, <2>6, <3>0, <3>3
      DEF Kept, Remembered, Covered, InHand, HiddenIsScanned, OvertakenIsScanned, Overtaken, Purging
    <3>4. CASE m = n /\ n \in excluded /\ cyc.todo # {}
      <4>1. index[n] = Absent \/ ScanIsDue(n)
        BY <1>0, <2>2, <3>0, <3>4 DEF Kept, HiddenIsScanned
      <4>2. UpToDate(n) \/ ScanIsDue(n)
        BY <3>4, <4>1 DEF UpToDate, Visible
      <4> QED BY <2>4, <2>5, <2>6, <3>0, <3>4, <4>1, <4>2
          DEF Kept, Remembered, Covered, HiddenIsScanned, OvertakenIsScanned, Overtaken, ScanIsDue
    <3> QED BY <3>1, <3>2, <3>3, <3>4
  <2> QED BY <1>0, <2>1, <2>5, <2>6, <2>8, <2>9, StepKeeps DEF told
<1> QED BY <1>1, <1>2 DEF Maintain

\* A step with which the hook goes on, and the note stays in hand.
LEMMA ReadsKeep ==
  ASSUME ControllerInv, NEW h \in Hooks, NEW label \in Steps, Reads(h, label),
         h.note = hook.note, ~h.stale,
         \/ cyc.pc = "source" /\ label = "publish"
         \/ Purging /\ label \in {"digest", "judge", "clear"}
         \/ cyc.pc = "lookup" /\ label \in {"missing", "embed"}
  PROVE  ControllerInv'
<1>0. /\ OneAtATime /\ cyc \in Cycles /\ index \in [Notes -> Nat] /\ queued \subseteq Notes
      /\ needsScan \in BOOLEAN /\ cyc.pc \notin {"none", "scan", "release"} /\ ~hook.stale
      /\ UNCHANGED <<sources, index, queued, told, life, scope, faults>> /\ hook' = h
  BY DEF ControllerInv, TypeInv, IndexTyped, LifeTyped, OneAtATime, Reads, Purging
<1>1. /\ cyc' \in Cycles /\ cyc'.pc = label /\ cyc'.todo = cyc.todo /\ cyc'.gone = cyc.gone
      /\ cyc'.vec = cyc.vec
  BY <1>0, CycleAt DEF Reads
<1>2. OneAtATime'
  BY <1>0, <1>1 DEF OneAtATime, Purging
<1>3. ASSUME ~aborted, NEW n \in Notes PROVE Kept(n)'
  <2>1. /\ Kept(n) /\ Visible(n)' = Visible(n) /\ (UpToDate(n)' <=> UpToDate(n))
        /\ ScanIsDue(n) => ScanIsDue(n)'
        /\ (n \in excluded' <=> n \in excluded)
        /\ UNCHANGED <<index, events, hints, needsScan, unseen>>
    BY <1>0, <1>3, NotesStand DEF ControllerInv, told, sources
  <2>2. InHand(n) => InHand(n)'
    BY <1>0, <1>1 DEF InHand, Applying, Purging
  <2>3. Remembered(n)'
    BY <2>1, <2>2 DEF Kept, Remembered, Covered
  <2>4. HiddenIsScanned(n)' /\ OvertakenIsScanned(n)'
    BY <1>0, <1>1, <2>1
    DEF Kept, HiddenIsScanned, OvertakenIsScanned, Overtaken, Applying, Purging
  <2> QED BY <2>3, <2>4 DEF Kept
<1> QED BY <1>0, <1>1, <1>2, <1>3, StepKeeps DEF told

LEMMA HookReadsKeep ==
  ASSUME ControllerInv, ReadSource \/ Capture \/ ReadPolicy \/ LookUp
  PROVE  ControllerInv'
<1>0. /\ hook \in Hooks /\ disk \in [Notes -> Nat] /\ excluded \subseteq Notes
      /\ (cyc.pc # "reread" => ~hook.stale)
  BY DEF ControllerInv, TypeInv, SourcesTyped, OneAtATime
<1>1. \A n \in hook.note : disk[n] \in Nat
  BY <1>0 DEF Hooks
<1>2. ASSUME NEW n \in hook.note
      PROVE  LET h == [hook EXCEPT !.read = disk[n]] IN
             h \in Hooks /\ h.note = hook.note /\ h.stale = hook.stale
  BY <1>0, <1>1 DEF Hooks
<1>3. CASE ReadSource
  <2>1. PICK n \in hook.note : Reads([hook EXCEPT !.read = disk[n]], "publish")
    BY <1>3 DEF ReadSource
  <2> QED BY <1>0, <1>2, <1>3, <2>1, ReadsKeep DEF ReadSource, Steps
<1>4. CASE Capture
  <2>1. PICK n \in hook.note : Reads([hook EXCEPT !.read = disk[n]], "digest")
    BY <1>4 DEF Capture
  <2> QED BY <1>0, <1>2, <1>4, <2>1, ReadsKeep DEF Capture, Steps, Purging
<1>5. CASE ReadPolicy
  <2> DEFINE h == [hook EXCEPT !.policy = excluded]
  <2>1. h \in Hooks /\ h.note = hook.note /\ h.stale = hook.stale
    BY <1>0 DEF Hooks
  <2>2. Reads(h, "judge") /\ cyc.pc = "digest"
    BY <1>5 DEF ReadPolicy
  <2> HIDE DEF h
  <2> QED BY <1>0, <2>1, <2>2, ReadsKeep DEF Steps, Purging
<1>6. CASE LookUp
  <2>1. PICK n \in hook.note :
          Reads([hook EXCEPT !.read = disk[n]], IF disk[n] = Absent THEN "missing" ELSE "embed")
    BY <1>6 DEF LookUp
  <2>2. PICK label \in {"missing", "embed"} : Reads([hook EXCEPT !.read = disk[n]], label)
    BY <2>1
  <2> QED BY <1>0, <1>2, <1>6, <2>2, ReadsKeep DEF LookUp, Steps
<1> QED BY <1>3, <1>4, <1>5, <1>6

\* The hook is over, and its note out of hand: the index shows it, or a scan is due for it.
LEMMA ReturnedKeeps ==
  ASSUME ControllerInv, NEW stale \in BOOLEAN, Returned(stale),
         UNCHANGED <<sources, scope, faults>>,
         cyc.pc \notin {"none", "scan", "release"},
         index' \in [Notes -> Nat], queued' \subseteq Notes,
         Failed => UNCHANGED <<index, queued>>,
         \A n \in Notes \ hook.note : index'[n] = index[n],
         \A n \in hook.note : Current /\ ~stale =>
           \/ ScanIsDue(n)
           \/ UpToDate(n)' /\ (n \in excluded => index'[n] = Absent)
           \/ ~InHand(n) /\ ~Purging /\ index'[n] = index[n]
           \/ cyc.pc = "reread" /\ ~hook.stale /\ index'[n] = index[n]
  PROVE  ControllerInv'
<1>0. /\ OneAtATime /\ cyc \in Cycles /\ needsScan \in BOOLEAN /\ faults \in Nat /\ ~NoHook.stale
      /\ NoHook \in Hooks /\ NoHook.note = {}
  BY NoCycleType DEF ControllerInv, TypeInv, LifeTyped
<1>1. CASE Failed
  BY <1>0, <1>1, FailureKeeps
<1>2. CASE /\ Current /\ hook' = NoHook
           /\ needsScan' = (needsScan \/ stale)
           /\ cyc' = [cyc EXCEPT !.pc = IF cyc.vec THEN "vectors" ELSE "work"]
           /\ UNCHANGED <<hints, watching, timer, phase, vectorsDue, life>>
  <2>1. (IF cyc.vec THEN "vectors" ELSE "work") \in Steps
    BY DEF Steps
  <2>2. /\ cyc' \in Cycles /\ cyc'.pc = IF cyc.vec THEN "vectors" ELSE "work"
        /\ cyc'.todo = cyc.todo /\ cyc'.gone = cyc.gone /\ cyc'.vec = cyc.vec
    BY <1>0, <1>2, <2>1, CycleAt
  <2>3. OneAtATime'
    BY <1>0, <1>2, <2>2 DEF OneAtATime
  <2>4. ASSUME ~aborted, NEW n \in Notes PROVE Kept(n)'
    <3>1. CASE stale \/ ScanIsDue(n)
      <4>1. n \in unseen' \/ Unknown \in events' \/ needsScan'
        BY <1>2, <3>1 DEF ScanIsDue, sources
      <4> QED BY <4>1, DueIsKept
    <3>2. CASE ~stale /\ ~ScanIsDue(n) /\ UpToDate(n)' /\ (n \in excluded => index'[n] = Absent)
      BY <1>0, <1>2, <3>2
      DEF Kept, Remembered, HiddenIsScanned, OvertakenIsScanned, Overtaken, sources
    <3>3. CASE ~stale /\ index'[n] = index[n] /\ (\/ n \notin hook.note
                                                 \/ /\ ~Purging /\ ~hook.stale
                                                    /\ cyc.pc \notin {"source", "publish"})
      <4>1. /\ Kept(n) /\ Visible(n)' = Visible(n) /\ (UpToDate(n)' <=> UpToDate(n))
            /\ ScanIsDue(n) => ScanIsDue(n)'
            /\ (n \in excluded' <=> n \in excluded)
            /\ UNCHANGED <<events, hints, needsScan, unseen>>
        BY <1>0, <1>2, <2>4, <3>3, NotesStand DEF ControllerInv, sources
      <4>2. InHand(n) => InHand(n)'
        BY <1>0, <2>2, <3>3 DEF InHand, Applying
      <4>3. Remembered(n)'
        BY <4>1, <4>2 DEF Kept, Remembered, Covered
      <4>4. HiddenIsScanned(n)' /\ OvertakenIsScanned(n)'
        BY <1>0, <1>2, <2>2, <3>3, <4>1
        DEF Kept, HiddenIsScanned, OvertakenIsScanned, Overtaken, Applying
      <4> QED BY <4>3, <4>4 DEF Kept
    <3>4. n \in hook.note /\ ~InHand(n) /\ ~Purging =>
            ~hook.stale /\ cyc.pc \notin {"source", "publish"}
      BY DEF InHand
    <3>5. cyc.pc = "reread" => ~Purging /\ cyc.pc \notin {"source", "publish"}
      BY DEF Purging
    <3> QED BY <1>2, <3>1, <3>2, <3>3, <3>4, <3>5
  <2> QED BY <1>0, <1>2, <2>2, <2>3, <2>4, StepKeeps
<1> QED BY <1>1, <1>2 DEF Returned

\* The policy is read once more: the purge goes on, or a scan is due.
LEMMA JudgeKeeps ==
  ASSUME ControllerInv, Judge
  PROVE  ControllerInv'
<1>0. /\ OneAtATime /\ hook \in Hooks /\ cyc \in Cycles /\ cyc.pc = "judge" /\ ~hook.stale
      /\ index \in [Notes -> Nat] /\ queued \subseteq Notes
      /\ UNCHANGED <<sources, index, queued, scope, faults>>
  BY DEF ControllerInv, TypeInv, IndexTyped, OneAtATime, Judge
<1>1. CASE Returned(TRUE)
  BY <1>0, <1>1, ReturnedKeeps
<1>2. CASE cyc' = [cyc EXCEPT !.pc = "clear"] /\ UNCHANGED <<hook, told, life>>
  <2>1. Reads(hook, "clear")
    BY <1>0, <1>2 DEF Reads
  <2> QED BY <1>0, <2>1, ReadsKeep DEF Steps, Purging
<1> QED BY <1>1, <1>2 DEF Judge

\* What the transaction of a purge writes.
LEMMA ClearKeeps ==
  ASSUME ControllerInv, Clear
  PROVE  ControllerInv'
<1>0. /\ OneAtATime /\ hook \in Hooks /\ cyc \in Cycles /\ cyc.pc = "clear" /\ ~hook.stale
      /\ index \in [Notes -> Nat] /\ queued \subseteq Notes /\ needsScan \in BOOLEAN
      /\ UNCHANGED <<sources, told, life, scope, faults>>
  BY DEF ControllerInv, TypeInv, IndexTyped, LifeTyped, OneAtATime, Clear
<1>1. PICK n \in hook.note :
        IF Current /\ disk[n] = hook.read
        THEN index' = [index EXCEPT ![n] = Absent] /\ queued' = queued \ {n} /\ UNCHANGED hook
        ELSE hook' = [hook EXCEPT !.stale = TRUE] /\ UNCHANGED <<index, queued>>
  BY DEF Clear
<1>2. n \in Notes /\ hook.note = {n} /\ Absent \in Nat
  BY <1>0 DEF Hooks, OneAtATime, Absent
<1>3. /\ cyc' \in Cycles /\ cyc'.pc = "reread" /\ cyc'.todo = cyc.todo /\ cyc'.gone = cyc.gone
      /\ cyc'.vec = cyc.vec
  BY <1>0, CycleAt DEF Clear, Steps
<1>4. /\ hook' \in Hooks /\ hook'.note = {n}
      /\ \/ hook'.stale /\ UNCHANGED <<index, queued>>
         \/ /\ ~hook'.stale /\ index' = [index EXCEPT ![n] = Absent]
            /\ queued' = queued \ {n}
  BY <1>0, <1>1, <1>2 DEF Hooks
<1>5. /\ index' \in [Notes -> Nat] /\ queued' \subseteq Notes
      /\ \A m \in Notes \ {n} : index'[m] = index[m]
      /\ ~hook'.stale => index'[n] = Absent
      /\ hook'.stale => index'[n] = index[n]
  BY <1>0, <1>2, <1>4
<1>6. OneAtATime'
  BY <1>0, <1>3, <1>4 DEF OneAtATime
<1>7. ASSUME ~aborted, NEW m \in Notes PROVE Kept(m)'
  <2>1. Kept(m) /\ UNCHANGED <<disk, excluded, events, hints, needsScan, unseen>>
    BY <1>0, <1>7 DEF ControllerInv, sources, told
  <2>2. CASE m # n
    <3>1. /\ Visible(m)' = Visible(m) /\ (UpToDate(m)' <=> UpToDate(m))
          /\ ScanIsDue(m) => ScanIsDue(m)'
      BY <1>5, <2>1, <2>2 DEF Visible, UpToDate, ScanIsDue
    <3>2. InHand(m) => InHand(m)'
      BY <1>0, <1>2, <1>3, <2>2 DEF InHand, Applying
    <3>3. Remembered(m)'
      BY <2>1, <3>1, <3>2 DEF Kept, Remembered, Covered
    <3>4. HiddenIsScanned(m)' /\ OvertakenIsScanned(m)'
      BY <1>0, <1>2, <1>3, <1>4, <1>5, <2>1, <2>2, <3>1
      DEF Kept, HiddenIsScanned, OvertakenIsScanned, Overtaken, Applying
    <3> QED BY <3>3, <3>4 DEF Kept
  <2>3. CASE m = n /\ hook'.stale
    BY <1>3, <1>4, <2>3
    DEF Kept, Remembered, Covered, InHand, HiddenIsScanned, OvertakenIsScanned, Overtaken, Purging
  <2>4. CASE m = n /\ ~hook'.stale /\ n \in excluded
    BY <1>3, <1>4, <1>5, <2>1, <2>4
    DEF Kept, Remembered, UpToDate, Visible, HiddenIsScanned, OvertakenIsScanned, Overtaken, Purging
  <2>5. CASE m = n /\ n \notin excluded
    <3>1. ScanIsDue(n)
      BY <1>0, <1>2, <2>1, <2>5 DEF Kept, OvertakenIsScanned, Overtaken, Purging
    <3> QED BY <2>1, <2>5, <3>1, DueIsKept DEF ScanIsDue
  <2> QED BY <2>2, <2>3, <2>4, <2>5
<1> QED BY <1>0, <1>3, <1>4, <1>5, <1>6, <1>7, StepKeeps DEF told

LEMMA RereadKeeps ==
  ASSUME ControllerInv, Reread
  PROVE  ControllerInv'
<1>0. /\ OneAtATime /\ hook \in Hooks /\ cyc.pc = "reread" /\ index \in [Notes -> Nat]
      /\ queued \subseteq Notes /\ UNCHANGED <<sources, index, queued, scope, faults>>
  BY DEF ControllerInv, TypeInv, IndexTyped, Reread
<1> DEFINE stale == hook.stale \/ excluded # hook.policy
<1>1. Returned(stale) /\ stale \in BOOLEAN
  BY <1>0 DEF Reread, Hooks
<1>2. ~stale => ~hook.stale
  OBVIOUS
<1> HIDE DEF stale
<1> QED BY <1>0, <1>1, <1>2, ReturnedKeeps

\* What the commit of a note writes.
LEMMA WrittenEffect ==
  ASSUME index \in [Notes -> Nat], queued \subseteq Notes, NEW n \in Notes, NEW v \in Nat,
         Written(n, v)
  PROVE  /\ index' \in [Notes -> Nat] /\ queued' \subseteq Notes /\ index'[n] = v
         /\ \A m \in Notes \ {n} : index'[m] = index[m]
  BY DEF Written

LEMMA PublishKeeps ==
  ASSUME ControllerInv, Publish
  PROVE  ControllerInv'
<1>0. /\ OneAtATime /\ hook \in Hooks /\ cyc.pc = "publish" /\ ~hook.stale
      /\ index \in [Notes -> Nat] /\ queued \subseteq Notes /\ disk \in [Notes -> Nat]
      /\ UNCHANGED <<sources, scope, faults>>
  BY DEF ControllerInv, TypeInv, SourcesTyped, IndexTyped, OneAtATime, Publish
<1>1. PICK n \in hook.note :
        IF Current /\ disk[n] = hook.read
        THEN Written(n, hook.read) /\ Returned(FALSE)
        ELSE Returned(TRUE) /\ UNCHANGED <<index, queued>>
  BY DEF Publish
<1>2. n \in Notes /\ hook.note = {n}
  BY <1>0 DEF Hooks, OneAtATime
<1>3. CASE Returned(TRUE) /\ UNCHANGED <<index, queued>>
  BY <1>0, <1>3, ReturnedKeeps
<1>4. CASE Current /\ disk[n] = hook.read /\ Written(n, hook.read) /\ Returned(FALSE)
  <2>1. /\ index' \in [Notes -> Nat] /\ queued' \subseteq Notes /\ index'[n] = disk[n]
        /\ \A m \in Notes \ {n} : index'[m] = index[m]
    BY <1>0, <1>2, <1>4, WrittenEffect
  <2>2. n \in excluded => ScanIsDue(n)
    BY <1>0, <1>2, <1>4 DEF ControllerInv, Current, Kept, OvertakenIsScanned, Overtaken
  <2>3. n \notin excluded => UpToDate(n)'
    BY <1>0, <2>1 DEF UpToDate, Visible, sources
  <2>4. cyc'.pc \in {"work", "vectors"} /\ cyc' \in Cycles
    <3>1. (IF cyc.vec THEN "vectors" ELSE "work") \in Steps
      BY DEF Steps
    <3>2. cyc' = [cyc EXCEPT !.pc = IF cyc.vec THEN "vectors" ELSE "work"]
      BY <1>4 DEF Returned
    <3>3. cyc \in Cycles
      BY DEF ControllerInv, TypeInv
    <3> QED BY <3>1, <3>2, <3>3, CycleAt
  <2>5. ~Failed
    <3>1. LifeTyped
      BY DEF ControllerInv, TypeInv
    <3>2. Failed => cyc'.pc \in {"none", "release"}
      BY <3>1, FailedEffect
    <3> QED BY <2>4, <3>2
  <2> QED BY <1>0, <1>2, <1>4, <2>1, <2>2, <2>3, <2>5, ReturnedKeeps
<1> QED BY <1>1, <1>3, <1>4

\* The cycle has no note of the index in hand, and the next step gives it none.
LEMMA VectorsKeep ==
  ASSUME NEW n \in Notes, Kept(n), OneAtATime, UNCHANGED <<sources, index, hints>>,
         needsScan => needsScan',
         \/ cyc.pc \in {"vectors", "lookup", "missing", "embed"}
         \/ cyc.pc = "work" /\ cyc.todo = {} /\ cyc.gone = {},
         cyc'.pc \in {"none", "vectors", "lookup", "source"},
         cyc'.pc = "source" => hook'.note \cap excluded = {}
  PROVE  Kept(n)'
<1>1. (UpToDate(n)' <=> UpToDate(n)) /\ ~InHand(n)
  BY DEF UpToDate, Visible, InHand, Applying, OneAtATime, Purging, sources
<1>2. Remembered(n)'
  BY <1>1 DEF Kept, Remembered, Covered, sources
<1>3. HiddenIsScanned(n)'
  BY DEF Kept, HiddenIsScanned, ScanIsDue, Applying, Purging, OneAtATime, sources
<1>4. OvertakenIsScanned(n)'
  BY DEF OvertakenIsScanned, Overtaken, Purging, sources
<1> QED BY <1>2, <1>3, <1>4 DEF Kept

\* A step that leaves the index alone while the vectors are computed, or before they are.
LEMMA VectorStepKeeps ==
  ASSUME ControllerInv, UNCHANGED <<sources, index, hints, life, scope, faults>>,
         UNCHANGED <<needsScan, queued, watching>>, timer' \in BOOLEAN, vectorsDue' \in BOOLEAN,
         phase' \in {phase, "backoff", "catching-up", "idle"},
         \/ cyc.pc \in {"vectors", "lookup", "missing", "embed"}
         \/ cyc.pc = "work" /\ cyc.todo = {} /\ cyc.gone = {},
         cyc' \in Cycles, hook' \in Hooks, OneAtATime',
         cyc'.pc \in {"none", "vectors", "lookup", "source"},
         cyc'.pc = "source" => hook'.note \cap excluded = {}
  PROVE  ControllerInv'
<1>0. TypeInv /\ OneAtATime /\ LetGoLast
  BY DEF ControllerInv
<1>1. IndexTyped' /\ SourcesTyped' /\ faults' \in Nat
  BY <1>0 DEF TypeInv, IndexTyped, SourcesTyped, sources
<1>2. LifeTyped'
  BY <1>0 DEF TypeInv, LifeTyped, life
<1>3. LetGoLast'
  BY <1>0 DEF LetGoLast, life
<1>4. ASSUME ~aborted, NEW n \in Notes PROVE Kept(n)'
  BY <1>0, <1>4, VectorsKeep DEF ControllerInv
<1> QED BY <1>1, <1>2, <1>3, <1>4 DEF ControllerInv, TypeInv, life

\* What the end of a cycle leaves.
LEMMA FinishedEffect ==
  ASSUME NEW watched \in BOOLEAN, NEW ns \in BOOLEAN, NEW hs, NEW due \in BOOLEAN,
         Finished(watched, ns, hs, due)
  PROVE  /\ cyc' \in Cycles /\ cyc'.pc = "none" /\ ~cyc'.vec /\ cyc'.todo = {}
         /\ hook' = NoHook
         /\ vectorsDue' \in BOOLEAN /\ timer' \in BOOLEAN
         /\ phase' \in {"backoff", "catching-up", "idle"}
<1>1. /\ cyc' \in Cycles /\ cyc'.pc = "none" /\ ~cyc'.vec /\ cyc'.todo = {}
      /\ hook' = NoHook
  BY NoCycleType DEF Finished
<1>2. vectorsDue' \in BOOLEAN
  BY DEF Finished
<1>3. timer' \in BOOLEAN
  BY DEF Finished
<1>4. phase' \in {"backoff", "catching-up", "idle"}
  BY DEF Finished
<1> QED BY <1>1, <1>2, <1>3, <1>4

\* The cycle is over.
LEMMA FinishedKeeps ==
  ASSUME ControllerInv, Finished(watching, needsScan, hints, queued # {}),
         UNCHANGED <<sources, index, queued, hints, needsScan, watching, life, scope, faults>>,
         \/ cyc.pc = "vectors"
         \/ cyc.pc = "work" /\ cyc.todo = {} /\ cyc.gone = {}
  PROVE  ControllerInv'
<1>0. (queued # {}) \in BOOLEAN /\ watching \in BOOLEAN /\ needsScan \in BOOLEAN
  BY DEF ControllerInv, TypeInv, LifeTyped
<1>1. /\ cyc' \in Cycles /\ cyc'.pc = "none" /\ ~cyc'.vec /\ cyc'.todo = {}
      /\ hook' = NoHook /\ vectorsDue' \in BOOLEAN /\ timer' \in BOOLEAN
      /\ phase' \in {"backoff", "catching-up", "idle"}
  BY <1>0, FinishedEffect
<1>2. OneAtATime'
  BY <1>1, NoCycleType DEF OneAtATime
<1> QED BY <1>1, <1>2, NoCycleType, VectorStepKeeps

LEMMA EndOfVectorsKeeps ==
  ASSUME ControllerInv, EndOfVectors
  PROVE  ControllerInv'
  BY FinishedKeeps DEF EndOfVectors

\* The index is done.
LEMMA ApplicationsKeeps ==
  ASSUME ControllerInv, Applications
  PROVE  ControllerInv'
<1>0. /\ OneAtATime /\ cyc \in Cycles /\ hook \in Hooks /\ queued \subseteq Notes /\ faults \in Nat
      /\ cyc.pc = "work" /\ cyc.todo = {} /\ cyc.gone = {} /\ hook.note = {} /\ ~hook.stale
      /\ UNCHANGED <<sources, index, queued, scope, faults>> /\ LifeTyped
  BY DEF ControllerInv, TypeInv, IndexTyped, OneAtATime, Applications
<1>1. CASE Failed
  BY <1>0, <1>1, FailureKeeps
<1>2. CASE /\ cyc' = [cyc EXCEPT !.pc = "vectors", !.todo = queued, !.vec = TRUE, !.left = BatchSize]
           /\ UNCHANGED <<hook, told, life>>
  <2> DEFINE c == [cyc EXCEPT !.pc = "vectors", !.todo = queued]
  <2>1. cyc' = [c EXCEPT !.vec = TRUE, !.left = BatchSize]
    BY <1>2
  <2>2. c \in Cycles /\ c.pc = "vectors"
    BY <1>0 DEF Cycles, Steps
  <2>3. cyc' \in Cycles /\ cyc'.pc = "vectors" /\ cyc'.vec
    <3> HIDE DEF c
    <3> QED BY <2>1, <2>2, ControllerAssumption DEF Cycles
  <2>4. OneAtATime'
    BY <1>0, <1>2, <2>3 DEF OneAtATime
  <2> QED BY <1>0, <1>2, <2>3, <2>4, VectorStepKeeps DEF told, LifeTyped
<1>3. CASE /\ Finished(watching, needsScan, hints, queued # {})
           /\ UNCHANGED <<hints, needsScan, watching, life>>
  BY <1>0, <1>3, FinishedKeeps
<1> QED BY <1>1, <1>2, <1>3 DEF Applications

\* The vectors of one note are due.
LEMMA EmbedKeeps ==
  ASSUME ControllerInv, Embed
  PROVE  ControllerInv'
<1> DEFINE label(n) == IF n \in excluded THEN "vectors" ELSE "lookup"
<1>0. /\ OneAtATime /\ LifeTyped /\ cyc \in Cycles /\ faults \in Nat /\ cyc.vec
      /\ cyc.pc = "vectors" /\ cyc.left > 0
      /\ UNCHANGED <<sources, index, queued, scope, faults>>
  BY DEF ControllerInv, TypeInv, OneAtATime, Embed
<1>1. CASE Failed
  BY <1>0, <1>1, FailureKeeps
<1>2. CASE \E n \in cyc.todo :
             /\ cyc' = [cyc EXCEPT !.pc = label(n), !.todo = @ \ {n}, !.left = @ - 1]
             /\ Handed(n, label(n)) /\ UNCHANGED <<told, life>>
  <2>1. PICK n \in cyc.todo :
             /\ cyc' = [cyc EXCEPT !.pc = label(n), !.todo = @ \ {n}, !.left = @ - 1]
             /\ Handed(n, label(n)) /\ UNCHANGED <<told, life>>
    BY <1>2
  <2> DEFINE l == label(n)
  <2>2. l \in {"vectors", "lookup"} /\ l \in Steps /\ Handed(n, l)
    BY <2>1 DEF Steps
  <2> DEFINE c == [cyc EXCEPT !.pc = l, !.todo = @ \ {n}]
  <2>3. cyc' = [c EXCEPT !.left = cyc.left - 1]
    BY <2>1
  <2> HIDE DEF l, label
  <2>4. n \in Notes /\ cyc.left - 1 \in Nat
    BY <1>0, <2>1 DEF Cycles
  <2>5. c \in Cycles /\ c.pc = l /\ c.vec
    BY <1>0, <2>2 DEF Cycles
  <2>6. cyc' \in Cycles /\ cyc'.pc = l /\ cyc'.vec
    <3> HIDE DEF c
    <3> QED BY <2>3, <2>4, <2>5 DEF Cycles
  <2>7. /\ hook' \in Hooks /\ ~hook'.stale /\ \A x, y \in hook'.note : x = y
        /\ l \in {"source", "capture", "lookup"} => hook'.note = {n}
        /\ l \notin {"source", "capture", "lookup"} => hook'.note = {}
    BY <2>2, <2>4, HandedEffect
  <2>8. OneAtATime'
    BY <2>2, <2>6, <2>7 DEF OneAtATime
  <2> QED BY <1>0, <2>1, <2>2, <2>6, <2>7, <2>8, VectorStepKeeps DEF told, LifeTyped
<1> QED BY <1>1, <1>2 DEF Embed

\* A queued note that is missing is handed to the hook that deletes it.
LEMMA MaintainMissingKeeps ==
  ASSUME ControllerInv, MaintainMissing
  PROVE  ControllerInv'
<1>0. /\ OneAtATime /\ LifeTyped /\ cyc \in Cycles /\ hook \in Hooks /\ faults \in Nat /\ cyc.vec
      /\ cyc.pc = "missing" /\ UNCHANGED <<sources, index, queued, scope, faults>>
  BY DEF ControllerInv, TypeInv, OneAtATime, MaintainMissing
<1>1. CASE Failed
  BY <1>0, <1>1, FailureKeeps
<1>2. CASE \E n \in hook.note :
             /\ cyc' = [cyc EXCEPT !.pc = Route(n, FALSE, "vectors")]
             /\ Handed(n, Route(n, FALSE, "vectors")) /\ UNCHANGED <<told, life>>
  <2>1. PICK n \in hook.note :
             /\ cyc' = [cyc EXCEPT !.pc = Route(n, FALSE, "vectors")]
             /\ Handed(n, Route(n, FALSE, "vectors")) /\ UNCHANGED <<told, life>>
    BY <1>2
  <2> DEFINE l == Route(n, FALSE, "vectors")
  <2>2. /\ l \in {"vectors", "source"} /\ l \in Steps /\ Handed(n, l)
        /\ l = "source" => n \notin excluded
        /\ cyc' = [cyc EXCEPT !.pc = l]
    BY <2>1 DEF Route, Steps
  <2> HIDE DEF l
  <2>3. n \in Notes
    BY <1>0 DEF Hooks
  <2>4. cyc' \in Cycles /\ cyc'.pc = l /\ cyc'.vec
    BY <1>0, <2>2, CycleAt
  <2>5. /\ hook' \in Hooks /\ ~hook'.stale /\ \A x, y \in hook'.note : x = y
        /\ l \in {"source", "capture", "lookup"} => hook'.note = {n}
        /\ l \notin {"source", "capture", "lookup"} => hook'.note = {}
    BY <2>2, <2>3, HandedEffect
  <2>6. OneAtATime'
    BY <2>2, <2>4, <2>5 DEF OneAtATime
  <2> QED BY <1>0, <2>1, <2>2, <2>4, <2>5, <2>6, VectorStepKeeps DEF told, LifeTyped
<1> QED BY <1>1, <1>2 DEF MaintainMissing

\* The vectors of a note are committed, or found to be of an old version.
LEMMA EmbeddedKeeps ==
  ASSUME ControllerInv, Embedded
  PROVE  ControllerInv'
<1>0. /\ OneAtATime /\ cyc \in Cycles /\ queued \subseteq Notes /\ index \in [Notes -> Nat]
      /\ cyc.pc = "embed" /\ cyc.vec /\ ~hook.stale /\ UNCHANGED <<sources, index, scope, faults>>
  BY DEF ControllerInv, TypeInv, IndexTyped, OneAtATime, Embedded
<1>1. \A n \in hook.note : ~InHand(n) /\ ~Purging
  BY <1>0 DEF InHand, Purging, Applying
<1>2. CASE Returned(TRUE) /\ UNCHANGED queued
  BY <1>0, <1>2, ReturnedKeeps
<1>3. CASE Current /\ Returned(FALSE) /\ \E n \in hook.note : queued' = queued \ {n}
  <2>1. queued' \subseteq Notes
    BY <1>0, <1>3
  <2>2. (IF cyc.vec THEN "vectors" ELSE "work") \in Steps
    BY DEF Steps
  <2>3. cyc' = [cyc EXCEPT !.pc = IF cyc.vec THEN "vectors" ELSE "work"]
    BY <1>3 DEF Returned
  <2>4. cyc'.pc = "vectors"
    BY <1>0, <2>2, <2>3, CycleAt
  <2>5. ~Failed
    <3>1. LifeTyped
      BY DEF ControllerInv, TypeInv
    <3> QED BY <2>4, <3>1, FailedEffect
  <2> QED BY <1>0, <1>1, <1>3, <2>1, <2>5, ReturnedKeeps
<1> QED BY <1>2, <1>3 DEF Embedded

\* A hook that throws.
LEMMA HookFailsKeeps ==
  ASSUME ControllerInv, HookFails
  PROVE  ControllerInv'
<1>1. Failed /\ UNCHANGED <<sources, index, queued, scope>>
  BY DEF HookFails
<1>2. faults' \in Nat
  BY DEF ControllerInv, TypeInv, HookFails, Spend
<1> QED BY <1>1, <1>2, FailureKeeps

LEMMA InitController == Init => ControllerInv
<1> SUFFICES ASSUME Init PROVE ControllerInv
  OBVIOUS
<1>1. SourcesTyped
  <2>1. disk \in [Notes -> Nat]
    BY DEF Init, Absent
  <2>2. excluded \subseteq Notes
    BY DEF Init
  <2> QED BY <2>1, <2>2 DEF Init, SourcesTyped
<1>2. IndexTyped
  <2>1. index \in [Notes -> Nat]
    BY DEF Init, Absent
  <2>2. queued \subseteq Notes
    BY DEF Init
  <2> QED BY <2>1, <2>2 DEF IndexTyped
<1>3. LifeTyped
  BY DEF Init, LifeTyped
<1>4. TypeInv
  BY <1>1, <1>2, <1>3, NoCycleType DEF Init, TypeInv
<1>5. OneAtATime /\ LetGoLast
  BY NoCycleType DEF Init, OneAtATime, LetGoLast
<1>6. \A n \in Notes : Kept(n)
  BY DEF Init, Kept, Remembered, Covered, HiddenIsScanned, OvertakenIsScanned, ScanIsDue
<1> QED BY <1>4, <1>5, <1>6 DEF ControllerInv

LEMMA NextKeepsController == ControllerInv /\ [Next]_vars => ControllerInv'
<1> SUFFICES ASSUME ControllerInv, [Next]_vars PROVE ControllerInv'
  OBVIOUS
<1>1. CASE Vault
  BY <1>1, VaultKeeps
<1>2. CASE Deliver \/ WatcherFails \/ Periodic
  BY <1>2, ToldKeeps
<1>3. CASE Stop \/ StopTimesOut \/ Drained \/ Released \/ ChangeScope
  BY <1>3, StopKeeps
<1>4. CASE Flush
  BY <1>4, FlushKeeps
<1>5. CASE CycleStep
  BY <1>5, ScanNoteKeeps, ScannedKeeps, MaintainKeeps, HookReadsKeep, PublishKeeps,
     JudgeKeeps, ClearKeeps, RereadKeeps, ApplicationsKeeps, EmbedKeeps,
     MaintainMissingKeeps, EmbeddedKeeps, EndOfVectorsKeeps, HookFailsKeeps DEF CycleStep
<1>6. CASE UNCHANGED vars
  <2>1. UNCHANGED <<disk, excluded, events, edits, unseen, index, queued, cyc, hook, hints,
                    needsScan, watching, timer, phase, vectorsDue, aborted, stopping,
                    owner, scope, faults>>
    BY <1>6 DEF vars, sources, work, told, life
  <2>2. TypeInv'
    BY <2>1 DEF ControllerInv, TypeInv, SourcesTyped, IndexTyped, LifeTyped
  <2>3. OneAtATime' /\ LetGoLast'
    BY <2>1 DEF ControllerInv, OneAtATime, LetGoLast
  <2>4. ASSUME ~aborted, NEW n \in Notes PROVE Kept(n)'
    <3>1. Kept(n) /\ Visible(n)' = Visible(n)
      BY <2>1, <2>4 DEF ControllerInv, Visible
    <3> QED BY <2>1, <3>1, StaysKept
  <2> QED BY <2>1, <2>2, <2>3, <2>4 DEF ControllerInv
<1> QED BY <1>1, <1>2, <1>3, <1>4, <1>5, <1>6 DEF Next, Event

\* The inductive invariant: while the controller lives, every note the index is behind on is
\* waited for by an event, a hint, a scan or the cycle, one a scan has to settle by a scan,
\* and the owner is only let go by a controller that has stopped working.
THEOREM ControllerInvariant == Spec => []ControllerInv
<1>1. Init => ControllerInv
  BY InitController
<1>2. ControllerInv /\ [Next]_vars => ControllerInv'
  BY NextKeepsController
<1> QED BY <1>1, <1>2, PTL DEF Spec

-----------------------------------------------------------------------------
(* The properties *)

\* No change is forgotten while the controller lives, except one the watcher never saw:
\* NothingIsForgotten, for any number of notes, queue limit, edits and failures.
THEOREM ChangesAreRemembered == Spec => []NothingIsForgotten
<1>1. ControllerInv => NothingIsForgotten
  BY DEF ControllerInv, Kept, Remembered, NothingIsForgotten
<1> QED BY <1>1, ControllerInvariant, PTL

\* The owner is let go only when no hook of a cycle is at work any more, whether a stop, a
\* stop that timed out or a lost scope ended the controller: ReleaseIsLast.
THEOREM OwnerIsLetGoLast == Spec => []ReleaseIsLast
<1>1. ControllerInv => ReleaseIsLast
  BY DEF ControllerInv, LetGoLast, ReleaseIsLast
<1> QED BY <1>1, ControllerInvariant, PTL

\* What writes the index and the queue looks whether the controller is current.
LEMMA OnlyCommitsWrite ==
  ASSUME [Next]_vars
  PROVE  /\ index' # index => Publish \/ Clear
         /\ index' # index \/ queued' # queued => Current
<1>1. CASE Vault
  BY <1>1 DEF Vault, Edit, ChangePolicy, work
<1>2. CASE Deliver \/ WatcherFails \/ Periodic
  BY <1>2 DEF Deliver, Notify, WatcherFails, Periodic, work
<1>3. CASE Stop \/ StopTimesOut \/ Drained \/ Released \/ ChangeScope
  BY <1>3 DEF Stop, StopTimesOut, Drained, Released, ChangeScope, work
<1>4. CASE Flush \/ Scanned \/ Maintain \/ Judge \/ Reread \/ HookFails
  BY <1>4 DEF Flush, Scanned, Maintain, Judge, Reread, HookFails
<1>5. CASE \E n \in Notes : ScanNote(n)
  BY <1>5 DEF ScanNote
<1>6. CASE Applications \/ Embed \/ MaintainMissing \/ EndOfVectors
  BY <1>6 DEF Applications, Embed, MaintainMissing, EndOfVectors
<1>7. CASE ReadSource \/ Capture \/ ReadPolicy \/ LookUp
  BY <1>7 DEF ReadSource, Capture, ReadPolicy, LookUp, Reads
<1>8. CASE Publish \/ Clear \/ Embedded
  BY <1>8 DEF Publish, Clear, Embedded
<1>9. CASE UNCHANGED vars
  BY <1>9 DEF vars, work
<1> QED BY <1>1, <1>2, <1>3, <1>4, <1>5, <1>6, <1>7, <1>8, <1>9 DEF Next, Event, CycleStep

WritesWhileAlive == index' # index \/ queued' # queued => ~aborted /\ scope

\* A result that comes after the stop, or out of scope, is not written: NothingAfterAbort.
THEOREM NothingIsWrittenAfterStop == Spec => NothingAfterAbort
<1>1. [Next]_vars => [WritesWhileAlive]_vars
  BY OnlyCommitsWrite DEF WritesWhileAlive, Current
<1>2. NothingAfterAbort <=> [][WritesWhileAlive]_vars
  BY DEF NothingAfterAbort, WritesWhileAlive
<1> QED BY <1>1, <1>2, PTL DEF Spec

PurgesTheGone ==
  \A n \in Notes : index[n] # Absent /\ index'[n] = Absent =>
    Visible(n) = Absent \/ (Purging /\ ScanIsDue(n))

\* A note that the vault shows leaves the index only where the policy has changed since the
\* purge looked at it, and then a scan is due that brings it back, whatever the transaction
\* cannot share with the policy files: OnlyTheGoneArePurged.
THEOREM OnlyGoneNotesLeave == Spec => OnlyTheGoneArePurged
<1>1. ASSUME ControllerInv, [Next]_vars
      PROVE  PurgesTheGone
  <2> SUFFICES ASSUME NEW n \in Notes, index[n] # Absent, index'[n] = Absent
               PROVE  Visible(n) = Absent \/ (Purging /\ ScanIsDue(n))
    BY DEF PurgesTheGone
  <2>0. index \in [Notes -> Nat] /\ hook \in Hooks /\ (Publish \/ Clear)
    BY <1>1, OnlyCommitsWrite DEF ControllerInv, TypeInv, IndexTyped
  <2>1. CASE Publish
    <3>1. PICK m \in hook.note : disk[m] = hook.read /\ Written(m, hook.read)
      BY <2>1 DEF Publish
    <3>2. m = n /\ disk[n] = Absent
      BY <2>0, <3>1 DEF Written, Hooks
    <3> QED BY <3>2 DEF Visible
  <2>2. CASE Clear
    <3>1. PICK m \in hook.note : Current /\ index' = [index EXCEPT ![m] = Absent]
      BY <2>2 DEF Clear
    <3>2. m = n /\ ~aborted /\ Purging
      BY <2>0, <2>2, <3>1 DEF Hooks, Current, Clear, Purging
    <3>3. n \in excluded \/ ScanIsDue(n)
      BY <1>1, <3>1, <3>2 DEF ControllerInv, Kept, OvertakenIsScanned, Overtaken
    <3> QED BY <3>2, <3>3 DEF Visible
  <2> QED BY <2>0, <2>1, <2>2
<1>2. ControllerInv /\ [Next]_vars => [PurgesTheGone]_vars
  BY <1>1
<1>3. OnlyTheGoneArePurged <=> [][PurgesTheGone]_vars
  BY DEF OnlyTheGoneArePurged, PurgesTheGone
<1> QED BY <1>2, <1>3, ControllerInvariant, PTL DEF Spec
=============================================================================
