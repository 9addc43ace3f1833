---------------------------- MODULE Connections ----------------------------
(***************************************************************************)
(* Connecting a vault to this host and to a project: the vault's settings  *)
(* with its portable identity (install/connection-coordinator.ts,          *)
(* vault-settings-publish.ts), the host's registry of connections          *)
(* (connection-registry.ts), the project's link (project-connection.ts)    *)
(* and the projection of the vault's folders into the project              *)
(* (link/link.ts).                                                         *)
(*                                                                         *)
(* A connection is one operation in stages: settings, reservation,         *)
(* registry, link, projection.  Each stage leaves files that a resumed     *)
(* operation finds again.  A step is what runs under one guard: a file     *)
(* read, a file replaced, a lock taken.  Documents stand for their         *)
(* digests.  One process works on an operation at a time.                  *)
(***************************************************************************)
EXTENDS Naturals, Functions

CONSTANTS
  Vaults,      \* vault directories
  Portables,   \* portable identities that vaults already carry
  Ops,         \* connect operations; each proposes an identity of its own
  Selections,  \* whether an operation may select its connection (the command line never does)
  Operator,    \* whoever migrates a pointer by hand
  Nothing,
  MaxStops,    \* bound: operations interrupted
  MaxResumes   \* bound: operations resumed

VARIABLES
  settings,    \* the identity in each vault's settings.json, or Nothing
  registry,    \* missing, a pointer of the first version, or the connections
  lock,        \* the operation whose lock directory stands beside the registry
  reserved,    \* the connection ids reserved for a vault and its identity
  files,       \* what each operation has left on disk
  link,        \* the project's link file
  linkLock,    \* the operation whose lock directory stands beside it
  projection,  \* the vault the project's linked folder leads to
  run,         \* where each operation is
  removal,     \* the removal of the link under way
  stops, resumes

vars == <<settings, registry, lock, reserved, files, link, linkLock, projection,
          run, removal, stops, resumes>>
projectVars == <<link, linkLock, projection, removal>>
hostVars == <<registry, lock, reserved>>
boundVars == <<stops, resumes>>

Missing == [kind |-> "missing"]
NoFiles == [intent |-> Nothing, manifest |-> Nothing, receipt |-> Nothing,
            linkManifest |-> Nothing, linkReceipt |-> FALSE]

At(o, stage) == run[o].at = stage
Go(o, stage) == run' = [run EXCEPT ![o].at = stage]
Plan(o) == run[o].plan
Leave(o, name, document) == files' = [files EXCEPT ![o][name] = document]
Release(holder, o) == IF holder = o THEN Nothing ELSE holder

Entries(document) == IF document.kind = "connections" THEN document.entries ELSE [v \in {} |-> Nothing]
IsConnected(v, id, portable) ==
  v \in DOMAIN Entries(registry) /\ Entries(registry)[v] = [id |-> id, portable |-> portable]

-----------------------------------------------------------------------------
(* Preparation, and the settings of the vault *)

\* What is approved: the identity to publish or to find, and the documents seen now.
Prepare(o, v, select) ==
  /\ At(o, "new")
  /\ run' = [run EXCEPT ![o].at = "approved", ![o].plan =
       [vault |-> v, select |-> select, publish |-> settings[v] = Nothing,
        portable |-> IF settings[v] = Nothing THEN o ELSE settings[v],
        registry |-> registry, link |-> link]]
  /\ UNCHANGED <<settings, files, hostVars, projectVars, boundVars>>

FirstStage(plan) == IF plan.publish THEN "settings" ELSE "check"

\* The intent is written once and never changed.
Seal(o) ==
  /\ At(o, "approved")
  /\ Leave(o, "intent", Plan(o)) /\ Go(o, FirstStage(Plan(o)))
  /\ UNCHANGED <<settings, hostVars, projectVars, boundVars>>

\* Settings that differ are preserved and end the operation.
ReadSettings(o) ==
  LET found == settings[Plan(o).vault] IN
  /\ At(o, "settings")
  /\ Go(o, IF found = Nothing THEN "publish"
           ELSE IF found = Plan(o).portable THEN "check" ELSE "stopped")
  /\ UNCHANGED <<settings, files, hostVars, projectVars, boundVars>>

\* The file is replaced, whatever it holds by now.
Publish(o) ==
  /\ At(o, "publish")
  /\ settings' = [settings EXCEPT ![Plan(o).vault] = Plan(o).portable]
  /\ Go(o, "check")
  /\ UNCHANGED <<files, hostVars, projectVars, boundVars>>

\* What was published reads back, and is the identity that was approved.
CheckSettings(o) ==
  /\ At(o, "check")
  /\ Go(o, IF settings[Plan(o).vault] = Plan(o).portable THEN "reserve" ELSE "stopped")
  /\ UNCHANGED <<settings, files, hostVars, projectVars, boundVars>>

-----------------------------------------------------------------------------
(* The registry.  Its lock is a directory that nobody takes over. *)

\* The identity is read again before the lock is asked for.
BeginReserve(o) ==
  LET found == settings[Plan(o).vault] IN
  /\ At(o, "reserve")
  /\ IF found = Nothing \/ lock # Nothing THEN Go(o, "stopped") /\ UNCHANGED lock
     ELSE /\ run' = [run EXCEPT ![o].at = "reserving", ![o].portable = found]
          /\ lock' = o
  /\ UNCHANGED <<settings, registry, reserved, files, projectVars, boundVars>>

\* The id of the vault's connection, of an earlier reservation, or a new one.
Reserve(o) ==
  LET v == Plan(o).vault
      portable == run[o].portable
      key == <<v, portable>>
      isKnown == v \in DOMAIN Entries(registry)
      id == IF isKnown THEN Entries(registry)[v].id
            ELSE IF key \in DOMAIN reserved THEN reserved[key] ELSE <<o, portable>>
      refused == (isKnown /\ Entries(registry)[v].portable # portable) \/ portable # Plan(o).portable IN
  /\ At(o, "reserving")
  /\ reserved' = IF isKnown THEN reserved
                 ELSE [k \in DOMAIN reserved \cup {key} |-> IF k = key THEN id ELSE reserved[k]]
  /\ run' = [run EXCEPT ![o].at = IF refused THEN "stopped" ELSE "register", ![o].id = id]
  /\ lock' = Nothing
  /\ UNCHANGED <<settings, registry, files, projectVars, boundVars>>

\* A pointer of the first version waits for its migration.
BeginUpsert(o) ==
  /\ At(o, "register")
  /\ IF registry.kind = "pointer" \/ lock # Nothing THEN Go(o, "stopped") /\ UNCHANGED lock
     ELSE Go(o, "sealing") /\ lock' = o
  /\ UNCHANGED <<settings, registry, reserved, files, projectVars, boundVars>>

EndUpsert(o, stage) == Go(o, stage) /\ lock' = Nothing

Input(o) == [plan |-> Plan(o), id |-> run[o].id]

\* Mutant of WithConnection: the connections that were there are not carried over.
WithOnlyConnection(document, v, entry, select) ==
  [kind |-> "connections", entries |-> [w \in {v} |-> entry],
   selected |-> IF select THEN entry.id ELSE Nothing]

WithConnection(document, v, entry, select) ==
  [kind |-> "connections",
   entries |-> [w \in DOMAIN Entries(document) \cup {v} |->
                  IF w = v THEN entry ELSE Entries(document)[w]],
   selected |-> IF select THEN entry.id
                ELSE IF document.kind = "connections" THEN document.selected ELSE Nothing]

\* The change is sealed with the registry before and after; one sealed earlier is kept.
SealManifest(o) ==
  LET v == Plan(o).vault
      entry == [id |-> run[o].id, portable |-> Plan(o).portable]
      sealed == files[o].manifest IN
  /\ At(o, "sealing")
  /\ IF sealed # Nothing
     THEN /\ IF sealed.input = Input(o) THEN Go(o, "replacing") /\ UNCHANGED lock
                                        ELSE EndUpsert(o, "stopped")
          /\ UNCHANGED files
     ELSE IF /\ registry.kind # "pointer" /\ registry = Plan(o).registry
             /\ v \in DOMAIN Entries(registry) => Entries(registry)[v] = entry
     THEN /\ Leave(o, "manifest", [input |-> Input(o), before |-> registry,
                        after |-> WithConnection(registry, v, entry, Plan(o).select)])
          /\ Go(o, "replacing") /\ UNCHANGED lock
     ELSE EndUpsert(o, "stopped") /\ UNCHANGED files
  /\ UNCHANGED <<settings, registry, reserved, projectVars, boundVars>>

\* Mutant of Replace: a sealed change is replayed over whatever the registry holds.
ReplaceAnyway(o) ==
  /\ At(o, "replacing")
  /\ registry' = files[o].manifest.after /\ Go(o, "receipt") /\ UNCHANGED lock
  /\ UNCHANGED <<settings, reserved, files, projectVars, boundVars>>

\* The registry must be as it was sealed, or already be what it is to become.
Replace(o) ==
  LET sealed == files[o].manifest IN
  /\ At(o, "replacing")
  /\ IF files[o].receipt # Nothing
     THEN /\ EndUpsert(o, IF registry = sealed.after THEN "link" ELSE "stopped")
          /\ UNCHANGED registry
     ELSE IF registry \in {sealed.before, sealed.after}
     THEN registry' = sealed.after /\ Go(o, "receipt") /\ UNCHANGED lock
     ELSE EndUpsert(o, "stopped") /\ UNCHANGED registry
  /\ UNCHANGED <<settings, reserved, files, projectVars, boundVars>>

WriteReceipt(o) ==
  /\ At(o, "receipt")
  /\ Leave(o, "receipt", files[o].manifest.after)
  /\ EndUpsert(o, IF registry = files[o].manifest.after THEN "link" ELSE "stopped")
  /\ UNCHANGED <<settings, registry, reserved, projectVars, boundVars>>

\* A pointer becomes a registry with its vault as the only connection.
Migrate(portable) ==
  /\ registry.kind = "pointer" /\ lock = Nothing
  /\ registry' = WithConnection(registry, registry.vault,
                   [id |-> <<Operator, portable>>, portable |-> portable], TRUE)
  /\ UNCHANGED <<settings, lock, reserved, files, run, projectVars, boundVars>>

-----------------------------------------------------------------------------
(* The project: its link, then the projection *)

LinkInput(o) == [input |-> Input(o), receipt |-> files[o].receipt]

\* The receipt is the registry's, which has the connection.
IsReceiptLive(o) ==
  /\ registry = files[o].receipt
  /\ IsConnected(Plan(o).vault, run[o].id, Plan(o).portable)

BeginLink(o) ==
  /\ At(o, "link")
  /\ IF /\ settings[Plan(o).vault] = Plan(o).portable
        /\ files[o].linkManifest = Nothing => IsReceiptLive(o)
        /\ linkLock = Nothing
     THEN Go(o, "linking") /\ linkLock' = o
     ELSE Go(o, "stopped") /\ UNCHANGED linkLock
  /\ UNCHANGED <<settings, files, hostVars, link, projection, removal, boundVars>>

EndLink(o, stage) == Go(o, stage) /\ linkLock' = Nothing

SealLink(o) ==
  LET sealed == files[o].linkManifest
      isCurrent == /\ link = Plan(o).link /\ IsReceiptLive(o)
                   /\ link.kind = "pointer" => link.vault = Plan(o).vault IN
  /\ At(o, "linking")
  /\ IF sealed # Nothing /\ sealed.input = LinkInput(o)
     THEN Go(o, "writing") /\ UNCHANGED <<files, linkLock>>
     ELSE IF sealed = Nothing /\ isCurrent
     THEN /\ Leave(o, "linkManifest", [input |-> LinkInput(o), before |-> link,
                        after |-> [kind |-> "link", id |-> run[o].id, portable |-> Plan(o).portable]])
          /\ Go(o, "writing") /\ UNCHANGED linkLock
     ELSE EndLink(o, "stopped") /\ UNCHANGED files
  /\ UNCHANGED <<settings, hostVars, link, projection, removal, boundVars>>

\* The registry is still the receipt's, and the link as it was sealed.
WriteLink(o) ==
  LET sealed == files[o].linkManifest IN
  /\ At(o, "writing")
  /\ IF files[o].linkReceipt
     THEN /\ EndLink(o, IF registry = files[o].receipt /\ link = sealed.after
                        THEN "project" ELSE "stopped")
          /\ UNCHANGED link
     ELSE IF registry = files[o].receipt /\ link \in {sealed.before, sealed.after}
     THEN link' = sealed.after /\ Go(o, "linked") /\ UNCHANGED linkLock
     ELSE EndLink(o, "stopped") /\ UNCHANGED link
  /\ UNCHANGED <<settings, files, hostVars, projection, removal, boundVars>>

WriteLinkReceipt(o) ==
  /\ At(o, "linked")
  /\ IF link = files[o].linkManifest.after
     THEN Leave(o, "linkReceipt", TRUE) /\ EndLink(o, "project")
     ELSE EndLink(o, "stopped") /\ UNCHANGED files
  /\ UNCHANGED <<settings, hostVars, link, projection, removal, boundVars>>

\* A folder that leads elsewhere is not replaced.
Project(o) ==
  /\ At(o, "project") /\ Go(o, "done")
  /\ projection' = IF projection = Nothing THEN Plan(o).vault ELSE projection
  /\ UNCHANGED <<settings, files, hostVars, link, linkLock, removal, boundVars>>

\* The link leads through the registry to a vault that carries its identity.
LeadsTo(v) ==
  /\ link.kind = "link" /\ IsConnected(v, link.id, link.portable)
  /\ settings[v] = link.portable

\* A removal takes no lock: it looks again before each thing it removes.
BeginRemoval(v) ==
  /\ removal = Nothing /\ LeadsTo(v) /\ projection = v
  /\ removal' = [vault |-> v, link |-> link, stage |-> "projection"]
  /\ UNCHANGED <<settings, files, run, hostVars, link, linkLock, projection, boundVars>>

IsSame == link = removal.link /\ LeadsTo(removal.vault)

RemoveProjection ==
  /\ removal # Nothing /\ removal.stage = "projection"
  /\ IF IsSame /\ projection = removal.vault
     THEN projection' = Nothing /\ removal' = [removal EXCEPT !.stage = "record"]
     ELSE removal' = Nothing /\ UNCHANGED projection
  /\ UNCHANGED <<settings, files, run, hostVars, link, linkLock, boundVars>>

RemoveRecord ==
  /\ removal # Nothing /\ removal.stage = "record"
  /\ link' = IF IsSame /\ projection = Nothing THEN Missing ELSE link
  /\ removal' = Nothing
  /\ UNCHANGED <<settings, files, run, hostVars, linkLock, projection, boundVars>>

-----------------------------------------------------------------------------
(* Interruptions *)

\* An operation fails and gives its locks back, or dies and leaves them.
Interrupt(o, dies) ==
  /\ run[o].at \notin {"new", "stopped", "done"} /\ stops < MaxStops
  /\ stops' = stops + 1 /\ Go(o, "stopped")
  /\ lock' = IF dies THEN lock ELSE Release(lock, o)
  /\ linkLock' = IF dies THEN linkLock ELSE Release(linkLock, o)
  /\ UNCHANGED <<settings, registry, reserved, files, link, projection, removal, resumes>>

\* The operator removes the lock of an operation that has stopped.
RemoveLocks(o) ==
  /\ At(o, "stopped") /\ o \in {lock, linkLock}
  /\ lock' = Release(lock, o) /\ linkLock' = Release(linkLock, o)
  /\ UNCHANGED <<settings, registry, reserved, files, run, link, projection, removal, boundVars>>

\* An operation is taken up again with the intent it sealed.
Resume(o) ==
  /\ At(o, "stopped") /\ files[o].intent # Nothing /\ resumes < MaxResumes
  /\ resumes' = resumes + 1
  /\ run' = [run EXCEPT ![o] = [at |-> FirstStage(files[o].intent), plan |-> files[o].intent,
                                portable |-> Nothing, id |-> Nothing]]
  /\ UNCHANGED <<settings, files, hostVars, projectVars, stops>>

-----------------------------------------------------------------------------
(* Specification *)

\* Nothing connected yet, a host with a pointer of the first version or with a connection,
\* and a project with or without a link of the first version.
Init ==
  /\ settings \in [Vaults -> Portables \cup {Nothing}]
  /\ registry \in {Missing} \cup {[kind |-> "pointer", vault |-> v] : v \in Vaults}
       \cup {WithConnection(Missing, v, [id |-> <<Operator, settings[v]>>, portable |-> settings[v]], FALSE) :
               v \in {w \in Vaults : settings[w] # Nothing}}
  /\ link \in {Missing} \cup {[kind |-> "pointer", vault |-> v] : v \in Vaults}
  /\ lock = Nothing /\ linkLock = Nothing /\ projection = Nothing /\ removal = Nothing
  /\ reserved = [k \in {} |-> Nothing]
  /\ files = [o \in Ops |-> NoFiles]
  /\ run = [o \in Ops |-> [at |-> "new", plan |-> Nothing, portable |-> Nothing, id |-> Nothing]]
  /\ stops = 0 /\ resumes = 0

Step(o) ==
  \/ \E v \in Vaults, select \in Selections : Prepare(o, v, select)
  \/ Seal(o) \/ ReadSettings(o) \/ Publish(o) \/ CheckSettings(o)
  \/ BeginReserve(o) \/ Reserve(o)
  \/ BeginUpsert(o) \/ SealManifest(o) \/ Replace(o) \/ WriteReceipt(o)
  \/ BeginLink(o) \/ SealLink(o) \/ WriteLink(o) \/ WriteLinkReceipt(o) \/ Project(o)
  \/ \E dies \in BOOLEAN : Interrupt(o, dies)
  \/ RemoveLocks(o) \/ Resume(o)

Next ==
  \/ \E o \in Ops : Step(o)
  \/ \E v \in Vaults : BeginRemoval(v)
  \/ \E portable \in Portables : Migrate(portable)
  \/ RemoveProjection \/ RemoveRecord

Spec == Init /\ [][Next]_vars

-----------------------------------------------------------------------------
(* Properties *)

\* "Connection registry is neither the sealed preimage nor postimage" (connection-registry.ts:895):
\* no operation, however late it is resumed and whoever registered meanwhile, takes a vault
\* out of the registry or changes the id or the identity under which it stands there.
ConnectionsStay ==
  [][\A v \in DOMAIN Entries(registry) :
       v \in DOMAIN Entries(registry') /\ Entries(registry')[v] = Entries(registry)[v]]_vars

\* The project comes after the registry (connection-coordinator.ts:652): whatever was
\* interrupted, a link names a connection the registry has.
LinksPointToConnections ==
  link.kind = "link" => \E v \in Vaults : IsConnected(v, link.id, link.portable)

\* "Settings changed since the approved preparation; they were preserved"
\* (connection-coordinator.ts:420): no operation replaces another identity.
SettingsArePreserved ==
  [][\A v \in Vaults : settings[v] # Nothing => settings'[v] = settings[v]]_vars
=============================================================================
