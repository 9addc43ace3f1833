# Verification of the oh-my-second-brain kernel

`oh-my-second-brain` keeps an Obsidian vault in order under a *contract*: a
machine-checked description of the notes, their folders and their fields that the
vault's owner seals in an interview, that every write of an agent is checked
against, and that may evolve on its own within limits the owner has set. This
directory holds TLA+ models of the program, TLC runs over small instances, and
proofs that TLAPS checks for every value of the constants.

Paths below are relative to `src/src/kernel/` unless they begin with `src/`.

1. [What the system consists of](#what-the-system-consists-of)
2. [Modules](#modules)
3. [Runs, bounds and what they show](#runs-bounds-and-what-they-show)
4. [Fairness](#fairness)
5. [What is proved](#what-is-proved)
6. [Where the words and the code part](#where-the-words-and-the-code-part)
7. [Not modelled](#not-modelled)
8. [What is left](#what-is-left)

To repeat a run, `tlc -config SealStoreCrash.cfg MCSealStoreReaders`; to repeat a proof,
`tlapm SealStoreProofs.tla`. `PROJECT.json` lists components, runs, mutants, the
lines of the source behind each definition, findings, hazards and theorems.

## What the system consists of

The program is a Node process: a CLI (`oms`), an MCP server an agent host starts,
and a hook that hosts run before they write. There is no daemon: several such
processes work on one vault at once and meet in files. Within a process the code is
asynchronous, so state read before an `await` may be stale after it.

### Components that keep state

| Component | State | Operations | Meets | Hard | What makes it correct |
|---|---|---|---|---|---|
| contract seal store (`contract/store.ts`) | `<id>` link, generations `.<id>.<n>`, snapshots, seal lock, `index.json` | seal, recover the lineage, bootstrap, reclaim the lock | lineage, interview, evolution gate, doctor, readers | crash or I/O error between any two effects; two processes; stale locks | one writer; the linked generation always reads; a seal replaces what its caller had read; every prefix can be finished |
| contract lineage (`contract/lineage.ts`) | `lineage.jsonl`, append only | append events, classify the tail, anchor a gap | seal store, evolution | torn appends, a lineage that lags the link | events chain; every digest named has a snapshot; nothing is rewritten |
| contract readers (`contract/store.ts`) | none | read the linked generation with no lock | seal store | a generation collected while it is read | a read returns something that was linked during the read |
| doctor repairs (`doctor/`) | none | lineage-recover, the evolution operations, status rows, index repair | all of the above | repairs on a store another process is changing | a repair finishes what an interrupted operation left |
| evolution loop (`evolution/`) | `state.json` of each request, `policy.json`, `journal.jsonl` | evolve, revert, record a verdict, approve or reject, gate | seal store, lineage, owner | an owner who seals between two reads of the gate; interrupted seals; limits counted from a lineage that lags | nothing loosens by itself; a quorum of independent sessions; stall and rate limits hold of what really happened |
| evolution lock (`evolution/evolution-lock.ts`) | the lock file | with-lock, reclaim at a terminal | evolution loop | a lock removed by name after its text was compared | one evolution operation at a time |
| contract interview (`contract/interview*.ts`) | `interview/events.jsonl` per vault or pending key | ask, answer, propose, seal, resume, migrate the log | seal store, MCP session | two processes append the same `seq`; a log migrated in parts | an answer is replayed only to the question it was given to; a sealed interview is not resumed |
| contract surroundings (gap ledger, guard events) | `gaps.jsonl`, drafts, event files | record, resolve, rotate, read | write pipeline | rotation beside an append | an open gap is not forgotten |
| write pipeline (`write/`) | the notes of the vault | check, conform, replace a note atomically | contract readers, gap ledger, the editor | an editor saves between the last comparison and the rename; the note is written and the gap record fails | a conflict is never overwritten silently where the code can tell; a saved note is never reported as failed |
| embedding index (`engine/embed/`) | SQLite database, generation being rebuilt, writer lock, dirty queue | sync, maintain one note, embed one note, read a snapshot | maintenance, retrieval | swap of the active database; vectors computed over awaits; takeover of a stale writer lock | readers see the whole old or whole new generation; vectors only of stored chunks |
| index maintenance (`engine/maintenance-*.ts`) | hints, needsScan, timers, phase; owner records | notify, flush, cycle, stop; acquire ownership | embedding index, file watcher | overflow of the queue, hints taken before an await, stop that times out while a cycle runs | no change is lost; nothing is applied after stop; one owner |
| connection registry and coordinator (`install/connection-*.ts`) | registry file, manifest, backup, receipt, lock; an intent of a connection | upsert, reserve, migrate; prepare, commit, resume | settings of the vault, agent hosts | a crash between manifest, backup, rename and receipt; four stages in four places | resuming from every prefix completes the operation once |
| event journal (`runtime/`) | SQLite rows | append, read, summarise | MCP server, CLI | concurrent writers (left to SQLite) | an event is stored at most once |
| update (`update/`) | the installed package | check, install, roll back | package manager | a failed install after the old version is gone | a failed update restores what ran before |
| MCP server (`src/src/mcp/`) | interview session, engine handle | dispatch of tool calls | every kernel operation | calls that overlap in one process | a tool's answer is about the session it names |

### Components that are functions or I/O

contract judgement (judge, diff, contradiction), evolution stages (mechanical and
semantic scores), retrieval (fusion, reranking, dispatch), embedding models and
chunking, axes, link graph, linkify and link, engine facade, search and semantic
contract, host installation, conventions and vault walking, harness, measurement
and capture, command line, vendor adapters, and assets, skills and scripts. They
keep no state another process can disturb; what makes them correct is what a
function returns. A few (the judge, the direction of a mutation, rank fusion,
bounded graph traversal, link resolution) are worth stating as operators against a
reference definition; the others format, parse or call out.

### How the modelled parts interact

- The **interview** reads the linked sequence (`baseSeq`), asks the owner for minutes,
  and seals; `sealContract` compares the sequence again under the seal lock.
- The **evolution gate** reads the request, the lineage tail and the linked contract,
  judges for minutes, records an attempt in the request, and seals with
  `expectedParentDigest`, which `sealContract` compares under the seal lock.
- **sealContract** writes, in this order: the anchors a lagging lineage needs, the new
  generation, its snapshot, the link, the lineage event, the index entry; then it
  collects every generation but N and N-1. A failure before the link is undone, one
  after it is left for `lineage-recover`.
- **Readers** take no lock. They rely on N-1 being kept.
- **Evolution operations** exclude each other by the evolution lock, which the owner's own
  seals do not take. Limits of autonomy are counted from the lineage.
- The **write pipeline** reads the linked contract as readers do, reads the note and the
  templates its verdict is about, and publishes the note; what it met at the edge of
  the contract it appends to the **gap ledger**, with no lock between writers.
- The **maintenance controller** runs in one process per vault, the one that acquired the
  **ownership** of the index directory. It hears of changes from a watcher and from tool
  calls, and hands one note at a time to the passes over the **embedding index**, which
  the doctor and the CLI also synchronise or rebuild as a whole. What writes the index
  does so under the **writer lock**, which is the same ownership protocol plus a
  visible file for older clients.
- **Connecting** a vault goes through four stages in four places: the vault's settings, the host's
  registry, the project's link and its projected folder. Each leaves an intent, a manifest or a
  receipt by which an interrupted operation is resumed.

## Modules

| Module | Contents | Models |
|---|---|---|
| `Lineage` | lineage events, the chain rule, `classifyLineageTail`, the anchors for a gap | `contract/lineage.ts`, `lineage-health.ts` |
| `ContractHistory` | abstract specification: the history is the sequence of contracts that were in place and never lags by more than one | what `store.ts` and `lineage.ts` promise together |
| `SealStore` | one vault's store at the grain of one durable effect per step; processes, faults | `contract/store.ts`, `generation-snapshot.ts`, `fs-private.ts` |
| `SealStoreReaders` | readers without a lock beside `SealStore` | `readResolved`, `readContractDirectory`, `resolveGeneration` |
| `Evolution` | requests, verdicts, the owner's terminal, the gate, the limits | `evolution/*.ts`, `doctor/evolution-ops.ts` |
| `EvolutionLock` | the evolution lock at the grain of one file-system call | `evolution/evolution-lock.ts` |
| `ContractIndex` | the lock of `index.json`, shared by all vaults, and the read-modify-write under it | `withIndexLock`, `writeIndexEntry` of `contract/store.ts` |
| `InterviewLog` | the interview's event log, its two keys and the move from one to the other | `contract/interview-log.ts`, `interview-resume.ts` |
| `ProcessOwner` | abstract specification: at most one live owner, followed and never replaced | what `engine/maintenance-owner.ts` promises |
| `MaintenanceOwner` | the ownership protocol at the grain of one file-system call | `engine/maintenance-owner.ts` |
| `WriterLock` | the lock of the one writer: `ProcessOwner` first, then the visible file older clients know | `acquireEngineStoreWriterLock` of `engine/embed/sync.ts` |
| `MaintenanceController` | hints, scans, cycles, vectors, stop, beside notes, policy and watcher | `engine/maintenance-controller.ts`, `index-maintenance.ts`, the awaited reads and the commits of `embed/maintenance.ts` |
| `EmbeddingIndex` | rows, vectors, sources, queue and identity of a generation; passes over a note, syncs, drains, rebuilds | `engine/embed/{store,revision,source,maintenance,sync}.ts`, `engine/index-update.ts`, `repairIndex` of `doctor/service.ts` |
| `NoteWrite` | write requests beside an editor and changing templates | `write/pipeline.ts`, `write/note-write.ts` |
| `GapLedger` | lines, markers, the reader's window, a ledger moved aside | `contract/gap-ledger.ts` |
| `Connections` | the stages of a connect, its resume, migration of a pointer, removal | `install/connection-coordinator.ts`, `connection-registry.ts`, `project-connection.ts`, `vault-settings-publish.ts`, `link/link.ts` |
| `SealStoreProofs`, `SealStoreFilesProofs`, `EvolutionProofs`, `MaintenanceOwnerProofs`, `MaintenanceControllerProofs`, `EmbeddingIndexProofs` | theorems about one module each (the second builds on the first and on `SealStoreReaders`) | |
| `Locks` | `EvolutionLock`, `WriterLock` and `ContractIndex` side by side, one of them in focus | |
| `Services` | `EmbeddingIndex`, `Connections`, `NoteWrite`, `GapLedger` and `InterviewLog` side by side, one of them in focus | |
| `LocksProofs` | theorems about the three protocols of `Locks`, and that a behaviour of `Locks` is one of each | |
| `ServicesProofs` | theorems about the services of `Services` but the index, and that a behaviour of `Services` is one of each | |
| `MCSealStore`, `MCEvolution`, `MCMaintenanceController`, `MCContractIndex`, `MCConnections`, `MCGapLedger`, `MCInterviewLog`, `MCLocks`, `MCServices` | small instances of one module each | |
| `MCSealStoreReaders`, `MCEvolutionLimits`, `MCMaintenanceLive` | several small instances in one run, see below | |

`SealStoreReaders` composes with `SealStore` (the same files), `WriterLock` with `ProcessOwner` (the lock
is taken only by its owner), `MaintenanceOwner` implements `ProcessOwner`, `SealStore` implements
`ContractHistory`. `MaintenanceController` has the commits of the index in it, reduced to the
version of a note; `EmbeddingIndex` has the same passes with rows, vectors and the other users of the
database, and no scheduler.

Some modules explore several instances in one run: a variable (`focus`, `limits`) that never
changes says which of them a behaviour is of, and the others stay where they start. `Locks` and `Services`
do this for parts that share no variable, and their theorems say that a behaviour of the whole is one of
every part; the MC modules do it for small instances. The instances share no state, so this is the union of separate runs and nothing more; it puts
instances that answer one question (do the locks exclude? do the limits hold?) side by side.
Fairness in such a module is stated of the instance in focus only.

### SealStore and the code

`link`, `legacy`, `gens`, `linkTmp`, `snapshots`, `lineage` and `indexed` are the files
of one vault; `lock` is the seal lock file, `seen[p]` what *p* read of the lock it found in its way; `proc[p]` is a
process's operation: where it is (`pc`), and the values it read and still holds (`linked`, `parent`,
`tail`, ...), which may be stale. `lineage` is the events, whether the last line is cut short, and whether an earlier
one does not parse.

| Step of a seal | Action |
|---|---|
| `createLock`, its owner, the second look | `TryLock`, `WriteOwner`, `RetryLock` |
| `lockIsStale`: the awaited read of the owner, then the look for its process | `ReadOwner`, `ProbeOwner` |
| the question at the terminal, the rename, the create after it | `ConfirmReclaim`, `RecreateLock` |
| `currentSequence`, `observeLineage`, the caller's checks, the plan | `Observe` |
| `bootstrapUnderLock`, `appendLineageEvents` of anchors | `SnapshotSource`, `ReadTailForAnchors`, `AppendAnchors` |
| first collection | `CollectOrphan` |
| the generation directory, its files and manifest | `MakeGeneration`, `FillGeneration` |
| the snapshot | `PublishSnapshot` |
| temporary link, legacy directory aside, rename | `MakeLinkTmp`, `MoveLegacyAside`, `SwapLink` |
| rollback of a failure before the rename | `RollBack` |
| `onSealed`: tail read again, event appended | `ReadTailForSeal`, `AppendSealed` |
| index entry, last collection, release | `WriteIndex`, `SweepGeneration`, `Release` |

A step is one durable effect, or the reads before the next effect: under the lock only faults change what is read,
and outside it (`ReadOwner`, `ProbeOwner`, `RetryLock`) each read is a step of its own. An append reads the file in one step (`TailRead`) and writes in
another (`Written`): where the last line was cut short the file is truncated to the length that was *read* (`Started`),
whatever stands there by then. `Fail` is an I/O error between two effects, `WriteOwnerFails` one that leaves a lock
without an owner, `Crash` the end of a process with the lock, `Exit` the end of one without it, which is no fault and
counts as none. `TearAppend` is an append of which some whole events and perhaps part of the next reach the disk. `LoseLink`,
`DamageGeneration` and `DamageSnapshot` are what backups, sync tools and owners do to files. `LockAges` is
ten minutes passing.

Contracts are model values (a digest identifies a contract). The event's sequence
number is its position in the file. Simplifications: removing a leftover temporary
link and making the directory are one step, and so is a rollback; the atomic
replacement inside one JSON write (`.tmp-*`) is one effect; `.lock.stale-*` files, a
corrupt `index.json` and other vaults' index entries are not there; a legacy
generation (`template`, `declined`) is its digest.

### Evolution and the code

`requests[i]` is `state.json` of request *i*; `past` the requests whose `expiresAt` is
over; `job` the evolution operation in progress, which holds the evolution lock;
`due` the callers whose verdict completed a quorum and who are yet to run the gate;
`prompt` the approval shown at a terminal; `store` and `events` what the gate sees
of the contract store; `seals` a history variable: every swap of the link, with the
contract it replaced and the place its event has or will get in the lineage.

| Code | Action |
|---|---|
| `evolveLocked`: read the contract; read the tail, draft, stages, `createRequest` | `StartEvolve`, `IssueEvolve` |
| `proposeRevert` | `StartRevert`, `IssueRevert` |
| `recordVerdict` with `settleRequest`, `discardReason` | `AcceptVerdict` |
| the call that completed a quorum runs the gate; a busy lock ends it | `GateQuorum` |
| `prepare`, the read of the contract that is shown, the answer | `OpenPrompt`, `ShowPrompt`, `AnswerApprove`, `AnswerReject` |
| the gate: settle, judge and record the attempt, seal, record, store as sealed | `EnterGate`, `JudgeCandidate`, `SealCandidate`, `RecordCandidate`, `CloseRequest` |
| the owner's `oms interview`, `lineage-recover`, `reclaim-evolution-lock`, `policy.json` | `OwnerSeals`, `OwnerRecords`, `RecoverLineage`, `ReclaimEvolutionLock`, `SetAutonomy` |
| expiry, days | `Lapse`, `NextDay` |
| a failure or a crash in an operation, in the owner's seal, between verdict and gate | `FailJob`, `CrashJob`, `OwnerSealStops`, `CrashCaller` |

What a stage finds of a candidate is nondeterministic; that a candidate loosens a
contract is the constant relation `Loosening`. A seal is interrupted at the one point
that matters here, between swap and event; `SealStore` has the others. An
evolution operation excludes the others because `job` is one variable: that is what
`EvolutionLock` establishes of the lock file.

### EvolutionLock and the code

`file` is the lock file, `makers[n]` who created lock *n*. The text in a file, `{pid, host,
startedAt}`, is *n*: two creations never write the same text. A created, not yet
written file is `Unwritten`. Each call on the file system is a step, so
"read the text, compare, remove by name" is three, as in the code.

### ContractIndex and the code

`entries` is `index.json`, vault path to id; `lock` the lock file with what its text says; `proc[p]`
an update. A step is one call on the file system: `CreateLock` and `WriteOwner`; the two halves of `lockIsStale`, `ReadOwner` and
`ProbeOwner`; `Reclaim`, which removes whatever lock is there by name; `ReadIndex`, `WriteIndex`; `ReleaseLock`, which removes by
name as well. `Age` is ten minutes passing, `Leave` a process that ends after its update, `Fail`, `WriteOwnerFails` and `Crash` what may
go wrong. The history variable `taken` says that a process has removed the lock of another that was at work.

### MaintenanceOwner, WriterLock and the code

`claims` and `records` are the files of the owner directory by token, `makers[t]` the process that
drew token *t*; `proc[p]` where an attempt is and which entries of its one listing it has still to look
at. Each file-system call is a step: `Claim`, `Publish`, `List`, then for every entry `PassClaim`,
`PassRecord`, and `RemoveDead` for the record of a process found dead; `Succeed`, or `RemoveOwn` after a
refusal or a failure. `Crash` leaves what is on disk, `ReuseId` gives a dead process's id to another, which
looks alive to everybody.

`WriterLock` adds, for the visible file, `Claim` (link, fails when it is there), `Read`, `Probe`, `Move`
(rename to a stale name), `Compare` (read again what was moved, put it back when it is another's),
`Release`, `Unlink`. Processes in `Older` skip the ownership, as the older version does.

### MaintenanceController and the code

`disk` and `excluded` are the vault, `index` and `queued` what the index has of it, `events` what the
watcher has still to report; `hook` is the note the called hook has in hand and what it has read; `hints`, `needsScan`, `timer`, `phase`, `aborted`, `stopping`, `owner` are
the controller's own; `cyc` is the active cycle with what it read. The code is JavaScript, so a step is
what runs between two awaits.

| Code | Action |
|---|---|
| `notify`, the watcher's callback, its error | `Deliver` (`Notify`), `WatcherFails` |
| the reconcile interval | `Periodic` |
| `flush`, the beginning of a cycle with `attachWatcher` and the taking of hints | `Flush` |
| the scan, note by note, and its comparison with the stored rows | `ScanNote`, `Scanned` |
| `apply`, and `maintainDocumentIndex` with a note: the policy, the source, the transaction | `Maintain`, `ReadSource`, `Publish` |
| the same with a note that is hidden: source, digest of the policy, the policy again, the transaction, the digest again | `Capture`, `ReadPolicy`, `Judge`, `Clear`, `Reread` |
| vectors of at most `BatchSize` notes; a note that is missing by then goes to `maintainDocumentIndex` | `Embed`, `LookUp`, `Embedded`, `MaintainMissing`, `EndOfVectors` |
| end of a cycle, a failing hook | `Finished` within these, `HookFails` |
| `stop`, its timeout, the drain, the release | `Stop`, `StopTimesOut`, `Drained`, `Released` |
| the vault's owner | `Edit`, `ChangePolicy`, `ChangeScope` |

The policy is in files of the vault, whose change is an event, and, where `Sealed`, in the sealed contract (`searchExclude`), which
lies outside the vault: no event tells of its change.

### EmbeddingIndex and the code

`db` is the active generation (`rows` with the digest, the dirty mark and the vector of each chunk, `source`,
`queue` with revisions, `identity`); `writer` who holds the writer lock over awaits; `op[p]` the operation of a
process with what it read. A step is one transaction.

| Code | Action |
|---|---|
| `maintainDocumentIndex` | `ReadToMaintain`, `Maintain` |
| `embedQueuedDocument`: read, mark and chunk, commit after the model answered | `ReadToEmbed`, `PrepareEmbedding`, `CommitEmbedding` |
| `syncEngineStore`, lexical or with vectors, in place or as a new generation | `BeginLexical`, `BeginEmbedding` |
| one document of a sync: plan, then commit if nothing came between | `PlanDocument`, `SyncDocument` |
| the end of a sync: reconcile, identity, swap | `FinishDocuments`, `RecordIdentity`, `SwapGeneration`; `FailSync` |
| the doctor's repair around a sync | `BeginDrain`, `CompleteDrain` |
| edits, policy, the end of a process | `Edit`, `ChangePolicy`, `Stop` |

### NoteWrite, GapLedger, InterviewLog, Connections and the code

**NoteWrite.** `req[r]` holds the revision the caller named (`ifMatch`), what was read and the templates' witness.
`ReadTarget`, `ReadTemplates`, `Judge` are the pipeline; `Stage`, `Validate`, `Recheck`, `Publish`,
`LinkFails` the publication, by hard link for a new note where the file system can, by rename otherwise;
`Retry` is the one repetition of the pipeline.

**GapLedger.** `files` are the lines of each file that was ever at the ledger's path, `markers` the files
beside it. `Open` looks for a seen choice, opens, and reads how the file ends (`clean`); `AppendLine` writes through the open
handle, and where another writer's line was cut short after that read, the two are run together (`With`, `Glued`): neither
parses. `Mark` prunes and writes the marker, `Rotate` is the owner moving the ledger aside, `Crash` a line cut short.

**InterviewLog.** `file[k]` is the log of the pending key and of the id. Every step is one call on the file system and
may be overtaken by any other process: `ChooseKey`; the move, `LookForSource`, `LookForTarget`, then `MoveByRename`, or `ReadSource`,
`ReadTarget`, for each event `ReadLog` and `CopyEvent`, and `FinishCopy`, which removes the pending log; the append,
`ReadLog` and `AppendEvent`. `View` is what a resumed interview is shown. `Spec` has all interleavings; `SpecApart` those in
which no two processes move or append at the same time (`OneUnderway`), however late each does.

**Connections.** `settings`, `registry` with `lock` and `reserved`, `link` with `linkLock`, and `projection` are the
four places; `files[o]` what an operation left (intent, manifests, receipts); `run[o]` where it is.

| Stage | Actions |
|---|---|
| preparation, intent | `Prepare`, `Seal` |
| settings | `ReadSettings`, `Publish`, `CheckSettings` |
| reservation | `BeginReserve`, `Reserve` |
| registry | `BeginUpsert`, `SealManifest`, `Replace`, `WriteReceipt`, `EndUpsert`; `Migrate` |
| link | `BeginLink`, `SealLink`, `WriteLink`, `WriteLinkReceipt`, `EndLink` |
| folder | `Project` |
| removal of a link | `BeginRemoval`, `RemoveProjection`, `RemoveRecord` |
| failures and repetition | `Interrupt`, `RemoveLocks`, `Resume` |

## Runs, bounds and what they show

Every bound is a constant named in a comment where it is declared. The runs stop
when their operations are used up, so deadlock is not checked: the program has no
obligation to go on.

| Run | Instance | Shows |
|---|---|---|
| `seal_crash` | 2 contracts, sequences 0..6, 3 operations; starts empty or sealed before the lineage existed. Either 2 processes, one of them at a terminal, and 2 crashes or I/O errors, or 1 process with 1 failure and a reader | `MutualExclusion` of the seal lock, `InterruptedSealKeepsContract`, `RecoverFinishesInterruptedSeal`, `SealReplacesWhatWasRead`, `IndexFollowsLineage`, the refinement `KeepsHistory` of `ContractHistory`; of the reader `OneSealCannotBreakARead`, `ReadReturnsALinkedContract` |
| `seal_damage` | 2 processes that end when they like, one at a terminal, in the behaviours in which its answer takes no lock from a living process (`LiveLocksAreKept`); 2 operations, sequences 0..5, every start, one fault among a lost link, a damaged generation or snapshot, a torn append, a crash, an I/O error, a holder of more than ten minutes | `MutualExclusion`, `ChainNeverBroken`, `LineageHasSnapshots`, `HistoryIsKept`, and under fairness `LockIsReleased` |
| `evolution_limits` | an owner who seals between any two steps, 1 interrupted seal. *gate*: 1 request, 3 contracts; *rate*: 2 requests, 1 seal a day and a week; *stall*: 2 requests, 1 autonomous seal in a row | `NeverLoosensAlone`, `ClosedIsNeverSealed`, `RateIsKept`, `RunsEnd` |
| `evolution_closed` | 1 request, 3 seals, 4 sessions, quorum 3, 2 crashes or errors or a day that passes (`DayOrFault`) | `InterruptedSealIsAttributed`, `QuorumBehindEverySeal`, `ClosedStaysClosed` |
| `locks` | evolution lock: 3 processes, 1 terminal, 4 locks, 2 faults; writer lock: 2 new clients and an older one, 4 texts, 2 faults; contract index: 3 processes that may end, 3 vaults, locks that age, 3 faults | `MutualExclusion` and `LiveLockIsKept` (evolution lock), `OneWriter` (writer lock), `EntriesStay` (index) |
| `maintenance_queue` | 2 notes, a queue of 1, batches of 1, 2 changes of notes or of the policy, between any two awaits, 2 faults, mode full, a watcher that may drop events | `NothingIsForgotten`, `ReleaseIsLast`, `OnlyTheGoneArePurged` |
| `maintenance_live` | ownership: 3 processes, 3 attempts, 1 fault, ids that are used again; controller: 1 note, otherwise as above | `StandingRecordIsKept`, `ImplementsProcessOwner` (ownership); `IndexCatchesUp`, `OwnerIsReleased`, `SteadyVectorsCatchUp` (controller) under fairness |
| `services` | index: 2 processes, 2 notes of one or two chunks, 2 models, 1 edit, 2 operations, 1 stopped; connections: 2 vaults, 2 operations, 1 interruption, 1 resume; write: 2 requests, 2 edits, 1 change of templates; ledger: 2 writers, a window of 1, 2 lines, 2 files, 1 crash; interview: 2 writers, 5 events, 2 crashes, in the behaviours of `SpecApart` | `RowsAgree`, `DequeuedNotesHaveVectors`, `IdentityMeansComplete` (index); `LinksPointToConnections`, `ConnectionsStay`; `OnlyTheNamedRevisionIsReplaced`; `OnlyGluedChoicesAreHidden`; `InterviewIsWhole` |
| `evolution_revived`, `contract_index`, `connections_race`, `interview_overtaken` | small instances | a violation each, see [below](#where-the-words-and-the-code-part) |

Why these bounds are enough to be of interest:

- **SealStore.** A seal can be interrupted, a second one can find what the first left, and
  a third can find what the repair left: that takes three operations, two faults and
  sequences up to 6. Two contracts tell "the same", "another" and, with the order of
  events, A→B→A apart; the third digest the classification distinguishes, one that is
  neither linked nor below, arises when a link is lost. Two processes are what a
  lock must keep apart; that there may be more is what the proof covers. A reader is
  broken by two seals of one process as well as of two, so one process beside it is enough.
- **Evolution.** One request meets an owner who seals twice between its reads, and the gate
  that seals it, so its parent can be replaced and come back. The limits need two
  requests and an interrupted seal between them; limits of 1 and 2 reach both sides of
  the comparison. `evolution_closed` has a quorum of 3, the code's, so that a doubled session or
  the maker's own verdict would matter. It has no busy owner: with one `InterruptedSealIsAttributed` does not hold,
  and verdicts do not look at what the owner seals.
- **Locks.** A lock protocol that compares and then removes by name fails with three parties: the
  one whose lock it was, the one who took it away, and the one who came between. Three processes, three
  or four locks or attempts, and a crash, or the end of a process whose text has just been read, to make the first of them
  stale reach that.
- **MaintenanceController.** The queue of 1 overflows with the second note; two changes let a note change
  while an earlier version of it is read, applied or embedded, and come back after it was
  deleted; two faults let a failed hook follow a lost event. The liveness run has one note:
  the properties speak of each note by itself, and fairness over two is beyond the time a run has.
- **EmbeddingIndex.** Two operations at once are the hazard: a pass over one note beside a sync, or a rebuild beside
  either. Two chunks in a note let a part of it change; two models let the identity differ; a
  stopped operation leaves what the next must deal with.
- **Connections.** The second vault or operation is what the first finds changed when it is resumed. The
  run passes `select` as the command line does, never; the violation run has both.
- **The others.** A writer that was overtaken, a file moved aside or a copy cut short, and whoever comes next: two
  writers and one or two crashes.

Each property has a mutant: a definition of the model changed the way a plausible bug
would change the code (N-1 not kept, a base not compared, a session counted twice, a
recovered seal not counted, ...), under which TLC finds the property violated. The mutated
forms stand before the definitions they alter, marked "Mutant of".

What the properties rely on:

- `MutualExclusion` of the seal lock does not hold of every use of it. The reclaim at a terminal renames whatever
  lock is there (`store.ts:546`) after `lockIsStale` has read an owner (`:500`), looked for its process (`:507`) and a human has
  answered. A lock changes hands in that time without any fault: its owner releases it and ends, and another takes it. So
  `seal_damage` checks the lock with processes that end and holders of more than ten minutes (`live-lock-old`), where no answer
  takes the lock of a living process (`LiveLocksAreKept`, an action constraint; so it is where nobody is at a terminal).
  `seal_crash` checks it with one terminal and no constraint, but with processes that do not end of themselves between two
  looks, and fresh locks. What happens outside these is [below](#where-the-words-and-the-code-part); the properties of `seal_crash` are
  claimed under the same restriction.
- `LockIsReleased` is about locks that name their process. A file whose owner could not be written
  (`WriteOwnerFails`) stays: `createLock` removes nothing (`store.ts:528`), and later seals find it busy until it has aged.
- `InterruptedSealIsAttributed` and the limits leave out an autonomous seal of exactly the contract that
  is already linked (`Changing`): interrupted, it leaves no trace in the lineage, and
  nothing changed.
- `ClosedStaysClosed` leaves out the request the gate is at work on. The gate keeps the
  time it started with, so a request that expires meanwhile may still become
  `awaiting-human` or be sealed.
- `OneWriter` leaves out states in which a lock file that was moved away is still under its stale name: its mover
  died there, or found the path taken when it put it back (`sync.ts:382`). One older client is allowed for; two
  older clients exclude each other no better than their own version did.
- `EntriesStay` claims nothing once a process has removed the lock of another that was at work (`taken`); that this happens, and what
  follows, is `contract_index`.
- `NothingIsForgotten` leaves out changes the watcher did not report and no scan has read since (`unseen`);
  `IndexCatchesUp` says that the periodic scan finds those too.
- `OnlyTheNamedRevisionIsReplaced` leaves out a change in the last gap, between the final check and the rename, which
  the comment of `note-write.ts:9` declares. The model knows that gap (`late`) from a change that fell
  earlier and must be noticed.
- `OnlyTheGoneArePurged` lets a purge remove a note that the vault shows again: the policy is read over awaits before the
  transaction, and policy files and SQLite share none (`embed/maintenance.ts:120`). What it claims is that a scan that brings
  the note back is then due (`ScanIsDue`), or the watcher has missed the change, and that no note leaves
  because of an old inventory or of what was read of the note itself.
- `OnlyGluedChoicesAreHidden` admits the choice whose line was run together with one a crash cut short: hidden, though its
  marker counts.
- `InterviewIsWhole` is claimed of the behaviours in which no two processes move or append at the same time. The
  file declares that no lock between processes guards either (`interview-log.ts:26`), and without one an event appended to the
  pending log between the read at `:220` and the removal at `:226` is lost. `interview_overtaken` is a case that
  the comment at `:179` rules out.
- `SteadyVectorsCatchUp` is of histories in which no periodic scan falls due while a cycle is active (`steady`). Where one
  does in every cycle, vectors are put off for ever: the code computes them only in a cycle that has
  been told nothing new (`maintenance-controller.ts:222`).

## Fairness

Two specifications state fairness, each of steps that code already running takes by itself:

- **`seal_damage`** (`FairSpec` of `SealStore`): weak fairness of `Step(p)`, the steps of an operation that is
  running. A Node process that is not killed goes on to its next file-system call, and
  none of these calls waits for another process: the lock is tried twice, never
  awaited. Nothing is assumed of callers (`Begin`), of the answer at the terminal
  (`ConfirmReclaim`, which is not part of `Step`, and is the only action the run's constraint restricts) or of faults. A crash or the end of a process is a step to
  `idle`. Weak fairness is enough because nobody else disables a step of an operation under
  the lock.
- **`maintenance_live`** (`Fairness` of `MaintenanceController`): weak fairness of `Deliver` (a reported change
  reaches the controller), of `Periodic` (the interval comes round) and of `Loop` (some step of those the event loop
  has to run: a set timer fires, a hook that was called returns or fails, a stop goes on to its release). Nobody has
  to edit, to stop the server or to fail; edits and failures are bounded, so the properties are of what happens after the last of them.

No liveness is claimed of the evolution loop, because the code does not promise any: a
complete quorum whose gate finds the lock busy is reported and never asked again
(`stage-consensus.ts:193`), and the request expires. None is claimed of the other services: a request, a
connection or a sync that was cut short waits for whoever asks again.

## What is proved

All theorems hold for any number of processes, contracts, sessions, notes, sequences,
operations and faults. The proofs take the modules' own assumptions on constants
(`StoreAssumption`, `EvolutionAssumption`, `LockAssumption`, `NoDigestAssumption`, `EmbeddingAssumption`,
those of the controller), which TLC evaluates in the runs, and besides them only the hypotheses
that their statements name. The numbers in brackets refer to the [list of these](#hypotheses).

**Seal store** (`SealStoreProofs`, `SealStoreFilesProofs`)

| Theorem | Statement | Argument |
|---|---|---|
| `TypeCorrect` | `[]TypeOK` | `TypeInv` adds `AllFit`: only a seal makes a generation, it has a contract and a sequence above 0. Without it `gens[seq - 1]`, where a legacy directory is moved aside and back, could leave the array. |
| `SealLockExcludes` | `[]MutualExclusion` (1) | `LockInv`: whoever is past the create owns the held lock. It is inductive as long as the one step that takes a lock from somebody, the answer at a terminal, takes it from nobody who lives. |
| `SealLockExcludesWithoutTerminal` | `[]MutualExclusion` of `Spec`, if `Interactive = {}` | Nobody reclaims, so (1) holds: agents, services and hooks exclude each other whatever crashes, ends, fails or outlives ten minutes. |
| `SealLockExcludesAtOneTerminal` | `[]MutualExclusion` of `Spec` (3) | `OrphanInv`: who is asked at the terminal is looking at a lock that names nobody alive and stays so, because only that terminal could remove it. So (1) holds. |
| `LineageIsAChain`, `LineageSnapshotsExist` | `[]ChainNeverBroken`, `[]LineageHasSnapshots` (1) | `ChainInv`: besides the chain, what a process is about to append follows the lineage as it observed it, and what it will name already has its snapshot; the lock keeps the observation fresh, so the truncation to the length that was read drops the cut line and nothing else. A torn append is a prefix, and a prefix of a chain is one. |
| `HistoryNeverShrinks` | `HistoryIsKept` (1) | From `LockInv` and `ChainInv`: under the lock what `TailRead` read of the file is still so when the write starts, so the file that is truncated to that length keeps every whole event. Without (1) it is false: the truncation would drop another writer's event. Damage changes a snapshot's content only. |
| `SealsReplaceWhatWasRead` | `SealReplacesWhatWasRead` (1, 2) | `ViewInv`: what an operation read of link, generations and lineage is still so while it has the lock; with `LockInv` nobody else can have changed it. |
| `IndexAppearsRecorded` | `IndexFollowsLineage` (1, 2) | `RecordInv`, below; a store that starts indexed has nothing to show. |
| `ContractStaysLinked`, `InterruptedSealIsRecoverable` | `[]InterruptedSealKeepsContract`, `[]RecoverFinishesInterruptedSeal` (1, 2, 4) | `RecordInv`: the lineage ends at the linked contract or at N-1 (`Recorded`), what is about to be appended brings the lineage to what is linked (`Drafted`), and whoever is past its anchors works on a lineage that ends at the contract it replaces (`Caught`). So the lineage lags by one seal at most, and its tail is never classified as a gap. |
| `StoreKeepsHistory` | `KeepsHistory`, the refinement of `ContractHistory` (1, 2, 4) | The initial states map to initial states; the swap maps to the abstract change, an append to the abstract record, every other step to a stutter. The abstract guards (only a recorded history changes, by one) are `RecordInv`. |
| `ReadsSurviveOneSeal`, `ReadsReturnLinkedContracts` | `[]OneSealCannotBreakARead`, `[]ReadReturnsALinkedContract` of `ReaderSpec` (1, 2, 4) | `ReadInv`: what a reader resolved was linked when it read the link; after one swap it is N-1, which collection keeps, and only after two can it be gone. A read that fails has met two. |

**Evolution** (`EvolutionProofs`)

| Theorem | Statement | Argument |
|---|---|---|
| `EvolutionTypes` | `[]TypeOK` | `EvolutionInv` |
| `NothingLoosensAlone` | `[]NeverLoosensAlone` | `Backed`: a request past the autonomous judgement has a candidate that does not loosen its *parent*; the seal compares the linked contract with the parent under the lock, so what is replaced is the parent, however the owner sealed. |
| `QuorumBehindSeals` | `[]QuorumBehindEverySeal` | `WellBound`: verdicts are of distinct sessions, none the maker's; the approving ones are in bijection with their sessions, so the count of the one is the count of the other. A complete quorum is never added to (`Continues`). |
| `ClosedStaysUnsealed`, `ClosedRequestsStay` | `ClosedIsNeverSealed`, `ClosedStaysClosed` | `GateInv`: from judgement to seal the request keeps the state the gate took it up in; the owner's answers wait for the evolution lock. That a recovered event may overrule a closed state is part of the statement, and `TailInv` says which request such an event can be of. |
| `InterruptedSealsAreAttributed` | `[]InterruptedSealIsAttributed` (5) | `SealsInv`: every changing seal of the gate is traced in the lineage under its request, or is the one that is still pending; `QuietInv`: the tail the gate read is still the tail when it seals. |
| `SealsFollowTheirParents` | `[]SealFollowsItsParent` (5) | The tail a request was issued at is still the tail at its seal, if nobody seals between the gate's read and its seal. |
| `AutonomousRunsEnd`, `AutonomousRateIsKept` | `[]RunsEnd`, `[]RateIsKept` | For an owner who seals whenever he likes. `LimitsInv`: a quorum is asked once, so an attempt stays the last of its request (`SpentInv`). Every autonomous seal is accounted for (`LoneInv`): its event, or one that recovers it, stands in its place (`Shown`), or the next event to be written is the one (`Unshown`). Where the owner's seals moved that place away from the parent of its request, no other attempted request could be taken for what is recovered there (`NoRival`), so the gate counts it as nobody's, and counts it all the same. `RunsInv`: an event that ends a run stands for a later seal of the owner's. `EntryInv`: what the gate counted when it took a request up still covers the run up to the owner's last seal. |

**Index** (`MaintenanceOwnerProofs`, `MaintenanceControllerProofs`, `EmbeddingIndexProofs`; no hypotheses)

| Theorem | Statement | Argument |
|---|---|---|
| `TypeCorrect`, `Exclusion`, `RecordsAreKept`, `Refinement` | types; at most one owner; `[]StandingRecordIsKept`; `ImplementsProcessOwner` | `IInv`: besides types and standing records, `SomebodyWillSee`: of two processes that have listed, one has the other's record still to look at, because each publishes before it lists; `TargetsAreLeft`: what is about to be removed is no process's present record, even if its maker's id is in use again; `OwnersHaveLooked`: an owner has nothing left to look at. Exclusion follows, and with it that acquiring is a step of `ProcessOwner`; every other step stutters or releases. Crashes and reused process ids are part of it. |
| `ChangesAreRemembered` | `[]NothingIsForgotten` | `ControllerInv`: a note whose index lags is in an event not yet delivered, in the hints, in what the cycle has still to apply, or behind a scan that is due or has not reached it, unless the watcher did not report it. `HiddenIsScanned` and `OvertakenIsScanned` are the strengthening: a note the policy hides and the index shows is still to be scanned or purged, and a policy that changed under the note in hand has left a scan that is due. |
| `OwnerIsLetGoLast`, `NothingIsWrittenAfterStop` | `[]ReleaseIsLast`; `NothingAfterAbort` | `LetGoLast`: whoever waits has stopped the controller first, and the ownership goes with no cycle at work; a commit looks at the abort in the step in which it writes. |
| `OnlyGoneNotesLeave` | `OnlyTheGoneArePurged` | The transaction compares the source, and `ControllerInv` says of the policy that what changed since a purge read it is in an event, in a scan that is due or in what the watcher missed; the types say that the note that is compared is the one that is removed. |
| `VectorsAreOfTheirRows` | `[]RowsAgree` | `IndexInv`, of which `Sound` is the heart: in every generation a vector is of the digest of its own row, a recorded source has the digests of the rows, an entry with a revision has its rows marked, and with an identity every vector is of that model. What an operation read before it waited need not be so any more; `Rests` says what it may still rest on. One lemma for each operator on a generation (`Follows`) and one for each action carry it. |
| `TheQueueIsNotLeftEarly` | `DequeuedNotesHaveVectors` | `Follows`: an entry goes only where the rows that stay are clean and have vectors; the entry of an older version, which has no revision and may stand with unmarked rows, is marked before a drain (`Drained`). A change always has a fresh revision to be queued with (`FreshIsRevision`: `EmbeddingAssumption` gives more of them than processes and notes can hold, where the code draws a random one). |
| `IdentityIsComplete` | `IdentityMeansComplete` | A sync in place writes the generation's own model, and one without has nothing but what syncs have written (`InPlace`); a new generation has vectors everywhere (`Rebuilt`). `TheWriterSyncs`: what a sync works on is its own while it has the lock. |

**Locks** (`LocksProofs`)

| Theorem | Statement | Argument |
|---|---|---|
| `EvolutionLockTypes`, `EvolutionLockExcludes`, `EvolutionLockIsKept`, `EvolutionLockReclaims` | types; exclusion, that a live lock is kept, that a reclaim removes what was shown (6) | `HolderInv`: the file an operation created is still there while the operation is between its create and its removal, names it once written, and its process is alive; `ReclaimInv`: a text a terminal asks about is of a dead process, and what it is about to remove is there and is what it was shown, because only the dead process or this terminal could remove it. |
| `OneWriterHolds` | `[]OneWriter` of `WriterLock` (7, 8) | `WriterInv`: only the owner of the database and the older client are at work (`TheOwnerWorks`), so a moved lock is moved by one of two. A lock left aside that nobody is moving stays there. As long as there is none, a holder's lock is visible or in the hands of whoever will put it back (`InReach`), and who is about to remove a lock has found its maker dead. |
| `RegisteredVaultsStay` | `EntriesStay` of `ContractIndex` (8) | `Undisturbed`: until a process has removed the lock of another that was at work, who reads and writes is the maker of the lock and what it read is still what the index holds; every entry with a standing path is of the vault registered there. |
| `UpdatesAreExclusiveWithoutEnd` | `UpdatesAreExclusive` of `ContractIndex` (8, 9) | `NoneIsTaken`: where nothing fails and nobody ends, each lock that is there has a process that will release it, so none is found stale. |
| `LocksAreTheirParts` | `LocksSpec => Spec /\ Writer!Spec /\ Index!Spec` | A step of the composition is a step of the part in focus and a stutter of the others, so what is proved of a part holds in the run. |

**Services** (`ServicesProofs`)

| Theorem | Statement | Argument |
|---|---|---|
| `OnlyGluedLinesHideChoices` | `[]OnlyGluedChoicesAreHidden` of `GapLedger` (8) | `LedgerInv`: files only grow (`Grown`), a writer's offset is at or before the end of the file it opened, and so a marker's line stands behind the marker's offset, whole or run together with one cut short, even where another writer's line came between. |
| `TheNamedRevisionIsReplaced` | `OnlyTheNamedRevisionIsReplaced` of `NoteWrite` (8) | `Judged`: past the judgement a request expects what its caller named; at a publishing step the note is still what it expects, or has been overtaken since the last check (`late`). |
| `LinksAreConnected`, `RegisteredConnectionsStay` | `[]LinksPointToConnections`, `ConnectionsStay` of `Connections` | `ConnectionInv`: a sealed change adds one connection to the registry it was sealed for, or finds it there (`SealedChange`), and is applied to that registry or to its own result; a sealed link names a connection of the registry (`SealedLink`), which no step takes out again. |
| `InterviewIsKeptWhole` | `[]InterviewIsWhole` of `InterviewLog`'s `SpecApart` (8, 10) | `InterviewInv`: the two logs together hold every event of the history, the pending ones in the order of their appends (`HoldAll`); what is under the id, and behind it what is not yet copied, is free of repetition and in each writer's order (`Orderly`); nothing is under the id before it is issued (`BeforeTheId`). Of a process that is under way, what it has read is so still: its plan is exactly the uncopied remainder (`IsPlan`), and who is about to append under the id has left nothing pending (`Aware`). So whoever takes up a move that a crash cut short goes on where it stopped. Torn lines come between at any point; the proof rests on lemmas about the lines of a log that parse, proved by the least length at which one would fail (`WFMin`, which needs no operator for a parameter). |
| `ServicesAreTheirParts` | `ServicesSpec` implies the specification of each of the five | As for the locks. |

<a id="hypotheses"></a>**Hypotheses.** The code does not establish these, and
[Where the words and the code part](#where-the-words-and-the-code-part) or a run shows what happens without them:

1. `KeepingSpec`, which is `Spec /\ [][LiveLocksAreKept]_vars`: no answer at a terminal moves aside the seal lock of a living
   process. Two theorems give cases in which every behaviour is one of these: `SealLockExcludesWithoutTerminal`
   and `SealLockExcludesAtOneTerminal`.
2. `NothingIsLost`: among the faults there is no lost link and no damaged generation; crashes, I/O errors, torn appends and
   damaged snapshots stay.
3. `OneTerminal`, `LiveLocksStayFresh`, `NobodyLeaves` (only for `SealLockExcludesAtOneTerminal`): one terminal, no live
   holder's lock reaches ten minutes, and no process ends of itself between two looks of another. A crash may still come at any step.
4. `NoLegacyStore`: the vault does not start in the old layout. Between the two renames that replace
   it there is no contract.
5. `~BusyOwner` (only for `InterruptedSealsAreAttributed` and `SealsFollowTheirParents`): the owner does not seal between
   two steps of an evolution operation. With it, `evolution_revived` violates `SealFollowsItsParent`. The limits and everything else
   about evolution are proved for an owner who seals at any time.
6. `OneTerminal` and `NamedOnly` of the evolution lock: one terminal reclaims, and the owner does not approve the removal of a lock
   that names nobody.
7. `OneOlderClient`: one client that knows only the visible lock file is about, as in the run. With two, one
   can claim the path while the other has just moved the lock of a live writer.
8. The data are what their names say: a text is not the absence of a text (`TextsAreTexts`, `LocksAreLocks`), nor, in
   `UpdatesAreExclusiveWithoutEnd`, one that could not be read or has aged; the window is
   a number (`WindowIsANumber`); a line cut short is no whole line (`CutLineDiffers`); what a request saves is no editor's
   text (`ContentsTellTheirWriter`); a path is of one vault and the one a vault was moved from is gone
   (`PathsAreOfOneVault`); a log is not the absence of one (`LogsAreLogs`).
9. `NothingHappens` (only for `UpdatesAreExclusiveWithoutEnd`): no fault, no lock that ages, no process that ends while
   another looks at its lock.
10. `SpecApart`: no two processes move the pending log or append to the log under the id at the same time (`OneUnderway`). The code
    declares that it ensures no such thing (`interview-log.ts:26`).

What is ruled out here is in the runs wherever the property checked survives it: `seal_damage` is an instance of (1) with lost links, every start
and processes that end, `evolution_limits` the busy owner, `locks` the ends of registering processes.

The parts meet at two places. `Evolution` assumes that its operations exclude each other, and
`EvolutionLockExcludes` proves it of the lock. `WriterLock` uses `ProcessOwner` for the ownership it takes
first, and `Refinement` proves that the protocol implements it.

Proved and in no run: the type invariants; `OneOwner`; `NothingAfterAbort`; `ReclaimRemovesWhatWasShown` of the evolution lock;
`UpdatesAreExclusive` where nothing happens; `SealFollowsItsParent` where the owner is not busy.

Only model-checked: `LockIsReleased`, `IndexCatchesUp`, `OwnerIsReleased` and `SteadyVectorsCatchUp`, because liveness
under fairness and `ENABLED` are beyond the prover. Every other property of a passing run is stated by a theorem.

## Where the words and the code part

Four places where a doc or a comment says one thing and the code does another are runs
(`findings` in `PROJECT.json` quotes the lines):

- **`evolution_revived`.** "Comparing the tail eventSeq, not only its digest, keeps A→B→A from
  reviving a request" holds when the gate settles the request. If the owner seals B and A
  while the gate judges, the seal compares digests only, and the request is sealed two
  events later than its parent (`evolution/seal-gate.ts:277`). With it a request may
  be sealed twice.
- **`contract_index`.** "Its read-modify-write runs under one root-wide lock" (`contract/store.ts:876`) fails without any
  fault: a process finds the lock taken and reads its owner (`:500`); the owner releases it and ends; another takes the lock;
  the first now looks for the process it read (`:507`), finds it gone, and removes by name the other's lock (`:885`). Both
  update, and one vault's entry is lost. With a crash in place of the end
  (`ContractIndexCrash.cfg`) the same happens between two processes.
- **`connections_race`.** "They were preserved" (`connection-coordinator.ts:420`): of two connections of a vault without
  settings, the second replaces the identity the first has published (`:418`), and perhaps registered, because it
  does not look again.
- **`interview_overtaken`.** "Nothing is appended after a partial copy before the copy is finished"
  (`interview-log.ts:183`), because every append under the id first runs the move. A process may
  have run it and found nothing pending, and append later: if a writer that still had the pending key has made a new pending
  log meanwhile, and a third process died copying it (`:222`), the append comes behind the partial copy. The retry no longer
  recognises that copy, and copies everything again.

Others are seen with a configuration of their own, beside the runs:

- **`SealStoreExits.cfg`: a seal lock that changed hands, at one terminal.** "No other writer races" (`generation-snapshot.ts:149`).
  The reclaim judges the lock by a process id it read before (`contract/store.ts:500`, `:507`) and renames whatever lock is
  there after the answer (`:546`). If the owner released the lock and ended in that time, this is the lock of a process at work:
  `MutualExclusion` is violated.
- **`SealStoreTerminals.cfg`: two terminals at one stale seal lock.** After one crash the second confirmation moves aside the lock
  that the first has made (`store.ts:546`): `MutualExclusion` is violated.
- **`MaintenanceUnwatched.cfg`.** "Register before scanning" (`maintenance-controller.ts:21`): a cycle whose watcher
  cannot be registered scans without one, and the cycle that registers it later does not
  scan (`:191`). A change between the two waits for the next periodic scan: `UnwatchedChangesAreScanned` is violated.
- **`MaintenancePolicy.cfg`.** "If a subsequent policy observation disagrees, the owner must rescan even if this deletion
  committed" (`embed/maintenance.ts:120`). The observations compared are those at `:109` and `:122`, but whether the note is hidden is
  read between them (`:110`): an exclusion set after the first and withdrawn before the second is noticed by neither, and
  `PurgesAreJudgedAgain` is violated. The scan that a change of policy makes due brings the note back, which
  `OnlyTheGoneArePurged` checks.
- **`GapHidden.cfg`.** "A cut-short last line keeps its bytes; the new events start on the next line"
  (`gap-ledger.ts:347`), and the marker that follows the append never hides a choice (`:360`). Whether the file ends in a whole
  line is read before the write (`:338`, `:348`), so a line that another process leaves torn in between is run together with
  the choice, whose marker then counts: `SeenChoicesAreShown` is violated.

More show when a run's constants are changed, or the named definition is added to a run:

- **A lost link.** The changelog says lineage-recover records a lost link, and the
  health report names it as the recovery. The repair accepts only vaults with a sealed
  contract in place, and a lost link is the absence of one: it answers
  `CONTRACT_NOT_SEALED` (`doctor/service.ts:221`; `LostLinkIsRecoverable` of `SealStore`).
- **The base of a request.** `evolve` reads the contract, then the tail. An owner's seal
  between the two gives a request whose candidate was drafted from the old contract and whose
  parent is the new one: it passes every later check and undoes the owner's seal
  (`evolution/evolve.ts:62`; `SealReplacesItsBase` of `Evolution`).
- **An interrupted seal after a lost link.** With lost links among the faults,
  `RecoverFinishesInterruptedSeal` is violated: a seal that restarts after a lost link
  and dies before its event leaves a tail that is classified as a gap (`store.ts:779`), where
  the comment at `store.ts:725` says a crashed seal and a lost link are recorded under either policy.
- **A crash while a legacy directory is aside.** With `Starts` the legacy store alone,
  `InterruptedSealKeepsContract` is violated: between the two renames at `store.ts:815`
  the vault has no contract, and a crash there has no rollback; the comment at
  `store.ts:752` says the previous contract stays in place.
- **Two terminals at one evolution lock, or an unnamed lock.** With two terminals
  `MutualExclusion` and `ReclaimRemovesWhatWasShown` of `EvolutionLock` are violated: the text
  is compared, then the file is removed by name (`evolution-lock.ts:151`, against :135). With
  `ApprovesUnnamed = TRUE` a lock just created and not yet written may be removed under its
  live owner (`evolution-lock.ts:145`, against :133).
- **`isConverged` has no caller.** `convergence.ts:8` says a converged candidate is never issued;
  nothing in the program asks.

Observations that contradict no text: the owner may reject a request whose seal was swapped
in and interrupted, and the recovered event then overrules the answer; a seal lock held by
a process that failed to write its owner blocks later seals for ten minutes.

## Not modelled

- **Parsing, formatting, scoring, embedding.** The outcome of a stage, a judge or a model
  is a nondeterministic choice where a modelled part asks for it.
- **Several hosts on one vault.** Of another host's lock the code can judge only the age;
  the models are of one host.
- **The file system below a call.** A rename, a create and a removal are atomic and durable in
  order; `fsync` and directory sync are taken to do what they say. Appends are
  not atomic (`TearAppend`).
- **Two processes appending to one lineage at once.** Under the seal lock there are none. Where the lock is broken, an append
  that lands after another's read of the tail is dropped by the truncation to the length that was read
  (`lineage.ts:310`, `:325`), as in the code; writes that interleave within a line are not modelled.
- **`retryRequest` and `runConsensus`.** Nothing in the program calls them.
- **Within the modules.**
  - *Store and lineage*: of damage to a lineage file only a last line cut short; a corrupt `index.json`; the status rows
    and the readback of the doctor.
  - *MaintenanceOwner*: one caller in each process.
  - *WriterLock*: more than one older client.
  - *MaintenanceController*: how long delays are and how failures are counted; a fingerprint that cannot be taken; the
    configuration of models.
  - *EmbeddingIndex*: queries and read snapshots; a missing `sqlite-vec`; the sidecar files of SQLite (`sync.ts:723`),
    where the claim is the database's; collection scopes. A forced rebuild that is given a list of files removes what
    is not in the list (`sync.ts:523`): the model does that too, and no property forbids it.
  - *NoteWrite*: the judge is a choice; a temporary file left by a crash; a note whose present content cannot be read.
  - *GapLedger*: two ledgers that begin with the same line; the pruning of markers and the writing of one are one step;
    drafts.
  - *InterviewLog*: a name other than that of the two logs; a directory that cannot be read. The steps are the calls of the code, so
    two moves may overlap in `Spec`; what is claimed is claimed of `SpecApart` (hypothesis 10).
  - *Connections*: one project, one linked folder, one process per operation; an entry's revision does not change;
    `Prepare` is one step for all it reads, `Migrate` one for all it writes. The last gap of a removal, between the second
    look and the removal, is not there (`link.ts:746`). A registry lock of a dead process is not taken over, as in
    the code (`connection-registry.ts:592`): `RemoveLocks` is the operator.
- **The components in the second table, the event journal, update and the MCP server.** Most of the
  implementation's lines score, parse, format, query SQLite, call a model or a package manager, or map arguments. They
  have little control: what is wrong there is wrong in the data, where a model would repeat the code, or
  in a library. The 7 % of the implementation's lines that definitions stand for are the ones
  with state that several actors share. `components` in `PROJECT.json` says of each why it is left out.

## What is left

The plan of this project was, in this order: the seal store with lineage and readers; evolution, the only part that
changes a contract without its owner; the locks; index maintenance and the index; the services. All of these are
modelled. What a further step would add, in the order of its worth:

1. Theorems about the seal store with a legacy directory among its starts, where `RecordInv` has to say what the two
   renames of `store.ts:815` leave between them; `OneWriter` with any number of older clients, as far as the code
   keeps it.
2. The composition of `MaintenanceController` with `EmbeddingIndex`: today the controller's index is a version per note.
3. `EventJournal` (at most one row per event) and `Update` (a failed update restores what ran before).
4. Pure operators against reference definitions over bounded inputs: the direction of a mutation, rank fusion, bounded
   traversal, link resolution.
