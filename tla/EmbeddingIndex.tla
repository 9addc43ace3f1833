--------------------------- MODULE EmbeddingIndex ---------------------------
(***************************************************************************)
(* The embedding index of a vault (src/kernel/engine/embed): the chunks of *)
(* every note with their vectors, the source each note was indexed from,   *)
(* the queue of notes whose vectors are due, and the identity of the model *)
(* the vectors are of.  Processes maintain it note by note (maintenance.ts,*)
(* index-update.ts), synchronise it as a whole or replace it by a new      *)
(* generation (sync.ts), while the notes are edited.                       *)
(*                                                                         *)
(* A text is the sequence of its chunks' digests.  A step is what runs     *)
(* between two awaits: one transaction, under the writer lock.  Two equal  *)
(* texts have the same source: the code compares bytes where the file      *)
(* system keeps no change time, and is stricter elsewhere.                 *)
(***************************************************************************)
EXTENDS Naturals, Sequences, FiniteSets

CONSTANTS
  Docs,        \* the notes
  Texts,       \* what a note can hold: sequences of chunk digests
  Procs,       \* processes that use the index
  Models,      \* embedding models
  Revisions,   \* revisions of queue entries: more than can be in use at once
  Nothing,     \* no text, no vector, no model, no writer
  Absent,      \* not in the queue
  Unrevised,   \* in the queue of a version that kept no revisions
  AllFiles,    \* a sync of the whole vault
  Slices,      \* the explicit lists of files a sync can be given
  Workers,     \* documents in flight in one sync
  MaxEdits,    \* bound: edits of notes and of the exclusion policy
  MaxOps,      \* bound: operations begun
  MaxStops     \* bound: operations cut short

\* The digests of chunks, and their vectors.
Chunks == UNION {{text[i] : i \in DOMAIN text} : text \in Texts}
Vectors == [of : Chunks, by : Models]

\* A queue entry and a read of it each hold one revision, and there are more.
ASSUME EmbeddingAssumption ==
  /\ Texts \subseteq Seq(Chunks)
  /\ Nothing \notin Texts /\ Nothing \notin Models /\ Nothing \notin Procs
  /\ Nothing \notin Vectors
  /\ Slices \subseteq SUBSET Docs
  /\ Absent \notin Revisions /\ Unrevised \notin Revisions /\ Absent # Unrevised
  /\ IsFiniteSet(Docs) /\ IsFiniteSet(Procs)
  /\ IsFiniteSet(Revisions) =>
       Cardinality(Revisions) > Cardinality(Docs) * (1 + Cardinality(Procs))

VARIABLES
  note,     \* the text of every note, or Nothing
  hidden,   \* the notes the policy excludes
  db,       \* the active generation
  writer,   \* who holds the writer lock across awaits
  op,       \* each process's operation
  edits, ops, stops

vars == <<note, hidden, db, writer, op, edits, ops, stops>>

Idle == [kind |-> "idle"]
Busy(p, kind) == op[p].kind = kind
Set(p, record) == op' = [op EXCEPT ![p] = record]
Begin(p) == Busy(p, "idle") /\ ops < MaxOps /\ ops' = ops + 1

-----------------------------------------------------------------------------
(* A generation: store.ts, revision.ts and source.ts *)

EmptyDb == [rows |-> [d \in Docs |-> <<>>], source |-> [d \in Docs |-> Nothing],
            queue |-> [d \in Docs |-> Absent], identity |-> Nothing]

\* The digests under which the rows of a note stand, and what they are without the mark.
Shas(rows) == [i \in DOMAIN rows |-> <<rows[i].dirty, rows[i].sha>>]
Digests(rows) == [i \in DOMAIN rows |-> rows[i].sha]
IsClean(rows) == \A i \in DOMAIN rows : ~rows[i].dirty
IsCovered(rows) == \A i \in DOMAIN rows : rows[i].vector # Nothing

\* A revision nobody has seen.
InUse == {db.queue[d] : d \in Docs} \cup
         {op[p].revision : p \in {q \in Procs : op[q].kind = "maintain"}} \cup
         UNION {{op[p].plans[d].revision : d \in DOMAIN op[p].plans} :
                  p \in {q \in Procs : op[q].kind \in {"embed", "sync"}}}
Fresh == CHOOSE r \in Revisions : r \notin InUse

\* Every change of a note's rows gives its queue entry a new revision.
Invalidate(t, d) == [t EXCEPT !.source[d] = Nothing,
                              !.queue[d] = IF @ = Absent THEN Absent ELSE Fresh]

ClearDocument(t, d) == [Invalidate(t, d) EXCEPT !.rows[d] = <<>>]

Row(sha, vector) == [sha |-> sha, dirty |-> FALSE, vector |-> vector]

\* The rows of the given ordinals are replaced: without vectors, or with a model's.
Upsert(t, d, text, ordinals, model) ==
  IF ordinals = {} THEN t
  ELSE [Invalidate(t, d) EXCEPT !.rows[d] = [i \in DOMAIN text |->
          IF i \notin ordinals THEN t.rows[d][i]
          ELSE Row(text[i], IF model = Nothing THEN Nothing
                            ELSE [of |-> text[i], by |-> model])]]

RecordSource(t, d, text) == [t EXCEPT !.source[d] = text]

MarkDirty(t, docs) ==
  [t EXCEPT !.rows = [d \in Docs |-> IF d \notin docs THEN t.rows[d]
                       ELSE [i \in DOMAIN t.rows[d] |-> [t.rows[d][i] EXCEPT !.dirty = TRUE]]]]

Enqueue(t, d) == [MarkDirty(t, {d}) EXCEPT !.queue[d] = Fresh]
Dequeue(t, d) == [t EXCEPT !.queue[d] = Absent]

Queued(t) == {d \in Docs : t.queue[d] # Absent}
Known(t) == {d \in Docs : t.rows[d] # <<>> \/ t.source[d] # Nothing}
HasChunks(t) == \E d \in Docs : t.rows[d] # <<>>

-----------------------------------------------------------------------------
(* maintainDocumentIndex: one note's rows, its vectors queued *)

\* The note is read; one that the policy hides is only looked at by a scan that purges.
ReadToMaintain(p, d, purge) ==
  /\ Begin(p) /\ (d \in hidden => purge)
  /\ Set(p, [kind |-> "maintain", doc |-> d, text |-> note[d], purge |-> d \in hidden,
             revision |-> db.queue[d]])
  /\ UNCHANGED <<note, hidden, db, writer, edits, stops>>

\* Nothing to do: the rows are of this source, and are not queued without a revision.
IsPending(t, d, text) ==
  /\ t.source[d] = text /\ t.queue[d] # Unrevised
  /\ Digests(t.rows[d]) = text

\* Published only if the note still reads as it did; another writer's lock ends it.
Maintain(p) ==
  LET o == op[p]
      d == o.doc
      removed == Dequeue(ClearDocument(db, d), d)
      lexical == Upsert(ClearDocument(db, d), d, o.text, DOMAIN o.text, Nothing) IN
  /\ Busy(p, "maintain")
  /\ db' = IF writer # Nothing \/ note[d] # o.text THEN db
           ELSE IF o.purge THEN IF db.queue[d] = o.revision THEN removed ELSE db
           ELSE IF o.text = Nothing THEN removed
           ELSE IF IsPending(db, d, o.text) THEN db
           ELSE Enqueue(RecordSource(lexical, d, o.text), d)
  /\ Set(p, Idle)
  /\ UNCHANGED <<note, hidden, writer, edits, ops, stops>>

-----------------------------------------------------------------------------
(* embedQueuedDocument: the vectors of one queued note *)

NoPlans == [d \in {} |-> Nothing]
Plan(t, d) == [text |-> note[d], revision |-> t.queue[d], shas |-> Shas(t.rows[d])]

ReadToEmbed(p, d, model) ==
  /\ Begin(p) /\ d \notin hidden /\ note[d] # Nothing
  /\ Set(p, [kind |-> "embed", stage |-> "read", doc |-> d, model |-> model,
             text |-> note[d], plans |-> NoPlans])
  /\ UNCHANGED <<note, hidden, db, writer, edits, stops>>

\* The entry is there, for this source and this model; one whose vectors are complete is
\* finished at once, and any other has its rows marked under a revision.
PrepareEmbedding(p) ==
  LET o == op[p]
      d == o.doc
      rows == db.rows[d]
      usable == /\ writer = Nothing /\ note[d] = o.text
                /\ db.queue[d] # Absent /\ db.source[d] = o.text
                /\ db.identity = o.model /\ Digests(rows) = o.text
      complete == IsClean(rows) /\ IsCovered(rows)
      marked == IF db.queue[d] = Unrevised \/ (\E i \in DOMAIN rows : ~rows[i].dirty)
                THEN Enqueue(db, d) ELSE db IN
  /\ Busy(p, "embed") /\ o.stage = "read"
  /\ IF ~usable THEN Set(p, Idle) /\ UNCHANGED db
     ELSE IF complete THEN Set(p, Idle) /\ db' = Dequeue(db, d)
     ELSE /\ db' = marked
          /\ Set(p, [o EXCEPT !.stage = "infer", !.plans = [e \in {d} |-> Plan(marked, e)]])
  /\ UNCHANGED <<note, hidden, writer, edits, ops, stops>>

\* Nothing may have changed while the vectors were computed.
StillPlanned(t, d, plan) ==
  /\ note[d] = plan.text /\ t.queue[d] = plan.revision /\ Shas(t.rows[d]) = plan.shas

\* Mutant of CommitEmbedding: neither the model nor the entry is looked at again.
CommitLateEmbedding(p) ==
  LET o == op[p]
      d == o.doc IN
  /\ Busy(p, "embed") /\ o.stage = "infer"
  /\ db' = IF writer = Nothing /\ note[d] = o.text
           THEN Dequeue(RecordSource(Upsert(db, d, o.text, DOMAIN o.text, o.model), d, o.text), d)
           ELSE db
  /\ Set(p, Idle)
  /\ UNCHANGED <<note, hidden, writer, edits, ops, stops>>

CommitEmbedding(p) ==
  LET o == op[p]
      d == o.doc IN
  /\ Busy(p, "embed") /\ o.stage = "infer"
  /\ db' = IF writer = Nothing /\ db.identity = o.model /\ StillPlanned(db, d, o.plans[d])
           THEN Dequeue(RecordSource(Upsert(db, d, o.text, DOMAIN o.text, o.model), d, o.text), d)
           ELSE db
  /\ Set(p, Idle)
  /\ UNCHANGED <<note, hidden, writer, edits, ops, stops>>

-----------------------------------------------------------------------------
(* syncEngineStore *)

\* The files of a sync: those of the walk, or the list as it was given.
Selected(files) ==
  (IF files = AllFiles THEN {d \in Docs : note[d] # Nothing} ELSE files) \ hidden

\* Mutant of Mismatch: a generation without an identity takes any model.
MismatchOfKnown(model) == db.identity \notin {model, Nothing}

\* Chunks without an identity are of an unknown model.
Mismatch(model) ==
  db.identity # model /\ (db.identity # Nothing \/ HasChunks(db))

Sync(p, files, model, queueing, rebuild, drain) ==
  Set(p, [kind |-> "sync", files |-> files, model |-> model, queueing |-> queueing,
          rebuild |-> rebuild, drain |-> drain, selected |-> Selected(files),
          todo |-> Selected(files), plans |-> NoPlans, shadow |-> EmptyDb,
          failed |-> FALSE, stage |-> "documents"])

\* A lexical sync; a note that was written queues its vectors as well (updateKeywordIndex).
BeginLexical(p, files, queueing) ==
  /\ Begin(p) /\ writer = Nothing
  /\ writer' = p
  /\ Sync(p, files, Nothing, queueing, FALSE, FALSE)
  /\ UNCHANGED <<note, hidden, db, edits, stops>>

\* A sync with a model; another model's generation is refused, or rebuilt by force.
BeginEmbedding(p, files, model, force) ==
  /\ Begin(p) /\ writer = Nothing
  /\ Mismatch(model) => force
  /\ writer' = p
  /\ Sync(p, files, model, FALSE, Mismatch(model), FALSE)
  /\ UNCHANGED <<note, hidden, db, edits, stops>>

\* The doctor's sync: the queued notes are marked first, whatever becomes of the sync.
PrepareDrain(p) ==
  /\ Begin(p) /\ writer = Nothing
  /\ db' = MarkDirty(db, Queued(db))
  /\ Set(p, [kind |-> "doctor", stage |-> "sync"])
  /\ UNCHANGED <<note, hidden, writer, edits, stops>>

BeginDrain(p, model, force) ==
  /\ Busy(p, "doctor") /\ op[p].stage = "sync"
  /\ IF writer # Nothing \/ (Mismatch(model) /\ ~force) THEN Set(p, Idle) /\ UNCHANGED writer
     ELSE /\ Sync(p, AllFiles, model, FALSE, Mismatch(model), TRUE)
          /\ writer' = p
  /\ UNCHANGED <<note, hidden, db, edits, ops, stops>>

Target(o) == IF o.rebuild THEN o.shadow ELSE db
InFlight(o) == DOMAIN o.plans

\* A worker takes a document and reads it; one that cannot be read fails the sync.
PlanDocument(p, d) ==
  LET o == op[p] IN
  /\ Busy(p, "sync") /\ o.stage = "documents" /\ ~o.failed /\ d \in o.todo
  /\ Cardinality(InFlight(o)) < (IF o.model = Nothing THEN 1 ELSE Workers)
  /\ Set(p, IF note[d] = Nothing THEN [o EXCEPT !.todo = @ \ {d}, !.failed = TRUE]
            ELSE [o EXCEPT !.todo = @ \ {d},
                           !.plans = [e \in InFlight(o) \cup {d} |->
                              IF e = d THEN Plan(Target(o), d) ELSE o.plans[e]]])
  /\ UNCHANGED <<note, hidden, db, writer, edits, ops, stops>>

\* The rows to write: all of them, or those whose digest differs or that lack a vector.
Changed(o, rows, text) ==
  IF o.rebuild \/ Len(rows) # Len(text) THEN DOMAIN text
  ELSE {i \in DOMAIN text : rows[i].dirty \/ rows[i].sha # text[i]
                            \/ (o.model # Nothing /\ rows[i].vector = Nothing)}

Synced(o, t, d, plan) ==
  LET rows == t.rows[d]
      base == IF o.rebuild \/ Len(rows) # Len(plan.text) THEN ClearDocument(t, d) ELSE t
      written == RecordSource(Upsert(base, d, plan.text, Changed(o, rows, plan.text), o.model),
                              d, plan.text) IN
  IF o.model = Nothing /\ (o.queueing \/ plan.revision # Absent)
  THEN Enqueue(written, d) ELSE written

SyncDocument(p, d) ==
  LET o == op[p]
      left == [o EXCEPT !.plans = [e \in InFlight(o) \ {d} |-> o.plans[e]]]
      t == Target(o)
      next == Synced(o, t, d, o.plans[d]) IN
  /\ Busy(p, "sync") /\ d \in InFlight(o)
  /\ IF ~StillPlanned(t, d, o.plans[d])
     THEN Set(p, [left EXCEPT !.failed = TRUE]) /\ UNCHANGED db
     ELSE IF o.rebuild THEN Set(p, [left EXCEPT !.shadow = next]) /\ UNCHANGED db
     ELSE db' = next /\ Set(p, left)
  /\ UNCHANGED <<note, hidden, writer, edits, ops, stops>>

AllDone(p) == /\ Busy(p, "sync") /\ op[p].stage = "documents"
              /\ op[p].todo = {} /\ InFlight(op[p]) = {} /\ ~op[p].failed

\* The first failure ends the sync once no worker is in flight.
FailSync(p) ==
  /\ Busy(p, "sync") /\ op[p].failed /\ InFlight(op[p]) = {}
  /\ writer' = Nothing /\ Set(p, Idle)
  /\ UNCHANGED <<note, hidden, db, edits, ops, stops>>

\* A walk of the whole vault removes what it did not meet; then the model is recorded.
Reconcile(t, selected) ==
  LET gone == Known(t) \ selected IN
  [rows |-> [d \in Docs |-> IF d \in gone THEN <<>> ELSE t.rows[d]],
   source |-> [d \in Docs |-> IF d \in gone THEN ClearDocument(t, d).source[d] ELSE t.source[d]],
   queue |-> [d \in Docs |-> IF d \in gone THEN Invalidate(t, d).queue[d] ELSE t.queue[d]],
   identity |-> t.identity]

FinishDocuments(p) ==
  LET o == op[p] IN
  /\ AllDone(p) /\ ~o.rebuild
  /\ db' = IF o.files = AllFiles THEN Reconcile(db, o.selected) ELSE db
  /\ IF o.model = Nothing THEN writer' = Nothing /\ Set(p, Idle)
     ELSE Set(p, [o EXCEPT !.stage = "identity"]) /\ UNCHANGED writer
  /\ UNCHANGED <<note, hidden, edits, ops, stops>>

AfterSync(o) == IF o.drain THEN [kind |-> "doctor", stage |-> "complete"] ELSE Idle

RecordIdentity(p) ==
  /\ Busy(p, "sync") /\ op[p].stage = "identity"
  /\ db' = [db EXCEPT !.identity = op[p].model]
  /\ writer' = Nothing /\ Set(p, AfterSync(op[p]))
  /\ UNCHANGED <<note, hidden, edits, ops, stops>>

\* The new generation has every selected note and no other, and takes the old one's place.
SwapGeneration(p) ==
  LET o == op[p]
      shadow == [o.shadow EXCEPT !.identity = o.model]
      valid == {d \in Docs : shadow.source[d] # Nothing} = o.selected IN
  /\ AllDone(p) /\ o.rebuild
  /\ db' = IF valid THEN shadow ELSE db
  /\ writer' = Nothing /\ Set(p, IF valid THEN AfterSync(o) ELSE Idle)
  /\ UNCHANGED <<note, hidden, edits, ops, stops>>

\* Mutant of CompleteDrain: what was queued before the sync has been embedded by it.
CompleteAll(p) ==
  /\ Busy(p, "doctor") /\ op[p].stage = "complete"
  /\ db' = IF writer # Nothing THEN db ELSE [db EXCEPT !.queue = [d \in Docs |-> Absent]]
  /\ Set(p, Idle)
  /\ UNCHANGED <<note, hidden, writer, edits, ops, stops>>

\* The entries whose notes have no marked row leave the queue.
CompleteDrain(p) ==
  /\ Busy(p, "doctor") /\ op[p].stage = "complete"
  /\ db' = IF writer # Nothing THEN db
           ELSE [db EXCEPT !.queue = [d \in Docs |-> IF IsClean(db.rows[d]) THEN Absent
                                                     ELSE db.queue[d]]]
  /\ Set(p, Idle)
  /\ UNCHANGED <<note, hidden, writer, edits, ops, stops>>

-----------------------------------------------------------------------------
(* The surroundings *)

\* An operation is aborted, or its process dies: what it holds in memory is gone, and the
\* lock of a dead process does not stand in the way.
Stop(p) ==
  /\ ~Busy(p, "idle") /\ stops < MaxStops
  /\ stops' = stops + 1
  /\ Set(p, Idle)
  /\ writer' = IF writer = p THEN Nothing ELSE writer
  /\ UNCHANGED <<note, hidden, db, edits, ops>>

Edit(d) ==
  /\ edits < MaxEdits /\ edits' = edits + 1
  /\ \E text \in Texts \cup {Nothing} : text # note[d] /\ note' = [note EXCEPT ![d] = text]
  /\ UNCHANGED <<hidden, db, writer, op, ops, stops>>

ChangePolicy(d) ==
  /\ edits < MaxEdits /\ edits' = edits + 1
  /\ hidden' = IF d \in hidden THEN hidden \ {d} ELSE hidden \cup {d}
  /\ UNCHANGED <<note, db, writer, op, ops, stops>>

-----------------------------------------------------------------------------
(* Specification *)

\* Nothing indexed yet; indexed with a model; or indexed and queued by an older version.
Init ==
  /\ note \in [Docs -> Texts] /\ hidden = {} /\ writer = Nothing
  /\ op = [p \in Procs |-> Idle] /\ edits = 0 /\ ops = 0 /\ stops = 0
  /\ \/ db = EmptyDb
     \/ \E model \in Models : \E queued \in {Absent, Unrevised} :
          db = [rows |-> [d \in Docs |-> [i \in DOMAIN note[d] |->
                            Row(note[d][i], IF queued = Absent THEN [of |-> note[d][i], by |-> model]
                                            ELSE Nothing)]],
                source |-> note, queue |-> [d \in Docs |-> queued], identity |-> model]

Step(p) ==
  \/ \E d \in Docs : \/ \E purge \in BOOLEAN : ReadToMaintain(p, d, purge)
                     \/ \E model \in Models : ReadToEmbed(p, d, model)
                     \/ PlanDocument(p, d)
                     \/ SyncDocument(p, d)
  \/ Maintain(p) \/ PrepareEmbedding(p) \/ CommitEmbedding(p)
  \/ \E files \in Slices \cup {AllFiles} :
       \/ \E queueing \in BOOLEAN : BeginLexical(p, files, queueing)
       \/ \E model \in Models, force \in BOOLEAN : BeginEmbedding(p, files, model, force)
  \/ PrepareDrain(p)
  \/ \E model \in Models, force \in BOOLEAN : BeginDrain(p, model, force)
  \/ FailSync(p) \/ FinishDocuments(p) \/ RecordIdentity(p) \/ SwapGeneration(p)
  \/ CompleteDrain(p) \/ Stop(p)

Next == (\E p \in Procs : Step(p)) \/ (\E d \in Docs : Edit(d) \/ ChangePolicy(d))

Spec == Init /\ [][Next]_vars

-----------------------------------------------------------------------------
(* Properties *)

\* "Remove the old vector before replacing metadata so a later vector query cannot return a
\* stale hit" (store.ts:838): a vector is of the text of its row and of the generation's
\* model, however the passes that replace rows, the late answers of the models and the
\* swaps of generations follow each other.  And a note that counts as indexed from a
\* source has that source's rows.
RowsAgree ==
  \A d \in Docs :
    /\ \A i \in DOMAIN db.rows[d] :
         LET row == db.rows[d][i] IN
         row.vector # Nothing => /\ row.vector.of = row.sha
                                 /\ db.identity \in {row.vector.by, Nothing}
    /\ db.source[d] # Nothing => Digests(db.rows[d]) = db.source[d]

\* "only the ones it did are dequeued" (doctor/service.ts:383): a note leaves the queue with
\* vectors for all its rows, whoever takes it out and whatever was queued meanwhile.
DequeuedNotesHaveVectors ==
  [][\A d \in Docs : db.queue[d] # Absent /\ db'.queue[d] = Absent =>
       IsClean(db'.rows[d]) /\ IsCovered(db'.rows[d])]_vars

\* "a complete old database or the complete new one, never a partial build" (sync.ts:730):
\* when a generation gets its model every row in it has a vector of that model, after
\* whatever failed or unfinished syncs went before.
IdentityMeansComplete ==
  [][db'.identity # db.identity =>
       \A d \in Docs : \A i \in DOMAIN db'.rows[d] :
         db'.rows[d][i].vector # Nothing /\ db'.rows[d][i].vector.by = db'.identity]_vars
=============================================================================
