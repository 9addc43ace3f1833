------------------------ MODULE EmbeddingIndexProofs ------------------------
(***************************************************************************)
(* Proofs about EmbeddingIndex, for any notes, texts, processes and models *)
(* and any number of edits and operations: the vectors of a generation are *)
(* of its rows and of its model, a note leaves the queue with vectors for  *)
(* all its rows, and a generation that gets a model has them everywhere.   *)
(***************************************************************************)
EXTENDS EmbeddingIndex, FiniteSetTheorems, FunctionTheorems, SequenceTheorems, TLAPS

-----------------------------------------------------------------------------
(* Types *)

Rows == [sha : Chunks, dirty : BOOLEAN, vector : Vectors \cup {Nothing}]
Entries == Revisions \cup {Absent, Unrevised}
Dbs == [rows : [Docs -> Seq(Rows)], source : [Docs -> Texts \cup {Nothing}],
        queue : [Docs -> Entries], identity : Models \cup {Nothing}]
PlanRecords == [text : Texts, revision : Entries, shas : Seq(BOOLEAN \X Chunks)]
Plans == UNION {[docs -> PlanRecords] : docs \in SUBSET Docs}

MaintainOps == [kind : {"maintain"}, doc : Docs, text : Texts \cup {Nothing}, purge : BOOLEAN,
                revision : Entries]
EmbedOps == [kind : {"embed"}, stage : {"read", "infer"}, doc : Docs, model : Models,
             text : Texts, plans : Plans]
DoctorOps == [kind : {"doctor"}, stage : {"sync", "complete"}]
SyncOps == [kind : {"sync"}, files : Slices \cup {AllFiles}, model : Models \cup {Nothing},
            queueing : BOOLEAN, rebuild : BOOLEAN, drain : BOOLEAN,
            selected : SUBSET Docs, todo : SUBSET Docs, plans : Plans, shadow : Dbs,
            failed : BOOLEAN, stage : {"documents", "identity"}]

OpTyped(o) ==
  /\ o.kind \in {"idle", "maintain", "embed", "doctor", "sync"}
  /\ o.kind = "maintain" => o \in MaintainOps
  /\ o.kind = "embed" => o \in EmbedOps
  /\ o.kind = "doctor" => o \in DoctorOps
  /\ o.kind = "sync" => o \in SyncOps

-----------------------------------------------------------------------------
(* The inductive invariant *)

\* Every vector is the model's.
By(rows, model) == \A i \in DOMAIN rows : rows[i].vector # Nothing => rows[i].vector.by = model

\* Only marked rows lack a vector.
Marked(rows) == \A i \in DOMAIN rows : rows[i].dirty \/ rows[i].vector # Nothing

\* A vector is of its row's text, and a source has its rows.
VectorsAgree(rows) ==
  \A i \in DOMAIN rows : rows[i].vector # Nothing => rows[i].vector.of = rows[i].sha

Agrees(t, d) ==
  /\ VectorsAgree(t.rows[d])
  /\ t.source[d] # Nothing => Digests(t.rows[d]) = t.source[d]

\* And the vectors are of the generation's model; an entry with a revision has its rows marked.
Sound(t, d) ==
  /\ Agrees(t, d)
  /\ t.identity # Nothing => By(t.rows[d], t.identity)
  /\ t.queue[d] \in Revisions => Marked(t.rows[d])

\* Every entry has its rows marked: where an older version left one that has not, the doctor
\* marks it before its sync.
Drained(t, d) == t.queue[d] # Absent => Marked(t.rows[d])

Draining(o) == o.kind = "doctor" \/ (o.kind = "sync" /\ o.drain)

\* A sync in place writes the generation's own model; a generation without one has nothing
\* but what the sync has written.
InPlace(t, o) ==
  /\ t.identity \in {o.model, Nothing}
  /\ \A d \in Docs : By(t.rows[d], o.model)
  /\ t.identity = Nothing => \A d \in Docs : IsCovered(t.rows[d])

\* A new generation has vectors everywhere.
Rebuilt(o) ==
  /\ o.model \in Models /\ o.shadow.identity = Nothing
  /\ \A d \in Docs : /\ Sound(o.shadow, d) /\ By(o.shadow.rows[d], o.model)
                     /\ IsClean(o.shadow.rows[d]) /\ IsCovered(o.shadow.rows[d])

\* What was planned for a document has the digests of its text.
PlanOf(plan, text) ==
  DOMAIN plan.shas = DOMAIN text /\ \A i \in DOMAIN text : plan.shas[i][2] = text[i]

\* What an operation relies on in the generation it works on.
Rests(t, o) ==
  /\ o.kind = "sync" /\ o.rebuild => Rebuilt(o)
  /\ o.kind = "sync" /\ ~o.rebuild /\ o.model # Nothing => InPlace(t, o)
  /\ o.kind = "sync" /\ o.stage = "identity" => ~o.rebuild /\ o.model # Nothing
  /\ o.kind = "embed" /\ o.stage = "infer" =>
       DOMAIN o.plans = {o.doc} /\ PlanOf(o.plans[o.doc], o.text)
  /\ Draining(o) => \A d \in Docs : Drained(t, d)

NotesTyped == note \in [Docs -> Texts \cup {Nothing}] /\ hidden \subseteq Docs
OpsTyped == DOMAIN op = Procs /\ \A p \in Procs : OpTyped(op[p])
TheWriterSyncs ==
  writer \in Procs \cup {Nothing} /\ \A p \in Procs : op[p].kind = "sync" <=> writer = p
DbSound == db \in Dbs /\ \A d \in Docs : Sound(db, d)
OpsRest == \A p \in Procs : Rests(db, op[p])

IndexInv == NotesTyped /\ OpsTyped /\ TheWriterSyncs /\ DbSound /\ OpsRest

-----------------------------------------------------------------------------
(* Lemmas about revisions *)

\* Whoever holds a revision holds one for each note at most.
HeldBy(x) ==
  IF x[1] = Nothing THEN db.queue[x[2]]
  ELSE IF op[x[1]].kind = "maintain" THEN op[x[1]].revision
  ELSE op[x[1]].plans[x[2]].revision

\* There is always a revision that nobody holds.
LEMMA FreshIsRevision ==
  ASSUME OpsTyped
  PROVE  Fresh \in Revisions
<1> DEFINE holders == ({Nothing} \cup Procs) \X Docs
           held == [x \in holders |-> HeldBy(x)]
<1>1. IsFiniteSet(holders)
      /\ Cardinality(holders) = Cardinality({Nothing} \cup Procs) * Cardinality(Docs)
  <2>1. IsFiniteSet({Nothing} \cup Procs)
    BY FS_AddElement, EmbeddingAssumption
  <2> QED BY <2>1, FS_Product, EmbeddingAssumption
<1>2. Cardinality({Nothing} \cup Procs) = 1 + Cardinality(Procs)
  <2>1. Cardinality(Procs \cup {Nothing}) = Cardinality(Procs) + 1
    BY FS_AddElement, EmbeddingAssumption
  <2>2. Cardinality(Procs) \in Nat
    BY FS_CardinalityType, EmbeddingAssumption
  <2>3. {Nothing} \cup Procs = Procs \cup {Nothing}
    OBVIOUS
  <2> QED BY <2>1, <2>2, <2>3
<1>3. IsFiniteSet(Range(held)) /\ Cardinality(Range(held)) <= Cardinality(holders)
  <2>1. held \in Surjection(holders, Range(held))
    BY DEF Surjection, Range
  <2> HIDE DEF held, holders
  <2> QED BY <1>1, <2>1, FS_Surjection
<1>4. InUse \subseteq Range(held)
  <2> SUFFICES ASSUME NEW r \in InUse
               PROVE  \E x \in holders : r = HeldBy(x)
    BY DEF Range
  <2>1. CASE \E d \in Docs : r = db.queue[d]
    <3>1. PICK d \in Docs : r = db.queue[d]
      BY <2>1
    <3> WITNESS <<Nothing, d>> \in holders
    <3> QED BY <3>1 DEF HeldBy
  <2>2. CASE \E p \in Procs : op[p].kind = "maintain" /\ r = op[p].revision
    <3>1. PICK p \in Procs : op[p].kind = "maintain" /\ r = op[p].revision
      BY <2>2
    <3>2. op[p].doc \in Docs /\ p # Nothing
      BY <3>1, EmbeddingAssumption DEF OpsTyped, OpTyped, MaintainOps
    <3>3. <<p, op[p].doc>> \in holders
      BY <3>2
    <3> WITNESS <<p, op[p].doc>> \in holders
    <3> QED BY <3>1, <3>2 DEF HeldBy
  <2>3. CASE \E p \in Procs : /\ op[p].kind \in {"embed", "sync"}
                              /\ \E d \in DOMAIN op[p].plans : r = op[p].plans[d].revision
    <3>1. PICK p \in Procs : /\ op[p].kind \in {"embed", "sync"}
                             /\ \E d \in DOMAIN op[p].plans : r = op[p].plans[d].revision
      BY <2>3
    <3>2. PICK d \in DOMAIN op[p].plans : r = op[p].plans[d].revision
      BY <3>1
    <3>3. op[p].plans \in Plans /\ p # Nothing
      BY <3>1, EmbeddingAssumption DEF OpsTyped, OpTyped, EmbedOps, SyncOps
    <3>4. d \in Docs
      BY <3>2, <3>3 DEF Plans
    <3>5. op[p].kind # "maintain"
      BY <3>1
    <3>6. <<p, d>> \in holders
      BY <3>4
    <3> WITNESS <<p, d>> \in holders
    <3> QED BY <3>2, <3>3, <3>5 DEF HeldBy
  <2> QED BY <2>1, <2>2, <2>3 DEF InUse
<1>5. ASSUME Revisions \subseteq InUse PROVE FALSE
  <2>1. Revisions \in SUBSET Range(held)
    BY <1>4, <1>5
  <2>2. IsFiniteSet(Revisions) /\ Cardinality(Revisions) <= Cardinality(Range(held))
    <3> HIDE DEF held
    <3> QED BY <1>3, <2>1, FS_Subset
  <2>3. Cardinality(Docs) \in Nat /\ Cardinality(Procs) \in Nat /\ Cardinality(Revisions) \in Nat
        /\ Cardinality(Range(held)) \in Nat
    BY <2>2, <1>3, FS_CardinalityType, EmbeddingAssumption
  <2> DEFINE notes == Cardinality(Docs)
             procs == Cardinality(Procs)
  <2>4. Cardinality(Revisions) > notes * (1 + procs)
    BY <2>2, EmbeddingAssumption
  <2>5. Cardinality(holders) = (1 + procs) * notes
    BY <1>1, <1>2
  <2>6. Cardinality(Revisions) <= (1 + procs) * notes
    <3> HIDE DEF holders, held, notes, procs
    <3>1. (1 + procs) * notes \in Nat
      BY <2>3 DEF notes, procs
    <3> QED BY <1>3, <2>2, <2>3, <2>5, <3>1
  <2>7. notes * (1 + procs) = (1 + procs) * notes /\ (1 + procs) * notes \in Nat
    <3> HIDE DEF notes, procs
    <3> QED BY <2>3 DEF notes, procs
  <2> HIDE DEF notes, procs
  <2> QED BY <2>3, <2>4, <2>6, <2>7
<1> QED BY <1>5 DEF Fresh

-----------------------------------------------------------------------------
(* Lemmas about the operators of a generation *)

\* Nothing of the generation changes but what it keeps of one note.
OnlyAt(t, u, d) ==
  /\ u \in Dbs /\ u.identity = t.identity
  /\ \A e \in Docs \ {d} : /\ u.rows[e] = t.rows[e] /\ u.source[e] = t.source[e]
                           /\ u.queue[e] = t.queue[e]

\* An entry that has been invalidated has a new revision.
Invalidated(entry) == IF entry = Absent THEN Absent ELSE Fresh

\* A generation with one note's rows, source and entry replaced.
Replaced(t, d, rows, source, entry) ==
  [rows |-> [t.rows EXCEPT ![d] = rows], source |-> [t.source EXCEPT ![d] = source],
   queue |-> [t.queue EXCEPT ![d] = entry], identity |-> t.identity]

LEMMA ReplacedIs ==
  ASSUME NEW t \in Dbs, NEW d \in Docs, NEW rows \in Seq(Rows),
         NEW source \in Texts \cup {Nothing}, NEW entry \in Entries
  PROVE  LET u == Replaced(t, d, rows, source, entry) IN
         /\ OnlyAt(t, u, d)
         /\ u.rows[d] = rows /\ u.source[d] = source /\ u.queue[d] = entry
BY DEF Replaced, OnlyAt, Dbs

\* Every operator on one note's rows replaces them so.
LEMMA InvalidateIs ==
  ASSUME NEW t \in Dbs, NEW d \in Docs
  PROVE  Invalidate(t, d) = Replaced(t, d, t.rows[d], Nothing, Invalidated(t.queue[d]))
<1>1. t = [rows |-> t.rows, source |-> t.source, queue |-> t.queue, identity |-> t.identity]
      /\ t.rows = [t.rows EXCEPT ![d] = t.rows[d]]
  BY DEF Dbs
<1> DEFINE cut == [t EXCEPT !.source[d] = Nothing]
<1>2. cut = [rows |-> t.rows, source |-> [t.source EXCEPT ![d] = Nothing], queue |-> t.queue,
             identity |-> t.identity]
  BY <1>1
<1>3. Invalidate(t, d) = [cut EXCEPT !.queue[d] = IF @ = Absent THEN Absent ELSE Fresh]
  BY <1>1, <1>2 DEF Invalidate
<1> HIDE DEF cut
<1>4. Invalidate(t, d) = [rows |-> t.rows, source |-> [t.source EXCEPT ![d] = Nothing],
                          queue |-> [t.queue EXCEPT ![d] = Invalidated(t.queue[d])],
                          identity |-> t.identity]
  BY <1>2, <1>3 DEF Invalidated, Dbs
<1> QED BY <1>1, <1>4 DEF Replaced

\* Replacing twice is replacing once.
LEMMA ReplacedTwice ==
  ASSUME NEW t \in Dbs, NEW d \in Docs, NEW r1, NEW s1, NEW q1, NEW r2, NEW s2, NEW q2
  PROVE  Replaced(Replaced(t, d, r1, s1, q1), d, r2, s2, q2) = Replaced(t, d, r2, s2, q2)
BY DEF Replaced, Dbs

LEMMA ClearIs ==
  ASSUME NEW t \in Dbs, NEW d \in Docs
  PROVE  ClearDocument(t, d) = Replaced(t, d, <<>>, Nothing, Invalidated(t.queue[d]))
<1> DEFINE cut == Invalidate(t, d)
<1>1. cut = [rows |-> [t.rows EXCEPT ![d] = t.rows[d]], source |-> [t.source EXCEPT ![d] = Nothing],
             queue |-> [t.queue EXCEPT ![d] = Invalidated(t.queue[d])], identity |-> t.identity]
  BY InvalidateIs DEF Replaced
<1>2. ClearDocument(t, d) = [cut EXCEPT !.rows[d] = <<>>]
  BY DEF ClearDocument
<1> HIDE DEF cut
<1> QED BY <1>1, <1>2 DEF Replaced, Dbs

LEMMA DequeueIs ==
  ASSUME NEW t \in Dbs, NEW d \in Docs
  PROVE  Dequeue(t, d) = Replaced(t, d, t.rows[d], t.source[d], Absent)
<1>0. t = [rows |-> t.rows, source |-> t.source, queue |-> t.queue, identity |-> t.identity]
  BY DEF Dbs
<1>1. t.rows = [t.rows EXCEPT ![d] = t.rows[d]]
      /\ t.source = [t.source EXCEPT ![d] = t.source[d]]
  BY DEF Dbs
<1>2. Dequeue(t, d) =
        [rows |-> t.rows, source |-> t.source, queue |-> [t.queue EXCEPT ![d] = Absent], identity |-> t.identity]
  BY <1>0 DEF Dequeue
<1> QED BY <1>1, <1>2 DEF Replaced

LEMMA RecordSourceIs ==
  ASSUME NEW t \in Dbs, NEW d \in Docs, NEW text
  PROVE  RecordSource(t, d, text) = Replaced(t, d, t.rows[d], text, t.queue[d])
<1>0. t = [rows |-> t.rows, source |-> t.source, queue |-> t.queue, identity |-> t.identity]
  BY DEF Dbs
<1>1. t.rows = [t.rows EXCEPT ![d] = t.rows[d]]
      /\ t.queue = [t.queue EXCEPT ![d] = t.queue[d]]
  BY DEF Dbs
<1>2. RecordSource(t, d, text) =
        [rows |-> t.rows, source |-> [t.source EXCEPT ![d] = text], queue |-> t.queue, identity |-> t.identity]
  BY <1>0 DEF RecordSource
<1> QED BY <1>1, <1>2 DEF Replaced

\* Rows with the mark set.
Dirtied(rows) == [i \in DOMAIN rows |-> [rows[i] EXCEPT !.dirty = TRUE]]

LEMMA EnqueueIs ==
  ASSUME NEW t \in Dbs, NEW d \in Docs
  PROVE  Enqueue(t, d) = Replaced(t, d, Dirtied(t.rows[d]), t.source[d], Fresh)
<1> DEFINE marked == MarkDirty(t, {d})
<1>1. marked = [rows |-> [t.rows EXCEPT ![d] = Dirtied(t.rows[d])], source |-> t.source,
                queue |-> t.queue, identity |-> t.identity]
  <2>1. [e \in Docs |-> IF e \notin {d} THEN t.rows[e] ELSE Dirtied(t.rows[e])] =
        [t.rows EXCEPT ![d] = Dirtied(t.rows[d])]
    BY DEF Dbs
  <2>2. marked = [t EXCEPT !.rows = [t.rows EXCEPT ![d] = Dirtied(t.rows[d])]]
    BY <2>1 DEF MarkDirty, Dirtied
  <2> HIDE DEF marked
  <2> QED BY <2>2 DEF Dbs
<1>2. Enqueue(t, d) = [marked EXCEPT !.queue[d] = Fresh]
  BY DEF Enqueue
<1> HIDE DEF marked
<1>3. t.source = [t.source EXCEPT ![d] = t.source[d]]
  BY DEF Dbs
<1> QED BY <1>1, <1>2, <1>3 DEF Replaced

\* The rows of a text that replace those of the given ordinals.
Written(rows, text, ordinals, model) ==
  [i \in DOMAIN text |->
     IF i \notin ordinals THEN rows[i]
     ELSE Row(text[i], IF model = Nothing THEN Nothing ELSE [of |-> text[i], by |-> model])]

LEMMA UpsertIs ==
  ASSUME NEW t \in Dbs, NEW d \in Docs, NEW text, NEW ordinals, NEW model, ordinals # {}
  PROVE  Upsert(t, d, text, ordinals, model) =
           Replaced(t, d, Written(t.rows[d], text, ordinals, model), Nothing,
                    Invalidated(t.queue[d]))
<1> DEFINE cut == Invalidate(t, d)
           rows == Written(t.rows[d], text, ordinals, model)
<1>1. cut = [rows |-> [t.rows EXCEPT ![d] = t.rows[d]], source |-> [t.source EXCEPT ![d] = Nothing],
             queue |-> [t.queue EXCEPT ![d] = Invalidated(t.queue[d])], identity |-> t.identity]
  BY InvalidateIs DEF Replaced
<1>2. Upsert(t, d, text, ordinals, model) = [cut EXCEPT !.rows[d] = rows]
  BY DEF Upsert, Written
<1> HIDE DEF cut, rows
<1>3. Upsert(t, d, text, ordinals, model) =
        [rows |-> [t.rows EXCEPT ![d] = rows], source |-> [t.source EXCEPT ![d] = Nothing],
         queue |-> [t.queue EXCEPT ![d] = Invalidated(t.queue[d])], identity |-> t.identity]
  BY <1>1, <1>2 DEF Dbs
<1> QED BY <1>3 DEF Replaced, rows

-----------------------------------------------------------------------------
(* Lemmas about the rows of a note *)

\* A text's digests are chunks' digests.
LEMMA TextIs ==
  ASSUME NEW text \in Texts
  PROVE  /\ text # Nothing /\ text \in Seq(Chunks)
         /\ DOMAIN text = 1..Len(text) /\ Len(text) \in Nat
         /\ \A i \in DOMAIN text : text[i] \in Chunks
BY EmbeddingAssumption DEF Chunks

\* Vectors of a model are vectors.
LEMMA RowIs ==
  ASSUME NEW sha \in Chunks, NEW model \in Models \cup {Nothing}
  PROVE  LET row == Row(sha, IF model = Nothing THEN Nothing ELSE [of |-> sha, by |-> model]) IN
         /\ row \in Rows /\ row.sha = sha /\ ~row.dirty
         /\ model = Nothing => row.vector = Nothing
         /\ model # Nothing => /\ row.vector # Nothing /\ row.vector.of = sha
                               /\ row.vector.by = model
<1>1. CASE model = Nothing
  BY <1>1 DEF Row, Rows
<1>2. CASE model # Nothing
  <2>1. [of |-> sha, by |-> model] \in Vectors /\ [of |-> sha, by |-> model] # Nothing
    BY <1>2, EmbeddingAssumption DEF Vectors
  <2> QED BY <1>2, <2>1 DEF Row, Rows
<1> QED BY <1>1, <1>2

\* The ordinals that are written, or the rows that are kept, are those of the text.
Fits(rows, text, ordinals) ==
  /\ ordinals \subseteq DOMAIN text
  /\ ordinals = DOMAIN text \/ Len(rows) = Len(text)
  /\ \A i \in DOMAIN text \ ordinals : rows[i].sha = text[i]

LEMMA WrittenIs ==
  ASSUME NEW rows \in Seq(Rows), NEW text \in Texts, NEW model \in Models \cup {Nothing},
         NEW ordinals, Fits(rows, text, ordinals)
  PROVE  LET new == Written(rows, text, ordinals, model) IN
         /\ new \in Seq(Rows) /\ Digests(new) = text
         /\ VectorsAgree(rows) => VectorsAgree(new)
         /\ \A m \in Models : By(rows, m) /\ model \in {m, Nothing} => By(new, m)
         /\ model # Nothing /\ ordinals = DOMAIN text => By(new, model)
         /\ /\ model # Nothing
            /\ \A i \in DOMAIN text \ ordinals : ~rows[i].dirty /\ rows[i].vector # Nothing
            => IsClean(new) /\ IsCovered(new)
<1> DEFINE new == Written(rows, text, ordinals, model)
<1>1. DOMAIN new = 1..Len(text) /\ DOMAIN text = 1..Len(text) /\ Len(text) \in Nat
  BY TextIs DEF Written
<1>2. ASSUME NEW i \in DOMAIN text, i \in ordinals
      PROVE  /\ new[i] \in Rows /\ new[i].sha = text[i] /\ ~new[i].dirty
             /\ model = Nothing => new[i].vector = Nothing
             /\ model # Nothing => /\ new[i].vector # Nothing /\ new[i].vector.of = text[i]
                                   /\ new[i].vector.by = model
  <2>1. text[i] \in Chunks
    BY TextIs
  <2>2. new[i] = Row(text[i], IF model = Nothing THEN Nothing
                              ELSE [of |-> text[i], by |-> model])
    BY <1>2 DEF Written
  <2> DEFINE row == Row(text[i], IF model = Nothing THEN Nothing ELSE [of |-> text[i], by |-> model])
  <2>3. /\ row \in Rows /\ row.sha = text[i] /\ ~row.dirty
        /\ model = Nothing => row.vector = Nothing
        /\ model # Nothing => /\ row.vector # Nothing /\ row.vector.of = text[i]
                              /\ row.vector.by = model
    BY <2>1, RowIs
  <2> HIDE DEF new, row
  <2>4. new[i] = row
    BY <2>2 DEF row
  <2> QED BY <2>3, <2>4
<1>3. ASSUME NEW i \in DOMAIN text, i \notin ordinals
      PROVE  /\ new[i] = rows[i] /\ i \in DOMAIN rows /\ rows[i] \in Rows
             /\ new[i].sha = text[i]
  <2>1. new[i] = rows[i]
    BY <1>3 DEF Written
  <2>2. Len(rows) = Len(text) /\ rows[i].sha = text[i]
    BY <1>3 DEF Fits
  <2>3. i \in 1..Len(rows) /\ DOMAIN rows = 1..Len(rows)
    BY <1>1, <2>2
  <2>4. rows[i] \in Rows
    BY <2>3, ElementOfSeq
  <2> QED BY <2>1, <2>2, <2>3, <2>4
<1> HIDE DEF new
<1>4. new \in Seq(Rows)
  <2>1. \A i \in 1..Len(text) : new[i] \in Rows
    BY <1>1, <1>2, <1>3
  <2>2. new = [i \in 1..Len(text) |-> new[i]]
    BY <1>1 DEF new, Written
  <2> QED BY <1>1, <2>1, <2>2
<1>5. Digests(new) = text
  <2>1. \A i \in DOMAIN text : new[i].sha = text[i]
    BY <1>2, <1>3
  <2>2. text = [i \in 1..Len(text) |-> text[i]]
    BY <1>1, TextIs
  <2> QED BY <1>1, <2>1, <2>2 DEF Digests
<1>6. ASSUME VectorsAgree(rows) PROVE VectorsAgree(new)
  BY <1>1, <1>2, <1>3, <1>6 DEF VectorsAgree
<1>7. ASSUME NEW m \in Models, By(rows, m), model \in {m, Nothing} PROVE By(new, m)
  BY <1>1, <1>2, <1>3, <1>7 DEF By
<1>8. ASSUME model # Nothing, ordinals = DOMAIN text PROVE By(new, model)
  BY <1>1, <1>2, <1>8 DEF By
<1>9. ASSUME model # Nothing,
             \A i \in DOMAIN text \ ordinals : ~rows[i].dirty /\ rows[i].vector # Nothing
      PROVE  IsClean(new) /\ IsCovered(new)
  BY <1>1, <1>2, <1>3, <1>9 DEF IsClean, IsCovered
<1> QED BY <1>4, <1>5, <1>6, <1>7, <1>8, <1>9 DEF new

\* The mark leaves digests and vectors as they are.
LEMMA DirtiedIs ==
  ASSUME NEW rows \in Seq(Rows)
  PROVE  LET new == Dirtied(rows) IN
         /\ new \in Seq(Rows) /\ Digests(new) = Digests(rows) /\ Marked(new)
         /\ VectorsAgree(rows) => VectorsAgree(new)
         /\ \A m \in Models : By(rows, m) => By(new, m)
         /\ IsCovered(rows) => IsCovered(new)
<1> DEFINE new == Dirtied(rows)
<1>1. DOMAIN new = 1..Len(rows) /\ DOMAIN rows = 1..Len(rows) /\ Len(rows) \in Nat
  BY DEF Dirtied
<1>2. ASSUME NEW i \in DOMAIN rows
      PROVE  /\ new[i] \in Rows /\ new[i].sha = rows[i].sha /\ new[i].dirty = TRUE
             /\ new[i].vector = rows[i].vector
  <2>1. rows[i] \in Rows
    BY <1>1, ElementOfSeq
  <2>2. new[i] = [rows[i] EXCEPT !.dirty = TRUE]
    BY DEF Dirtied
  <2> HIDE DEF new
  <2> QED BY <2>1, <2>2 DEF Rows
<1> HIDE DEF new
<1>3. new \in Seq(Rows)
  <2>1. \A i \in 1..Len(rows) : new[i] \in Rows
    BY <1>1, <1>2
  <2>2. new = [i \in 1..Len(rows) |-> new[i]]
    BY <1>1 DEF new, Dirtied
  <2> QED BY <1>1, <2>1, <2>2
<1>4. Digests(new) = Digests(rows)
  BY <1>1, <1>2 DEF Digests
<1>5. Marked(new)
  BY <1>1, <1>2 DEF Marked
<1>6. /\ VectorsAgree(rows) => VectorsAgree(new)
      /\ \A m \in Models : By(rows, m) => By(new, m)
      /\ IsCovered(rows) => IsCovered(new)
  BY <1>1, <1>2 DEF VectorsAgree, By, IsCovered
<1> QED BY <1>3, <1>4, <1>5, <1>6 DEF new

\* A note without rows satisfies everything that is said of rows.
LEMMA NoRows ==
  /\ <<>> \in Seq(Rows) /\ Digests(<<>>) = <<>> /\ Marked(<<>>) /\ VectorsAgree(<<>>)
  /\ IsClean(<<>>) /\ IsCovered(<<>>) /\ \A m : By(<<>>, m)
<1>1. DOMAIN <<>> = {}
  OBVIOUS
<1>2. Digests(<<>>) = <<>>
  BY <1>1 DEF Digests
<1> QED BY <1>1, <1>2 DEF Marked, VectorsAgree, IsClean, IsCovered, By

\* Complete rows need no mark.
LEMMA CoveredIsMarked ==
  ASSUME NEW rows
  PROVE  /\ IsCovered(rows) => Marked(rows)
         /\ IsClean(rows) /\ Marked(rows) => IsCovered(rows)
BY DEF IsCovered, IsClean, Marked

-----------------------------------------------------------------------------
(* Lemmas about what is published *)

\* A generation that follows another is as sound, keeps what a drain relies on, and takes
\* complete notes only from the queue.
Follows(t, u) ==
  /\ u \in Dbs
  /\ \A d \in Docs :
       /\ Sound(u, d)
       /\ Drained(t, d) => Drained(u, d)
       /\ t.queue[d] # Absent /\ u.queue[d] = Absent => IsClean(u.rows[d]) /\ IsCovered(u.rows[d])

SoundDb(t) == t \in Dbs /\ \A d \in Docs : Sound(t, d)

LEMMA SameFollows ==
  ASSUME NEW t, SoundDb(t)
  PROVE  Follows(t, t)
BY DEF SoundDb, Follows

LEMMA ReplacedFollows ==
  ASSUME NEW t, SoundDb(t), NEW d \in Docs, NEW rows \in Seq(Rows),
         NEW source \in Texts \cup {Nothing}, NEW entry \in Entries,
         VectorsAgree(rows), source # Nothing => Digests(rows) = source,
         t.identity # Nothing => By(rows, t.identity),
         entry # Absent => Marked(rows),
         entry = Absent /\ t.queue[d] # Absent => IsClean(rows) /\ IsCovered(rows)
  PROVE  Follows(t, Replaced(t, d, rows, source, entry))
<1> DEFINE u == Replaced(t, d, rows, source, entry)
<1>1. /\ OnlyAt(t, u, d)
      /\ u.rows[d] = rows /\ u.source[d] = source /\ u.queue[d] = entry
  <2>1. t \in Dbs
    BY DEF SoundDb
  <2> QED BY ONLY <2>1, ReplacedIs, d \in Docs, rows \in Seq(Rows),
             source \in Texts \cup {Nothing}, entry \in Entries DEF OnlyAt, u
<1> HIDE DEF u
<1>2. Absent \notin Revisions
  BY EmbeddingAssumption
<1>3. Sound(u, d)
  BY <1>1, <1>2 DEF Sound, Agrees, OnlyAt
<1>4. Drained(u, d)
  BY <1>1 DEF Drained
<1>5. ASSUME NEW e \in Docs, e # d
      PROVE  Sound(u, e) /\ (Drained(t, e) => Drained(u, e)) /\ u.queue[e] = t.queue[e]
  <2>1. /\ u.rows[e] = t.rows[e] /\ u.source[e] = t.source[e] /\ u.queue[e] = t.queue[e]
        /\ u.identity = t.identity
    BY <1>1, <1>5 DEF OnlyAt
  <2>2. Sound(t, e)
    BY DEF SoundDb
  <2> QED BY <2>1, <2>2 DEF Sound, Agrees, Drained
<1>6. u \in Dbs
  BY <1>1 DEF OnlyAt
<1> QED BY <1>1, <1>3, <1>4, <1>5, <1>6 DEF Follows, u

\* Rows and source of one note, written together.
LEMMA PublishIs ==
  ASSUME NEW t \in Dbs, NEW d \in Docs, NEW text \in Texts, NEW model \in Models \cup {Nothing},
         NEW ordinals, Fits(t.rows[d], text, ordinals),
         ordinals = {} => Len(t.rows[d]) = Len(text), Fresh \in Revisions
  PROVE  \E entry \in {t.queue[d], Invalidated(t.queue[d])} :
           RecordSource(Upsert(t, d, text, ordinals, model), d, text) =
             Replaced(t, d, Written(t.rows[d], text, ordinals, model), text, entry)
<1> DEFINE new == Written(t.rows[d], text, ordinals, model)
<1>0. t.rows[d] \in Seq(Rows) /\ t.source[d] \in Texts \cup {Nothing} /\ t.queue[d] \in Entries
      /\ Invalidated(t.queue[d]) \in Entries
  BY DEF Dbs, Entries, Invalidated
<1>1. new \in Seq(Rows)
  BY <1>0, WrittenIs
<1>2. CASE ordinals = {}
  <2>1. Upsert(t, d, text, ordinals, model) = t
    BY <1>2 DEF Upsert
  <2>2. new = t.rows[d]
    <3>1. DOMAIN text = 1..Len(text) /\ DOMAIN t.rows[d] = 1..Len(t.rows[d])
          /\ Len(t.rows[d]) = Len(text)
      BY <1>0, <1>2, TextIs
    <3>2. new = [i \in DOMAIN text |-> t.rows[d][i]]
      BY <1>2 DEF Written
    <3>3. t.rows[d] = [i \in DOMAIN t.rows[d] |-> t.rows[d][i]]
      BY <1>0
    <3> QED BY <3>1, <3>2, <3>3
  <2> QED BY <2>1, <2>2, RecordSourceIs
<1>3. CASE ordinals # {}
  <2> DEFINE u == Replaced(t, d, new, Nothing, Invalidated(t.queue[d]))
  <2>1. Upsert(t, d, text, ordinals, model) = u
    BY <1>3, UpsertIs
  <2>2. u \in Dbs /\ u.rows[d] = new /\ u.queue[d] = Invalidated(t.queue[d])
    <3> DEFINE entry == Invalidated(t.queue[d])
    <3> HIDE DEF new, entry
    <3>1. entry \in Entries
      BY <1>0 DEF entry
    <3>2. Nothing \in Texts \cup {Nothing}
      OBVIOUS
    <3> QED BY <1>1, <3>1, <3>2, ReplacedIs DEF OnlyAt, entry
  <2> HIDE DEF new
  <2>3. RecordSource(u, d, text) = Replaced(u, d, new, text, Invalidated(t.queue[d]))
    <3> HIDE DEF u
    <3> QED BY <2>2, RecordSourceIs
  <2>4. RecordSource(u, d, text) = Replaced(t, d, new, text, Invalidated(t.queue[d]))
    BY <2>3, ReplacedTwice
  <2> QED BY <2>1, <2>4 DEF new
<1> QED BY <1>2, <1>3

\* Each of the operators, on a generation whose note has just been replaced.
LEMMA ThenEnqueue ==
  ASSUME NEW t \in Dbs, NEW d \in Docs, NEW rows \in Seq(Rows),
         NEW source \in Texts \cup {Nothing}, NEW entry \in Entries
  PROVE  Enqueue(Replaced(t, d, rows, source, entry), d) =
           Replaced(t, d, Dirtied(rows), source, Fresh)
<1> DEFINE u == Replaced(t, d, rows, source, entry)
<1>1. u \in Dbs /\ u.rows[d] = rows /\ u.source[d] = source
  BY ReplacedIs DEF OnlyAt
<1>2. Enqueue(u, d) = Replaced(u, d, Dirtied(rows), source, Fresh)
  <2> HIDE DEF u
  <2> QED BY <1>1, EnqueueIs
<1> QED BY <1>2, ReplacedTwice

LEMMA ThenDequeue ==
  ASSUME NEW t \in Dbs, NEW d \in Docs, NEW rows \in Seq(Rows),
         NEW source \in Texts \cup {Nothing}, NEW entry \in Entries
  PROVE  Dequeue(Replaced(t, d, rows, source, entry), d) = Replaced(t, d, rows, source, Absent)
<1> DEFINE u == Replaced(t, d, rows, source, entry)
<1>1. u \in Dbs /\ u.rows[d] = rows /\ u.source[d] = source
  BY ReplacedIs DEF OnlyAt
<1>2. Dequeue(u, d) = Replaced(u, d, rows, source, Absent)
  <2> HIDE DEF u
  <2> QED BY <1>1, DequeueIs
<1> QED BY <1>2, ReplacedTwice

\* A note with all its rows written, whatever it had before.
LEMMA RewrittenIs ==
  ASSUME NEW t \in Dbs, NEW d \in Docs, NEW text \in Texts, NEW model \in Models \cup {Nothing},
         Fresh \in Revisions
  PROVE  \E entry \in Entries :
           /\ RecordSource(Upsert(ClearDocument(t, d), d, text, DOMAIN text, model), d, text) =
                Replaced(t, d, Written(<<>>, text, DOMAIN text, model), text, entry)
           /\ entry = Absent <=> t.queue[d] = Absent
<1> DEFINE gone == Invalidated(t.queue[d])
           u == Replaced(t, d, <<>>, Nothing, gone)
<1>1. ClearDocument(t, d) = u
  BY ClearIs
<1>2. gone \in Entries /\ (gone = Absent <=> t.queue[d] = Absent) /\ Invalidated(gone) \in Entries
      /\ (Invalidated(gone) = Absent <=> gone = Absent)
  BY EmbeddingAssumption DEF Dbs, Invalidated, Entries
<1>3. u \in Dbs /\ u.rows[d] = <<>> /\ u.queue[d] = gone
  <2> DEFINE none == <<>>
  <2>1. gone \in Entries /\ none \in Seq(Rows) /\ Nothing \in Texts \cup {Nothing}
    BY <1>2, NoRows
  <2> HIDE DEF gone, none
  <2>2. LET v == Replaced(t, d, none, Nothing, gone) IN
        v \in Dbs /\ v.rows[d] = none /\ v.queue[d] = gone
    BY <2>1, ReplacedIs DEF OnlyAt
  <2> QED BY <2>2 DEF none
<1>4. Fits(<<>>, text, DOMAIN text) /\ (DOMAIN text = {} => Len(<<>>) = Len(text))
  <2>1. DOMAIN text = {} => Len(text) = 0
    BY TextIs
  <2>2. Len(<<>>) = 0
    OBVIOUS
  <2> QED BY <2>1, <2>2 DEF Fits
<1> HIDE DEF u, gone
<1>5. PICK entry \in {u.queue[d], Invalidated(u.queue[d])} :
        RecordSource(Upsert(u, d, text, DOMAIN text, model), d, text) =
          Replaced(u, d, Written(u.rows[d], text, DOMAIN text, model), text, entry)
  BY <1>3, <1>4, PublishIs
<1>6. entry \in Entries /\ (entry = Absent <=> t.queue[d] = Absent)
  BY <1>2, <1>3, <1>5
<1>7. RecordSource(Upsert(u, d, text, DOMAIN text, model), d, text) =
        Replaced(t, d, Written(<<>>, text, DOMAIN text, model), text, entry)
  BY <1>3, <1>5, ReplacedTwice DEF u
<1> QED BY <1>1, <1>6, <1>7

\* A note that is gone has no rows left that could be stale.
LEMMA RemovedFollows ==
  ASSUME NEW t, SoundDb(t), NEW d \in Docs, Fresh \in Revisions
  PROVE  Follows(t, Dequeue(ClearDocument(t, d), d))
<1> DEFINE gone == Invalidated(t.queue[d])
           none == <<>>
<1>0. t \in Dbs /\ gone \in Entries /\ Absent \in Entries
  BY DEF SoundDb, Dbs, Invalidated, Entries
<1>1. ClearDocument(t, d) = Replaced(t, d, none, Nothing, gone)
  BY <1>0, ClearIs
<1>2. none \in Seq(Rows) /\ Nothing \in Texts \cup {Nothing}
      /\ VectorsAgree(none) /\ IsClean(none) /\ IsCovered(none) /\ \A m : By(none, m)
  BY NoRows
<1> HIDE DEF gone, none
<1>3. Dequeue(ClearDocument(t, d), d) = Replaced(t, d, none, Nothing, Absent)
  BY <1>0, <1>1, <1>2, ThenDequeue
<1>4. Follows(t, Replaced(t, d, none, Nothing, Absent))
  BY <1>0, <1>2, ReplacedFollows
<1> QED BY <1>3, <1>4

\* A note that has been indexed by its text alone is queued with all its rows marked.
LEMMA LexicalFollows ==
  ASSUME NEW t, SoundDb(t), NEW d \in Docs, NEW text \in Texts, Fresh \in Revisions
  PROVE  Follows(t, Enqueue(RecordSource(
                      Upsert(ClearDocument(t, d), d, text, DOMAIN text, Nothing), d, text), d))
<1> DEFINE new == Written(<<>>, text, DOMAIN text, Nothing)
           marked == Dirtied(new)
<1>0. t \in Dbs /\ Fresh \in Entries /\ text \in Texts \cup {Nothing}
      /\ Nothing \in Models \cup {Nothing}
  BY DEF SoundDb, Entries
<1>1. PICK entry \in Entries :
        RecordSource(Upsert(ClearDocument(t, d), d, text, DOMAIN text, Nothing), d, text) =
          Replaced(t, d, new, text, entry)
  BY <1>0, RewrittenIs
<1>2. /\ new \in Seq(Rows) /\ Digests(new) = text /\ VectorsAgree(new)
      /\ \A m \in Models : By(new, m)
  <2>1. Fits(<<>>, text, DOMAIN text) /\ <<>> \in Seq(Rows) /\ VectorsAgree(<<>>)
        /\ \A m : By(<<>>, m)
    BY NoRows DEF Fits
  <2> QED BY <1>0, <2>1, WrittenIs
<1> HIDE DEF new
<1>3. /\ marked \in Seq(Rows) /\ Digests(marked) = text /\ VectorsAgree(marked)
      /\ Marked(marked) /\ \A m \in Models : By(marked, m)
  BY <1>2, DirtiedIs
<1>4. Enqueue(Replaced(t, d, new, text, entry), d) = Replaced(t, d, marked, text, Fresh)
  BY <1>0, <1>1, <1>2, ThenEnqueue
<1> HIDE DEF marked
<1>5. t.identity \in Models \cup {Nothing} /\ Fresh # Absent
  BY <1>0, EmbeddingAssumption DEF Dbs
<1>6. Follows(t, Replaced(t, d, marked, text, Fresh))
  BY <1>0, <1>3, <1>5, ReplacedFollows
<1> QED BY <1>1, <1>4, <1>6

\* To queue a note is to mark its rows.
LEMMA EnqueueFollows ==
  ASSUME NEW t, SoundDb(t), NEW d \in Docs, Fresh \in Revisions
  PROVE  LET u == Enqueue(t, d) IN
         /\ Follows(t, u) /\ u.queue[d] \in Revisions /\ u.identity = t.identity
         /\ Digests(u.rows[d]) = Digests(t.rows[d]) /\ u.rows[d] = Dirtied(t.rows[d])
         /\ u.source[d] = t.source[d]
<1> DEFINE marked == Dirtied(t.rows[d])
           source == t.source[d]
<1>0. t \in Dbs /\ Fresh \in Entries /\ source \in Texts \cup {Nothing} /\ t.rows[d] \in Seq(Rows)
      /\ t.identity \in Models \cup {Nothing} /\ Fresh # Absent
  BY EmbeddingAssumption DEF SoundDb, Entries, Dbs
<1>1. Sound(t, d)
  BY DEF SoundDb
<1>2. Enqueue(t, d) = Replaced(t, d, marked, source, Fresh)
  BY <1>0, EnqueueIs
<1>3. /\ marked \in Seq(Rows) /\ Digests(marked) = Digests(t.rows[d]) /\ Marked(marked)
      /\ VectorsAgree(t.rows[d]) => VectorsAgree(marked)
      /\ \A m \in Models : By(t.rows[d], m) => By(marked, m)
  BY <1>0, DirtiedIs
<1>4. /\ VectorsAgree(marked)
      /\ source # Nothing => Digests(marked) = source
      /\ t.identity # Nothing => By(marked, t.identity)
  BY <1>0, <1>1, <1>3 DEF Sound, Agrees
<1> HIDE DEF marked, source
<1>5. Follows(t, Replaced(t, d, marked, source, Fresh))
  BY <1>0, <1>3, <1>4, ReplacedFollows
<1>6. LET u == Replaced(t, d, marked, source, Fresh) IN
      /\ u.rows[d] = marked /\ u.source[d] = source /\ u.queue[d] = Fresh
      /\ u.identity = t.identity
  <2>1. /\ t \in Dbs /\ marked \in Seq(Rows) /\ source \in Texts \cup {Nothing}
        /\ Fresh \in Entries
    BY <1>0, <1>3
  <2> QED BY ONLY <2>1, ReplacedIs, d \in Docs DEF OnlyAt
<1> QED BY <1>2, <1>3, <1>5, <1>6 DEF marked, source

\* A note may leave the queue once its rows are complete.
LEMMA DequeueFollows ==
  ASSUME NEW t, SoundDb(t), NEW d \in Docs, IsClean(t.rows[d]), IsCovered(t.rows[d])
  PROVE  Follows(t, Dequeue(t, d))
<1> DEFINE source == t.source[d]
           rows == t.rows[d]
<1>0. t \in Dbs /\ Absent \in Entries /\ source \in Texts \cup {Nothing} /\ rows \in Seq(Rows)
  BY DEF SoundDb, Entries, Dbs
<1>1. Sound(t, d)
  BY DEF SoundDb
<1>2. /\ VectorsAgree(rows)
      /\ source # Nothing => Digests(rows) = source
      /\ t.identity # Nothing => By(rows, t.identity)
  BY <1>1 DEF Sound, Agrees
<1>3. Dequeue(t, d) = Replaced(t, d, rows, source, Absent)
  BY <1>0, DequeueIs
<1>4. IsClean(rows) /\ IsCovered(rows)
  OBVIOUS
<1> HIDE DEF rows, source
<1>5. Follows(t, Replaced(t, d, rows, source, Absent))
  BY <1>0, <1>2, <1>4, ReplacedFollows
<1> QED BY <1>3, <1>5

\* The vectors of a whole note, of the generation's model, where it has as many rows.
LEMMA EmbeddedFollows ==
  ASSUME NEW t, SoundDb(t), NEW d \in Docs, NEW text \in Texts, NEW model \in Models,
         Len(t.rows[d]) = Len(text), t.identity = model, Fresh \in Revisions
  PROVE  Follows(t, Dequeue(RecordSource(Upsert(t, d, text, DOMAIN text, model), d, text), d))
<1> DEFINE new == Written(t.rows[d], text, DOMAIN text, model)
<1>0. t \in Dbs /\ Absent \in Entries /\ text \in Texts \cup {Nothing}
      /\ model \in Models \cup {Nothing} /\ model # Nothing /\ t.rows[d] \in Seq(Rows)
      /\ t.queue[d] \in Entries /\ Invalidated(t.queue[d]) \in Entries
  BY EmbeddingAssumption DEF SoundDb, Entries, Dbs, Invalidated
<1>1. Fits(t.rows[d], text, DOMAIN text) /\ (DOMAIN text = {} => Len(t.rows[d]) = Len(text))
  BY DEF Fits
<1>2. PICK entry \in {t.queue[d], Invalidated(t.queue[d])} :
        RecordSource(Upsert(t, d, text, DOMAIN text, model), d, text) =
          Replaced(t, d, new, text, entry)
  BY <1>0, <1>1, PublishIs
<1>3. /\ new \in Seq(Rows) /\ Digests(new) = text /\ VectorsAgree(new) /\ By(new, model)
      /\ IsClean(new) /\ IsCovered(new)
  <2>1. VectorsAgree(t.rows[d])
    BY DEF SoundDb, Sound, Agrees
  <2> QED BY <1>0, <1>1, <2>1, WrittenIs
<1> HIDE DEF new
<1>4. entry \in Entries
  BY <1>0, <1>2
<1>5. Dequeue(Replaced(t, d, new, text, entry), d) = Replaced(t, d, new, text, Absent)
  BY <1>0, <1>3, <1>4, ThenDequeue
<1>6. Follows(t, Replaced(t, d, new, text, Absent))
  BY <1>0, <1>3, ReplacedFollows
<1> QED BY <1>2, <1>5, <1>6

\* What a sync writes of a note: its text's rows, complete where the sync has a model, and an
\* entry just where there was one.
SyncRows(o, t, d, text, new, entry) ==
  /\ new \in Seq(Rows) /\ Digests(new) = text /\ VectorsAgree(new)
  /\ \A m \in Models : By(t.rows[d], m) /\ o.model \in {m, Nothing} => By(new, m)
  /\ o.model # Nothing => IsClean(new) /\ IsCovered(new)
  /\ entry \in Entries /\ (entry = Absent <=> t.queue[d] = Absent)

SyncWritten(o, t, d, text) ==
  LET rows == t.rows[d]
      base == IF o.rebuild \/ Len(rows) # Len(text) THEN ClearDocument(t, d) ELSE t IN
  RecordSource(Upsert(base, d, text, Changed(o, rows, text), o.model), d, text)

LEMMA SyncWrites ==
  ASSUME NEW o, o.model \in Models \cup {Nothing}, NEW t, SoundDb(t), NEW d \in Docs,
         NEW text \in Texts, Fresh \in Revisions
  PROVE  \E new, entry : /\ SyncRows(o, t, d, text, new, entry)
                         /\ SyncWritten(o, t, d, text) = Replaced(t, d, new, text, entry)
<1> DEFINE rows == t.rows[d]
           model == o.model
<1>0. t \in Dbs /\ rows \in Seq(Rows) /\ VectorsAgree(rows)
      /\ t.queue[d] \in Entries /\ Invalidated(t.queue[d]) \in Entries
      /\ (Invalidated(t.queue[d]) = Absent <=> t.queue[d] = Absent)
  BY EmbeddingAssumption DEF SoundDb, Sound, Agrees, Entries, Dbs, Invalidated
<1>1. CASE o.rebuild \/ Len(rows) # Len(text)
  <2> DEFINE new == Written(<<>>, text, DOMAIN text, model)
  <2>1. PICK entry \in Entries :
          /\ RecordSource(Upsert(ClearDocument(t, d), d, text, DOMAIN text, model), d, text) =
               Replaced(t, d, new, text, entry)
          /\ entry = Absent <=> t.queue[d] = Absent
    BY <1>0, RewrittenIs
  <2>2. Fits(<<>>, text, DOMAIN text) /\ <<>> \in Seq(Rows) /\ VectorsAgree(<<>>)
        /\ \A m : By(<<>>, m)
    BY NoRows DEF Fits
  <2>3. /\ new \in Seq(Rows) /\ Digests(new) = text /\ VectorsAgree(new)
        /\ \A m \in Models : model \in {m, Nothing} => By(new, m)
        /\ model # Nothing => IsClean(new) /\ IsCovered(new)
    BY <2>2, WrittenIs
  <2>4. Changed(o, rows, text) = DOMAIN text
    BY <1>1 DEF Changed
  <2>5. SyncWritten(o, t, d, text) = Replaced(t, d, new, text, entry)
    BY <1>1, <2>1, <2>4 DEF SyncWritten
  <2> HIDE DEF new
  <2>6. SyncRows(o, t, d, text, new, entry)
    BY <2>1, <2>3 DEF SyncRows
  <2> QED BY <2>5, <2>6
<1>2. CASE ~(o.rebuild \/ Len(rows) # Len(text))
  <2> DEFINE ordinals == Changed(o, rows, text)
             new == Written(rows, text, ordinals, model)
  <2>1. /\ ordinals \subseteq DOMAIN text
        /\ \A i \in DOMAIN text \ ordinals :
             /\ ~rows[i].dirty /\ rows[i].sha = text[i]
             /\ model # Nothing => rows[i].vector # Nothing
    BY <1>2 DEF Changed
  <2> HIDE DEF ordinals
  <2>2. Fits(rows, text, ordinals) /\ (ordinals = {} => Len(rows) = Len(text))
    BY <1>2, <2>1 DEF Fits
  <2>3. PICK entry \in {t.queue[d], Invalidated(t.queue[d])} :
          RecordSource(Upsert(t, d, text, ordinals, model), d, text) =
            Replaced(t, d, new, text, entry)
    BY <1>0, <2>2, PublishIs
  <2>4. /\ new \in Seq(Rows) /\ Digests(new) = text /\ VectorsAgree(new)
        /\ \A m \in Models : By(rows, m) /\ model \in {m, Nothing} => By(new, m)
        /\ model # Nothing => IsClean(new) /\ IsCovered(new)
    <3> HIDE DEF rows, model
    <3>1. model \in Models \cup {Nothing}
      BY DEF model
    <3>2. new = Written(rows, text, ordinals, model)
      OBVIOUS
    <3> HIDE DEF new
    <3> QED BY <1>0, <2>1, <2>2, <3>1, <3>2, WrittenIs
  <2>5. SyncWritten(o, t, d, text) = Replaced(t, d, new, text, entry)
    BY <1>2, <2>3 DEF SyncWritten, ordinals
  <2> HIDE DEF new
  <2>6. SyncRows(o, t, d, text, new, entry)
    BY <1>0, <2>3, <2>4 DEF SyncRows
  <2> QED BY <2>5, <2>6
<1> QED BY <1>1, <1>2

\* A synced note has its text's rows; without a model they are queued where they were.
LEMMA SyncedFollows ==
  ASSUME NEW o, o.model \in Models \cup {Nothing}, NEW t, SoundDb(t), NEW d \in Docs,
         NEW plan, plan.text \in Texts, plan.revision = t.queue[d],
         o.model # Nothing => t.identity \in {o.model, Nothing}, Fresh \in Revisions
  PROVE  LET u == Synced(o, t, d, plan) IN
         /\ Follows(t, u) /\ OnlyAt(t, u, d)
         /\ o.model # Nothing => /\ IsClean(u.rows[d]) /\ IsCovered(u.rows[d])
                                 /\ By(t.rows[d], o.model) => By(u.rows[d], o.model)
<1> DEFINE text == plan.text
           requeued == o.model = Nothing /\ (o.queueing \/ plan.revision # Absent)
           u == Synced(o, t, d, plan)
<1>0. t \in Dbs /\ text \in Texts \cup {Nothing} /\ t.identity \in Models \cup {Nothing}
      /\ Fresh \in Entries /\ Fresh # Absent
  BY EmbeddingAssumption DEF SoundDb, Dbs, Entries
<1>1. PICK new, entry : /\ SyncRows(o, t, d, text, new, entry)
                        /\ SyncWritten(o, t, d, text) = Replaced(t, d, new, text, entry)
  BY SyncWrites
<1>2. /\ new \in Seq(Rows) /\ Digests(new) = text /\ VectorsAgree(new) /\ entry \in Entries
      /\ entry = Absent <=> t.queue[d] = Absent
      /\ o.model # Nothing => IsClean(new) /\ IsCovered(new)
      /\ o.model \in Models /\ By(t.rows[d], o.model) => By(new, o.model)
  BY <1>1 DEF SyncRows
<1>3. t.identity # Nothing => By(new, t.identity)
  <2>1. t.identity # Nothing => By(t.rows[d], t.identity)
    BY DEF SoundDb, Sound
  <2> QED BY <1>0, <1>1, <2>1 DEF SyncRows
<1>4. CASE requeued
  <2> DEFINE marked == Dirtied(new)
             v == Replaced(t, d, marked, text, Fresh)
  <2>1. u = Enqueue(Replaced(t, d, new, text, entry), d)
    BY <1>1, <1>4 DEF Synced, SyncWritten
  <2> HIDE DEF text, u
  <2>2. Enqueue(Replaced(t, d, new, text, entry), d) = v
    BY <1>0, <1>2, ThenEnqueue
  <2>3. /\ marked \in Seq(Rows) /\ Digests(marked) = text /\ VectorsAgree(marked) /\ Marked(marked)
        /\ \A m \in Models : By(new, m) => By(marked, m)
    BY <1>2, DirtiedIs
  <2> HIDE DEF marked
  <2>4. t.identity # Nothing => By(marked, t.identity)
    BY <1>0, <1>3, <2>3
  <2>5. Follows(t, v)
    BY <1>0, <2>3, <2>4, ReplacedFollows
  <2>6. OnlyAt(t, v, d)
    <3>1. /\ t \in Dbs /\ marked \in Seq(Rows) /\ text \in Texts \cup {Nothing}
          /\ Fresh \in Entries
      BY <1>0, <2>3
    <3> QED BY ONLY <3>1, ReplacedIs, d \in Docs DEF OnlyAt, v
  <2>7. o.model = Nothing
    BY <1>4
  <2> HIDE DEF v
  <2>8. u = v
    BY <2>1, <2>2
  <2> QED BY <2>5, <2>6, <2>7, <2>8 DEF u
<1>5. CASE ~requeued
  <2> DEFINE v == Replaced(t, d, new, text, entry)
  <2>1. u = v
    BY <1>1, <1>5 DEF Synced, SyncWritten
  <2>2. entry # Absent => Marked(new)
    BY <1>2, <1>5, CoveredIsMarked
  <2> HIDE DEF text, u
  <2>3. Follows(t, v)
    BY <1>0, <1>2, <1>3, <2>2, ReplacedFollows
  <2>4. OnlyAt(t, v, d) /\ v.rows[d] = new
    <3>1. /\ t \in Dbs /\ new \in Seq(Rows) /\ text \in Texts \cup {Nothing}
          /\ entry \in Entries
      BY <1>0, <1>2
    <3> QED BY ONLY <3>1, ReplacedIs, d \in Docs DEF OnlyAt, v
  <2>5. o.model # Nothing => o.model \in Models
    OBVIOUS
  <2> HIDE DEF v
  <2> QED BY <1>2, <2>1, <2>3, <2>4, <2>5 DEF u
<1> QED BY <1>4, <1>5

-----------------------------------------------------------------------------
(* The invariant, step by step *)

\* What an operation rests on outlives another process's step: what a sync works on is its
\* own while it has the lock.
LEMMA RestsStays ==
  ASSUME NEW t, NEW u, NEW o, Rests(t, o), Follows(t, u), u = t \/ o.kind # "sync"
  PROVE  Rests(u, o)
<1>1. CASE u = t
  BY <1>1
<1>2. CASE o.kind # "sync"
  BY <1>2 DEF Rests, Follows, Draining
<1> QED BY <1>1, <1>2

\* A step of one operation: it takes, keeps or releases the lock with its sync, and the
\* generation changes for no other's sync.
LEMMA OneOperation ==
  ASSUME IndexInv, NEW p \in Procs, NEW o,
         op' = [op EXCEPT ![p] = o], OpTyped(o), Rests(db', o),
         UNCHANGED <<note, hidden>>, Follows(db, db'),
         db' = db \/ writer \in {p, Nothing},
         writer' = writer \/ {writer, writer'} \subseteq {p, Nothing},
         o.kind = "sync" <=> writer' = p
  PROVE  IndexInv'
<1>0. OpsTyped /\ TheWriterSyncs /\ OpsRest /\ NotesTyped
  BY DEF IndexInv
<1>1. NotesTyped'
  BY <1>0 DEF NotesTyped
<1>2. op'[p] = o /\ \A q \in Procs \ {p} : op'[q] = op[q]
  BY <1>0 DEF OpsTyped
<1>3. OpsTyped'
  BY <1>0, <1>2 DEF OpsTyped
<1>4. TheWriterSyncs'
  <2>0. Nothing \notin Procs
    BY EmbeddingAssumption
  <2>1. writer' \in Procs \cup {Nothing}
    BY <1>0, <2>0 DEF TheWriterSyncs
  <2>2. ASSUME NEW q \in Procs, q # p PROVE op'[q].kind = "sync" <=> writer' = q
    BY <1>0, <1>2, <2>0, <2>2 DEF TheWriterSyncs
  <2> QED BY <1>2, <2>1, <2>2 DEF TheWriterSyncs
<1>5. DbSound'
  BY DEF Follows, DbSound
<1>6. OpsRest'
  <2>1. ASSUME NEW q \in Procs, q # p PROVE Rests(db', op[q])
    <3>1. Rests(db, op[q])
      BY <1>0 DEF OpsRest
    <3>2. db' = db \/ op[q].kind # "sync"
      BY <1>0, <2>1, EmbeddingAssumption DEF TheWriterSyncs
    <3> QED BY <3>1, <3>2, RestsStays
  <2>2. ASSUME NEW q \in Procs PROVE Rests(db', op'[q])
    BY <1>2, <2>1
  <2> QED BY <2>2 DEF OpsRest
<1> QED BY <1>1, <1>3, <1>4, <1>5, <1>6 DEF IndexInv

\* An idle process rests on nothing.
LEMMA IdleRests ==
  ASSUME NEW t
  PROVE  OpTyped(Idle) /\ Rests(t, Idle) /\ Idle.kind # "sync"
BY DEF Idle, OpTyped, Rests, Draining

\* The digests of a plan.
LEMMA ShasIs ==
  ASSUME NEW rows \in Seq(Rows)
  PROVE  /\ Shas(rows) \in Seq(BOOLEAN \X Chunks) /\ DOMAIN Shas(rows) = DOMAIN rows
         /\ \A text \in Texts : \A plan :
              plan.shas = Shas(rows) /\ Digests(rows) = text => PlanOf(plan, text)
<1>1. DOMAIN Shas(rows) = 1..Len(rows) /\ DOMAIN rows = 1..Len(rows) /\ Len(rows) \in Nat
      /\ DOMAIN Digests(rows) = 1..Len(rows)
  BY DEF Shas, Digests
<1>2. ASSUME NEW i \in 1..Len(rows)
      PROVE  /\ Shas(rows)[i] \in BOOLEAN \X Chunks /\ Shas(rows)[i][2] = rows[i].sha
             /\ Digests(rows)[i] = rows[i].sha
  <2>1. rows[i] \in Rows
    BY <1>1, ElementOfSeq
  <2>2. Shas(rows)[i] = <<rows[i].dirty, rows[i].sha>> /\ Digests(rows)[i] = rows[i].sha
    BY <1>1 DEF Shas, Digests
  <2>3. rows[i].dirty \in BOOLEAN /\ rows[i].sha \in Chunks
    BY <2>1 DEF Rows
  <2> QED BY <2>2, <2>3
<1>3. Shas(rows) \in Seq(BOOLEAN \X Chunks)
  <2>1. Shas(rows) = [i \in 1..Len(rows) |-> Shas(rows)[i]]
    BY <1>1 DEF Shas
  <2> QED BY <1>1, <1>2, <2>1
<1>4. ASSUME NEW text \in Texts, NEW plan, plan.shas = Shas(rows), Digests(rows) = text
      PROVE  PlanOf(plan, text)
  BY <1>1, <1>2, <1>4 DEF PlanOf
<1> QED BY <1>1, <1>3, <1>4

LEMMA ReadToMaintainStep ==
  ASSUME IndexInv, NEW p \in Procs, NEW d \in Docs, NEW purge, ReadToMaintain(p, d, purge)
  PROVE  IndexInv' /\ db' = db
<1> DEFINE o == [kind |-> "maintain", doc |-> d, text |-> note[d], purge |-> d \in hidden,
                 revision |-> db.queue[d]]
<1>1. op' = [op EXCEPT ![p] = o] /\ UNCHANGED <<note, hidden, db, writer>> /\ Busy(p, "idle")
  BY DEF ReadToMaintain, Set, Begin
<1>2. note[d] \in Texts \cup {Nothing} /\ db.queue[d] \in Entries /\ (d \in hidden) \in BOOLEAN
  BY DEF IndexInv, NotesTyped, DbSound, Dbs
<1>3. o.kind = "maintain" /\ o \in MaintainOps
  BY <1>2 DEF MaintainOps
<1> HIDE DEF o
<1>4. OpTyped(o) /\ Rests(db', o)
  BY <1>3 DEF OpTyped, Rests, Draining
<1>5. Follows(db, db')
  BY <1>1, SameFollows DEF IndexInv, DbSound, SoundDb
<1>6. writer # p
  BY <1>1 DEF Busy, IndexInv, TheWriterSyncs
<1> QED BY <1>1, <1>3, <1>4, <1>5, <1>6, OneOperation

LEMMA MaintainStep ==
  ASSUME IndexInv, NEW p \in Procs, Maintain(p)
  PROVE  IndexInv' /\ Follows(db, db') /\ db'.identity = db.identity
<1> DEFINE d == op[p].doc
           text == op[p].text
<1>0. /\ SoundDb(db) /\ op[p] \in MaintainOps /\ Fresh \in Revisions /\ writer # p
      /\ db \in Dbs
  BY FreshIsRevision DEF IndexInv, DbSound, SoundDb, OpsTyped, OpTyped, Maintain, Busy,
     TheWriterSyncs
<1>1. d \in Docs /\ text \in Texts \cup {Nothing}
  BY <1>0 DEF MaintainOps
<1>2. op' = [op EXCEPT ![p] = Idle] /\ UNCHANGED <<note, hidden, writer>>
  BY DEF Maintain, Set
<1>3. \/ db' = db
      \/ db' = Dequeue(ClearDocument(db, d), d)
      \/ /\ text # Nothing
         /\ db' = Enqueue(RecordSource(
                    Upsert(ClearDocument(db, d), d, text, DOMAIN text, Nothing), d, text), d)
  BY DEF Maintain
<1>4. db' = db \/ writer = Nothing
  BY DEF Maintain
<1> HIDE DEF d, text
<1>5. Follows(db, db')
  BY <1>0, <1>1, <1>3, SameFollows, RemovedFollows, LexicalFollows
<1>6. db'.identity = db.identity
  BY <1>0, <1>1, <1>3 DEF Dequeue, ClearDocument, Enqueue, MarkDirty, RecordSource, Upsert,
     Invalidate, Dbs
<1>7. OpTyped(Idle) /\ Rests(db', Idle) /\ Idle.kind # "sync"
  BY IdleRests
<1>8. IndexInv'
  BY <1>0, <1>2, <1>4, <1>5, <1>7, OneOperation
<1> QED BY <1>5, <1>6, <1>8

LEMMA ReadToEmbedStep ==
  ASSUME IndexInv, NEW p \in Procs, NEW d \in Docs, NEW model \in Models, ReadToEmbed(p, d, model)
  PROVE  IndexInv' /\ db' = db
<1> DEFINE o == [kind |-> "embed", stage |-> "read", doc |-> d, model |-> model,
                 text |-> note[d], plans |-> NoPlans]
<1>1. op' = [op EXCEPT ![p] = o] /\ UNCHANGED <<note, hidden, db, writer>> /\ Busy(p, "idle")
      /\ note[d] # Nothing
  BY DEF ReadToEmbed, Set, Begin
<1>2. note[d] \in Texts
  BY <1>1 DEF IndexInv, NotesTyped
<1>3. NoPlans \in Plans
  BY DEF NoPlans, Plans
<1>4. o.kind = "embed" /\ o.stage = "read" /\ o \in EmbedOps
  BY <1>2, <1>3 DEF EmbedOps
<1> HIDE DEF o
<1>5. OpTyped(o) /\ Rests(db', o)
  BY <1>4 DEF OpTyped, Rests, Draining
<1>6. Follows(db, db')
  BY <1>1, SameFollows DEF IndexInv, DbSound, SoundDb
<1>7. writer # p
  BY <1>1 DEF Busy, IndexInv, TheWriterSyncs
<1> QED BY <1>1, <1>4, <1>5, <1>6, <1>7, OneOperation

LEMMA PrepareEmbeddingStep ==
  ASSUME IndexInv, NEW p \in Procs, PrepareEmbedding(p)
  PROVE  IndexInv' /\ Follows(db, db') /\ db'.identity = db.identity
<1> DEFINE o == op[p]
           d == o.doc
           rows == db.rows[d]
           marked == IF db.queue[d] = Unrevised \/ (\E i \in DOMAIN rows : ~rows[i].dirty)
                     THEN Enqueue(db, d) ELSE db
           plans == [e \in {d} |-> Plan(marked, e)]
           next == [o EXCEPT !.stage = "infer", !.plans = plans]
<1>0. /\ SoundDb(db) /\ o \in EmbedOps /\ Fresh \in Revisions /\ writer # p /\ db \in Dbs
  BY FreshIsRevision DEF IndexInv, DbSound, SoundDb, OpsTyped, OpTyped, PrepareEmbedding, Busy,
     TheWriterSyncs
<1>1. /\ d \in Docs /\ o.text \in Texts /\ o.text # Nothing /\ o.kind = "embed"
      /\ rows \in Seq(Rows)
  BY <1>0, EmbeddingAssumption DEF EmbedOps, Dbs
<1>2. UNCHANGED <<note, hidden, writer>>
  BY DEF PrepareEmbedding
<1>3. \/ op' = [op EXCEPT ![p] = Idle] /\ db' = db
      \/ /\ op' = [op EXCEPT ![p] = Idle] /\ db' = Dequeue(db, d) /\ writer = Nothing
         /\ IsClean(rows) /\ IsCovered(rows)
      \/ /\ op' = [op EXCEPT ![p] = next] /\ db' = marked /\ writer = Nothing
         /\ note[d] = o.text /\ Digests(rows) = o.text
  BY DEF PrepareEmbedding, Set
<1>4. OpTyped(Idle) /\ Rests(db', Idle) /\ Idle.kind # "sync"
  BY IdleRests
<1>5. CASE op' = [op EXCEPT ![p] = Idle] /\ db' = db
  <2>1. Follows(db, db')
    BY <1>0, <1>5, SameFollows
  <2>2. IndexInv'
    BY <1>0, <1>2, <1>4, <1>5, <2>1, OneOperation
  <2> QED BY <1>5, <2>1, <2>2
<1>6. CASE /\ op' = [op EXCEPT ![p] = Idle] /\ db' = Dequeue(db, d) /\ writer = Nothing
           /\ IsClean(rows) /\ IsCovered(rows)
  <2>1. Follows(db, db') /\ db'.identity = db.identity
    <3>1. Follows(db, Dequeue(db, d))
      <4> HIDE DEF d
      <4> QED BY <1>0, <1>1, <1>6, DequeueFollows
    <3>2. Dequeue(db, d).identity = db.identity
      BY <1>0 DEF Dequeue, Dbs
    <3> QED BY <1>6, <3>1, <3>2
  <2>2. IndexInv'
    BY <1>0, <1>2, <1>4, <1>6, <2>1, OneOperation
  <2> QED BY <2>1, <2>2
<1>7. CASE /\ op' = [op EXCEPT ![p] = next] /\ db' = marked /\ writer = Nothing
           /\ note[d] = o.text /\ Digests(rows) = o.text
  <2>1. /\ Follows(db, marked) /\ marked.identity = db.identity
        /\ Digests(marked.rows[d]) = o.text
    <3> HIDE DEF d
    <3>1. CASE marked = db
      BY <1>0, <1>7, <3>1, SameFollows
    <3>2. CASE marked = Enqueue(db, d)
      BY <1>0, <1>1, <1>7, <3>2, EnqueueFollows
    <3> QED BY <3>1, <3>2
  <2>2. marked \in Dbs
    BY <2>1 DEF Follows
  <2> HIDE DEF marked
  <2>3. marked.rows[d] \in Seq(Rows) /\ marked.queue[d] \in Entries
    BY <1>1, <2>2 DEF Dbs
  <2>4. /\ plans[d] = [text |-> o.text, revision |-> marked.queue[d],
                       shas |-> Shas(marked.rows[d])]
        /\ DOMAIN plans = {d}
    BY <1>7 DEF Plan
  <2>5. plans[d] \in PlanRecords /\ PlanOf(plans[d], o.text)
    BY <1>1, <2>1, <2>3, <2>4, ShasIs DEF PlanRecords
  <2>6. plans \in Plans
    <3>1. plans \in [{d} -> PlanRecords]
      BY <2>5
    <3> HIDE DEF plans
    <3> QED BY <1>1, <3>1 DEF Plans
  <2> HIDE DEF plans
  <2>7. next \in EmbedOps
    BY <1>0, <2>6 DEF EmbedOps
  <2>8. next.kind = "embed" /\ next.plans = plans /\ next.doc = d /\ next.text = o.text
    BY <1>0 DEF EmbedOps
  <2> HIDE DEF next
  <2>9. OpTyped(next)
    BY <2>7, <2>8 DEF OpTyped
  <2>10. Rests(db', next)
    BY <2>4, <2>5, <2>8 DEF Rests, Draining, plans
  <2>11. IndexInv'
    BY <1>0, <1>2, <1>7, <2>1, <2>8, <2>9, <2>10, OneOperation
  <2> QED BY <1>7, <2>1, <2>11
<1> QED BY <1>3, <1>5, <1>6, <1>7

LEMMA CommitEmbeddingStep ==
  ASSUME IndexInv, NEW p \in Procs, CommitEmbedding(p)
  PROVE  IndexInv' /\ Follows(db, db') /\ db'.identity = db.identity
<1> DEFINE o == op[p]
           d == o.doc
           text == o.text
           model == o.model
           plan == o.plans[d]
           next == Dequeue(RecordSource(Upsert(db, d, text, DOMAIN text, model), d, text), d)
<1>0. /\ SoundDb(db) /\ o \in EmbedOps /\ Fresh \in Revisions /\ writer # p /\ db \in Dbs
      /\ o.stage = "infer" /\ o.kind = "embed" /\ Rests(db, o)
  BY FreshIsRevision DEF IndexInv, DbSound, SoundDb, OpsTyped, OpTyped, CommitEmbedding, Busy,
     TheWriterSyncs, OpsRest
<1>1. d \in Docs /\ text \in Texts /\ model \in Models
  BY <1>0 DEF EmbedOps
<1>2. op' = [op EXCEPT ![p] = Idle] /\ UNCHANGED <<note, hidden, writer>>
  BY DEF CommitEmbedding, Set
<1>3. \/ db' = db
      \/ /\ db' = next /\ writer = Nothing /\ db.identity = model
         /\ Shas(db.rows[d]) = plan.shas
  BY DEF CommitEmbedding, StillPlanned
<1>4. OpTyped(Idle) /\ Rests(db', Idle) /\ Idle.kind # "sync"
  BY IdleRests
<1>5. CASE db' = db
  <2>1. Follows(db, db')
    BY <1>0, <1>5, SameFollows
  <2>2. IndexInv'
    BY <1>0, <1>2, <1>4, <1>5, <2>1, OneOperation
  <2> QED BY <1>5, <2>1, <2>2
<1>6. CASE /\ db' = next /\ writer = Nothing /\ db.identity = model
           /\ Shas(db.rows[d]) = plan.shas
  <2>1. PlanOf(plan, text)
    BY <1>0 DEF Rests
  <2>2. db.rows[d] \in Seq(Rows)
    BY <1>0, <1>1 DEF Dbs
  <2>3. DOMAIN db.rows[d] = DOMAIN text
    BY <1>6, <2>1, <2>2, ShasIs DEF PlanOf
  <2>4. Len(db.rows[d]) = Len(text)
    <3>1. /\ DOMAIN db.rows[d] = 1..Len(db.rows[d]) /\ Len(db.rows[d]) \in Nat
          /\ DOMAIN text = 1..Len(text) /\ Len(text) \in Nat
      BY <1>1, <2>2, TextIs
    <3> DEFINE m == Len(db.rows[d])
               n == Len(text)
    <3>2. 1..m = 1..n /\ m \in Nat /\ n \in Nat
      BY <2>3, <3>1
    <3> HIDE DEF m, n
    <3>3. m = n
      BY <3>2
    <3> QED BY <3>3 DEF m, n
  <2> HIDE DEF d, text, model
  <2>5. Follows(db, next)
    BY <1>0, <1>1, <1>6, <2>4, EmbeddedFollows
  <2>6. next.identity = db.identity
    BY <1>0 DEF Dequeue, RecordSource, Upsert, Invalidate, Dbs
  <2>7. Follows(db, db') /\ db'.identity = db.identity
    BY <1>6, <2>5, <2>6
  <2>8. IndexInv'
    BY <1>0, <1>2, <1>4, <1>6, <2>7, OneOperation
  <2> QED BY <2>7, <2>8
<1> QED BY <1>3, <1>5, <1>6

\* A sync as it begins.
NewSync(files, model, queueing, rebuild, drain) ==
  [kind |-> "sync", files |-> files, model |-> model, queueing |-> queueing,
   rebuild |-> rebuild, drain |-> drain, selected |-> Selected(files),
   todo |-> Selected(files), plans |-> NoPlans, shadow |-> EmptyDb,
   failed |-> FALSE, stage |-> "documents"]

LEMMA EmptyDbIs ==
  /\ EmptyDb \in Dbs /\ EmptyDb.identity = Nothing
  /\ \A d \in Docs : /\ Sound(EmptyDb, d) /\ IsClean(EmptyDb.rows[d]) /\ IsCovered(EmptyDb.rows[d])
                     /\ \A m : By(EmptyDb.rows[d], m)
<1>1. EmptyDb \in Dbs /\ EmptyDb.identity = Nothing
  BY NoRows DEF EmptyDb, Dbs, Entries
<1>2. ASSUME NEW d \in Docs
      PROVE  EmptyDb.rows[d] = <<>> /\ EmptyDb.source[d] = Nothing /\ EmptyDb.queue[d] = Absent
  BY DEF EmptyDb
<1>3. ASSUME NEW d \in Docs PROVE Sound(EmptyDb, d)
  BY <1>1, <1>2, NoRows, EmbeddingAssumption DEF Sound, Agrees
<1> QED BY <1>1, <1>2, <1>3, NoRows

LEMMA NewSyncIs ==
  ASSUME IndexInv, NEW files \in Slices \cup {AllFiles}, NEW model \in Models \cup {Nothing},
         NEW queueing \in BOOLEAN, NEW rebuild \in BOOLEAN, NEW drain \in BOOLEAN,
         rebuild => model \in Models,
         ~rebuild /\ model # Nothing => ~Mismatch(model),
         drain => \A d \in Docs : Drained(db, d)
  PROVE  LET o == NewSync(files, model, queueing, rebuild, drain) IN
         OpTyped(o) /\ Rests(db, o) /\ o.kind = "sync"
<1> DEFINE o == NewSync(files, model, queueing, rebuild, drain)
<1>1. Selected(files) \subseteq Docs
  BY EmbeddingAssumption DEF Selected
<1>2. NoPlans \in Plans
  BY DEF NoPlans, Plans
<1>3. o \in SyncOps
  BY <1>1, <1>2, EmptyDbIs DEF SyncOps, NewSync
<1>4. /\ o.kind = "sync" /\ o.model = model /\ o.shadow = EmptyDb /\ o.stage = "documents"
      /\ o.rebuild = rebuild /\ o.drain = drain
  BY DEF NewSync
<1> HIDE DEF o
<1>5. OpTyped(o)
  BY <1>3, <1>4 DEF OpTyped
<1>6. rebuild => Rebuilt(o)
  BY <1>4, EmptyDbIs DEF Rebuilt
<1>7. ASSUME ~rebuild, model # Nothing PROVE InPlace(db, o)
  <2>1. ~Mismatch(model) /\ model \in Models
    BY <1>7
  <2>2. CASE db.identity = model
    BY <1>4, <2>1, <2>2, EmbeddingAssumption DEF InPlace, IndexInv, DbSound, Sound
  <2>3. CASE db.identity = Nothing /\ ~HasChunks(db)
    <3>1. \A d \in Docs : db.rows[d] = <<>>
      BY <2>3 DEF HasChunks
    <3> QED BY <1>4, <2>3, <3>1, NoRows DEF InPlace
  <2> QED BY <2>1, <2>2, <2>3 DEF Mismatch
<1>8. Rests(db, o)
  BY <1>4, <1>6, <1>7 DEF Rests, Draining
<1> QED BY <1>4, <1>5, <1>8 DEF o

LEMMA BeginLexicalStep ==
  ASSUME IndexInv, NEW p \in Procs, NEW files \in Slices \cup {AllFiles},
         NEW queueing \in BOOLEAN, BeginLexical(p, files, queueing)
  PROVE  IndexInv' /\ db' = db
<1> DEFINE o == NewSync(files, Nothing, queueing, FALSE, FALSE)
<1>1. op' = [op EXCEPT ![p] = o] /\ UNCHANGED <<note, hidden, db>> /\ writer = Nothing /\ writer' = p
  BY DEF BeginLexical, Sync, Set, NewSync
<1>2. OpTyped(o) /\ Rests(db, o) /\ o.kind = "sync"
  BY NewSyncIs
<1> HIDE DEF o
<1>3. Follows(db, db')
  BY <1>1, SameFollows DEF IndexInv, DbSound, SoundDb
<1> QED BY <1>1, <1>2, <1>3, OneOperation

\* A sync with a model, of a generation that is its model's or is to be replaced.
LEMMA ModelSyncStep ==
  ASSUME IndexInv, NEW p \in Procs, NEW files \in Slices \cup {AllFiles}, NEW model \in Models,
         NEW drain \in BOOLEAN, drain => \A d \in Docs : Drained(db, d),
         Sync(p, files, model, FALSE, Mismatch(model), drain),
         writer = Nothing, writer' = p, UNCHANGED <<note, hidden, db>>
  PROVE  IndexInv'
<1>1. PICK rebuild \in BOOLEAN : rebuild = Mismatch(model)
  BY DEF Mismatch
<1> DEFINE o == NewSync(files, model, FALSE, rebuild, drain)
<1>2. op' = [op EXCEPT ![p] = o]
  BY <1>1 DEF Sync, Set, NewSync
<1>3. model \in Models \cup {Nothing} /\ (~rebuild => ~Mismatch(model))
  BY <1>1
<1>4. OpTyped(o) /\ Rests(db, o) /\ o.kind = "sync"
  BY <1>3, NewSyncIs
<1> HIDE DEF o
<1>5. Follows(db, db')
  BY SameFollows DEF IndexInv, DbSound, SoundDb
<1> QED BY <1>2, <1>4, <1>5, OneOperation

LEMMA BeginEmbeddingStep ==
  ASSUME IndexInv, NEW p \in Procs, NEW files \in Slices \cup {AllFiles}, NEW model \in Models,
         NEW force, BeginEmbedding(p, files, model, force)
  PROVE  IndexInv' /\ db' = db
BY ModelSyncStep DEF BeginEmbedding

LEMMA BeginDrainStep ==
  ASSUME IndexInv, NEW p \in Procs, NEW model \in Models, NEW force, BeginDrain(p, model, force)
  PROVE  IndexInv' /\ db' = db
<1>0. UNCHANGED <<note, hidden, db>> /\ op[p].kind = "doctor"
  BY DEF BeginDrain, Busy
<1>1. CASE op' = [op EXCEPT ![p] = Idle] /\ UNCHANGED writer
  <2>1. OpTyped(Idle) /\ Rests(db', Idle) /\ Idle.kind # "sync"
    BY IdleRests
  <2>2. Follows(db, db')
    BY <1>0, SameFollows DEF IndexInv, DbSound, SoundDb
  <2>3. writer # p
    BY <1>0 DEF IndexInv, TheWriterSyncs
  <2> QED BY <1>0, <1>1, <2>1, <2>2, <2>3, OneOperation
<1>2. CASE /\ writer = Nothing /\ writer' = p
           /\ Sync(p, AllFiles, model, FALSE, Mismatch(model), TRUE)
  <2>1. \A d \in Docs : Drained(db, d)
    BY <1>0 DEF IndexInv, OpsRest, Rests, Draining
  <2>2. AllFiles \in Slices \cup {AllFiles} /\ TRUE \in BOOLEAN
    OBVIOUS
  <2> QED BY <1>0, <1>2, <2>1, <2>2, ModelSyncStep
<1> QED BY <1>1, <1>2 DEF BeginDrain, Set

\* Rows may be marked at any time.
LEMMA MarkDirtyFollows ==
  ASSUME NEW t, SoundDb(t), NEW docs \in SUBSET Docs
  PROVE  LET u == MarkDirty(t, docs) IN
         /\ Follows(t, u) /\ u.identity = t.identity /\ u.queue = t.queue
         /\ \A d \in docs : Marked(u.rows[d])
<1> DEFINE u == MarkDirty(t, docs)
           new == [d \in Docs |-> IF d \notin docs THEN t.rows[d] ELSE Dirtied(t.rows[d])]
<1>0. t \in Dbs
  BY DEF SoundDb
<1>1. u = [t EXCEPT !.rows = new]
  BY DEF MarkDirty, Dirtied
<1>2. \A d \in Docs : new[d] \in Seq(Rows)
  <2> SUFFICES ASSUME NEW d \in Docs PROVE new[d] \in Seq(Rows)
    OBVIOUS
  <2>1. t.rows[d] \in Seq(Rows)
    BY <1>0 DEF Dbs
  <2> QED BY <2>1, DirtiedIs
<1>3. new \in [Docs -> Seq(Rows)]
  BY <1>2
<1>4. \A d \in Docs : IF d \notin docs THEN new[d] = t.rows[d] ELSE new[d] = Dirtied(t.rows[d])
  OBVIOUS
<1> HIDE DEF u, new
<1>5. /\ u \in Dbs /\ u.rows = new /\ u.source = t.source /\ u.queue = t.queue
      /\ u.identity = t.identity
  BY <1>0, <1>1, <1>3 DEF Dbs
<1>6. ASSUME NEW d \in Docs, d \in docs
      PROVE  Sound(u, d) /\ Marked(u.rows[d])
  <2>1. Sound(t, d) /\ t.rows[d] \in Seq(Rows) /\ u.rows[d] = Dirtied(t.rows[d])
        /\ t.identity \in Models \cup {Nothing}
    BY <1>0, <1>4, <1>5, <1>6 DEF SoundDb, Dbs
  <2>2. /\ Digests(u.rows[d]) = Digests(t.rows[d]) /\ Marked(u.rows[d])
        /\ VectorsAgree(t.rows[d]) => VectorsAgree(u.rows[d])
        /\ \A m \in Models : By(t.rows[d], m) => By(u.rows[d], m)
    BY <2>1, DirtiedIs
  <2> QED BY <1>5, <2>1, <2>2 DEF Sound, Agrees
<1>7. ASSUME NEW d \in Docs, d \notin docs
      PROVE  Sound(u, d) /\ u.rows[d] = t.rows[d]
  <2>1. u.rows[d] = t.rows[d] /\ Sound(t, d)
    BY <1>4, <1>5, <1>7 DEF SoundDb
  <2> QED BY <1>5, <2>1 DEF Sound, Agrees
<1>8. ASSUME NEW d \in Docs
      PROVE  /\ Sound(u, d) /\ (Drained(t, d) => Drained(u, d))
             /\ ~(t.queue[d] # Absent /\ u.queue[d] = Absent)
  BY <1>5, <1>6, <1>7 DEF Drained
<1>9. Follows(t, u)
  BY <1>5, <1>8 DEF Follows
<1> QED BY <1>5, <1>6, <1>9 DEF u

LEMMA PrepareDrainStep ==
  ASSUME IndexInv, NEW p \in Procs, PrepareDrain(p)
  PROVE  IndexInv' /\ Follows(db, db') /\ db'.identity = db.identity
<1> DEFINE o == [kind |-> "doctor", stage |-> "sync"]
<1>1. op' = [op EXCEPT ![p] = o] /\ UNCHANGED <<note, hidden, writer>> /\ writer = Nothing
      /\ db' = MarkDirty(db, Queued(db))
  BY DEF PrepareDrain, Set
<1>2. SoundDb(db) /\ Queued(db) \subseteq Docs
  BY DEF IndexInv, DbSound, SoundDb, Queued
<1>3. /\ Follows(db, db') /\ db'.identity = db.identity /\ db'.queue = db.queue
      /\ \A d \in Queued(db) : Marked(db'.rows[d])
  BY <1>1, <1>2, MarkDirtyFollows
<1>4. \A d \in Docs : Drained(db', d)
  BY <1>3 DEF Drained, Queued
<1>5. OpTyped(o) /\ Rests(db', o) /\ o.kind # "sync"
  BY <1>4 DEF OpTyped, DoctorOps, Rests, Draining
<1> HIDE DEF o
<1>6. p # Nothing
  BY EmbeddingAssumption
<1>7. IndexInv'
  BY <1>1, <1>3, <1>5, <1>6, OneOperation
<1> QED BY <1>3, <1>7

\* Fields of a sync that rest in the generation are not what a document's step changes.
LEMMA SyncRests ==
  ASSUME NEW t, NEW o, NEW new, Rests(t, o), o.kind = "sync", new.kind = "sync",
         new.rebuild = o.rebuild, new.model = o.model, new.shadow = o.shadow,
         new.stage = o.stage, new.drain = o.drain
  PROVE  Rests(t, new)
BY DEF Rests, Rebuilt, InPlace, Draining

LEMMA PlanDocumentStep ==
  ASSUME IndexInv, NEW p \in Procs, NEW d \in Docs, PlanDocument(p, d)
  PROVE  IndexInv' /\ db' = db
<1> DEFINE o == op[p]
           unread == [o EXCEPT !.todo = @ \ {d}, !.failed = TRUE]
           plans == [e \in InFlight(o) \cup {d} |-> IF e = d THEN Plan(Target(o), d) ELSE o.plans[e]]
           planned == [o EXCEPT !.todo = @ \ {d}, !.plans = plans]
<1>0. /\ o \in SyncOps /\ o.kind = "sync" /\ writer = p /\ Rests(db, o) /\ SoundDb(db)
      /\ db \in Dbs
  BY DEF IndexInv, OpsTyped, OpTyped, PlanDocument, Busy, TheWriterSyncs, OpsRest, DbSound, SoundDb
<1>1. UNCHANGED <<note, hidden, db, writer>>
      /\ op' = [op EXCEPT ![p] = IF note[d] = Nothing THEN unread ELSE planned]
  BY DEF PlanDocument, Set
<1>2. Follows(db, db')
  BY <1>0, <1>1, SameFollows
<1>3. CASE note[d] = Nothing
  <2>1. /\ unread \in SyncOps /\ unread.kind = "sync" /\ unread.rebuild = o.rebuild
        /\ unread.model = o.model /\ unread.shadow = o.shadow /\ unread.stage = o.stage
        /\ unread.drain = o.drain
    BY <1>0 DEF SyncOps
  <2>2. op' = [op EXCEPT ![p] = unread]
    BY <1>1, <1>3
  <2> HIDE DEF unread, o
  <2>3. OpTyped(unread) /\ Rests(db', unread)
    BY <1>0, <1>1, <2>1, SyncRests DEF OpTyped
  <2>4. IndexInv'
    BY <1>0, <1>1, <1>2, <2>1, <2>2, <2>3, OneOperation
  <2> QED BY <1>1, <2>4
<1>4. CASE note[d] # Nothing
  <2>1. plans \in Plans
    <3>1. Target(o) \in Dbs
      BY <1>0 DEF Target, SyncOps
    <3>2. Target(o).rows[d] \in Seq(Rows) /\ Target(o).queue[d] \in Entries
      BY <3>1 DEF Dbs
    <3>3. note[d] \in Texts
      BY <1>4 DEF IndexInv, NotesTyped
    <3>4. Plan(Target(o), d) \in PlanRecords
      BY <3>2, <3>3, ShasIs DEF Plan, PlanRecords
    <3>5. PICK docs \in SUBSET Docs : o.plans \in [docs -> PlanRecords]
      BY <1>0 DEF SyncOps, Plans
    <3>6. InFlight(o) = docs
      BY <3>5 DEF InFlight
    <3>7. plans \in [docs \cup {d} -> PlanRecords]
      BY <3>4, <3>5, <3>6
    <3> HIDE DEF plans
    <3> QED BY <3>7 DEF Plans
  <2> HIDE DEF plans
  <2>2. /\ planned \in SyncOps /\ planned.kind = "sync" /\ planned.rebuild = o.rebuild
        /\ planned.model = o.model /\ planned.shadow = o.shadow /\ planned.stage = o.stage
        /\ planned.drain = o.drain
    BY <1>0, <2>1 DEF SyncOps
  <2>3. op' = [op EXCEPT ![p] = planned]
    BY <1>1, <1>4
  <2> HIDE DEF planned, o
  <2>4. OpTyped(planned) /\ Rests(db', planned)
    BY <1>0, <1>1, <2>2, SyncRests DEF OpTyped
  <2>5. IndexInv'
    BY <1>0, <1>1, <1>2, <2>2, <2>3, <2>4, OneOperation
  <2> QED BY <1>1, <2>5
<1> QED BY <1>3, <1>4

LEMMA SyncDocumentStep ==
  ASSUME IndexInv, NEW p \in Procs, NEW d \in Docs, SyncDocument(p, d)
  PROVE  IndexInv' /\ Follows(db, db') /\ db'.identity = db.identity
<1> DEFINE o == op[p]
           plans == [e \in InFlight(o) \ {d} |-> o.plans[e]]
           left == [o EXCEPT !.plans = plans]
           t == Target(o)
           plan == o.plans[d]
           next == Synced(o, t, d, plan)
           failing == [left EXCEPT !.failed = TRUE]
           built == [left EXCEPT !.shadow = next]
<1>0. /\ o \in SyncOps /\ o.kind = "sync" /\ writer = p /\ Rests(db, o) /\ SoundDb(db)
      /\ db \in Dbs /\ Fresh \in Revisions /\ d \in InFlight(o)
  BY FreshIsRevision DEF IndexInv, OpsTyped, OpTyped, SyncDocument, Busy, TheWriterSyncs,
     OpsRest, DbSound, SoundDb
<1>1. UNCHANGED <<note, hidden, writer>>
      /\ \/ op' = [op EXCEPT ![p] = failing] /\ db' = db
         \/ /\ StillPlanned(t, d, plan)
            /\ \/ o.rebuild /\ op' = [op EXCEPT ![p] = built] /\ db' = db
               \/ ~o.rebuild /\ op' = [op EXCEPT ![p] = left] /\ db' = next
  BY DEF SyncDocument, Set
<1>2. plans \in Plans /\ plan \in PlanRecords
  <2>1. PICK docs \in SUBSET Docs : o.plans \in [docs -> PlanRecords]
    BY <1>0 DEF SyncOps, Plans
  <2>2. plans \in [docs \ {d} -> PlanRecords] /\ d \in docs
    BY <1>0, <2>1 DEF InFlight
  <2> HIDE DEF plans
  <2> QED BY <2>1, <2>2 DEF Plans
<1> HIDE DEF plans
<1>3. /\ left \in SyncOps /\ left.kind = "sync" /\ left.rebuild = o.rebuild
      /\ left.model = o.model /\ left.shadow = o.shadow /\ left.stage = o.stage
      /\ left.drain = o.drain
  BY <1>0, <1>2 DEF SyncOps
<1> HIDE DEF left
<1>4. o.model \in Models \cup {Nothing} /\ o.shadow \in Dbs
  BY <1>0 DEF SyncOps
<1>5. CASE op' = [op EXCEPT ![p] = failing] /\ db' = db
  <2>1. /\ failing \in SyncOps /\ failing.kind = "sync" /\ failing.rebuild = o.rebuild
        /\ failing.model = o.model /\ failing.shadow = o.shadow /\ failing.stage = o.stage
        /\ failing.drain = o.drain
    BY <1>3 DEF SyncOps
  <2> HIDE DEF failing, o
  <2>2. OpTyped(failing) /\ Rests(db', failing)
    BY <1>0, <1>5, <2>1, SyncRests DEF OpTyped
  <2>3. Follows(db, db')
    BY <1>0, <1>5, SameFollows
  <2>4. IndexInv'
    BY <1>0, <1>1, <1>5, <2>1, <2>2, <2>3, OneOperation
  <2> QED BY <1>5, <2>3, <2>4
<1>6. CASE StillPlanned(t, d, plan) /\ o.rebuild /\ op' = [op EXCEPT ![p] = built] /\ db' = db
  <2>1. Rebuilt(o) /\ t = o.shadow /\ SoundDb(t) /\ o.model # Nothing /\ t.identity = Nothing
    BY <1>0, <1>4, <1>6, EmbeddingAssumption DEF Rests, Rebuilt, Target, SoundDb
  <2>2. /\ Follows(t, next) /\ OnlyAt(t, next, d)
        /\ IsClean(next.rows[d]) /\ IsCovered(next.rows[d])
        /\ By(t.rows[d], o.model) => By(next.rows[d], o.model)
    <3>1. plan.text \in Texts /\ plan.revision = t.queue[d]
      BY <1>2, <1>6 DEF PlanRecords, StillPlanned
    <3> HIDE DEF o, t, plan
    <3> QED BY <1>0, <1>4, <2>1, <3>1, SyncedFollows
  <2> HIDE DEF next
  <2>3. /\ built \in SyncOps /\ built.kind = "sync" /\ built.rebuild = o.rebuild
        /\ built.model = o.model /\ built.shadow = next /\ built.stage = o.stage
        /\ built.drain = o.drain
    BY <1>3, <2>2 DEF SyncOps, Follows
  <2> HIDE DEF built
  <2>4. Rebuilt(built)
    <3>1. o.model \in Models /\ next.identity = Nothing
      BY <2>1, <2>2 DEF Rebuilt, OnlyAt
    <3>2. ASSUME NEW e \in Docs
          PROVE  /\ Sound(next, e) /\ By(next.rows[e], o.model)
                 /\ IsClean(next.rows[e]) /\ IsCovered(next.rows[e])
      <4>1. Sound(next, e)
        BY <2>2 DEF Follows
      <4>2. CASE e = d
        BY <2>1, <2>2, <4>1, <4>2 DEF Rebuilt
      <4>3. CASE e # d
        <5>1. next.rows[e] = t.rows[e]
          BY <2>2, <4>3 DEF OnlyAt
        <5> QED BY <2>1, <4>1, <5>1 DEF Rebuilt
      <4> QED BY <4>2, <4>3
    <3> QED BY <2>3, <3>1, <3>2 DEF Rebuilt
  <2>5. OpTyped(built) /\ Rests(db', built)
    BY <1>0, <1>6, <2>3, <2>4 DEF OpTyped, Rests, Draining
  <2>6. Follows(db, db')
    BY <1>0, <1>6, SameFollows
  <2>7. IndexInv'
    BY <1>0, <1>1, <1>6, <2>3, <2>5, <2>6, OneOperation
  <2> QED BY <1>6, <2>6, <2>7
<1>7. CASE /\ StillPlanned(t, d, plan) /\ ~o.rebuild
           /\ op' = [op EXCEPT ![p] = left] /\ db' = next
  <2>1. t = db /\ (o.model # Nothing => InPlace(db, o))
    BY <1>0, <1>7 DEF Rests, Target
  <2>2. o.model # Nothing => t.identity \in {o.model, Nothing}
    BY <2>1 DEF InPlace
  <2>3. /\ Follows(t, next) /\ OnlyAt(t, next, d)
        /\ o.model # Nothing => /\ IsClean(next.rows[d]) /\ IsCovered(next.rows[d])
                                /\ By(t.rows[d], o.model) => By(next.rows[d], o.model)
    <3>1. plan.text \in Texts /\ plan.revision = t.queue[d]
      BY <1>2, <1>7 DEF PlanRecords, StillPlanned
    <3>2. SoundDb(t)
      BY <1>0, <2>1
    <3> HIDE DEF o, t, plan
    <3> QED BY <1>0, <1>4, <2>2, <3>1, <3>2, SyncedFollows
  <2> HIDE DEF next
  <2>4. Follows(db, db') /\ db'.identity = db.identity
    BY <1>7, <2>1, <2>3 DEF OnlyAt
  <2>5. ASSUME o.model # Nothing PROVE InPlace(db', left)
    <3>1. ASSUME NEW e \in Docs
          PROVE  /\ By(next.rows[e], o.model)
                 /\ db.identity = Nothing => IsCovered(next.rows[e])
      <4>1. CASE e = d
        BY <2>1, <2>3, <2>5, <4>1 DEF InPlace
      <4>2. CASE e # d
        <5>1. next.rows[e] = db.rows[e]
          BY <2>1, <2>3, <4>2 DEF OnlyAt
        <5> QED BY <2>1, <2>5, <5>1 DEF InPlace
      <4> QED BY <4>1, <4>2
    <3> QED BY <1>3, <1>7, <2>1, <2>4, <2>5, <3>1 DEF InPlace
  <2>6. Rests(db', left)
    <3>1. left.drain => \A e \in Docs : Drained(db', e)
      BY <1>0, <1>3, <2>4 DEF Rests, Draining, Follows
    <3> QED BY <1>0, <1>3, <1>7, <2>5, <3>1 DEF Rests, Draining
  <2>7. OpTyped(left)
    BY <1>3 DEF OpTyped
  <2>8. IndexInv'
    BY <1>0, <1>1, <1>3, <1>7, <2>4, <2>6, <2>7, OneOperation
  <2> QED BY <2>4, <2>8
<1> QED BY <1>1, <1>5, <1>6, <1>7

LEMMA FailSyncStep ==
  ASSUME IndexInv, NEW p \in Procs, FailSync(p)
  PROVE  IndexInv' /\ db' = db
<1>1. /\ op' = [op EXCEPT ![p] = Idle] /\ UNCHANGED <<note, hidden, db>> /\ writer' = Nothing
      /\ op[p].kind = "sync"
  BY DEF FailSync, Set, Busy
<1>2. writer = p /\ p # Nothing
  BY <1>1, EmbeddingAssumption DEF IndexInv, TheWriterSyncs
<1>3. OpTyped(Idle) /\ Rests(db', Idle) /\ Idle.kind # "sync"
  BY IdleRests
<1>4. Follows(db, db')
  BY <1>1, SameFollows DEF IndexInv, DbSound, SoundDb
<1> QED BY <1>1, <1>2, <1>3, <1>4, OneOperation

LEMMA StopStep ==
  ASSUME IndexInv, NEW p \in Procs, Stop(p)
  PROVE  IndexInv' /\ db' = db
<1>1. /\ op' = [op EXCEPT ![p] = Idle] /\ UNCHANGED <<note, hidden, db>>
      /\ writer' = IF writer = p THEN Nothing ELSE writer
  BY DEF Stop, Set
<1>2. p # Nothing
  BY EmbeddingAssumption
<1>3. OpTyped(Idle) /\ Rests(db', Idle) /\ Idle.kind # "sync"
  BY IdleRests
<1>4. Follows(db, db')
  BY <1>1, SameFollows DEF IndexInv, DbSound, SoundDb
<1> QED BY <1>1, <1>2, <1>3, <1>4, OneOperation

\* What a walk did not meet goes with its rows; its entry keeps a revision.
LEMMA ReconcileFollows ==
  ASSUME NEW t, SoundDb(t), NEW selected, Fresh \in Revisions
  PROVE  LET u == Reconcile(t, selected) IN
         /\ Follows(t, u) /\ u.identity = t.identity
         /\ \A d \in Docs : u.rows[d] \in {<<>>, t.rows[d]}
<1> DEFINE gone == Known(t) \ selected
           rows == [d \in Docs |-> IF d \in gone THEN <<>> ELSE t.rows[d]]
           source == [d \in Docs |-> IF d \in gone THEN ClearDocument(t, d).source[d]
                                     ELSE t.source[d]]
           queue == [d \in Docs |-> IF d \in gone THEN Invalidate(t, d).queue[d] ELSE t.queue[d]]
           u == [rows |-> rows, source |-> source, queue |-> queue, identity |-> t.identity]
<1>0. t \in Dbs
  BY DEF SoundDb
<1>1. Reconcile(t, selected) = u
  BY DEF Reconcile
<1> HIDE DEF gone
<1>2. ASSUME NEW d \in Docs
      PROVE  /\ rows[d] = IF d \in gone THEN <<>> ELSE t.rows[d]
             /\ source[d] = IF d \in gone THEN Nothing ELSE t.source[d]
             /\ queue[d] = IF d \in gone THEN Invalidated(t.queue[d]) ELSE t.queue[d]
  <2>1. ClearDocument(t, d).source[d] = Nothing
    BY <1>0, ClearIs DEF Replaced, Dbs
  <2>2. Invalidate(t, d).queue[d] = Invalidated(t.queue[d])
    BY <1>0, InvalidateIs DEF Replaced, Dbs
  <2> QED BY <2>1, <2>2
<1>3. ASSUME NEW d \in Docs
      PROVE  /\ t.rows[d] \in Seq(Rows) /\ t.source[d] \in Texts \cup {Nothing}
             /\ t.queue[d] \in Entries /\ Invalidated(t.queue[d]) \in Entries
             /\ (Invalidated(t.queue[d]) = Absent <=> t.queue[d] = Absent)
  BY <1>0, EmbeddingAssumption DEF Dbs, Invalidated, Entries
<1>4. /\ rows \in [Docs -> Seq(Rows)] /\ source \in [Docs -> Texts \cup {Nothing}]
      /\ queue \in [Docs -> Entries]
  <2>1. ASSUME NEW d \in Docs
        PROVE  /\ rows[d] \in Seq(Rows) /\ source[d] \in Texts \cup {Nothing}
               /\ queue[d] \in Entries
    BY <1>2, <1>3, NoRows
  <2> QED BY <2>1
<1> HIDE DEF rows, source, queue
<1>5. u \in Dbs
  BY <1>0, <1>4 DEF Dbs
<1>6. u.rows = rows /\ u.source = source /\ u.queue = queue /\ u.identity = t.identity
  OBVIOUS
<1> HIDE DEF u
<1>7. ASSUME NEW d \in Docs
      PROVE  /\ Sound(u, d) /\ (Drained(t, d) => Drained(u, d))
             /\ u.rows[d] \in {<<>>, t.rows[d]}
             /\ ~(t.queue[d] # Absent /\ u.queue[d] = Absent)
  <2>1. CASE d \in gone
    BY <1>2, <1>3, <1>6, <2>1, NoRows DEF Sound, Agrees, Drained
  <2>2. CASE d \notin gone
    <3>1. Sound(t, d)
      BY DEF SoundDb
    <3> QED BY <1>2, <1>6, <2>2, <3>1 DEF Sound, Agrees, Drained
  <2> QED BY <2>1, <2>2
<1>8. Follows(t, u)
  BY <1>5, <1>7 DEF Follows
<1> QED BY <1>1, <1>6, <1>7, <1>8

LEMMA FinishDocumentsStep ==
  ASSUME IndexInv, NEW p \in Procs, FinishDocuments(p)
  PROVE  IndexInv' /\ Follows(db, db') /\ db'.identity = db.identity
<1> DEFINE o == op[p]
           next == [o EXCEPT !.stage = "identity"]
<1>0. /\ o \in SyncOps /\ o.kind = "sync" /\ writer = p /\ Rests(db, o) /\ SoundDb(db)
      /\ Fresh \in Revisions /\ ~o.rebuild /\ p # Nothing
  BY FreshIsRevision, EmbeddingAssumption DEF IndexInv, OpsTyped, OpTyped, FinishDocuments,
     AllDone, Busy, TheWriterSyncs, OpsRest, DbSound, SoundDb
<1>1. /\ UNCHANGED <<note, hidden>>
      /\ db' = Reconcile(db, o.selected) \/ db' = db
      /\ \/ op' = [op EXCEPT ![p] = Idle] /\ writer' = Nothing
         \/ op' = [op EXCEPT ![p] = next] /\ writer' = writer /\ o.model # Nothing
  BY DEF FinishDocuments, Set
<1>2. /\ Follows(db, db') /\ db'.identity = db.identity
      /\ \A d \in Docs : db'.rows[d] \in {<<>>, db.rows[d]}
  <2> HIDE DEF o
  <2> QED BY <1>0, <1>1, SameFollows, ReconcileFollows
<1>3. CASE op' = [op EXCEPT ![p] = Idle] /\ writer' = Nothing
  <2>1. OpTyped(Idle) /\ Rests(db', Idle) /\ Idle.kind # "sync"
    BY IdleRests
  <2>2. IndexInv'
    BY <1>0, <1>1, <1>2, <1>3, <2>1, OneOperation
  <2> QED BY <1>2, <2>2
<1>4. CASE op' = [op EXCEPT ![p] = next] /\ writer' = writer /\ o.model # Nothing
  <2>1. /\ next \in SyncOps /\ next.kind = "sync" /\ next.rebuild = o.rebuild
        /\ next.model = o.model /\ next.drain = o.drain /\ next.stage = "identity"
    BY <1>0 DEF SyncOps
  <2> HIDE DEF next
  <2>2. InPlace(db, o)
    BY <1>0, <1>4 DEF Rests
  <2>3. ASSUME NEW d \in Docs
        PROVE  By(db'.rows[d], o.model) /\ (db.identity = Nothing => IsCovered(db'.rows[d]))
    BY <1>2, <2>2, NoRows DEF InPlace
  <2>4. InPlace(db', next)
    BY <1>2, <2>1, <2>2, <2>3 DEF InPlace
  <2>5. next.drain => \A d \in Docs : Drained(db', d)
    BY <1>0, <1>2, <2>1 DEF Rests, Draining, Follows
  <2>6. OpTyped(next) /\ Rests(db', next)
    BY <1>0, <1>4, <2>1, <2>4, <2>5 DEF OpTyped, Rests, Draining
  <2>7. IndexInv'
    BY <1>0, <1>1, <1>2, <1>4, <2>1, <2>6, OneOperation
  <2> QED BY <1>2, <2>7
<1> QED BY <1>1, <1>3, <1>4

\* What comes after a sync is no sync.
LEMMA AfterSyncIs ==
  ASSUME NEW o, NEW t, o.drain => \A d \in Docs : Drained(t, d)
  PROVE  OpTyped(AfterSync(o)) /\ Rests(t, AfterSync(o)) /\ AfterSync(o).kind # "sync"
<1>1. CASE o.drain
  BY <1>1 DEF AfterSync, OpTyped, DoctorOps, Rests, Draining
<1>2. CASE ~o.drain
  BY <1>2, IdleRests DEF AfterSync
<1> QED BY <1>1, <1>2

\* Every row has a vector of the generation's model.
Complete(t) == \A d \in Docs : IsCovered(t.rows[d]) /\ By(t.rows[d], t.identity)

LEMMA RecordIdentityStep ==
  ASSUME IndexInv, NEW p \in Procs, RecordIdentity(p)
  PROVE  IndexInv' /\ Follows(db, db') /\ (db'.identity # db.identity => Complete(db'))
<1> DEFINE o == op[p]
           u == [db EXCEPT !.identity = o.model]
<1>0. /\ o \in SyncOps /\ o.kind = "sync" /\ writer = p /\ Rests(db, o) /\ SoundDb(db)
      /\ o.stage = "identity" /\ p # Nothing /\ db \in Dbs
  BY EmbeddingAssumption DEF IndexInv, OpsTyped, OpTyped, RecordIdentity, Busy, TheWriterSyncs,
     OpsRest, DbSound, SoundDb
<1>1. /\ UNCHANGED <<note, hidden>> /\ db' = u /\ writer' = Nothing
      /\ op' = [op EXCEPT ![p] = AfterSync(o)]
  BY DEF RecordIdentity, Set
<1>2. InPlace(db, o) /\ o.model \in Models /\ o.model # Nothing
  BY <1>0 DEF Rests, SyncOps
<1>3. /\ u \in Dbs /\ u.rows = db.rows /\ u.source = db.source /\ u.queue = db.queue
      /\ u.identity = o.model
  BY <1>0, <1>2 DEF Dbs
<1> HIDE DEF u
<1>4. ASSUME NEW d \in Docs
      PROVE  Sound(u, d) /\ (Drained(db, d) => Drained(u, d)) /\ By(u.rows[d], u.identity)
  <2>1. Sound(db, d) /\ By(db.rows[d], o.model)
    BY <1>0, <1>2 DEF SoundDb, InPlace
  <2> QED BY <1>3, <2>1 DEF Sound, Agrees, Drained
<1>5. Follows(db, db')
  BY <1>1, <1>3, <1>4 DEF Follows
<1>6. db'.identity # db.identity => Complete(db')
  <2>1. ASSUME db'.identity # db.identity, NEW d \in Docs PROVE IsCovered(db'.rows[d])
    BY <1>1, <1>2, <1>3, <2>1 DEF InPlace
  <2> QED BY <1>1, <1>4, <2>1 DEF Complete
<1>7. o.drain => \A d \in Docs : Drained(db', d)
  BY <1>0, <1>5 DEF Rests, Draining, Follows
<1>8. OpTyped(AfterSync(o)) /\ Rests(db', AfterSync(o)) /\ AfterSync(o).kind # "sync"
  BY <1>7, AfterSyncIs
<1>9. IndexInv'
  BY <1>0, <1>1, <1>5, <1>8, OneOperation
<1> QED BY <1>5, <1>6, <1>9

LEMMA SwapGenerationStep ==
  ASSUME IndexInv, NEW p \in Procs, SwapGeneration(p)
  PROVE  IndexInv' /\ Follows(db, db') /\ (db'.identity # db.identity => Complete(db'))
<1> DEFINE o == op[p]
           u == [o.shadow EXCEPT !.identity = o.model]
<1>0. /\ o \in SyncOps /\ o.kind = "sync" /\ writer = p /\ Rests(db, o) /\ SoundDb(db)
      /\ o.rebuild /\ p # Nothing
  BY EmbeddingAssumption DEF IndexInv, OpsTyped, OpTyped, SwapGeneration, AllDone, Busy,
     TheWriterSyncs, OpsRest, DbSound, SoundDb
<1>1. /\ UNCHANGED <<note, hidden>> /\ writer' = Nothing
      /\ \/ op' = [op EXCEPT ![p] = AfterSync(o)] /\ db' = u
         \/ op' = [op EXCEPT ![p] = Idle] /\ db' = db
  BY DEF SwapGeneration, Set
<1>2. Rebuilt(o) /\ o.shadow \in Dbs /\ o.model \in Models
  BY <1>0 DEF Rests, SyncOps, Rebuilt
<1>3. /\ u \in Dbs /\ u.rows = o.shadow.rows /\ u.source = o.shadow.source
      /\ u.queue = o.shadow.queue /\ u.identity = o.model
  BY <1>2 DEF Dbs
<1> HIDE DEF u
<1>4. ASSUME NEW d \in Docs
      PROVE  /\ Sound(u, d) /\ Drained(u, d) /\ By(u.rows[d], u.identity)
             /\ IsClean(u.rows[d]) /\ IsCovered(u.rows[d])
  <2>1. /\ Sound(o.shadow, d) /\ By(o.shadow.rows[d], o.model)
        /\ IsClean(o.shadow.rows[d]) /\ IsCovered(o.shadow.rows[d])
    BY <1>2 DEF Rebuilt
  <2>2. Marked(u.rows[d])
    BY <1>3, <2>1, CoveredIsMarked
  <2> QED BY <1>3, <2>1, <2>2 DEF Sound, Agrees, Drained
<1>5. Follows(db, u) /\ Complete(u)
  BY <1>3, <1>4 DEF Follows, Complete
<1>6. CASE op' = [op EXCEPT ![p] = AfterSync(o)] /\ db' = u
  <2>1. o.drain => \A d \in Docs : Drained(db', d)
    BY <1>4, <1>6
  <2>2. OpTyped(AfterSync(o)) /\ Rests(db', AfterSync(o)) /\ AfterSync(o).kind # "sync"
    BY <2>1, AfterSyncIs
  <2>3. Follows(db, db')
    BY <1>5, <1>6
  <2>4. IndexInv'
    BY <1>0, <1>1, <1>6, <2>2, <2>3, OneOperation
  <2> QED BY <1>5, <1>6, <2>4
<1>7. CASE op' = [op EXCEPT ![p] = Idle] /\ db' = db
  <2>1. OpTyped(Idle) /\ Rests(db', Idle) /\ Idle.kind # "sync"
    BY IdleRests
  <2>2. Follows(db, db')
    BY <1>0, <1>7, SameFollows
  <2>3. IndexInv'
    BY <1>0, <1>1, <1>7, <2>1, <2>2, OneOperation
  <2> QED BY <1>7, <2>2, <2>3
<1> QED BY <1>1, <1>6, <1>7

\* The rows that a drain finds unmarked are complete, whatever was queued meanwhile.
LEMMA CompleteDrainStep ==
  ASSUME IndexInv, NEW p \in Procs, CompleteDrain(p)
  PROVE  IndexInv' /\ Follows(db, db') /\ db'.identity = db.identity
<1> DEFINE queue == [d \in Docs |-> IF IsClean(db.rows[d]) THEN Absent ELSE db.queue[d]]
           u == [db EXCEPT !.queue = queue]
<1>0. SoundDb(db) /\ db \in Dbs /\ op[p].kind = "doctor" /\ Rests(db, op[p]) /\ writer # p
  BY DEF IndexInv, CompleteDrain, Busy, TheWriterSyncs, OpsRest, DbSound, SoundDb
<1>1. /\ UNCHANGED <<note, hidden, writer>> /\ op' = [op EXCEPT ![p] = Idle]
      /\ db' = db \/ (db' = u /\ writer = Nothing)
  BY DEF CompleteDrain, Set
<1>2. queue \in [Docs -> Entries]
  <2>1. \A d \in Docs : queue[d] \in Entries
    BY <1>0 DEF Dbs, Entries
  <2> QED BY <2>1
<1>3. \A d \in Docs : queue[d] = IF IsClean(db.rows[d]) THEN Absent ELSE db.queue[d]
  OBVIOUS
<1> HIDE DEF queue
<1>4. /\ u \in Dbs /\ u.rows = db.rows /\ u.source = db.source /\ u.queue = queue
      /\ u.identity = db.identity
  BY <1>0, <1>2 DEF Dbs
<1> HIDE DEF u
<1>5. ASSUME NEW d \in Docs
      PROVE  /\ Sound(u, d) /\ Drained(u, d)
             /\ db.queue[d] # Absent /\ u.queue[d] = Absent =>
                  IsClean(u.rows[d]) /\ IsCovered(u.rows[d])
  <2>1. Sound(db, d) /\ Drained(db, d) /\ Absent \notin Revisions
    BY <1>0, EmbeddingAssumption DEF SoundDb, Rests, Draining
  <2>2. u.queue[d] = Absent \/ u.queue[d] = db.queue[d]
    BY <1>3, <1>4
  <2>3. u.queue[d] = Absent /\ db.queue[d] # Absent => IsClean(db.rows[d])
    BY <1>3, <1>4
  <2>4. Sound(u, d) /\ Drained(u, d)
    BY <1>4, <2>1, <2>2 DEF Sound, Agrees, Drained
  <2> QED BY <1>4, <2>1, <2>3, <2>4, CoveredIsMarked DEF Drained
<1>6. Follows(db, db') /\ db'.identity = db.identity
  <2>1. Follows(db, u)
    BY <1>4, <1>5 DEF Follows
  <2> QED BY <1>0, <1>1, <1>4, <2>1, SameFollows
<1>7. OpTyped(Idle) /\ Rests(db', Idle) /\ Idle.kind # "sync"
  BY IdleRests
<1>8. db' = db \/ writer = Nothing
  BY <1>1
<1>9. IndexInv'
  BY <1>0, <1>1, <1>6, <1>7, <1>8, OneOperation
<1> QED BY <1>6, <1>9

LEMMA EditStep ==
  ASSUME IndexInv, NEW d \in Docs, Edit(d) \/ ChangePolicy(d)
  PROVE  IndexInv' /\ db' = db
<1>1. UNCHANGED <<db, writer, op>>
  BY DEF Edit, ChangePolicy
<1>2. NotesTyped'
  BY DEF IndexInv, NotesTyped, Edit, ChangePolicy
<1> QED BY <1>1, <1>2 DEF IndexInv, OpsTyped, TheWriterSyncs, DbSound, OpsRest

LEMMA StutterStep ==
  ASSUME IndexInv, UNCHANGED vars
  PROVE  IndexInv' /\ db' = db
BY DEF vars, IndexInv, NotesTyped, OpsTyped, TheWriterSyncs, DbSound, OpsRest

\* What every step does to the generation.
LEMMA IndexStep ==
  ASSUME IndexInv, [Next]_vars
  PROVE  IndexInv' /\ Follows(db, db') /\ (db'.identity # db.identity => Complete(db'))
<1>0. SoundDb(db)
  BY DEF IndexInv, DbSound, SoundDb
<1>1. ASSUME NEW p \in Procs, NEW d \in Docs, NEW purge \in BOOLEAN, ReadToMaintain(p, d, purge)
      PROVE  IndexInv' /\ db' = db
  BY <1>1, ReadToMaintainStep
<1>2. ASSUME NEW p \in Procs, NEW d \in Docs, NEW model \in Models, ReadToEmbed(p, d, model)
      PROVE  IndexInv' /\ db' = db
  BY <1>2, ReadToEmbedStep
<1>3. ASSUME NEW p \in Procs, NEW d \in Docs, PlanDocument(p, d)
      PROVE  IndexInv' /\ db' = db
  BY <1>3, PlanDocumentStep
<1>4. ASSUME NEW p \in Procs, NEW d \in Docs, SyncDocument(p, d)
      PROVE  IndexInv' /\ Follows(db, db') /\ db'.identity = db.identity
  BY <1>4, SyncDocumentStep
<1>5. ASSUME NEW p \in Procs, Maintain(p) \/ PrepareEmbedding(p) \/ CommitEmbedding(p)
      PROVE  IndexInv' /\ Follows(db, db') /\ db'.identity = db.identity
  BY <1>5, MaintainStep, PrepareEmbeddingStep, CommitEmbeddingStep
<1>6. ASSUME NEW p \in Procs, NEW files \in Slices \cup {AllFiles}, NEW queueing \in BOOLEAN,
             BeginLexical(p, files, queueing)
      PROVE  IndexInv' /\ db' = db
  BY <1>6, BeginLexicalStep
<1>7. ASSUME NEW p \in Procs, NEW files \in Slices \cup {AllFiles}, NEW model \in Models,
             NEW force \in BOOLEAN, BeginEmbedding(p, files, model, force)
      PROVE  IndexInv' /\ db' = db
  BY <1>7, BeginEmbeddingStep
<1>8. ASSUME NEW p \in Procs, NEW model \in Models, NEW force \in BOOLEAN,
             BeginDrain(p, model, force)
      PROVE  IndexInv' /\ db' = db
  BY <1>8, BeginDrainStep
<1>9. ASSUME NEW p \in Procs, FailSync(p) \/ Stop(p)
      PROVE  IndexInv' /\ db' = db
  BY <1>9, FailSyncStep, StopStep
<1>10. ASSUME NEW p \in Procs, PrepareDrain(p) \/ FinishDocuments(p) \/ CompleteDrain(p)
       PROVE  IndexInv' /\ Follows(db, db') /\ db'.identity = db.identity
  BY <1>10, PrepareDrainStep, FinishDocumentsStep, CompleteDrainStep
<1>11. ASSUME NEW p \in Procs, RecordIdentity(p) \/ SwapGeneration(p)
       PROVE  IndexInv' /\ Follows(db, db') /\ (db'.identity # db.identity => Complete(db'))
  BY <1>11, RecordIdentityStep, SwapGenerationStep
<1>12. ASSUME NEW d \in Docs, Edit(d) \/ ChangePolicy(d)
       PROVE  IndexInv' /\ db' = db
  BY <1>12, EditStep
<1>13. ASSUME UNCHANGED vars
       PROVE  IndexInv' /\ db' = db
  BY <1>13, StutterStep
<1>14. ASSUME NEW p \in Procs, Step(p)
       PROVE  IndexInv' /\ (db' = db \/ Follows(db, db'))
              /\ (db'.identity # db.identity => Complete(db'))
  BY <1>14, <1>1, <1>2, <1>3, <1>4, <1>5, <1>6, <1>7, <1>8, <1>9, <1>10, <1>11 DEF Step
<1>15. IndexInv' /\ (db' = db \/ Follows(db, db')) /\ (db'.identity # db.identity => Complete(db'))
  BY <1>12, <1>13, <1>14 DEF Next
<1> QED BY <1>0, <1>15, SameFollows

LEMMA IndexInit ==
  ASSUME Init
  PROVE  IndexInv
<1>1. NotesTyped
  BY DEF Init, NotesTyped
<1>2. OpsTyped /\ OpsRest
  <2>1. ASSUME NEW p \in Procs PROVE op[p] = Idle
    BY DEF Init
  <2>2. DOMAIN op = Procs
    BY DEF Init
  <2> QED BY <2>1, <2>2, IdleRests DEF OpsTyped, OpsRest
<1>3. TheWriterSyncs
  <2>1. ASSUME NEW p \in Procs PROVE op[p].kind # "sync" /\ writer # p
    BY EmbeddingAssumption DEF Init, Idle
  <2> QED BY <2>1 DEF Init, TheWriterSyncs
<1>4. DbSound
  <2>1. CASE db = EmptyDb
    BY <2>1, EmptyDbIs DEF DbSound
  <2>2. ASSUME NEW model \in Models, NEW queued \in {Absent, Unrevised},
               db = [rows |-> [d \in Docs |-> [i \in DOMAIN note[d] |->
                                Row(note[d][i],
                                    IF queued = Absent THEN [of |-> note[d][i], by |-> model]
                                    ELSE Nothing)]],
                     source |-> note, queue |-> [d \in Docs |-> queued], identity |-> model]
        PROVE  DbSound
    <3> DEFINE of == IF queued = Absent THEN model ELSE Nothing
    <3>1. model # Nothing /\ of \in Models \cup {Nothing} /\ of \in {model, Nothing}
          /\ (of = Nothing <=> queued # Absent) /\ (of # Nothing => of = model)
      BY EmbeddingAssumption
    <3>2. ASSUME NEW d \in Docs
          PROVE  /\ note[d] \in Texts /\ db.source[d] = note[d] /\ db.queue[d] = queued
                 /\ db.rows[d] = Written(<<>>, note[d], DOMAIN note[d], of)
      <4>1. note[d] \in Texts /\ db.source[d] = note[d] /\ db.queue[d] = queued
        BY <2>2 DEF Init
      <4> DEFINE text == note[d]
                 old(i) == Row(text[i], IF queued = Absent THEN [of |-> text[i], by |-> model]
                                        ELSE Nothing)
                 new(i) == Row(text[i], IF of = Nothing THEN Nothing
                                        ELSE [of |-> text[i], by |-> of])
      <4>2. db.rows[d] = [i \in DOMAIN text |-> old(i)]
        BY <2>2
      <4>3. Written(<<>>, text, DOMAIN text, of) = [i \in DOMAIN text |-> new(i)]
        BY DEF Written
      <4>4. \A i \in DOMAIN text : old(i) = new(i)
        BY <3>1
      <4> HIDE DEF text, old, new, of
      <4>5. db.rows[d] = Written(<<>>, text, DOMAIN text, of)
        BY <4>2, <4>3, <4>4
      <4> QED BY <4>1, <4>5 DEF text
    <3> HIDE DEF of
    <3>3. ASSUME NEW d \in Docs
          PROVE  /\ db.rows[d] \in Seq(Rows) /\ Digests(db.rows[d]) = note[d]
                 /\ VectorsAgree(db.rows[d]) /\ By(db.rows[d], model)
      <4>1. Fits(<<>>, note[d], DOMAIN note[d])
        BY DEF Fits
      <4>2. <<>> \in Seq(Rows) /\ VectorsAgree(<<>>) /\ By(<<>>, model)
        BY NoRows
      <4> DEFINE none == <<>>
                 text == note[d]
                 new == Written(none, text, DOMAIN text, of)
      <4>3. text \in Texts /\ db.rows[d] = new
        BY <3>2
      <4> HIDE DEF none, text
      <4>4. Fits(none, text, DOMAIN text) /\ none \in Seq(Rows) /\ VectorsAgree(none)
            /\ By(none, model)
        BY <4>1, <4>2 DEF none, text
      <4>5. /\ new \in Seq(Rows) /\ Digests(new) = text
            /\ VectorsAgree(new) /\ By(new, model)
        BY <3>1, <4>3, <4>4, WrittenIs
      <4> QED BY <4>3, <4>5 DEF text
    <3>4. db.identity = model /\ queued \notin Revisions /\ queued \in Entries
      BY <2>2, EmbeddingAssumption DEF Entries
    <3>5. db \in Dbs
      <4> DEFINE rows == db.rows
      <4>1. rows \in [Docs -> Seq(Rows)]
        BY <2>2, <3>3
      <4>2. db = [rows |-> rows, source |-> note, queue |-> [d \in Docs |-> queued],
                  identity |-> model]
        BY <2>2
      <4>3. note \in [Docs -> Texts \cup {Nothing}]
        BY DEF Init
      <4> HIDE DEF rows
      <4> QED BY <3>4, <4>1, <4>2, <4>3 DEF Dbs
    <3>6. ASSUME NEW d \in Docs PROVE Sound(db, d)
      BY <3>2, <3>3, <3>4 DEF Sound, Agrees
    <3> QED BY <3>5, <3>6 DEF DbSound
  <2> QED BY <2>1, <2>2 DEF Init
<1> QED BY <1>1, <1>2, <1>3, <1>4 DEF IndexInv

-----------------------------------------------------------------------------
(* Theorems *)

\* The index is sound in every state, and every operation finds what it rests on.
THEOREM IndexInvariant == Spec => []IndexInv
<1>1. IndexInv /\ [Next]_vars => IndexInv'
  BY IndexStep
<1> QED BY IndexInit, <1>1, PTL DEF Spec

\* A vector is of the text of its row and of the generation's model, and a note that counts as
\* indexed from a source has that source's rows: after every interleaving of edits, passes
\* over notes, late vectors, syncs, rebuilds and stops.
THEOREM VectorsAreOfTheirRows == Spec => []RowsAgree
<1>1. IndexInv => RowsAgree
  <2> SUFFICES ASSUME IndexInv, NEW d \in Docs
               PROVE  /\ \A i \in DOMAIN db.rows[d] :
                           LET row == db.rows[d][i] IN
                           row.vector # Nothing => /\ row.vector.of = row.sha
                                                   /\ db.identity \in {row.vector.by, Nothing}
                      /\ db.source[d] # Nothing => Digests(db.rows[d]) = db.source[d]
    BY DEF RowsAgree
  <2>1. Sound(db, d)
    BY DEF IndexInv, DbSound
  <2> QED BY <2>1 DEF Sound, Agrees, VectorsAgree, By
<1> QED BY IndexInvariant, <1>1, PTL

\* What a step does to the queue.
CompleteNotesLeave ==
  \A d \in Docs : db.queue[d] # Absent /\ db'.queue[d] = Absent =>
    IsClean(db'.rows[d]) /\ IsCovered(db'.rows[d])

\* A note leaves the queue with vectors for all its rows, whoever takes it out: a maintenance
\* pass, a late answer of a model, a drain or a new generation.
THEOREM TheQueueIsNotLeftEarly == Spec => DequeuedNotesHaveVectors
<1>1. IndexInv /\ [Next]_vars => CompleteNotesLeave
  BY IndexStep DEF Follows, CompleteNotesLeave
<1>2. DequeuedNotesHaveVectors <=> [][CompleteNotesLeave]_vars
  BY DEF DequeuedNotesHaveVectors, CompleteNotesLeave
<1> QED BY IndexInvariant, <1>1, <1>2, PTL DEF Spec

\* What a step does to a generation whose model it records.
IdentityIsEarned ==
  db'.identity # db.identity =>
    \A d \in Docs : \A i \in DOMAIN db'.rows[d] :
      db'.rows[d][i].vector # Nothing /\ db'.rows[d][i].vector.by = db'.identity

\* A generation gets a model with every row's vector of that model, after whatever failed or
\* unfinished syncs went before.
THEOREM IdentityIsComplete == Spec => IdentityMeansComplete
<1>1. IndexInv /\ [Next]_vars => IdentityIsEarned
  <2> SUFFICES ASSUME IndexInv, [Next]_vars PROVE IdentityIsEarned
    OBVIOUS
  <2>1. db'.identity # db.identity => Complete(db')
    BY IndexStep
  <2> QED BY <2>1 DEF Complete, IsCovered, By, IdentityIsEarned
<1>2. IdentityMeansComplete <=> [][IdentityIsEarned]_vars
  BY DEF IdentityMeansComplete, IdentityIsEarned
<1> QED BY IndexInvariant, <1>1, <1>2, PTL DEF Spec
=============================================================================
