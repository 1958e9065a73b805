------------------------ MODULE EmbedPipelineProofs -------------------------
(***************************************************************************)
(* Proofs about EmbedPipeline, for any number of workers, files, models and*)
(* events: the invariants of the tables hold; a (document, model) pair is  *)
(* always one whole plan in one state; and with a single worker no document*)
(* keeps vectors of content older than its recorded hash.                  *)
(***************************************************************************)
EXTENDS EmbedPipeline, FiniteSetTheorems, TLAPS

-----------------------------------------------------------------------------
(***************************************************************************)
(* The tables.                                                             *)
(***************************************************************************)

-----------------------------------------------------------------------------
(* What the repository's statements do to the set of embedded rows.         *)

\* Marking documents stale takes their rows out of the embedded ones.
LEMMA MarkStaleFacts ==
  ASSUME NEW r, NEW D
  PROVE  /\ DOMAIN MarkStaleRows(r, D) = DOMAIN r
         /\ Embedded(MarkStaleRows(r, D)) = {k \in Embedded(r) : k.doc \notin D}
BY DEF MarkStaleRows, Embedded

\* Deleting rows takes exactly these out.
LEMMA DeleteFacts ==
  ASSUME NEW r, NEW K
  PROVE  /\ DOMAIN DeleteRows(r, K) = DOMAIN r \ K
         /\ Embedded(DeleteRows(r, K)) = Embedded(r) \ K
BY DEF DeleteRows, Embedded

\* The keys of a plan belong to its document and model.
LEMMA PlannedKeysFacts ==
  ASSUME NEW d, NEW m, NEW v
  PROVE  \A k \in PlannedKeys(d, m, v) : k.doc = d /\ k.model = m
BY DEF PlannedKeys, RowKey

\* Inserting pending rows adds keys of the given documents and model only, and
\* makes nothing embedded.
LEMMA InsertFacts ==
  ASSUME NEW r, NEW m, NEW plans
  PROVE  LET r1 == InsertPendingRows(r, m, plans)
             new == DOMAIN r1 \ DOMAIN r
         IN  /\ DOMAIN r \subseteq DOMAIN r1
             /\ \A k \in new : k.doc \in DOMAIN plans /\ k.model = m
             /\ Embedded(r1) \subseteq Embedded(r)
             /\ \A k \in Embedded(r) :
                  k \in Embedded(r1) \/ (k.doc \in DOMAIN plans /\ k.model = m)
<1> DEFINE new == UNION {PlannedKeys(d, m, plans[d]) : d \in DOMAIN plans}
<1>1. \A k \in new : k.doc \in DOMAIN plans /\ k.model = m
  BY PlannedKeysFacts
<1> HIDE DEF new
<1>2. InsertPendingRows(r, m, plans) =
        [k \in DOMAIN r \cup new |->
           IF k \in new
           THEN [state |-> "pending", plan |-> plans[k.doc], emb |-> NoVersion]
           ELSE r[k]]
  BY DEF InsertPendingRows, new
<1> QED
  BY <1>1, <1>2 DEF Embedded

\* Replacing a pair touches no other pair, and leaves only embedded rows in it.
LEMMA ReplaceFacts ==
  ASSUME NEW r, NEW d, NEW m, NEW chunks, NEW v
  PROVE  LET r1 == ReplaceRows(r, d, m, chunks, v)
         IN  /\ \A k \in DOMAIN r1 : k \in DOMAIN r \/ k.doc = d
             /\ PairKeys(r1, d, m) \subseteq Embedded(r1)
             /\ \A k : ~(k.doc = d /\ k.model = m) =>
                         (k \in Embedded(r1) <=> k \in Embedded(r))
<1> DEFINE new == {RowKey(d, m, x.chunk) : x \in chunks}
           old == DOMAIN r \ PairKeys(r, d, m)
           r1 == ReplaceRows(r, d, m, chunks, v)
<1>1. \A k \in new : k.doc = d /\ k.model = m
  BY DEF RowKey
<1>2. \A k \in old : ~(k.doc = d /\ k.model = m)
  BY DEF PairKeys
<1>3. /\ DOMAIN r1 = old \cup new
      /\ \A k \in new : r1[k].state = "embedded"
      /\ \A k \in old : k \notin new => r1[k] = r[k]
  BY DEF ReplaceRows
<1> HIDE DEF new, r1
<1>4. \A k \in DOMAIN r1 : k \in DOMAIN r \/ k.doc = d
  BY <1>1, <1>3
<1>5. PairKeys(r1, d, m) \subseteq Embedded(r1)
  BY <1>2, <1>3 DEF PairKeys, Embedded
<1>6. \A k : ~(k.doc = d /\ k.model = m) => (k \in Embedded(r1) <=> k \in Embedded(r))
  BY <1>1, <1>3 DEF Embedded, PairKeys
<1> QED
  BY <1>4, <1>5, <1>6 DEF r1

-----------------------------------------------------------------------------
(* Steps.                                                                   *)

\* The initial tables are empty.
LEMMA InitTables == Init => TableInv
BY DEF Init, TableInv, IdsAndModel, OneDocPerPath, RowsHaveDocument,
       IndexMatchesRows, Embedded

\* POST /documents/stale: rows and vectors of the documents go together.
LEMMA PostStaleStep ==
  ASSUME TableInv, NEW D, PostStale(D)
  PROVE  TableInv'
<1>1. /\ DOMAIN rows' = DOMAIN rows
      /\ Embedded(rows') = {k \in Embedded(rows) : k.doc \notin D \cap DOMAIN documents}
  BY MarkStaleFacts DEF PostStale
<1>2. vec' = {k \in vec : k.doc \notin D}
  BY DEF PostStale, DeleteVecForDocuments
<1>3. UNCHANGED <<documents, lastDoc, vecModel, models, active>>
  BY DEF PostStale, setup
<1>4. \A k \in Embedded(rows) : k.doc \in DOMAIN documents
  BY DEF TableInv, RowsHaveDocument, Embedded
<1>5. IndexMatchesRows'
  BY <1>1, <1>2, <1>3, <1>4 DEF TableInv, IndexMatchesRows, Embedded
<1> QED
  BY <1>1, <1>3, <1>5 DEF TableInv, IdsAndModel, OneDocPerPath, RowsHaveDocument

\* The tail of an upsert, from tables in which the invariant already holds.
LEMMA ReplacePendingStep ==
  ASSUME NEW w, NEW d, NEW rows1, NEW vec1, NEW queue1,
         ReplacePending(w, d, rows1, vec1, queue1), active' = active,
         vec1 \subseteq Embedded(rows1),
         {k \in Embedded(rows1) : k.model = active} \subseteq vec1
  PROVE  /\ IndexMatchesRows'
         /\ \A k \in DOMAIN rows' : k \in DOMAIN rows1 \/ k.doc = d
<1> DEFINE m == worker[w].model
           K == PairKeys(rows1, d, m)
           rows2 == DeleteRows(rows1, K)
           plans == [x \in {d} |-> worker[w].plan]
<1>1. DOMAIN rows2 = DOMAIN rows1 \ K /\ Embedded(rows2) = Embedded(rows1) \ K
  BY DeleteFacts
<1>2. rows' = InsertPendingRows(rows2, m, plans)
  BY DEF ReplacePending
<1>p. DOMAIN plans = {d}
  OBVIOUS
<1>v. vec' = DeleteVecForNonEmbedded(DeleteVecForPair(vec1, d, m), rows', m, {d})
  BY DEF ReplacePending
<1> HIDE DEF plans, rows2
<1>3. /\ DOMAIN rows2 \subseteq DOMAIN rows'
      /\ \A k \in DOMAIN rows' \ DOMAIN rows2 : k.doc = d /\ k.model = m
      /\ Embedded(rows') \subseteq Embedded(rows2)
      /\ \A k \in Embedded(rows2) : k \in Embedded(rows') \/ (k.doc = d /\ k.model = m)
  BY <1>2, <1>p, InsertFacts
<1>4. \A k \in Embedded(rows2) : ~(k.doc = d /\ k.model = m)
  BY <1>1 DEF PairKeys, Embedded
<1>5. Embedded(rows') = Embedded(rows1) \ K
  BY <1>1, <1>3, <1>4
<1>6. vec' = {k \in vec1 : ~(k.doc = d /\ k.model = m)}
  BY <1>v DEF DeleteVecForNonEmbedded, DeleteVecForPair
<1>7. vec' = vec1 \ K
  BY <1>6 DEF PairKeys, Embedded
<1>8. IndexMatchesRows'
  BY <1>5, <1>7 DEF IndexMatchesRows, Embedded
<1>9. \A k \in DOMAIN rows' : k \in DOMAIN rows1 \/ k.doc = d
  BY <1>1, <1>3
<1> QED
  BY <1>8, <1>9

\* Upsert of a document whose hash changed: the path of the row stays what it
\* was, so no second document appears for it.
LEMMA UpsertChangedStep ==
  ASSUME TableInv, NEW w \in Workers, UpsertChanged(w)
  PROVE  TableInv'
<1>0. PICK d \in DocAt(worker[w].path) :
        /\ documents' = [documents EXCEPT ![d] = [path |-> worker[w].path,
                                                  hash |-> worker[w].hash]]
        /\ ReplacePending(w, d, MarkStaleRows(rows, {d}), DeleteVecForDocuments(vec, {d}),
                          SeedEmbedJobs(queue, MarkStaleRows(rows, {d})))
  BY DEF UpsertChanged
<1>1. UNCHANGED <<lastDoc, vecModel, models, active>>
  BY DEF UpsertChanged, setup
<1>2. /\ d \in DOMAIN documents /\ documents[d].path = worker[w].path
      /\ DOMAIN documents' = DOMAIN documents
      /\ \A x \in DOMAIN documents : documents'[x].path = documents[x].path
  BY <1>0 DEF DocAt
<1> DEFINE rows1 == MarkStaleRows(rows, {d})
           vec1 == DeleteVecForDocuments(vec, {d})
<1>3. /\ DOMAIN rows1 = DOMAIN rows
      /\ Embedded(rows1) = {k \in Embedded(rows) : k.doc \notin {d}}
  BY MarkStaleFacts
<1>4. vec1 = {k \in vec : k.doc \notin {d}}
  BY DEF DeleteVecForDocuments
<1> HIDE DEF rows1, vec1
<1>5. /\ vec1 \subseteq Embedded(rows1)
      /\ {k \in Embedded(rows1) : k.model = active} \subseteq vec1
  BY <1>3, <1>4 DEF TableInv, IndexMatchesRows
<1>6. ReplacePending(w, d, rows1, vec1, SeedEmbedJobs(queue, rows1))
  BY <1>0 DEF rows1, vec1
<1>7. /\ IndexMatchesRows'
      /\ \A k \in DOMAIN rows' : k \in DOMAIN rows1 \/ k.doc = d
  BY <1>1, <1>5, <1>6, ReplacePendingStep
<1>8. RowsHaveDocument'
  BY <1>2, <1>3, <1>7 DEF TableInv, RowsHaveDocument
<1>9. OneDocPerPath'
  BY <1>2 DEF TableInv, OneDocPerPath
<1> QED
  BY <1>1, <1>2, <1>7, <1>8, <1>9 DEF TableInv, IdsAndModel

\* Upsert of a path no document has: the lookup and the insert are one step.
LEMMA UpsertNewStep ==
  ASSUME TableInv, NEW w \in Workers, UpsertNew(w)
  PROVE  TableInv'
<1> DEFINE n == lastDoc + 1
<1>1. /\ lastDoc' = n /\ UNCHANGED <<vecModel, models, active>>
      /\ ReplacePending(w, n, rows, vec, queue)
      /\ \A x \in DOMAIN documents : documents[x].path # worker[w].path
  BY DEF UpsertNew, setup, DocAt
<1>2. n \notin DOMAIN documents /\ n \in Nat
  BY DEF TableInv, IdsAndModel
<1>3. /\ DOMAIN documents' = DOMAIN documents \cup {n}
      /\ documents'[n].path = worker[w].path
      /\ \A x \in DOMAIN documents : documents'[x] = documents[x]
  BY <1>2 DEF UpsertNew
<1>4. IdsAndModel'
  BY <1>1, <1>2, <1>3 DEF TableInv, IdsAndModel
<1> HIDE DEF n
<1>5. /\ IndexMatchesRows'
      /\ \A k \in DOMAIN rows' : k \in DOMAIN rows \/ k.doc = n
  BY <1>1, ReplacePendingStep DEF TableInv, IndexMatchesRows
<1>6. RowsHaveDocument'
  BY <1>3, <1>5 DEF TableInv, RowsHaveDocument
<1>7. OneDocPerPath'
  BY <1>1, <1>3 DEF TableInv, OneDocPerPath
<1> QED
  BY <1>4, <1>5, <1>6, <1>7 DEF TableInv

\* delete_document takes rows and vectors along.
LEMMA DropDocumentStep ==
  ASSUME TableInv, NEW w \in Workers, DropDocument(w)
  PROVE  TableInv'
<1> DEFINE d == worker[w].doc
           K == DocKeys(DOMAIN rows, {d})
<1>1. /\ vec' = {k \in vec : k.doc # d}
      /\ DOMAIN documents' = DOMAIN documents \ {d}
      /\ \A x \in DOMAIN documents' : documents'[x] = documents[x]
      /\ UNCHANGED <<lastDoc, vecModel, models, active>>
  BY DEF DropDocument, DeleteVecForDocuments, setup
<1>2. rows' = DeleteRows(rows, K)
  BY DEF DropDocument
<1>3. DOMAIN rows' = DOMAIN rows \ K /\ Embedded(rows') = Embedded(rows) \ K
  BY <1>2, DeleteFacts
<1>4. IndexMatchesRows'
  BY <1>1, <1>3 DEF TableInv, IndexMatchesRows, DocKeys, Embedded
<1>5. RowsHaveDocument'
  BY <1>1, <1>3 DEF TableInv, RowsHaveDocument, DocKeys
<1>6. IdsAndModel' /\ OneDocPerPath'
  BY <1>1 DEF TableInv, IdsAndModel, OneDocPerPath
<1> QED
  BY <1>4, <1>5, <1>6 DEF TableInv

\* Storing vectors: the document is still there, and the pair's vectors are
\* exchanged together with its rows.
LEMMA StoreStep ==
  ASSUME TableInv, NEW w \in Workers, StoreEmbeddings(w)
  PROVE  TableInv'
<1> DEFINE d == worker[w].doc
           m == worker[w].model
<1>1. UNCHANGED <<documents, lastDoc, vecModel, models, active>>
  BY DEF StoreEmbeddings, setup
<1>2. CASE UNCHANGED <<rows, vec>>
  BY <1>1, <1>2 DEF TableInv, IdsAndModel, OneDocPerPath, RowsHaveDocument,
                    IndexMatchesRows, Embedded
<1>3. CASE /\ d \in DOMAIN documents
           /\ rows' = ReplaceRows(rows, d, m, worker[w].list, worker[w].read)
           /\ vec' = SyncVecForPair(DeleteVecForPair(vec, d, m), rows', d, m)
  <2>1. /\ \A k \in DOMAIN rows' : k \in DOMAIN rows \/ k.doc = d
        /\ PairKeys(rows', d, m) \subseteq Embedded(rows')
        /\ \A k : ~(k.doc = d /\ k.model = m) =>
                    (k \in Embedded(rows') <=> k \in Embedded(rows))
    BY <1>3, ReplaceFacts
  <2>2. \A k : k \in vec' <=> \/ k \in vec /\ ~(k.doc = d /\ k.model = m)
                              \/ k \in Embedded(rows') /\ k.doc = d /\ k.model = m
    BY <1>3, <2>1 DEF SyncVecForPair, DeleteVecForPair, PairKeys, Embedded
  <2>3. IndexMatchesRows'
    BY <1>1, <2>1, <2>2 DEF TableInv, IndexMatchesRows
  <2>4. RowsHaveDocument'
    BY <1>1, <1>3, <2>1 DEF TableInv, RowsHaveDocument
  <2> QED
    BY <1>1, <2>3, <2>4 DEF TableInv, IdsAndModel, OneDocPerPath
<1> QED
  BY <1>2, <1>3 DEF StoreEmbeddings

\* Restart: backfill adds pending rows of existing documents, the index is
\* rebuilt exactly when another model takes over.
LEMMA RestartStep ==
  ASSUME TableInv, NEW m \in Models, Restart(m)
  PROVE  TableInv'
<1>1. /\ UNCHANGED <<documents, lastDoc>> /\ active' = m /\ vecModel' = m
      /\ models' = models \cup {m}
      /\ vec' = IF vecModel = m THEN vec ELSE {k \in Embedded(rows') : k.model = m}
  BY DEF Restart
<1>2. /\ Embedded(rows') \subseteq Embedded(rows)
      /\ \A k \in DOMAIN rows' : k \in DOMAIN rows \/ k.doc \in DOMAIN documents
  <2>1. CASE rows' = rows
    BY <2>1
  <2>2. CASE rows' = InsertPendingRows(rows, m, BackfillPlans)
    <3>1. DOMAIN BackfillPlans = DOMAIN documents
      BY DEF BackfillPlans
    <3> QED
      BY <2>2, <3>1, InsertFacts
  <2> QED
    BY <2>1, <2>2 DEF Restart
<1>3. IndexMatchesRows'
  <2>1. CASE vecModel = m
    <3>1. rows' = rows /\ vec' = vec /\ active' = active
      BY <1>1, <2>1 DEF TableInv, IdsAndModel, Restart
    <3> QED
      BY <3>1 DEF TableInv, IndexMatchesRows, Embedded
  <2>2. CASE vecModel # m
    BY <1>1, <2>2 DEF IndexMatchesRows, Embedded
  <2> QED
    BY <2>1, <2>2
<1> QED
  BY <1>1, <1>2, <1>3 DEF TableInv, IdsAndModel, OneDocPerPath, RowsHaveDocument

\* Every other step leaves documents, rows, vectors and models alone.
LEMMA FrameStep ==
  ASSUME TableInv, UNCHANGED <<tables, setup>>
  PROVE  TableInv'
BY DEF tables, setup, TableInv, IdsAndModel, OneDocPerPath, RowsHaveDocument,
       IndexMatchesRows, Embedded

\* Every step of the pipeline preserves the table invariant.
LEMMA NextTables == TableInv /\ [Next]_vars => TableInv'
<1> SUFFICES ASSUME TableInv, [Next]_vars PROVE TableInv'
  OBVIOUS
<1>1. ASSUME NEW w \in Workers, WorkerStep(w) PROVE TableInv'
  <2>1. CASE ClaimNext(w) \/ NothingToClaim(w) \/ Complete(w)
    BY <2>1, FrameStep DEF ClaimNext, NothingToClaim, Complete, vars
  <2>2. CASE IngestStep(w)
    <3>1. CASE UpsertChanged(w)
      BY <3>1, UpsertChangedStep
    <3>2. CASE UpsertNew(w)
      BY <3>2, UpsertNewStep
    <3>3. CASE \/ WalkDone(w) \/ (\E p \in Paths : HashCandidate(w, p))
               \/ ReadContent(w) \/ ReadContentFails(w) \/ UpsertUnchanged(w)
      BY <3>3, FrameStep
         DEF WalkDone, HashCandidate, ReadContent, ReadContentFails, UpsertUnchanged
    <3> QED
      BY <2>2, <3>1, <3>2, <3>3 DEF IngestStep
  <2>3. CASE EmbedStep(w)
    <3>1. CASE DropDocument(w)
      BY <3>1, DropDocumentStep
    <3>2. CASE StoreEmbeddings(w)
      BY <3>2, StoreStep
    <3>3. CASE \/ LoadDocument(w) \/ CheckFile(w) \/ ReleaseJob(w) \/ ReplanHash(w)
               \/ ListRows(w) \/ PrepareChunks(w)
      BY <3>3, FrameStep
         DEF LoadDocument, CheckFile, ReleaseJob, ReplanHash, ListRows, PrepareChunks
    <3> QED
      BY <2>3, <3>1, <3>2, <3>3 DEF EmbedStep
  <2> QED
    BY <1>1, <2>1, <2>2, <2>3 DEF WorkerStep
<1>2. CASE \E S \in SUBSET DOMAIN queue.jobs : ClaimsExpire(S)
  BY <1>2, FrameStep DEF ClaimsExpire
<1>3. CASE Environment
  <2>1. CASE \E d \in 1..(lastDoc + 1) : PostStale({d})
    BY <2>1, PostStaleStep
  <2>2. CASE \/ \E p \in Paths : EditFile(p) \/ RemoveFile(p) \/ RestoreFile(p)
             \/ PostIngest
             \/ \E w \in Workers : Fault(w)
    BY <2>2, FrameStep DEF EditFile, RemoveFile, RestoreFile, PostIngest, Fault, GiveUp
  <2> QED
    BY <1>3, <2>1, <2>2 DEF Environment
<1>4. CASE \E m \in Models : Restart(m)
  BY <1>4, RestartStep
<1>5. CASE UNCHANGED vars
  BY <1>5, FrameStep DEF vars
<1> QED
  BY <1>1, <1>2, <1>3, <1>4, <1>5 DEF Next

-----------------------------------------------------------------------------
(* Theorems.                                                                *)

\* The table invariant holds in every reachable state.
THEOREM TablesInvariant == Spec => []TableInv
BY InitTables, NextTables, PTL DEF Spec

\* No path is ever inserted twice, however ingests, replans and deletions of
\* the same file interleave.
THEOREM NoDuplicateDocuments == Spec => []OneDocPerPath
<1>1. TableInv => OneDocPerPath
  BY DEF TableInv
<1> QED
  BY <1>1, TablesInvariant, PTL

\* No handler resurrects the rows of a deleted document.
THEOREM NoOrphanRows == Spec => []RowsHaveDocument
<1>1. TableInv => RowsHaveDocument
  BY DEF TableInv
<1> QED
  BY <1>1, TablesInvariant, PTL

\* The hand-maintained vector table never diverges from the embedding rows.
THEOREM IndexNeverDiverges == Spec => []IndexMatchesRows
<1>1. TableInv => IndexMatchesRows
  BY DEF TableInv
<1> QED
  BY <1>1, TablesInvariant, PTL

-----------------------------------------------------------------------------
(***************************************************************************)
(* Types, and whole plans: a (document, model) pair is one plan in one state.*)
(***************************************************************************)

\* Rows of registered models (those of M), typed and finite in number.
RowsTyped(r, M) ==
  /\ DOMAIN r \subseteq Keys
  /\ r \in [DOMAIN r -> Row]
  /\ IsFiniteSet(DOMAIN r)
  /\ \A k \in DOMAIN r : k.model \in M

\* WholePlanPerPair, of any table of rows.
Whole(r) ==
  \A k \in DOMAIN r :
    /\ PairKeys(r, k.doc, k.model) = PlannedKeys(k.doc, k.model, r[k].plan)
    /\ \A j \in PairKeys(r, k.doc, k.model) :
         /\ r[j].plan = r[k].plan
         /\ r[j].state = "embedded" <=> r[k].state = "embedded"

RowsOK(r, M) == RowsTyped(r, M) /\ Whole(r)

QueueOK(q, M) ==
  /\ q \in [last : Nat, jobs : [DOMAIN q.jobs -> Job]]
  /\ DOMAIN q.jobs \subseteq 1..q.last
  /\ \A i \in DOMAIN q.jobs : q.jobs[i].payload = IngestPayload \/ q.jobs[i].payload.model \in M

-----------------------------------------------------------------------------
(* Finite images and plans.                                                 *)

\* A function with a finite domain has a finite range.
LEMMA FiniteImage ==
  ASSUME NEW f, IsFiniteSet(DOMAIN f)
  PROVE  IsFiniteSet({f[x] : x \in DOMAIN f})
<1> DEFINE T == {f[x] : x \in DOMAIN f}
           g == [x \in DOMAIN f |-> f[x]]
<1>1. g \in Surjection(DOMAIN f, T)
  BY DEF Surjection
<1> QED
  BY <1>1, FS_Surjection

\* A plan is a finite set of chunk numbers.
LEMMA PlannedChunksFacts ==
  ASSUME NEW v \in Versions
  PROVE  PlannedChunks(v) \subseteq Nat /\ IsFiniteSet(PlannedChunks(v))
<1>1. CASE v = NoVersion
  <2>1. PlannedChunks(v) = {0}
    BY <1>1 DEF PlannedChunks, FilenameChunk
  <2> QED
    BY <2>1, FS_Singleton
<1>2. CASE v # NoVersion
  <2>1. v \in 1..MaxVersion
    BY <1>2, BoundAssumption DEF Versions, NoVersion
  <2>2. PlannedChunks(v) = ContentChunks[v] \cup {0}
    BY <1>2 DEF PlannedChunks, FilenameChunk
  <2>3. ContentChunks[v] \subseteq Nat /\ IsFiniteSet(ContentChunks[v])
    BY <2>1, ChunkAssumption
  <2> QED
    BY <2>2, <2>3, FS_AddElement
<1> QED
  BY <1>1, <1>2

\* The keys of a plan are typed and finite in number.
LEMMA PlannedKeysTyped ==
  ASSUME NEW d \in Nat, NEW m \in Models, NEW v \in Versions
  PROVE  PlannedKeys(d, m, v) \subseteq Keys /\ IsFiniteSet(PlannedKeys(d, m, v))
<1> DEFINE f == [c \in PlannedChunks(v) |-> RowKey(d, m, c)]
<1>1. IsFiniteSet({f[c] : c \in DOMAIN f})
  BY PlannedChunksFacts, FiniteImage
<1>2. PlannedKeys(d, m, v) = {f[c] : c \in DOMAIN f}
  BY DEF PlannedKeys
<1>3. PlannedKeys(d, m, v) \subseteq Keys
  BY PlannedChunksFacts DEF PlannedKeys, RowKey, Keys
<1> QED
  BY <1>1, <1>2, <1>3

-----------------------------------------------------------------------------
(* Rows.                                                                    *)

\* Marking documents stale marks whole pairs.
LEMMA MarkStaleOK ==
  ASSUME NEW r, NEW M, NEW D, RowsOK(r, M)
  PROVE  RowsOK(MarkStaleRows(r, D), M)
<1> DEFINE s == MarkStaleRows(r, D)
<1>1. /\ DOMAIN s = DOMAIN r
      /\ \A k \in DOMAIN r : /\ s[k] \in Row /\ s[k].plan = r[k].plan
                             /\ s[k].state = "embedded" <=>
                                  r[k].state = "embedded" /\ k.doc \notin D
  BY DEF MarkStaleRows, RowsOK, RowsTyped, Row
<1>2. \A d, m : PairKeys(s, d, m) = PairKeys(r, d, m)
  BY <1>1 DEF PairKeys
<1>3. s \in [DOMAIN s -> Row]
  BY <1>1 DEF MarkStaleRows
<1> HIDE DEF s
<1>4. Whole(s)
  BY <1>1, <1>2 DEF RowsOK, Whole, PairKeys
<1> QED
  BY <1>1, <1>3, <1>4 DEF RowsOK, RowsTyped, s

\* Deleting whole pairs leaves whole pairs.
LEMMA DeleteOK ==
  ASSUME NEW r, NEW M, NEW K, RowsOK(r, M),
         \A j, k \in DOMAIN r :
           j.doc = k.doc /\ j.model = k.model => (j \in K <=> k \in K)
  PROVE  RowsOK(DeleteRows(r, K), M)
<1> DEFINE s == DeleteRows(r, K)
<1>1. DOMAIN s = DOMAIN r \ K /\ \A k \in DOMAIN s : s[k] = r[k]
  BY DEF DeleteRows
<1>2. \A k \in DOMAIN s : PairKeys(s, k.doc, k.model) = PairKeys(r, k.doc, k.model)
  BY <1>1 DEF PairKeys
<1>3. s \in [DOMAIN s -> Row]
  BY <1>1 DEF RowsOK, RowsTyped, DeleteRows
<1>4. IsFiniteSet(DOMAIN s)
  BY <1>1, FS_Subset DEF RowsOK, RowsTyped
<1> HIDE DEF s
<1>5. Whole(s)
  BY <1>1, <1>2 DEF RowsOK, Whole, PairKeys
<1> QED
  BY <1>1, <1>3, <1>4, <1>5 DEF RowsOK, RowsTyped, s

\* Inserting plans of documents that have no rows of the model.
LEMMA InsertOK ==
  ASSUME NEW r, NEW M, NEW m \in Models, NEW plans, RowsOK(r, M),
         DOMAIN plans \subseteq Nat, IsFiniteSet(DOMAIN plans),
         \A d \in DOMAIN plans : plans[d] \in Versions,
         \A k \in DOMAIN r : ~(k.model = m /\ k.doc \in DOMAIN plans)
  PROVE  RowsOK(InsertPendingRows(r, m, plans), M \cup {m})
<1> DEFINE keys == [d \in DOMAIN plans |-> PlannedKeys(d, m, plans[d])]
           new == UNION {PlannedKeys(d, m, plans[d]) : d \in DOMAIN plans}
           s == InsertPendingRows(r, m, plans)
           p(k) == [state |-> "pending", plan |-> plans[k.doc], emb |-> NoVersion]
<1>1. /\ new \subseteq Keys
      /\ \A k : k \in new <=> /\ k.doc \in DOMAIN plans
                              /\ k \in PlannedKeys(k.doc, m, plans[k.doc])
      /\ \A k \in new : k.doc \in DOMAIN plans /\ k.model = m
  BY PlannedKeysTyped, PlannedKeysFacts
<1>2. IsFiniteSet(new)
  <2>1. IsFiniteSet({keys[d] : d \in DOMAIN keys})
    BY FiniteImage
  <2>2. \A T \in {keys[d] : d \in DOMAIN keys} : IsFiniteSet(T)
    BY PlannedKeysTyped
  <2>3. new = UNION {keys[d] : d \in DOMAIN keys}
    OBVIOUS
  <2> HIDE DEF keys, new
  <2> QED
    BY <2>1, <2>2, <2>3, FS_UNION
<1>3. s = [k \in DOMAIN r \cup new |-> IF k \in new THEN p(k) ELSE r[k]]
  BY DEF InsertPendingRows
<1> HIDE DEF new, s
<1>4. DOMAIN s = DOMAIN r \cup new /\ IsFiniteSet(DOMAIN s)
  BY <1>2, <1>3, FS_Union DEF RowsOK, RowsTyped
<1>5. /\ \A k \in new : s[k] = p(k)
      /\ \A k \in DOMAIN r : s[k] = r[k]
  BY <1>1, <1>3
<1>6. s \in [DOMAIN s -> Row]
  <2>1. \A k \in new : p(k) \in Row
    BY <1>1, BoundAssumption DEF Row, Versions, NoVersion
  <2>2. \A k \in DOMAIN s : s[k] \in Row
    BY <1>4, <1>5, <2>1 DEF RowsOK, RowsTyped
  <2> QED
    BY <1>3, <2>2
<1>7. \A k \in DOMAIN r : PairKeys(s, k.doc, k.model) = PairKeys(r, k.doc, k.model)
  BY <1>1, <1>4 DEF PairKeys
<1>8. \A k \in new : PairKeys(s, k.doc, k.model) = PlannedKeys(k.doc, m, plans[k.doc])
  <2> SUFFICES ASSUME NEW k \in new
               PROVE  PairKeys(s, k.doc, k.model) = PlannedKeys(k.doc, m, plans[k.doc])
    OBVIOUS
  <2>1. \A j : j \in PairKeys(s, k.doc, m) <=> j \in new /\ j.doc = k.doc
    BY <1>1, <1>4 DEF PairKeys
  <2>2. \A j \in PlannedKeys(k.doc, m, plans[k.doc]) : j.doc = k.doc
    BY PlannedKeysFacts
  <2> QED
    BY <1>1, <2>1, <2>2
<1>9. Whole(s)
  <2> SUFFICES ASSUME NEW k \in DOMAIN s
               PROVE  /\ PairKeys(s, k.doc, k.model) = PlannedKeys(k.doc, k.model, s[k].plan)
                      /\ \A j \in PairKeys(s, k.doc, k.model) :
                           /\ s[j].plan = s[k].plan
                           /\ s[j].state = "embedded" <=> s[k].state = "embedded"
    BY DEF Whole
  <2>1. CASE k \in DOMAIN r
    BY <1>5, <1>7, <2>1 DEF RowsOK, Whole, PairKeys
  <2>2. CASE k \in new
    <3>1. \A j \in PairKeys(s, k.doc, k.model) : j \in new /\ j.doc = k.doc
      BY <1>1, <1>4, <2>2 DEF PairKeys
    <3>2. \A j \in new : s[j].plan = plans[j.doc] /\ s[j].state = "pending"
      <4> SUFFICES ASSUME NEW j \in new
                   PROVE  s[j].plan = plans[j.doc] /\ s[j].state = "pending"
        OBVIOUS
      <4>1. s[j] = [state |-> "pending", plan |-> plans[j.doc], emb |-> NoVersion]
        BY <1>5
      <4> QED
        BY <4>1
    <3>3. k.model = m /\ s[k].plan = plans[k.doc] /\ s[k].state = "pending"
      BY <1>1, <2>2, <3>2
    <3>4. PairKeys(s, k.doc, k.model) = PlannedKeys(k.doc, k.model, s[k].plan)
      BY <1>8, <2>2, <3>3
    <3> HIDE DEF p
    <3> QED
      BY <2>2, <3>1, <3>2, <3>3, <3>4
  <2> QED
    BY <1>4, <2>1, <2>2
<1>10. \A k \in DOMAIN s : k.model \in M \cup {m}
  BY <1>1, <1>4 DEF RowsOK, RowsTyped
<1>11. DOMAIN s \subseteq Keys
  BY <1>1, <1>4 DEF RowsOK, RowsTyped
<1> QED
  BY <1>4, <1>6, <1>9, <1>10, <1>11 DEF RowsOK, RowsTyped, s

\* Replacing a pair by a whole list of embedded chunks.
LEMMA ReplaceOK ==
  ASSUME NEW r, NEW M, NEW d \in Nat, NEW m \in M, NEW v \in Versions, NEW u \in Versions,
         M \subseteq Models, RowsOK(r, M)
  PROVE  RowsOK(ReplaceRows(r, d, m, PlannedList(v), u), M)
<1> DEFINE new == PlannedKeys(d, m, v)
           old == DOMAIN r \ PairKeys(r, d, m)
           s == ReplaceRows(r, d, m, PlannedList(v), u)
<1>1. /\ new \subseteq Keys /\ IsFiniteSet(new)
      /\ \A k \in new : k.doc = d /\ k.model = m
  BY PlannedKeysTyped, PlannedKeysFacts
<1>0. /\ \A x \in PlannedList(v) : x.chunk \in PlannedChunks(v) /\ x.plan = v
      /\ \A c \in PlannedChunks(v) : \E x \in PlannedList(v) : x.chunk = c
  <2>1. \A x \in PlannedList(v) :
          \E c \in PlannedChunks(v) : x = [chunk |-> c, plan |-> v]
    BY DEF PlannedList
  <2>2. \A c \in PlannedChunks(v) : [chunk |-> c, plan |-> v] \in PlannedList(v)
    BY DEF PlannedList
  <2>3. \A x \in PlannedList(v) : x.chunk \in PlannedChunks(v) /\ x.plan = v
    BY <2>1
  <2>4. ASSUME NEW c \in PlannedChunks(v)
        PROVE  \E x \in PlannedList(v) : x.chunk = c
    <3>1. [chunk |-> c, plan |-> v] \in PlannedList(v) /\ [chunk |-> c, plan |-> v].chunk = c
      BY <2>2
    <3> QED
      BY <3>1
  <2> QED
    BY <2>3, <2>4
<1>2. new = {RowKey(d, m, x.chunk) : x \in PlannedList(v)}
  BY <1>0 DEF PlannedKeys
<1>3. /\ DOMAIN s = old \cup new
      /\ \A k \in old : k \notin new => s[k] = r[k]
  BY <1>2 DEF ReplaceRows
<1>4. \A k \in new : s[k] \in Row /\ s[k].plan = v /\ s[k].state = "embedded"
  <2> SUFFICES ASSUME NEW k \in new
               PROVE  s[k] \in Row /\ s[k].plan = v /\ s[k].state = "embedded"
    OBVIOUS
  <2> DEFINE x == CHOOSE y \in PlannedList(v) : y.chunk = k.chunk
  <2>1. \E y \in PlannedList(v) : y.chunk = k.chunk
    BY <1>2 DEF RowKey
  <2>2. x \in PlannedList(v)
    BY <2>1
  <2>3. x.plan = v
    BY <1>0, <2>2
  <2> HIDE DEF x
  <2>4. s[k] = [state |-> "embedded", plan |-> x.plan,
                emb |-> IF k.chunk = FilenameChunk THEN NoVersion ELSE u]
    BY <1>2 DEF ReplaceRows, x
  <2>5. NoVersion \in Versions
    BY BoundAssumption DEF Versions, NoVersion
  <2> QED
    BY <2>3, <2>4, <2>5 DEF Row
<1>5. \A k \in old : ~(k.doc = d /\ k.model = m)
  BY DEF PairKeys
<1>6. s \in [DOMAIN s -> Row]
  <2>1. \A k \in DOMAIN s : s[k] \in Row
    BY <1>3, <1>4 DEF RowsOK, RowsTyped
  <2>2. s = [k \in DOMAIN s |-> s[k]]
    BY <1>2 DEF ReplaceRows
  <2> HIDE DEF s
  <2> QED
    BY <2>1, <2>2
<1> HIDE DEF new, s
<1>7. IsFiniteSet(DOMAIN s)
  <2>1. IsFiniteSet(old)
    BY FS_Subset DEF RowsOK, RowsTyped
  <2> QED
    BY <1>1, <1>3, <2>1, FS_Union
<1>8. \A k \in old : PairKeys(s, k.doc, k.model) = PairKeys(r, k.doc, k.model)
  BY <1>1, <1>3, <1>5 DEF PairKeys
<1>9. PairKeys(s, d, m) = new
  BY <1>1, <1>3, <1>5 DEF PairKeys
<1>10. Whole(s)
  <2> SUFFICES ASSUME NEW k \in DOMAIN s
               PROVE  /\ PairKeys(s, k.doc, k.model) = PlannedKeys(k.doc, k.model, s[k].plan)
                      /\ \A j \in PairKeys(s, k.doc, k.model) :
                           /\ s[j].plan = s[k].plan
                           /\ s[j].state = "embedded" <=> s[k].state = "embedded"
    BY DEF Whole
  <2>1. CASE k \in old
    <3>1. \A j \in PairKeys(r, k.doc, k.model) : j \in old /\ j \notin new
      BY <1>1, <1>5, <2>1 DEF PairKeys
    <3>2. k \in DOMAIN r /\ k \notin new
      BY <1>1, <1>5, <2>1
    <3> QED
      BY <1>3, <1>8, <2>1, <3>1, <3>2 DEF RowsOK, Whole
  <2>2. CASE k \in new
    BY <1>1, <1>4, <1>9, <2>2 DEF new
  <2> QED
    BY <1>3, <2>1, <2>2
<1>11. DOMAIN s \subseteq Keys /\ \A k \in DOMAIN s : k.model \in M
  BY <1>1, <1>3 DEF RowsOK, RowsTyped
<1> QED
  BY <1>6, <1>7, <1>10, <1>11 DEF RowsOK, RowsTyped, s

-----------------------------------------------------------------------------
(* Jobs.                                                                    *)

\* A payload is known by its document and model.
LEMMA PayloadFacts ==
  /\ IngestPayload \in Payloads
  /\ \A p \in Payloads : p.doc \in Nat /\ p.model \in Nat
  /\ \A p, q \in Payloads : p.doc = q.doc /\ p.model = q.model => p = q
<1>1. Models \subseteq Nat /\ 0 \notin Models
  BY ModelAssumption
<1>2. IngestPayload.doc = 0 /\ IngestPayload.model = 0
  BY DEF IngestPayload
<1>3. \A p \in Payloads : \/ p = IngestPayload
                          \/ /\ p \in [type : {"embed"}, doc : Nat, model : Models]
                             /\ p.doc \in Nat /\ p.model \in Models
  BY DEF Payloads
<1>4. \A p, q \in [type : {"embed"}, doc : Nat, model : Models] :
        p.doc = q.doc /\ p.model = q.model => p = q
  OBVIOUS
<1>5. IngestPayload \in Payloads
  BY DEF Payloads
<1>6. \A p \in Payloads : p.doc \in Nat /\ p.model \in Nat
  <2> SUFFICES ASSUME NEW p \in Payloads
               PROVE  p.doc \in Nat /\ p.model \in Nat
    OBVIOUS
  <2>1. CASE p = IngestPayload
    BY <1>2, <2>1
  <2>2. CASE p.doc \in Nat /\ p.model \in Models
    BY <1>1, <2>2
  <2> QED
    BY <1>3, <2>1, <2>2
<1>7. \A p, q \in Payloads : p.doc = q.doc /\ p.model = q.model => p = q
  BY <1>1, <1>2, <1>3, <1>4
<1> QED
  BY <1>5, <1>6, <1>7

\* The ranks of finitely many payloads are 1, 2, 3 and so on, none left out.
LEMMA RankOnto ==
  ASSUME NEW P \in SUBSET Payloads, IsFiniteSet(P)
  PROVE  /\ Cardinality(P) \in Nat
         /\ \A i \in 1..Cardinality(P) : \E p \in P : InsertRank(p, P) = i
<1> DEFINE upto(p) == {q \in P : q.doc < p.doc \/ (q.doc = p.doc /\ q.model <= p.model)}
           n == Cardinality(P)
           f == [p \in P |-> Cardinality(upto(p))]
<1>1. n \in Nat
  BY FS_CardinalityType
<1>2. \A p \in P : p.doc \in Nat /\ p.model \in Nat
  BY PayloadFacts
<1>3. \A p \in P : p \in upto(p)
  BY <1>2
<1>4. \A p \in P : upto(p) \subseteq P
  OBVIOUS
<1>3a. \A p, q \in P : p.doc = q.doc /\ p.model = q.model => p = q
  BY PayloadFacts
<1>5. ASSUME NEW p \in P, NEW q \in P, p # q
      PROVE  \/ upto(p) \subseteq upto(q) /\ q \notin upto(p)
             \/ upto(q) \subseteq upto(p) /\ p \notin upto(q)
  <2>1. p.doc # q.doc \/ p.model # q.model
    BY <1>3a, <1>5
  <2>2. CASE p.doc < q.doc \/ (p.doc = q.doc /\ p.model < q.model)
    <3>1. upto(p) \subseteq upto(q)
      BY <1>2, <2>2
    <3>2. q \notin upto(p)
      BY <1>2, <2>2
    <3> QED
      BY <3>1, <3>2
  <2>3. CASE q.doc < p.doc \/ (p.doc = q.doc /\ q.model < p.model)
    <3>1. upto(q) \subseteq upto(p)
      BY <1>2, <2>3
    <3>2. p \notin upto(q)
      BY <1>2, <2>3
    <3> QED
      BY <3>1, <3>2
  <2> QED
    BY <1>2, <2>1, <2>2, <2>3
<1>6. \A p \in P : InsertRank(p, P) = f[p]
  BY DEF InsertRank
<1> HIDE DEF upto
<1>7. \A p \in P : IsFiniteSet(upto(p)) /\ f[p] \in 1..n
  <2> SUFFICES ASSUME NEW p \in P
               PROVE  IsFiniteSet(upto(p)) /\ f[p] \in 1..n
    OBVIOUS
  <2>1. IsFiniteSet(upto(p)) /\ Cardinality(upto(p)) <= n
    BY <1>4, FS_Subset
  <2>2. Cardinality(upto(p)) \in Nat /\ Cardinality(upto(p)) # 0
    BY <1>3, <2>1, FS_CardinalityType, FS_EmptySet
  <2> QED
    BY <1>1, <2>1, <2>2
<1>8. \A p, q \in P : p # q => f[p] # f[q]
  <2> SUFFICES ASSUME NEW p \in P, NEW q \in P,
                      upto(p) \subseteq upto(q), q \notin upto(p)
               PROVE  f[p] # f[q]
    BY <1>5
  <2>1. Cardinality(upto(q)) = Cardinality(upto(p)) => upto(q) = upto(p)
    BY <1>7, FS_Subset
  <2> QED
    BY <1>3, <2>1
<1>9. f \in Injection(P, 1..n)
  BY <1>7, <1>8 DEF Injection, IsInjective
<1>10. IsFiniteSet(1..n) /\ Cardinality(1..n) = n
  BY <1>1, FS_Interval
<1>11. f \in Surjection(P, 1..n)
  BY <1>9, <1>10, FS_Injection
<1>12. \A i \in 1..n : \E p \in P : f[p] = i
  BY <1>11 DEF Surjection
<1> QED
  BY <1>1, <1>6, <1>12

\* Enqueueing payloads of registered models.
LEMMA EnqueueOK ==
  ASSUME NEW q, NEW M, QueueOK(q, M), NEW P \in SUBSET Payloads, IsFiniteSet(P),
         \A p \in P : p = IngestPayload \/ p.model \in M
  PROVE  QueueOK(EnqueueAll(q, P), M)
<1> DEFINE new == {p \in P : \A i \in DOMAIN q.jobs : q.jobs[i].payload # p}
           n == Cardinality(new)
           old(i) == IF q.jobs[i].payload \in P /\ q.jobs[i].claim = "stale"
                     THEN [q.jobs[i] EXCEPT !.claim = "queued"] ELSE q.jobs[i]
           added(i) == [payload |-> CHOOSE p \in new : InsertRank(p, new) = i - q.last,
                        claim |-> "queued"]
           D == DOMAIN q.jobs \cup (q.last + 1)..(q.last + n)
           jobs == [i \in D |-> IF i \in DOMAIN q.jobs THEN old(i) ELSE added(i)]
           OK(j) == j \in Job /\ (j.payload = IngestPayload \/ j.payload.model \in M)
<1>1. IsFiniteSet(new) /\ new \subseteq P /\ new \in SUBSET Payloads
  BY FS_Subset
<1>2. /\ n \in Nat
      /\ \A i \in 1..n : \E p \in new : InsertRank(p, new) = i
  BY <1>1, RankOnto
<1>3. EnqueueAll(q, P) = [last |-> q.last + n, jobs |-> jobs]
  BY DEF EnqueueAll
<1>4. q.last \in Nat /\ DOMAIN q.jobs \subseteq 1..q.last
  BY DEF QueueOK
<1>5. \A i \in DOMAIN q.jobs : OK(q.jobs[i])
  BY DEF QueueOK
<1>6. \A i \in DOMAIN q.jobs : OK(old(i))
  BY <1>5 DEF Job
<1>7. \A i \in (q.last + 1)..(q.last + n) : OK(added(i))
  <2> SUFFICES ASSUME NEW i \in (q.last + 1)..(q.last + n)
               PROVE  OK(added(i))
    OBVIOUS
  <2>1. i - q.last \in 1..n
    BY <1>2, <1>4
  <2>2. \E p \in new : InsertRank(p, new) = i - q.last
    BY <1>2, <2>1
  <2> HIDE DEF new
  <2>3. (CHOOSE p \in new : InsertRank(p, new) = i - q.last) \in new
    BY <2>2
  <2> QED
    BY <1>1, <2>3 DEF Job
<1> HIDE DEF old, added, new, n
<1>8. \A i \in D : OK(jobs[i])
  BY <1>6, <1>7
<1>9. D \subseteq 1..(q.last + n)
  BY <1>2, <1>4
<1>10. jobs \in [DOMAIN jobs -> Job]
  BY <1>8 DEF jobs
<1>11. DOMAIN jobs = D
  BY DEF jobs
<1> HIDE DEF jobs, D
<1>12. q.last + n \in Nat
  BY <1>2, <1>4
<1> QED
  BY <1>3, <1>8, <1>9, <1>10, <1>11, <1>12 DEF QueueOK

\* Seeding the jobs of everything recoverable.
LEMMA SeedOK ==
  ASSUME NEW q, NEW r, NEW M, M \subseteq Models, QueueOK(q, M), RowsTyped(r, M)
  PROVE  QueueOK(SeedEmbedJobs(q, r), M)
<1> DEFINE f == [k \in Recoverable(r) |-> EmbedPayload(k.doc, k.model)]
<1>1. Recoverable(r) \subseteq DOMAIN r /\ IsFiniteSet(Recoverable(r))
  BY FS_Subset DEF Recoverable, RowsTyped
<1>2. IsFiniteSet({f[k] : k \in DOMAIN f})
  BY <1>1, FiniteImage
<1>3. {f[k] : k \in DOMAIN f} = SeedPayloads(r)
  BY DEF SeedPayloads
<1>4. \A k \in Recoverable(r) :
        EmbedPayload(k.doc, k.model) \in Payloads /\ EmbedPayload(k.doc, k.model).model \in M
  BY <1>1 DEF RowsTyped, Keys, EmbedPayload, Payloads
<1>5. SeedPayloads(r) \in SUBSET Payloads /\ \A p \in SeedPayloads(r) : p.model \in M
  BY <1>4 DEF SeedPayloads
<1> QED
  BY <1>2, <1>3, <1>5, EnqueueOK DEF SeedEmbedJobs

\* Claiming and completing a job.
LEMMA ClaimOK ==
  ASSUME NEW q, NEW M, QueueOK(q, M), NEW S, NEW c \in {"queued", "claimed", "stale"}
  PROVE  QueueOK(SetClaims(q, S, c), M)
BY DEF QueueOK, SetClaims, Job

\* Completing a job takes it out of the queue.
LEMMA CompleteOK ==
  ASSUME NEW q, NEW M, QueueOK(q, M), NEW i
  PROVE  QueueOK(CompleteJob(q, i), M)
BY DEF QueueOK, CompleteJob

-----------------------------------------------------------------------------
(* Workers.                                                                 *)

\* What LocalsOK says of the locals of one worker.
LocalOK(l, M) ==
  /\ l \in Local
  /\ l.pc # "idle" => l.model \in M
  /\ l.pc \in {"read", "upsert", "check", "changed", "replan", "list", "prepare"} =>
       l.path \in Paths
  /\ l.pc \in {"read", "upsert"} => l.hash # NoVersion
  /\ l.pc \in {"prepare", "embed"} => \E v \in Versions : l.list = PlannedList(v)

WorkersOK(x, M) == x \in [Workers -> Local] /\ \A w \in Workers : LocalOK(x[w], M)

RestTyped ==
  /\ disk \in [Paths -> [exists : BOOLEAN, ver : 1..MaxVersion]]
  /\ lastDoc \in Nat
  /\ DOMAIN documents \subseteq 1..lastDoc
  /\ documents \in [DOMAIN documents -> [path : Paths, hash : 1..MaxVersion]]
  /\ vec \subseteq Keys
  /\ vecModel \in Models /\ active \in Models /\ models \subseteq Models
  /\ budget \in 0..MaxEvents

Parts ==
  /\ RestTyped
  /\ RowsOK(rows, models)
  /\ QueueOK(queue, models)
  /\ WorkersOK(worker, models)

\* The parts together say no less than PlanInv.
LEMMA PartsArePlanInv == Parts => PlanInv
<1> SUFFICES ASSUME Parts
             PROVE  PlanInv
  OBVIOUS
<1>1. /\ RestTyped /\ RowsOK(rows, models) /\ QueueOK(queue, models)
      /\ WorkersOK(worker, models)
  BY DEF Parts
<1>2. TypeOK
  BY <1>1 DEF RestTyped, RowsOK, RowsTyped, QueueOK, WorkersOK, TypeOK
<1>3. LocalsOK
  BY <1>1 DEF WorkersOK, LocalOK, LocalsOK, Busy
<1>4. ModelsKnown /\ IsFiniteSet(DOMAIN rows)
  BY <1>1 DEF RowsOK, RowsTyped, QueueOK, ModelsKnown
<1>5. WholePlanPerPair
  BY <1>1 DEF RowsOK, Whole, WholePlanPerPair
<1> QED
  BY <1>2, <1>3, <1>4, <1>5 DEF PlanInv

\* The recorded versions, and the one of a document without content.
LEMMA VersionFacts ==
  /\ NoVersion \in Versions /\ 1..MaxVersion \subseteq Versions
  /\ \A v \in Versions : v # NoVersion <=> v \in 1..MaxVersion
BY BoundAssumption DEF Versions, NoVersion

\* An idle worker holds nothing.
LEMMA IdleOK == ASSUME NEW M PROVE LocalOK(Idle, M)
BY VersionFacts DEF LocalOK, Local, Idle, Pcs

\* One worker changes its locals.
LEMMA OneWorkerOK ==
  ASSUME NEW x, NEW M, WorkersOK(x, M), NEW w \in Workers, NEW l, LocalOK(l, M)
  PROVE  WorkersOK([x EXCEPT ![w] = l], M)
BY DEF WorkersOK, LocalOK

\* What holds with the models registered so far holds with more of them.
LEMMA MoreModels ==
  ASSUME NEW M, NEW N, M \subseteq N
  PROVE  /\ \A r : RowsOK(r, M) => RowsOK(r, N)
         /\ \A q : QueueOK(q, M) => QueueOK(q, N)
BY DEF RowsOK, RowsTyped, QueueOK

\* The lists a worker takes along are one whole plan.
LEMMA PlannedListTyped ==
  ASSUME NEW v \in Versions
  PROVE  PlannedList(v) \in SUBSET [chunk : Nat, plan : Versions]
BY PlannedChunksFacts DEF PlannedList

\* The first start of the server.
LEMMA InitPlan == Init => Parts
<1> SUFFICES ASSUME Init
             PROVE  Parts
  OBVIOUS
<1>1. FirstModel \in Models /\ MaxEvents \in Nat /\ 1 \in 1..MaxVersion
  BY ModelAssumption, BoundAssumption
<1>2. DOMAIN documents = {} /\ DOMAIN rows = {} /\ DOMAIN queue.jobs = {} /\ queue.last = 0
  BY DEF Init
<1>3. RestTyped
  BY <1>1, <1>2 DEF Init, RestTyped
<1>4. RowsOK(rows, models)
  BY <1>2, FS_EmptySet DEF Init, RowsOK, RowsTyped, Whole
<1>5. QueueOK(queue, models)
  BY <1>2 DEF Init, QueueOK
<1>6. WorkersOK(worker, models)
  BY IdleOK DEF Init, WorkersOK, LocalOK
<1> QED
  BY <1>3, <1>4, <1>5, <1>6 DEF Parts

-----------------------------------------------------------------------------
(* Steps of the environment.                                                *)

\* The files change; the tables do not.
LEMMA FilesStep ==
  ASSUME Parts, NEW p \in Paths, EditFile(p) \/ RemoveFile(p) \/ RestoreFile(p)
  PROVE  Parts'
<1>1. /\ RestTyped /\ RowsOK(rows, models) /\ QueueOK(queue, models)
      /\ WorkersOK(worker, models)
  BY DEF Parts
<1>2. UNCHANGED <<tables, setup, queue, worker>>
  BY DEF EditFile, RemoveFile, RestoreFile
<1>3. budget' \in 0..MaxEvents
  BY <1>1, BoundAssumption DEF EditFile, RemoveFile, RestoreFile, Event, RestTyped
<1>4. disk' \in [Paths -> [exists : BOOLEAN, ver : 1..MaxVersion]]
  <2>1. /\ disk \in [Paths -> [exists : BOOLEAN, ver : 1..MaxVersion]]
        /\ disk[p].ver \in 1..MaxVersion /\ MaxVersion \in Nat
    BY <1>1, BoundAssumption DEF RestTyped
  <2>2. CASE EditFile(p)
    <3>1. disk[p].ver + 1 \in 1..MaxVersion
      BY <2>1, <2>2 DEF EditFile
    <3> QED
      BY <2>1, <2>2, <3>1 DEF EditFile
  <2>3. CASE RemoveFile(p)
    BY <2>1, <2>3 DEF RemoveFile
  <2>4. CASE RestoreFile(p)
    BY <2>1, <2>4 DEF RestoreFile
  <2> QED
    BY <2>2, <2>3, <2>4
<1>5. RestTyped'
  BY <1>1, <1>2, <1>3, <1>4 DEF RestTyped, tables, setup
<1>6. /\ RowsOK(rows, models)' /\ QueueOK(queue, models)' /\ WorkersOK(worker, models)'
  BY <1>1, <1>2 DEF tables, setup
<1> QED
  BY <1>5, <1>6 DEF Parts

\* POST /ingest enqueues a job.
LEMMA PostIngestStep ==
  ASSUME Parts, PostIngest
  PROVE  Parts'
<1>1. /\ RestTyped /\ RowsOK(rows, models) /\ QueueOK(queue, models)
      /\ WorkersOK(worker, models)
  BY DEF Parts
<1>2. UNCHANGED <<disk, tables, setup, worker>>
  BY DEF PostIngest
<1>3. RestTyped'
  BY <1>1, <1>2, BoundAssumption DEF PostIngest, Event, RestTyped, tables, setup
<1>4. QueueOK(queue', models)
  BY <1>1, PayloadFacts, EnqueueOK, FS_Singleton DEF PostIngest
<1> QED
  BY <1>1, <1>2, <1>3, <1>4 DEF Parts, tables, setup

\* POST /mark-stale enqueues jobs of registered models.
LEMMA PostStalePlanStep ==
  ASSUME Parts, NEW D, PostStale(D)
  PROVE  Parts'
<1>1. /\ RestTyped /\ RowsOK(rows, models) /\ QueueOK(queue, models)
      /\ WorkersOK(worker, models)
  BY DEF Parts
<1>2. UNCHANGED <<disk, documents, lastDoc, setup, worker>>
  BY DEF PostStale
<1>3. RestTyped'
  BY <1>1, <1>2, BoundAssumption
     DEF PostStale, Event, RestTyped, setup, DeleteVecForDocuments
<1>4. RowsOK(rows', models)
  BY <1>1, MarkStaleOK DEF PostStale
<1>5. QueueOK(queue', models)
  BY <1>1, <1>4, SeedOK DEF PostStale, RowsOK, RestTyped
<1> QED
  BY <1>1, <1>2, <1>3, <1>4, <1>5 DEF Parts, setup

\* Claims run out; the jobs are still well-formed.
LEMMA ClaimsExpireStep ==
  ASSUME Parts, NEW S, ClaimsExpire(S)
  PROVE  Parts'
<1>1. /\ RestTyped /\ RowsOK(rows, models) /\ QueueOK(queue, models)
      /\ WorkersOK(worker, models)
  BY DEF Parts
<1>2. UNCHANGED <<disk, tables, setup, worker, budget>>
  BY DEF ClaimsExpire
<1>3. QueueOK(queue', models)
  BY <1>1, ClaimOK DEF ClaimsExpire
<1>4. RestTyped'
  BY <1>1, <1>2 DEF RestTyped, tables, setup
<1> QED
  BY <1>1, <1>2, <1>3, <1>4 DEF Parts, tables, setup

\* A restart with a model registered before leaves the rows alone; a new model
\* gets its rows planned, and no row of it was there before.
LEMMA RestartPlanStep ==
  ASSUME Parts, NEW m \in Models, Restart(m)
  PROVE  Parts'
<1>1. /\ RestTyped /\ RowsOK(rows, models) /\ QueueOK(queue, models)
      /\ WorkersOK(worker, models)
  BY DEF Parts
<1>2. UNCHANGED <<disk, documents, lastDoc>> /\ models' = models \cup {m}
  BY DEF Restart
<1>3. /\ DOMAIN BackfillPlans = DOMAIN documents
      /\ \A d \in DOMAIN BackfillPlans : BackfillPlans[d] \in Versions
  BY <1>1, VersionFacts DEF BackfillPlans, RestTyped
<1>4. DOMAIN documents \subseteq Nat /\ IsFiniteSet(DOMAIN documents)
  <2>0. lastDoc \in Int /\ 1 \in Int
    BY <1>1 DEF RestTyped
  <2>1. IsFiniteSet(1..lastDoc)
    BY <2>0, FS_Interval
  <2> QED
    BY <1>1, <2>1, FS_Subset DEF RestTyped
<1>5. RowsOK(rows', models')
  <2>1. CASE m \in models
    BY <1>1, <1>2, <2>1, MoreModels DEF Restart
  <2>2. CASE m \notin models
    <3>1. \A k \in DOMAIN rows : k.model # m
      BY <1>1, <2>2 DEF RowsOK, RowsTyped
    <3>2. RowsOK(InsertPendingRows(rows, m, BackfillPlans), models \cup {m})
      BY <1>1, <1>3, <1>4, <3>1, InsertOK
    <3> QED
      BY <1>2, <2>2, <3>2 DEF Restart
  <2> QED
    BY <2>1, <2>2
<1>6. models' \subseteq Models
  BY <1>1, <1>2 DEF RestTyped
<1>7. QueueOK(queue', models')
  BY <1>1, <1>2, <1>5, <1>6, MoreModels, SeedOK DEF Restart, RowsOK
<1>8. vec' \subseteq Keys
  BY <1>1, <1>5 DEF Restart, RestTyped, RowsOK, RowsTyped, Embedded
<1>9. RestTyped'
  BY <1>1, <1>2, <1>6, <1>8, BoundAssumption DEF Restart, Event, RestTyped
<1>10. WorkersOK(worker', models')
  BY IdleOK DEF Restart, WorkersOK, LocalOK
<1> QED
  BY <1>5, <1>7, <1>9, <1>10 DEF Parts

-----------------------------------------------------------------------------
(* Steps of the workers.                                                    *)

\* A step that changes nothing but the locals of one worker, the queue and the
\* budget.
LEMMA LocalStep ==
  ASSUME Parts, NEW w \in Workers, NEW l, LocalOK(l, models),
         worker' = [worker EXCEPT ![w] = l],
         QueueOK(queue', models), budget' \in 0..MaxEvents,
         UNCHANGED <<disk, tables, setup>>
  PROVE  Parts'
<1>1. RestTyped'
  BY DEF Parts, RestTyped, tables, setup
<1>2. WorkersOK(worker', models)
  BY OneWorkerOK DEF Parts
<1> QED
  BY <1>1, <1>2 DEF Parts, tables, setup

\* A worker claims a job and starts on it.
LEMMA ClaimNextStep ==
  ASSUME Parts, TableInv, NEW w \in Workers, ClaimNext(w)
  PROVE  Parts'
<1>1. /\ RestTyped /\ RowsOK(rows, models) /\ QueueOK(queue, models)
      /\ WorkersOK(worker, models)
  BY DEF Parts
<1>2. worker[w] \in Local /\ LocalOK(worker[w], models)
  BY <1>1 DEF WorkersOK, LocalOK
<1>3. PICK i \in ClaimableIds(queue) :
        /\ queue' = SetClaims(queue, {i}, "claimed")
        /\ worker' = [worker EXCEPT ![w] =
             IF queue.jobs[i].payload.type = "ingest"
             THEN [Idle EXCEPT !.pc = "walk", !.job = i, !.todo = Paths, !.model = active]
             ELSE [Idle EXCEPT !.pc = "load", !.job = i, !.doc = queue.jobs[i].payload.doc,
                               !.model = queue.jobs[i].payload.model]]
  BY DEF ClaimNext
<1>4. i \in DOMAIN queue.jobs /\ i \in Nat
  BY <1>1 DEF ClaimableIds, QueueOK
<1>5. QueueOK(queue', models)
  BY <1>1, <1>3, <1>4, ClaimOK
<1> DEFINE p == queue.jobs[i].payload
           walk == [Idle EXCEPT !.pc = "walk", !.job = i, !.todo = Paths, !.model = active]
           load == [Idle EXCEPT !.pc = "load", !.job = i, !.doc = p.doc, !.model = p.model]
<1>6. p \in Payloads /\ (p = IngestPayload \/ p.model \in models)
  BY <1>1, <1>4 DEF QueueOK, Job
<1>7. Idle \in Local
  BY IdleOK DEF LocalOK
<1>8. active \in models /\ models \subseteq Models
  BY <1>1 DEF RestTyped, TableInv, IdsAndModel
<1>9. LocalOK(walk, models)
  BY <1>4, <1>7, <1>8 DEF LocalOK, Local, Idle, Pcs
<1>10. p.type # "ingest" => p \in [type : {"embed"}, doc : Nat, model : Models]
                            /\ p.model \in models
  BY <1>6 DEF Payloads, IngestPayload
<1>11. p.type # "ingest" => LocalOK(load, models)
  BY <1>4, <1>7, <1>10 DEF LocalOK, Local, Idle, Pcs
<1>12. UNCHANGED <<disk, tables, setup, budget>>
  BY DEF ClaimNext
<1>13. budget' \in 0..MaxEvents
  BY <1>1, <1>12 DEF RestTyped
<1> HIDE DEF walk, load
<1>14. CASE p.type = "ingest"
  BY <1>3, <1>5, <1>9, <1>12, <1>13, <1>14, LocalStep DEF walk
<1>15. CASE p.type # "ingest"
  BY <1>3, <1>5, <1>11, <1>12, <1>13, <1>15, LocalStep DEF load
<1> QED
  BY <1>14, <1>15

\* A handler ends, with or without success.
LEMMA EndStep ==
  ASSUME Parts, NEW w \in Workers, Complete(w) \/ Fault(w)
  PROVE  Parts'
<1>1. /\ RestTyped /\ RowsOK(rows, models) /\ QueueOK(queue, models)
      /\ WorkersOK(worker, models)
  BY DEF Parts
<1>2. worker[w] \in Local /\ LocalOK(worker[w], models)
  BY <1>1 DEF WorkersOK, LocalOK
<1>3. worker' = [worker EXCEPT ![w] = Idle]
  BY DEF Complete, Fault, GiveUp
<1>4. QueueOK(queue', models)
  BY <1>1, CompleteOK DEF Complete, Fault, GiveUp
<1>5. UNCHANGED <<disk, tables, setup>>
  BY DEF Complete, Fault, GiveUp
<1>6. budget' \in 0..MaxEvents
  BY <1>1, BoundAssumption DEF Complete, Fault, Event, RestTyped
<1> QED
  BY <1>3, <1>4, <1>5, <1>6, IdleOK, LocalStep

\* Walking, hashing, reading: only the locals change.
LEMMA ReadingStep ==
  ASSUME Parts, NEW w \in Workers,
         \/ WalkDone(w)
         \/ \E p \in Paths : HashCandidate(w, p)
         \/ ReadContent(w)
         \/ ReadContentFails(w)
         \/ UpsertUnchanged(w)
         \/ CheckFile(w)
         \/ ReplanHash(w)
         \/ PrepareChunks(w)
  PROVE  Parts'
<1>1. /\ RestTyped /\ RowsOK(rows, models) /\ QueueOK(queue, models)
      /\ WorkersOK(worker, models)
  BY DEF Parts
<1>2. worker[w] \in Local /\ LocalOK(worker[w], models)
  BY <1>1 DEF WorkersOK, LocalOK
<1>3. UNCHANGED <<disk, tables, setup, queue>>
  BY DEF WalkDone, HashCandidate, ReadContent, ReadContentFails, UpsertUnchanged,
         CheckFile, ReplanHash, PrepareChunks
<1>4. budget' \in 0..MaxEvents
  <2>1. budget' = budget \/ (budget > 0 /\ budget' = budget - 1)
    BY DEF WalkDone, HashCandidate, ReadContent, ReadContentFails, UpsertUnchanged,
           CheckFile, ReplanHash, PrepareChunks, Event
  <2>2. budget \in 0..MaxEvents /\ MaxEvents \in Nat
    BY <1>1, BoundAssumption DEF RestTyped
  <2> QED
    BY <2>1, <2>2
<1>5. QueueOK(queue', models)
  BY <1>1, <1>3
<1>6. \A p \in Paths : disk[p].exists \in BOOLEAN /\ disk[p].ver \in 1..MaxVersion
  BY <1>1 DEF RestTyped
<1> SUFFICES \E l : worker' = [worker EXCEPT ![w] = l] /\ LocalOK(l, models)
  BY <1>3, <1>4, <1>5, LocalStep
<1>7. worker \in [Workers -> Local]
  BY <1>1 DEF WorkersOK
<1>8. CASE WalkDone(w)
  <2> DEFINE l == [worker[w] EXCEPT !.pc = "ok"]
  <2>1. worker' = [worker EXCEPT ![w] = l]
    BY <1>7, <1>8 DEF WalkDone
  <2>2. LocalOK(l, models)
    BY <1>2, <1>8 DEF WalkDone, At, LocalOK, Local, Pcs
  <2> QED
    BY <2>1, <2>2
<1>9. CASE \E p \in Paths : HashCandidate(w, p)
  <2>1. PICK p \in Paths : HashCandidate(w, p)
    BY <1>9
  <2> DEFINE found == [worker[w] EXCEPT !.pc = "read", !.todo = worker[w].todo \ {p}, !.path = p,
                                        !.hash = disk[p].ver]
             gone == [worker[w] EXCEPT !.todo = worker[w].todo \ {p}]
  <2>2. \/ worker' = [worker EXCEPT ![w] = found]
        \/ worker' = [worker EXCEPT ![w] = gone]
    <3>1. CASE disk[p].exists
      BY <2>1, <3>1 DEF HashCandidate
    <3>2. CASE ~disk[p].exists
      BY <2>1, <3>2 DEF HashCandidate
    <3> QED
      BY <3>1, <3>2
  <2>3. LocalOK(found, models)
    BY <1>2, <1>6, <2>1, VersionFacts DEF HashCandidate, At, LocalOK, Local, Pcs
  <2>4. LocalOK(gone, models)
    BY <1>2, <2>1 DEF HashCandidate, At, LocalOK, Local
  <2> HIDE DEF found, gone
  <2> QED
    BY <2>2, <2>3, <2>4
<1>10. CASE ReadContent(w)
  <2> DEFINE l == [worker[w] EXCEPT !.pc = "upsert", !.plan = disk[worker[w].path].ver]
  <2>1. worker' = [worker EXCEPT ![w] = l]
    BY <1>7, <1>10 DEF ReadContent
  <2>2. LocalOK(l, models)
    BY <1>2, <1>6, <1>10, VersionFacts DEF ReadContent, At, LocalOK, Local, Pcs
  <2> QED
    BY <2>1, <2>2
<1>11. CASE ReadContentFails(w)
  <2> DEFINE l == [worker[w] EXCEPT !.pc = "upsert", !.plan = NoVersion]
  <2>1. \/ worker' = [worker EXCEPT ![w] = l]
        \/ worker' = [worker EXCEPT ![w] = Idle]
    BY <1>7, <1>11 DEF ReadContentFails
  <2>2. LocalOK(l, models)
    BY <1>2, <1>11, VersionFacts DEF ReadContentFails, At, LocalOK, Local, Pcs
  <2> HIDE DEF l
  <2> QED
    BY <2>1, <2>2, IdleOK
<1>12. CASE UpsertUnchanged(w)
  <2> DEFINE l == [worker[w] EXCEPT !.pc = IF worker[w].doc = 0 THEN "walk" ELSE "ok",
                                    !.path = "", !.hash = NoVersion, !.plan = NoVersion]
  <2>1. worker' = [worker EXCEPT ![w] = l]
    BY <1>12 DEF UpsertUnchanged, AfterUpsert
  <2>2. LocalOK(l, models)
    BY <1>2, <1>12, VersionFacts DEF UpsertUnchanged, At, LocalOK, Local, Pcs
  <2> QED
    BY <2>1, <2>2
<1>13. CASE CheckFile(w)
  <2> DEFINE l(pc) == [worker[w] EXCEPT !.pc = pc]
  <2>1. \E pc \in {"drop", "changed", "list"} : worker' = [worker EXCEPT ![w] = l(pc)]
    BY <1>7, <1>13 DEF CheckFile
  <2>2. \A pc \in {"drop", "changed", "list"} : LocalOK(l(pc), models)
    BY <1>2, <1>13 DEF CheckFile, At, LocalOK, Local, Pcs
  <2> HIDE DEF l
  <2> QED
    BY <2>1, <2>2
<1>14. CASE ReplanHash(w)
  <2> DEFINE f == disk[worker[w].path]
             l == [worker[w] EXCEPT !.pc = "read", !.hash = f.ver]
  <2>1. \/ worker' = [worker EXCEPT ![w] = l]
        \/ worker' = [worker EXCEPT ![w] = Idle]
    BY <1>14 DEF ReplanHash
  <2>2. LocalOK(l, models)
    BY <1>2, <1>6, <1>14, VersionFacts DEF ReplanHash, At, LocalOK, Local, Pcs
  <2> HIDE DEF l
  <2> QED
    BY <2>1, <2>2, IdleOK
<1>15. CASE PrepareChunks(w)
  <2> DEFINE f == disk[worker[w].path]
             content == {x.chunk : x \in worker[w].list} \ {FilenameChunk}
             l == [worker[w] EXCEPT !.pc = "embed"]
             k == [worker[w] EXCEPT !.pc = "embed", !.read = f.ver]
  <2>1. \/ worker' = [worker EXCEPT ![w] = l]
        \/ worker' = [worker EXCEPT ![w] = k]
        \/ worker' = [worker EXCEPT ![w] = Idle]
    BY <1>15 DEF PrepareChunks
  <2>2. worker[w].path \in Paths /\ f.ver \in Versions
    BY <1>2, <1>6, <1>15, VersionFacts DEF PrepareChunks, At, LocalOK
  <2>3. LocalOK(l, models) /\ LocalOK(k, models)
    BY <1>2, <1>15, <2>2 DEF PrepareChunks, At, LocalOK, Local, Pcs
  <2> HIDE DEF l, k
  <2> QED
    BY <2>1, <2>3, IdleOK
<1> QED
  BY <1>8, <1>9, <1>10, <1>11, <1>12, <1>13, <1>14, <1>15

\* The handler loads the document.
LEMMA LoadStep ==
  ASSUME Parts, NEW w \in Workers, LoadDocument(w)
  PROVE  Parts'
<1>1. /\ RestTyped /\ RowsOK(rows, models) /\ QueueOK(queue, models)
      /\ WorkersOK(worker, models)
  BY DEF Parts
<1>2. worker[w] \in Local /\ LocalOK(worker[w], models)
  BY <1>1 DEF WorkersOK, LocalOK
<1>3. UNCHANGED <<disk, tables, setup, budget>> /\ budget' \in 0..MaxEvents
  BY <1>1 DEF LoadDocument, RestTyped
<1>4. worker \in [Workers -> Local]
  BY <1>1 DEF WorkersOK
<1>5. CASE worker[w].doc \in DOMAIN documents
  <2> DEFINE l == [worker[w] EXCEPT !.pc = "check",
                                    !.path = documents[worker[w].doc].path,
                                    !.hash = documents[worker[w].doc].hash]
  <2>1. worker' = [worker EXCEPT ![w] = l] /\ queue' = queue
    BY <1>4, <1>5 DEF LoadDocument
  <2>2. /\ documents[worker[w].doc].path \in Paths
        /\ documents[worker[w].doc].hash \in Versions
    BY <1>1, <1>5, VersionFacts DEF RestTyped
  <2>3. LocalOK(l, models)
    BY <1>2, <2>2 DEF LoadDocument, At, LocalOK, Local, Pcs
  <2> HIDE DEF l
  <2> QED
    BY <1>1, <1>3, <2>1, <2>3, LocalStep
<1>6. CASE worker[w].doc \notin DOMAIN documents
  <2> DEFINE l == [worker[w] EXCEPT !.pc = "ok"]
  <2>1. worker' = [worker EXCEPT ![w] = l]
    BY <1>4, <1>6 DEF LoadDocument
  <2>2. QueueOK(queue', models)
    BY <1>1, <1>6, CompleteOK DEF LoadDocument
  <2>3. LocalOK(l, models)
    BY <1>2 DEF LoadDocument, At, LocalOK, Local, Pcs
  <2> HIDE DEF l
  <2> QED
    BY <1>3, <2>1, <2>2, <2>3, LocalStep
<1> QED
  BY <1>5, <1>6

\* A failed job is given back.
LEMMA ReleaseStep ==
  ASSUME Parts, NEW w \in Workers, ReleaseJob(w)
  PROVE  Parts'
<1>1. /\ RestTyped /\ RowsOK(rows, models) /\ QueueOK(queue, models)
      /\ WorkersOK(worker, models)
  BY DEF Parts
<1>2. worker[w] \in Local /\ LocalOK(worker[w], models)
  BY <1>1 DEF WorkersOK, LocalOK
<1>3. UNCHANGED <<disk, tables, setup, budget>> /\ budget' \in 0..MaxEvents
  BY <1>1 DEF ReleaseJob, RestTyped
<1> DEFINE l == [worker[w] EXCEPT !.pc = "replan"]
<1>4. worker' = [worker EXCEPT ![w] = l]
  BY <1>1 DEF ReleaseJob, WorkersOK
<1>5. QueueOK(queue', models)
  BY <1>1, CompleteOK DEF ReleaseJob
<1>6. LocalOK(l, models)
  BY <1>2 DEF ReleaseJob, At, LocalOK, Local, Pcs
<1> HIDE DEF l
<1> QED
  BY <1>3, <1>4, <1>5, <1>6, LocalStep

\* The pending and stale rows of a pair are all of its rows or none, so the
\* handler takes a whole plan along.
LEMMA ListedIsWhole ==
  ASSUME NEW r, NEW M, M \subseteq Models, RowsOK(r, M), NEW d, NEW m,
         PairKeys(r, d, m) \cap Recoverable(r) # {}
  PROVE  \E v \in Versions :
           {[chunk |-> k.chunk, plan |-> r[k].plan] :
              k \in PairKeys(r, d, m) \cap Recoverable(r)} = PlannedList(v)
<1> DEFINE K == PairKeys(r, d, m) \cap Recoverable(r)
           L == {[chunk |-> k.chunk, plan |-> r[k].plan] : k \in K}
<1>1. PICK k \in K : TRUE
  OBVIOUS
<1> DEFINE v == r[k].plan
<1>2. k \in DOMAIN r /\ k.doc = d /\ k.model = m /\ r[k].state # "embedded" /\ v \in Versions
  BY <1>1 DEF PairKeys, Recoverable, RowsOK, RowsTyped, Row
<1>3. PairKeys(r, d, m) = PlannedKeys(d, m, v)
  BY <1>2 DEF RowsOK, Whole
<1>4. \A j \in PairKeys(r, d, m) : r[j].plan = v /\ r[j].state # "embedded"
  BY <1>2 DEF RowsOK, Whole
<1>5. \A j \in PairKeys(r, d, m) : j \in DOMAIN r /\ r[j] \in Row
  BY DEF PairKeys, RowsOK, RowsTyped
<1>6. K = PlannedKeys(d, m, v)
  BY <1>3, <1>4, <1>5 DEF Recoverable, Row
<1>7. \A j \in K : r[j].plan = v
  BY <1>4
<1> HIDE DEF K, v
<1>8. L \subseteq PlannedList(v)
  <2> SUFFICES ASSUME NEW j \in K
               PROVE  [chunk |-> j.chunk, plan |-> r[j].plan] \in PlannedList(v)
    OBVIOUS
  <2>1. j.chunk \in PlannedChunks(v)
    BY <1>6 DEF PlannedKeys, RowKey
  <2> QED
    BY <1>7, <2>1 DEF PlannedList
<1>9. PlannedList(v) \subseteq L
  <2> SUFFICES ASSUME NEW c \in PlannedChunks(v)
               PROVE  [chunk |-> c, plan |-> v] \in L
    BY DEF PlannedList
  <2>1. RowKey(d, m, c) \in K /\ RowKey(d, m, c).chunk = c
    BY <1>6 DEF PlannedKeys, RowKey
  <2> QED
    BY <1>7, <2>1
<1> QED
  BY <1>2, <1>8, <1>9 DEF K

\* The handler takes the document's rows along.
LEMMA ListStep ==
  ASSUME Parts, NEW w \in Workers, ListRows(w)
  PROVE  Parts'
<1>1. /\ RestTyped /\ RowsOK(rows, models) /\ QueueOK(queue, models)
      /\ WorkersOK(worker, models)
  BY DEF Parts
<1>2. worker[w] \in Local /\ LocalOK(worker[w], models)
  BY <1>1 DEF WorkersOK, LocalOK
<1>3. UNCHANGED <<disk, tables, setup, queue, budget>> /\ budget' \in 0..MaxEvents
  BY <1>1 DEF ListRows, RestTyped
<1> DEFINE K == PairKeys(rows, worker[w].doc, worker[w].model) \cap Recoverable(rows)
           L == {[chunk |-> k.chunk, plan |-> rows[k].plan] : k \in K}
           l == [worker[w] EXCEPT !.pc = IF K = {} THEN "ok" ELSE "prepare", !.list = L]
<1>4. worker' = [worker EXCEPT ![w] = l]
  BY <1>1 DEF ListRows, WorkersOK
<1>5. K # {} => \E v \in Versions : L = PlannedList(v)
  BY <1>1, ListedIsWhole DEF RestTyped
<1>6. L \in SUBSET [chunk : Nat, plan : Versions]
  <2>1. CASE K = {}
    BY <2>1
  <2>2. CASE K # {}
    BY <1>5, <2>2, PlannedListTyped
  <2> QED
    BY <2>1, <2>2
<1> HIDE DEF K, L
<1>7. LocalOK(l, models)
  BY <1>2, <1>5, <1>6 DEF ListRows, At, LocalOK, Local, Pcs
<1> HIDE DEF l
<1> QED
  BY <1>1, <1>3, <1>4, <1>7, LocalStep

\* The file is gone: every pair of the document goes with it.
LEMMA DropPlanStep ==
  ASSUME Parts, NEW w \in Workers, DropDocument(w)
  PROVE  Parts'
<1>1. /\ RestTyped /\ RowsOK(rows, models) /\ QueueOK(queue, models)
      /\ WorkersOK(worker, models)
  BY DEF Parts
<1>2. worker[w] \in Local /\ LocalOK(worker[w], models)
  BY <1>1 DEF WorkersOK, LocalOK
<1> DEFINE d == worker[w].doc
           l == [worker[w] EXCEPT !.pc = "ok"]
<1>3. worker' = [worker EXCEPT ![w] = l]
  BY <1>1 DEF DropDocument, WorkersOK
<1>4. LocalOK(l, models)
  BY <1>2 DEF DropDocument, At, LocalOK, Local, Pcs
<1>5. WorkersOK(worker', models)
  BY <1>1, <1>3, <1>4, OneWorkerOK
<1>6. UNCHANGED <<disk, lastDoc, setup, queue, budget>>
  BY DEF DropDocument
<1>7. RowsOK(rows', models)
  <2>1. \A j, k \in DOMAIN rows :
          j.doc = k.doc /\ j.model = k.model =>
            (j \in DocKeys(DOMAIN rows, {d}) <=> k \in DocKeys(DOMAIN rows, {d}))
    BY DEF DocKeys
  <2> QED
    BY <1>1, <2>1, DeleteOK DEF DropDocument
<1>8. RestTyped'
  BY <1>1, <1>6 DEF DropDocument, RestTyped, setup, DeleteVecForDocuments
<1> QED
  BY <1>1, <1>5, <1>6, <1>7, <1>8 DEF Parts, setup

\* The service answered: the pair becomes the whole plan the worker listed,
\* whatever the pair has become since.
LEMMA StorePlanStep ==
  ASSUME Parts, NEW w \in Workers, StoreEmbeddings(w)
  PROVE  Parts'
<1>1. /\ RestTyped /\ RowsOK(rows, models) /\ QueueOK(queue, models)
      /\ WorkersOK(worker, models)
  BY DEF Parts
<1>2. worker[w] \in Local /\ LocalOK(worker[w], models)
  BY <1>1 DEF WorkersOK, LocalOK
<1>3. UNCHANGED <<disk, documents, lastDoc, setup, queue, budget>>
  BY DEF StoreEmbeddings
<1> DEFINE d == worker[w].doc
           m == worker[w].model
           l == [worker[w] EXCEPT !.pc = "ok", !.list = {}, !.read = NoVersion]
<1>4. m \in models /\ d \in Nat /\ worker[w].read \in Versions /\ models \subseteq Models
  BY <1>1, <1>2 DEF StoreEmbeddings, At, LocalOK, Local, RestTyped
<1>5. PICK v \in Versions : worker[w].list = PlannedList(v)
  BY <1>2 DEF StoreEmbeddings, At, LocalOK
<1>6. LocalOK(l, models)
  BY <1>2, VersionFacts DEF StoreEmbeddings, At, LocalOK, Local, Pcs
<1>7. CASE d \in DOMAIN documents /\ Dims[m] = Dims[vecModel]
  <2>1. /\ rows' = ReplaceRows(rows, d, m, worker[w].list, worker[w].read)
        /\ vec' = SyncVecForPair(DeleteVecForPair(vec, d, m), rows', d, m)
        /\ worker' = [worker EXCEPT ![w] = l]
    BY <1>1, <1>7 DEF StoreEmbeddings, WorkersOK
  <2>2. RowsOK(rows', models)
    BY <1>1, <1>4, <1>5, <2>1, ReplaceOK
  <2>3. vec' \subseteq Keys
    BY <1>1, <2>1, <2>2
       DEF RestTyped, RowsOK, RowsTyped, SyncVecForPair, DeleteVecForPair, PairKeys
  <2>4. RestTyped'
    BY <1>1, <1>3, <2>3 DEF RestTyped, setup
  <2> HIDE DEF l
  <2>5. WorkersOK(worker', models)
    BY <1>1, <1>6, <2>1, OneWorkerOK
  <2> QED
    BY <1>1, <1>3, <2>2, <2>4, <2>5 DEF Parts, setup
<1>8. CASE ~(d \in DOMAIN documents /\ Dims[m] = Dims[vecModel])
  <2>1. worker' = [worker EXCEPT ![w] = Idle] /\ UNCHANGED <<rows, vec>>
    BY <1>8 DEF StoreEmbeddings
  <2>2. budget' \in 0..MaxEvents
    BY <1>1, <1>3 DEF RestTyped
  <2> QED
    BY <1>1, <1>3, <2>1, <2>2, IdleOK, LocalStep DEF tables
<1> QED
  BY <1>7, <1>8

\* The tail of an upsert: the pair is replaced by the new plan.
LEMMA ReplacePendingPlan ==
  ASSUME Parts, NEW w \in Workers, At(w, "upsert"), NEW d \in Nat,
         NEW rows1, NEW vec1 \in SUBSET Keys, NEW queue1,
         RowsOK(rows1, models), QueueOK(queue1, models),
         ReplacePending(w, d, rows1, vec1, queue1)
  PROVE  /\ RowsOK(rows', models)
         /\ QueueOK(queue', models)
         /\ WorkersOK(worker', models)
         /\ vec' \subseteq Keys
<1>1. /\ RestTyped /\ RowsOK(rows, models) /\ QueueOK(queue, models)
      /\ WorkersOK(worker, models)
  BY DEF Parts
<1>2. worker[w] \in Local /\ LocalOK(worker[w], models)
  BY <1>1 DEF WorkersOK, LocalOK
<1> DEFINE m == worker[w].model
           K == PairKeys(rows1, d, m)
           rows2 == DeleteRows(rows1, K)
           plans == [x \in {d} |-> worker[w].plan]
           l == [worker[w] EXCEPT !.pc = IF worker[w].doc = 0 THEN "walk" ELSE "ok",
                                  !.path = "", !.hash = NoVersion, !.plan = NoVersion]
<1>3. m \in models /\ models \subseteq Models /\ worker[w].plan \in Versions
  BY <1>1, <1>2 DEF At, LocalOK, Local, RestTyped
<1>4. RowsOK(rows2, models)
  <2>1. \A j, k \in DOMAIN rows1 :
          j.doc = k.doc /\ j.model = k.model => (j \in K <=> k \in K)
    BY DEF PairKeys
  <2> HIDE DEF K
  <2> QED
    BY <2>1, DeleteOK
<1>5. \A k \in DOMAIN rows2 : ~(k.model = m /\ k.doc \in {d})
  BY DEF DeleteRows, PairKeys
<1>6. /\ DOMAIN plans = {d} /\ plans[d] \in Versions /\ IsFiniteSet({d})
      /\ \A x \in DOMAIN plans : plans[x] \in Versions
  BY <1>3, FS_Singleton
<1>7. rows' = InsertPendingRows(rows2, m, plans) /\ queue' = SeedEmbedJobs(queue1, rows')
  BY DEF ReplacePending
<1>8. vec' \subseteq vec1
  BY DEF ReplacePending, DeleteVecForNonEmbedded, DeleteVecForPair
<1>9. worker' = [worker EXCEPT ![w] = l]
  BY DEF ReplacePending, AfterUpsert
<1>10. LocalOK(l, models)
  BY <1>2, VersionFacts DEF At, LocalOK, Local, Pcs
<1> HIDE DEF rows2, plans, l
<1>11. RowsOK(InsertPendingRows(rows2, m, plans), models \cup {m})
  BY <1>3, <1>4, <1>5, <1>6, InsertOK
<1>12. RowsOK(rows', models)
  <2>1. models \cup {m} = models
    BY <1>3
  <2> QED
    BY <1>7, <1>11, <2>1
<1>13. QueueOK(queue', models)
  BY <1>3, <1>7, <1>12, SeedOK DEF RowsOK
<1>14. WorkersOK(worker', models)
  BY <1>1, <1>9, <1>10, OneWorkerOK
<1> QED
  BY <1>8, <1>12, <1>13, <1>14

\* A changed document gets a new hash, and its old plans are replaced.
LEMMA UpsertChangedPlanStep ==
  ASSUME Parts, NEW w \in Workers, UpsertChanged(w)
  PROVE  Parts'
<1>1. /\ RestTyped /\ RowsOK(rows, models) /\ QueueOK(queue, models)
      /\ WorkersOK(worker, models)
  BY DEF Parts
<1>2. worker[w] \in Local /\ LocalOK(worker[w], models)
  BY <1>1 DEF WorkersOK, LocalOK
<1>3. PICK d \in DocAt(worker[w].path) :
        /\ documents' = [documents EXCEPT ![d] = [path |-> worker[w].path,
                                                  hash |-> worker[w].hash]]
        /\ ReplacePending(w, d, MarkStaleRows(rows, {d}), DeleteVecForDocuments(vec, {d}),
                          SeedEmbedJobs(queue, MarkStaleRows(rows, {d})))
  BY DEF UpsertChanged
<1>4. UNCHANGED <<disk, lastDoc, setup, budget>> /\ At(w, "upsert")
  BY DEF UpsertChanged
<1>5. d \in DOMAIN documents /\ d \in Nat /\ models \subseteq Models
  BY <1>1 DEF DocAt, RestTyped
<1>6. worker[w].path \in Paths /\ worker[w].hash \in 1..MaxVersion
  <2>1. worker[w].hash \in Versions /\ worker[w].hash # NoVersion
    BY <1>2, <1>4 DEF At, LocalOK, Local
  <2> QED
    BY <1>2, <1>4, <2>1, VersionFacts DEF At, LocalOK
<1>7. documents' \in [DOMAIN documents' -> [path : Paths, hash : 1..MaxVersion]]
      /\ DOMAIN documents' = DOMAIN documents
  BY <1>1, <1>3, <1>6 DEF RestTyped
<1>8. RowsOK(MarkStaleRows(rows, {d}), models)
  BY <1>1, MarkStaleOK
<1>9. QueueOK(SeedEmbedJobs(queue, MarkStaleRows(rows, {d})), models)
  BY <1>1, <1>5, <1>8, SeedOK DEF RowsOK
<1>10. DeleteVecForDocuments(vec, {d}) \in SUBSET Keys
  BY <1>1 DEF DeleteVecForDocuments, RestTyped
<1>11. /\ RowsOK(rows', models) /\ QueueOK(queue', models)
       /\ WorkersOK(worker', models) /\ vec' \subseteq Keys
  BY <1>3, <1>4, <1>5, <1>8, <1>9, <1>10, ReplacePendingPlan
<1>12. RestTyped'
  BY <1>1, <1>4, <1>7, <1>11 DEF RestTyped, setup
<1> QED
  BY <1>4, <1>11, <1>12 DEF Parts, setup

\* A new document gets its plans.
LEMMA UpsertNewPlanStep ==
  ASSUME Parts, NEW w \in Workers, UpsertNew(w)
  PROVE  Parts'
<1>1. /\ RestTyped /\ RowsOK(rows, models) /\ QueueOK(queue, models)
      /\ WorkersOK(worker, models)
  BY DEF Parts
<1>2. worker[w] \in Local /\ LocalOK(worker[w], models)
  BY <1>1 DEF WorkersOK, LocalOK
<1>3. /\ UNCHANGED <<disk, setup, budget>> /\ At(w, "upsert")
      /\ lastDoc' = lastDoc + 1
      /\ ReplacePending(w, lastDoc + 1, rows, vec, queue)
      /\ documents' = [d \in DOMAIN documents \cup {lastDoc + 1} |->
                         IF d = lastDoc + 1
                         THEN [path |-> worker[w].path, hash |-> worker[w].hash]
                         ELSE documents[d]]
  BY DEF UpsertNew
<1>4. worker[w].path \in Paths /\ worker[w].hash \in 1..MaxVersion
  <2>1. worker[w].hash \in Versions /\ worker[w].hash # NoVersion
    BY <1>2, <1>3 DEF At, LocalOK, Local
  <2> QED
    BY <1>2, <1>3, <2>1, VersionFacts DEF At, LocalOK
<1>5. lastDoc \in Nat /\ lastDoc + 1 \in Nat
  BY <1>1 DEF RestTyped
<1>6. /\ documents' \in [DOMAIN documents' -> [path : Paths, hash : 1..MaxVersion]]
      /\ DOMAIN documents' \subseteq 1..lastDoc'
  BY <1>1, <1>3, <1>4, <1>5 DEF RestTyped
<1>7. vec \in SUBSET Keys
  BY <1>1 DEF RestTyped
<1>8. /\ RowsOK(rows', models) /\ QueueOK(queue', models)
      /\ WorkersOK(worker', models) /\ vec' \subseteq Keys
  BY <1>1, <1>3, <1>5, <1>7, ReplacePendingPlan
<1>9. RestTyped'
  BY <1>1, <1>3, <1>5, <1>6, <1>8 DEF RestTyped, setup
<1> QED
  BY <1>3, <1>8, <1>9 DEF Parts, setup

-----------------------------------------------------------------------------
(* All steps, and the theorems.                                             *)

\* Every step keeps the invariant of the tables.
LEMMA NextPlan == TableInv /\ Parts /\ [Next]_vars => Parts'
<1> SUFFICES ASSUME TableInv, Parts, [Next]_vars
             PROVE  Parts'
  OBVIOUS
<1>1. CASE \E w \in Workers : WorkerStep(w)
  <2>1. PICK w \in Workers : WorkerStep(w)
    BY <1>1
  <2>2. CASE ClaimNext(w)
    BY <2>2, ClaimNextStep
  <2>3. CASE Complete(w)
    BY <2>3, EndStep
  <2>4. CASE UpsertChanged(w)
    BY <2>4, UpsertChangedPlanStep
  <2>5. CASE UpsertNew(w)
    BY <2>5, UpsertNewPlanStep
  <2>6. CASE \/ WalkDone(w) \/ (\E p \in Paths : HashCandidate(w, p)) \/ ReadContent(w)
             \/ ReadContentFails(w) \/ UpsertUnchanged(w) \/ CheckFile(w)
             \/ ReplanHash(w) \/ PrepareChunks(w)
    BY <2>6, ReadingStep
  <2>7. CASE LoadDocument(w)
    BY <2>7, LoadStep
  <2>8. CASE DropDocument(w)
    BY <2>8, DropPlanStep
  <2>9. CASE ReleaseJob(w)
    BY <2>9, ReleaseStep
  <2>10. CASE ListRows(w)
    BY <2>10, ListStep
  <2>11. CASE StoreEmbeddings(w)
    BY <2>11, StorePlanStep
  <2>12. CASE NothingToClaim(w)
    BY <2>12 DEF NothingToClaim, vars, tables, setup, Parts, RestTyped
  <2> QED
    BY <2>1, <2>2, <2>3, <2>4, <2>5, <2>6, <2>7, <2>8, <2>9, <2>10, <2>11, <2>12
       DEF WorkerStep, IngestStep, EmbedStep
<1>2. CASE \E S \in SUBSET DOMAIN queue.jobs : ClaimsExpire(S)
  BY <1>2, ClaimsExpireStep
<1>3. CASE Environment
  <2>1. CASE \E p \in Paths : EditFile(p) \/ RemoveFile(p) \/ RestoreFile(p)
    BY <2>1, FilesStep
  <2>2. CASE PostIngest
    BY <2>2, PostIngestStep
  <2>3. CASE \E d \in 1..(lastDoc + 1) : PostStale({d})
    BY <2>3, PostStalePlanStep
  <2>4. CASE \E w \in Workers : Fault(w)
    BY <2>4, EndStep
  <2> QED
    BY <1>3, <2>1, <2>2, <2>3, <2>4 DEF Environment
<1>4. CASE \E m \in Models : Restart(m)
  BY <1>4, RestartPlanStep
<1>5. CASE UNCHANGED vars
  BY <1>5 DEF vars, tables, setup, Parts, RestTyped
<1> QED
  BY <1>1, <1>2, <1>3, <1>4, <1>5 DEF Next

\* The rows, the jobs and what the workers hold keep to PlanInv in every
\* reachable state.
THEOREM PlanInvariant == Spec => []PlanInv
<1>1. Spec => []Parts
  BY InitPlan, NextPlan, TablesInvariant, PTL DEF Spec
<1> QED
  BY <1>1, PartsArePlanInv, PTL

\* The tables, the queue and the workers' locals have their types.
THEOREM PipelineTypeCorrect == Spec => []TypeOK
<1>1. PlanInv => TypeOK
  BY DEF PlanInv
<1> QED
  BY <1>1, PlanInvariant, PTL

\* replace_embeddings deletes a pair and writes back only what the handler had
\* listed: nothing of a plan is ever lost by it, however handlers, ingests, stale
\* requests and restarts interleave.
THEOREM PlansStayWhole == Spec => []WholePlanPerPair
<1>1. PlanInv => WholePlanPerPair
  BY DEF PlanInv
<1> QED
  BY <1>1, PlanInvariant, PTL

-----------------------------------------------------------------------------
(***************************************************************************)
(* Fresh vectors.  With a single worker no document keeps vectors of       *)
(* content older than its recorded hash.  (With two workers the run        *)
(* PipelineLostUpdate shows that it may.)                                  *)
(***************************************************************************)

-----------------------------------------------------------------------------
(* The inductive invariant.                                                 *)

\* A recorded hash is of content the file had.
HashesFromDisk ==
  \A d \in DOMAIN documents : documents[d].hash <= disk[documents[d].path].ver

\* So is the hash a worker is about to record.
HashAtHand(l) ==
  l.pc \in {"read", "upsert"} => l.hash <= disk[l.path].ver

\* A worker reads the file of the document it embeds.
PathOfDocument(l) ==
  l.pc \in {"check", "list", "prepare"} /\ l.doc \in DOMAIN documents =>
    l.path = documents[l.doc].path

\* What it embeds is no older than what the document records.
ReadNotOlder(l) ==
  l.pc = "embed" /\ l.doc \in DOMAIN documents =>
    \A x \in l.list : x.chunk # FilenameChunk => l.read >= documents[l.doc].hash

FreshLocal(l) == HashAtHand(l) /\ PathOfDocument(l) /\ ReadNotOlder(l)

FreshInv ==
  /\ HashesFromDisk
  /\ \A w \in Workers : FreshLocal(worker[w])
  /\ EmbeddingNotOlder

-----------------------------------------------------------------------------
(* Steps.                                                                   *)

\* The first start of the server.
LEMMA InitFresh == Init => FreshInv
<1> SUFFICES ASSUME Init
             PROVE  FreshInv
  OBVIOUS
<1>1. DOMAIN documents = {} /\ DOMAIN rows = {} /\ \A w \in Workers : worker[w] = Idle
  BY DEF Init
<1>2. Idle.pc = "idle"
  BY DEF Idle
<1> QED
  BY <1>1, <1>2 DEF FreshInv, HashesFromDisk, FreshLocal, HashAtHand, PathOfDocument,
                    ReadNotOlder, EmbeddingNotOlder, Embedded

\* A file's version never falls.
LEMMA FilesFresh ==
  ASSUME FreshInv, Parts, NEW p \in Paths,
         EditFile(p) \/ RemoveFile(p) \/ RestoreFile(p)
  PROVE  FreshInv'
<1>1. /\ disk \in [Paths -> [exists : BOOLEAN, ver : 1..MaxVersion]]
      /\ MaxVersion \in Nat
  BY BoundAssumption DEF Parts, RestTyped
<1>2. UNCHANGED <<documents, rows, worker>>
  BY DEF EditFile, RemoveFile, RestoreFile, tables
<1>3. \A q \in Paths : disk[q].ver \in Nat /\ disk'[q].ver \in Nat /\ disk[q].ver <= disk'[q].ver
  <2> SUFFICES ASSUME NEW q \in Paths
               PROVE  /\ disk[q].ver \in Nat /\ disk'[q].ver \in Nat
                      /\ disk[q].ver <= disk'[q].ver
    OBVIOUS
  <2>1. CASE EditFile(p)
    BY <1>1, <2>1 DEF EditFile
  <2>2. CASE RemoveFile(p)
    BY <1>1, <2>2 DEF RemoveFile
  <2>3. CASE RestoreFile(p)
    BY <1>1, <2>3 DEF RestoreFile
  <2> QED
    BY <2>1, <2>2, <2>3
<1>4. \A d \in DOMAIN documents : documents[d].path \in Paths /\ documents[d].hash \in Nat
  BY DEF Parts, RestTyped
<1>5. \A w \in Workers : /\ worker[w].pc \in {"read", "upsert"} => worker[w].path \in Paths
                         /\ worker[w].hash \in Nat
  <2>1. Versions \subseteq Nat
    BY BoundAssumption DEF Versions, NoVersion
  <2> QED
    BY <2>1 DEF Parts, WorkersOK, LocalOK, Local
<1>6. HashesFromDisk'
  BY <1>2, <1>3, <1>4 DEF FreshInv, HashesFromDisk
<1>7. \A w \in Workers : FreshLocal(worker[w])'
  <2> SUFFICES ASSUME NEW w \in Workers
               PROVE  FreshLocal(worker[w])'
    OBVIOUS
  <2>1. HashAtHand(worker[w])'
    BY <1>2, <1>3, <1>5 DEF FreshInv, FreshLocal, HashAtHand
  <2>2. PathOfDocument(worker[w])' /\ ReadNotOlder(worker[w])'
    BY <1>2 DEF FreshInv, FreshLocal, PathOfDocument, ReadNotOlder
  <2> QED
    BY <2>1, <2>2 DEF FreshLocal
<1>8. EmbeddingNotOlder'
  BY <1>2 DEF FreshInv, EmbeddingNotOlder, Embedded
<1> QED
  BY <1>6, <1>7, <1>8 DEF FreshInv

\* Documents and files stay; a worker's locals may change.
LEMMA LocalsFresh ==
  ASSUME FreshInv, UNCHANGED <<disk, documents>>, EmbeddingNotOlder',
         \A w \in Workers : FreshLocal(worker'[w])
  PROVE  FreshInv'
BY DEF FreshInv, HashesFromDisk, FreshLocal, HashAtHand, PathOfDocument, ReadNotOlder

\* Marking rows stale takes embedded rows away.
LEMMA PostStaleFresh ==
  ASSUME FreshInv, NEW D, PostStale(D)
  PROVE  FreshInv'
<1>1. UNCHANGED <<disk, documents, worker>>
  BY DEF PostStale
<1>2. EmbeddingNotOlder'
  BY <1>1 DEF PostStale, FreshInv, EmbeddingNotOlder, MarkStaleRows, Embedded
<1> QED
  BY <1>1, <1>2, LocalsFresh DEF FreshInv

\* New pending rows are not embedded.
LEMMA InsertFresh ==
  ASSUME NEW r, NEW m, NEW plans
  PROVE  \A k \in Embedded(InsertPendingRows(r, m, plans)) :
           k \in Embedded(r) /\ InsertPendingRows(r, m, plans)[k] = r[k]
<1> DEFINE new == UNION {PlannedKeys(d, m, plans[d]) : d \in DOMAIN plans}
           s == InsertPendingRows(r, m, plans)
<1>1. s = [k \in DOMAIN r \cup new |->
             IF k \in new
             THEN [state |-> "pending", plan |-> plans[k.doc], emb |-> NoVersion]
             ELSE r[k]]
  BY DEF InsertPendingRows
<1> HIDE DEF new, s
<1> QED
  BY <1>1 DEF Embedded, s

\* A restart: rows may be inserted, but none becomes embedded.
LEMMA RestartFresh ==
  ASSUME FreshInv, NEW m \in Models, Restart(m)
  PROVE  FreshInv'
<1>1. UNCHANGED <<disk, documents>>
  BY DEF Restart
<1>2. EmbeddingNotOlder'
  <2>1. \A k \in Embedded(rows') : k \in Embedded(rows) /\ rows'[k] = rows[k]
    BY InsertFresh DEF Restart
  <2> QED
    BY <1>1, <2>1 DEF FreshInv, EmbeddingNotOlder
<1>3. \A w \in Workers : FreshLocal(worker'[w])
  BY DEF Restart, Idle, FreshLocal, HashAtHand, PathOfDocument, ReadNotOlder
<1> QED
  BY <1>1, <1>2, <1>3, LocalsFresh

\* A worker's step that leaves files, documents and rows alone.
LEMMA WorkerFresh ==
  ASSUME FreshInv, UNCHANGED <<disk, documents, rows>>, NEW w \in Workers,
         worker \in [Workers -> Local],
         NEW l, worker' = [worker EXCEPT ![w] = l], FreshLocal(l)
  PROVE  FreshInv'
<1>1. EmbeddingNotOlder'
  BY DEF FreshInv, EmbeddingNotOlder, Embedded
<1>2. \A v \in Workers : FreshLocal(worker'[v])
  BY DEF FreshInv
<1> QED
  BY <1>1, <1>2, LocalsFresh

\* An idle worker holds nothing that could be stale.
LEMMA IdleFresh == FreshLocal(Idle)
BY DEF Idle, FreshLocal, HashAtHand, PathOfDocument, ReadNotOlder

\* At these points a worker holds nothing that could be stale.
LEMMA UnboundFresh ==
  ASSUME NEW l, l.pc \in {"idle", "walk", "load", "drop", "changed", "replan", "ok"}
  PROVE  FreshLocal(l)
BY DEF FreshLocal, HashAtHand, PathOfDocument, ReadNotOlder

\* The first read of a file: the hash of what it is now.
LEMMA HashFresh ==
  ASSUME FreshInv, Parts, NEW w \in Workers,
         (\E p \in Paths : HashCandidate(w, p)) \/ ReplanHash(w)
  PROVE  FreshInv'
<1>1. worker \in [Workers -> Local] /\ LocalOK(worker[w], models)
  BY DEF Parts, WorkersOK
<1>2. UNCHANGED <<disk, documents, rows>>
  BY DEF HashCandidate, ReplanHash, tables
<1>3. \A p \in Paths : disk[p].ver \in Nat
  BY BoundAssumption DEF Parts, RestTyped
<1>4. CASE \E p \in Paths : HashCandidate(w, p)
  <2>1. PICK p \in Paths : HashCandidate(w, p)
    BY <1>4
  <2> DEFINE found == [worker[w] EXCEPT !.pc = "read", !.todo = worker[w].todo \ {p},
                                        !.path = p, !.hash = disk[p].ver]
             gone == [worker[w] EXCEPT !.todo = worker[w].todo \ {p}]
  <2>2. \/ worker' = [worker EXCEPT ![w] = found]
        \/ worker' = [worker EXCEPT ![w] = gone]
    <3>1. CASE disk[p].exists
      BY <2>1, <3>1 DEF HashCandidate
    <3>2. CASE ~disk[p].exists
      BY <2>1, <3>2 DEF HashCandidate
    <3> QED
      BY <3>1, <3>2
  <2>3. FreshLocal(found)
    <3>1. found.pc = "read" /\ found.path = p /\ found.hash = disk[p].ver
      BY <1>1 DEF Local
    <3> QED
      BY <1>3, <3>1 DEF FreshLocal, HashAtHand, PathOfDocument, ReadNotOlder
  <2>4. FreshLocal(gone)
    <3>1. gone.pc = "walk"
      BY <1>1, <2>1 DEF HashCandidate, At, Local
    <3> HIDE DEF gone
    <3> QED
      BY <3>1, UnboundFresh
  <2> HIDE DEF found, gone
  <2> QED
    BY <1>1, <1>2, <2>2, <2>3, <2>4, WorkerFresh
<1>5. CASE ReplanHash(w)
  <2> DEFINE f == disk[worker[w].path]
             l == [worker[w] EXCEPT !.pc = "read", !.hash = f.ver]
  <2>1. \/ worker' = [worker EXCEPT ![w] = l]
        \/ worker' = [worker EXCEPT ![w] = Idle]
    BY <1>5 DEF ReplanHash
  <2>2. l.pc = "read" /\ l.path = worker[w].path /\ l.hash = f.ver /\ f.ver \in Nat
    BY <1>1, <1>3, <1>5 DEF Local, LocalOK, ReplanHash, At
  <2>3. FreshLocal(l)
    BY <2>2 DEF FreshLocal, HashAtHand, PathOfDocument, ReadNotOlder
  <2> HIDE DEF l
  <2> QED
    BY <1>1, <1>2, <2>1, <2>3, IdleFresh, WorkerFresh
<1> QED
  BY <1>4, <1>5

\* The second read, and what follows it without touching the tables.
LEMMA ReadFresh ==
  ASSUME FreshInv, Parts, NEW w \in Workers,
         ReadContent(w) \/ ReadContentFails(w) \/ UpsertUnchanged(w)
  PROVE  FreshInv'
<1>1. worker \in [Workers -> Local] /\ LocalOK(worker[w], models)
  BY DEF Parts, WorkersOK
<1>2. UNCHANGED <<disk, documents, rows>>
  BY DEF ReadContent, ReadContentFails, UpsertUnchanged, tables
<1> DEFINE r(v) == [worker[w] EXCEPT !.pc = "upsert", !.plan = v]
           u == [worker[w] EXCEPT !.pc = IF worker[w].doc = 0 THEN "walk" ELSE "ok",
                                  !.path = "", !.hash = NoVersion, !.plan = NoVersion]
<1>3. \/ \E v : worker' = [worker EXCEPT ![w] = r(v)] /\ At(w, "read")
      \/ worker' = [worker EXCEPT ![w] = u]
      \/ worker' = [worker EXCEPT ![w] = Idle]
  <2>1. CASE ReadContent(w)
    BY <1>1, <2>1 DEF ReadContent
  <2>2. CASE ReadContentFails(w)
    BY <1>1, <2>2 DEF ReadContentFails
  <2>3. CASE UpsertUnchanged(w)
    BY <2>3 DEF UpsertUnchanged, AfterUpsert
  <2> QED
    BY <2>1, <2>2, <2>3
<1>4. \A v : At(w, "read") => FreshLocal(r(v))
  <2>1. \A v : r(v).pc = "upsert" /\ r(v).path = worker[w].path /\ r(v).hash = worker[w].hash
    BY <1>1 DEF Local
  <2> HIDE DEF r
  <2> QED
    BY <2>1 DEF At, FreshInv, FreshLocal, HashAtHand, PathOfDocument, ReadNotOlder
<1>5. FreshLocal(u)
  <2>1. u.pc \in {"walk", "ok"}
    BY <1>1 DEF Local
  <2> HIDE DEF u
  <2> QED
    BY <2>1, UnboundFresh
<1> HIDE DEF r, u
<1> QED
  BY <1>1, <1>2, <1>3, <1>4, <1>5, IdleFresh, WorkerFresh

\* Steps after which the worker holds nothing that could be stale.
LEMMA UnboundStep ==
  ASSUME FreshInv, Parts, NEW w \in Workers,
         \/ ClaimNext(w) \/ Complete(w) \/ Fault(w) \/ WalkDone(w) \/ ReleaseJob(w)
  PROVE  FreshInv'
<1>1. worker \in [Workers -> Local]
  BY DEF Parts, WorkersOK
<1>2. UNCHANGED <<disk, documents, rows>>
  BY DEF ClaimNext, Complete, Fault, GiveUp, WalkDone, ReleaseJob, tables
<1>3. \E l : /\ worker' = [worker EXCEPT ![w] = l]
             /\ l.pc \in {"idle", "walk", "load", "drop", "changed", "replan", "ok"}
  <2>1. CASE ClaimNext(w)
    <3>1. PICK i \in ClaimableIds(queue) :
            worker' = [worker EXCEPT ![w] =
              IF queue.jobs[i].payload.type = "ingest"
              THEN [Idle EXCEPT !.pc = "walk", !.job = i, !.todo = Paths, !.model = active]
              ELSE [Idle EXCEPT !.pc = "load", !.job = i,
                                !.doc = queue.jobs[i].payload.doc,
                                !.model = queue.jobs[i].payload.model]]
      BY <2>1 DEF ClaimNext
    <3> DEFINE walk == [Idle EXCEPT !.pc = "walk", !.job = i, !.todo = Paths,
                                    !.model = active]
               load == [Idle EXCEPT !.pc = "load", !.job = i,
                                    !.doc = queue.jobs[i].payload.doc,
                                    !.model = queue.jobs[i].payload.model]
    <3>2. \/ worker' = [worker EXCEPT ![w] = walk]
          \/ worker' = [worker EXCEPT ![w] = load]
      BY <3>1
    <3>3. walk.pc = "walk" /\ load.pc = "load"
      BY DEF Idle
    <3> HIDE DEF walk, load
    <3> QED
      BY <3>2, <3>3
  <2>2. CASE Complete(w) \/ Fault(w)
    <3>1. worker' = [worker EXCEPT ![w] = Idle] /\ Idle.pc = "idle"
      BY <2>2 DEF Complete, Fault, GiveUp, Idle
    <3> QED
      BY <3>1
  <2>3. CASE WalkDone(w)
    <3> DEFINE l == [worker[w] EXCEPT !.pc = "ok"]
    <3>1. worker' = [worker EXCEPT ![w] = l] /\ l.pc = "ok"
      BY <1>1, <2>3 DEF WalkDone, Local
    <3> QED
      BY <3>1
  <2>4. CASE ReleaseJob(w)
    <3> DEFINE l == [worker[w] EXCEPT !.pc = "replan"]
    <3>1. worker' = [worker EXCEPT ![w] = l] /\ l.pc = "replan"
      BY <1>1, <2>4 DEF ReleaseJob, Local
    <3> QED
      BY <3>1
  <2> QED
    BY <2>1, <2>2, <2>3, <2>4
<1>4. PICK l : /\ worker' = [worker EXCEPT ![w] = l]
               /\ l.pc \in {"idle", "walk", "load", "drop", "changed", "replan", "ok"}
  BY <1>3
<1>5. FreshLocal(l)
  BY <1>4, UnboundFresh
<1> QED
  BY <1>1, <1>2, <1>4, <1>5, WorkerFresh


\* The worker takes path and hash from its document.
LEMMA LoadFresh ==
  ASSUME FreshInv, Parts, NEW w \in Workers, LoadDocument(w)
  PROVE  FreshInv'
<1>1. worker \in [Workers -> Local]
  BY DEF Parts, WorkersOK
<1>2. UNCHANGED <<disk, documents, rows>>
  BY DEF LoadDocument, tables
<1> DEFINE d == worker[w].doc
           l == [worker[w] EXCEPT !.pc = "check", !.path = documents[d].path,
                                  !.hash = documents[d].hash]
           k == [worker[w] EXCEPT !.pc = "ok"]
<1>3. worker' = [worker EXCEPT ![w] = l] \/ worker' = [worker EXCEPT ![w] = k]
  BY <1>1 DEF LoadDocument
<1>4. l.pc = "check" /\ l.doc = d /\ l.path = documents[d].path /\ k.pc = "ok"
  BY <1>1 DEF Local
<1> HIDE DEF l, k
<1>5. FreshLocal(l)
  BY <1>4 DEF FreshLocal, HashAtHand, PathOfDocument, ReadNotOlder
<1>6. FreshLocal(k)
  BY <1>4, UnboundFresh
<1> QED
  BY <1>1, <1>2, <1>3, <1>5, <1>6, WorkerFresh

\* Comparing the hash, and listing the rows.
LEMMA CheckAndListFresh ==
  ASSUME FreshInv, Parts, NEW w \in Workers, CheckFile(w) \/ ListRows(w)
  PROVE  FreshInv'
<1>1. worker \in [Workers -> Local]
  BY DEF Parts, WorkersOK
<1>2. UNCHANGED <<disk, documents, rows>>
  BY DEF CheckFile, ListRows, tables
<1> DEFINE l(pc, L) == [worker[w] EXCEPT !.pc = pc, !.list = L]
<1>3. \E pc \in {"drop", "changed", "list", "prepare", "ok"} : \E L :
        worker' = [worker EXCEPT ![w] = l(pc, L)]
  <2>1. CASE CheckFile(w)
    <3>1. \E pc \in {"drop", "changed", "list"} :
            worker' = [worker EXCEPT ![w] = l(pc, worker[w].list)]
      BY <1>1, <2>1 DEF CheckFile, Local
    <3> HIDE DEF l
    <3> QED
      BY <3>1
  <2>2. CASE ListRows(w)
    <3> DEFINE K == PairKeys(rows, worker[w].doc, worker[w].model) \cap Recoverable(rows)
               L == {[chunk |-> k.chunk, plan |-> rows[k].plan] : k \in K}
    <3>1. worker' = [worker EXCEPT ![w] = l(IF K = {} THEN "ok" ELSE "prepare", L)]
      BY <1>1, <2>2 DEF ListRows
    <3> HIDE DEF l, K, L
    <3> QED
      BY <3>1
  <2> QED
    BY <2>1, <2>2
<1>4a. PICK pc \in {"drop", "changed", "list", "prepare", "ok"} :
         \E L : worker' = [worker EXCEPT ![w] = l(pc, L)]
  BY <1>3
<1>4. PICK L : worker' = [worker EXCEPT ![w] = l(pc, L)]
  BY <1>4a
<1>5. l(pc, L).pc = pc /\ l(pc, L).path = worker[w].path /\ l(pc, L).doc = worker[w].doc
  BY <1>1 DEF Local
<1>6. worker[w].pc \in {"check", "list"}
  BY DEF CheckFile, ListRows, At
<1> HIDE DEF l
<1>7. FreshLocal(l(pc, L))
  BY <1>5, <1>6 DEF FreshInv, FreshLocal, HashAtHand, PathOfDocument, ReadNotOlder
<1> QED
  BY <1>1, <1>2, <1>4, <1>7, WorkerFresh

\* The file is read again: what it is now is no older than the recorded hash.
LEMMA PrepareFresh ==
  ASSUME FreshInv, Parts, NEW w \in Workers, PrepareChunks(w)
  PROVE  FreshInv'
<1>1. worker \in [Workers -> Local]
  BY DEF Parts, WorkersOK
<1>2. UNCHANGED <<disk, documents, rows>> /\ worker[w].pc = "prepare"
  BY DEF PrepareChunks, tables, At
<1> DEFINE f == disk[worker[w].path]
           content == {x.chunk : x \in worker[w].list} \ {FilenameChunk}
           l == [worker[w] EXCEPT !.pc = "embed"]
           k == [worker[w] EXCEPT !.pc = "embed", !.read = f.ver]
<1>3. \/ worker' = [worker EXCEPT ![w] = l] /\ content = {}
      \/ worker' = [worker EXCEPT ![w] = k]
      \/ worker' = [worker EXCEPT ![w] = Idle]
  BY DEF PrepareChunks
<1>4. /\ l.pc = "embed" /\ l.doc = worker[w].doc /\ l.list = worker[w].list
      /\ k.pc = "embed" /\ k.doc = worker[w].doc /\ k.read = f.ver
  BY <1>1 DEF Local
<1>5. content = {} => \A x \in worker[w].list : x.chunk = FilenameChunk
  OBVIOUS
<1> HIDE DEF l, k, content
<1>6. content = {} => FreshLocal(l)
  BY <1>4, <1>5 DEF FreshLocal, HashAtHand, PathOfDocument, ReadNotOlder
<1>7. worker[w].doc \in DOMAIN documents => f.ver >= documents[worker[w].doc].hash
  <2> SUFFICES ASSUME worker[w].doc \in DOMAIN documents
               PROVE  f.ver >= documents[worker[w].doc].hash
    OBVIOUS
  <2>1. worker[w].path = documents[worker[w].doc].path
    BY <1>2 DEF FreshInv, FreshLocal, PathOfDocument
  <2>2. documents[worker[w].doc].hash <= f.ver
    BY <2>1 DEF FreshInv, HashesFromDisk
  <2> QED
    BY <2>2
<1>8. FreshLocal(k)
  BY <1>4, <1>7 DEF FreshLocal, HashAtHand, PathOfDocument, ReadNotOlder
<1> QED
  BY <1>1, <1>2, <1>3, <1>6, <1>8, IdleFresh, WorkerFresh

\* A document goes, with all its rows.
LEMMA DropFresh ==
  ASSUME FreshInv, Parts, RowsHaveDocument, NEW w \in Workers, DropDocument(w)
  PROVE  FreshInv'
<1> DEFINE d == worker[w].doc
           l == [worker[w] EXCEPT !.pc = "ok"]
<1>1. worker \in [Workers -> Local]
  BY DEF Parts, WorkersOK
<1>2. /\ disk' = disk
      /\ documents' = [x \in DOMAIN documents \ {d} |-> documents[x]]
      /\ rows' = DeleteRows(rows, DocKeys(DOMAIN rows, {d}))
      /\ worker' = [worker EXCEPT ![w] = l]
  BY <1>1 DEF DropDocument
<1>3. HashesFromDisk'
  BY <1>2 DEF FreshInv, HashesFromDisk
<1>4. EmbeddingNotOlder'
  <2>1. \A k \in Embedded(rows') :
          /\ k \in Embedded(rows) /\ rows'[k] = rows[k] /\ k.doc # d
          /\ k.doc \in DOMAIN documents
    BY <1>2 DEF DeleteRows, DocKeys, Embedded, RowsHaveDocument
  <2> QED
    BY <1>2, <2>1 DEF FreshInv, EmbeddingNotOlder
<1>5. l.pc = "ok"
  BY <1>1 DEF Local
<1> HIDE DEF l
<1>6. \A v \in Workers : worker'[v] = l \/ worker'[v] = worker[v]
  BY <1>1, <1>2
<1>7. \A v \in Workers : FreshLocal(worker[v])'
  BY <1>2, <1>5, <1>6 DEF FreshInv, FreshLocal, HashAtHand, PathOfDocument, ReadNotOlder
<1> QED
  BY <1>3, <1>4, <1>7 DEF FreshInv


\* The rows that come back carry the version that was read.
LEMMA ReplaceReads ==
  ASSUME NEW r, NEW d, NEW m, NEW chunks, NEW u
  PROVE  LET s == ReplaceRows(r, d, m, chunks, u) IN
         \A k \in Embedded(s) :
           \/ k \in Embedded(r) /\ s[k] = r[k]
           \/ /\ k.doc = d
              /\ \E x \in chunks : x.chunk = k.chunk
              /\ k.chunk # FilenameChunk => s[k].emb = u
<1> DEFINE new == {RowKey(d, m, x.chunk) : x \in chunks}
           s == ReplaceRows(r, d, m, chunks, u)
<1>1. \A k \in new : k.doc = d /\ \E x \in chunks : x.chunk = k.chunk
  BY DEF RowKey
<1>2. \A k \in new : k.chunk # FilenameChunk => s[k].emb = u
  BY DEF ReplaceRows
<1>3. /\ DOMAIN s \subseteq DOMAIN r \cup new
      /\ \A k \in DOMAIN s : k \notin new => s[k] = r[k]
  BY DEF ReplaceRows
<1> HIDE DEF new, s
<1> QED
  BY <1>1, <1>2, <1>3 DEF Embedded, s

\* Storing vectors: they are of content that was read after the hash was recorded.
LEMMA StoreFresh ==
  ASSUME FreshInv, Parts, NEW w \in Workers, StoreEmbeddings(w)
  PROVE  FreshInv'
<1> DEFINE d == worker[w].doc
           m == worker[w].model
           l == [worker[w] EXCEPT !.pc = "ok", !.list = {}, !.read = NoVersion]
<1>1. worker \in [Workers -> Local]
  BY DEF Parts, WorkersOK
<1>2. UNCHANGED <<disk, documents>> /\ worker[w].pc = "embed"
  BY DEF StoreEmbeddings, At
<1>3. CASE d \in DOMAIN documents /\ Dims[m] = Dims[vecModel]
  <2>1. /\ rows' = ReplaceRows(rows, d, m, worker[w].list, worker[w].read)
        /\ worker' = [worker EXCEPT ![w] = l]
    BY <1>1, <1>3 DEF StoreEmbeddings
  <2>2. l.pc = "ok"
    BY <1>1 DEF Local
  <2> HIDE DEF l
  <2>3. \A x \in worker[w].list : x.chunk # FilenameChunk =>
                                    worker[w].read >= documents[d].hash
    BY <1>2, <1>3 DEF FreshInv, FreshLocal, ReadNotOlder
  <2>4. \A k \in Embedded(rows') :
          \/ k \in Embedded(rows) /\ rows'[k] = rows[k]
          \/ /\ k.doc = d
             /\ \E x \in worker[w].list : x.chunk = k.chunk
             /\ k.chunk # FilenameChunk => rows'[k].emb = worker[w].read
    BY <2>1, ReplaceReads
  <2>5. EmbeddingNotOlder'
    BY <1>2, <2>3, <2>4 DEF FreshInv, EmbeddingNotOlder
  <2>6. FreshLocal(l)
    BY <2>2, UnboundFresh
  <2>7. \A v \in Workers : FreshLocal(worker'[v])
    BY <1>1, <2>1, <2>6 DEF FreshInv
  <2> QED
    BY <1>2, <2>5, <2>7, LocalsFresh
<1>4. CASE ~(d \in DOMAIN documents /\ Dims[m] = Dims[vecModel])
  <2>1. worker' = [worker EXCEPT ![w] = Idle] /\ UNCHANGED <<rows, vec>>
    BY <1>4 DEF StoreEmbeddings
  <2> QED
    BY <1>1, <1>2, <2>1, IdleFresh, WorkerFresh
<1> QED
  BY <1>3, <1>4

\* After the tail of an upsert what is embedded was embedded before, and the
\* worker holds nothing.
LEMMA ReplacePendingFresh ==
  ASSUME Parts, NEW w \in Workers, NEW d, NEW rows1, NEW vec1, NEW queue1,
         ReplacePending(w, d, rows1, vec1, queue1)
  PROVE  /\ \A k \in Embedded(rows') : k \in Embedded(rows1) /\ rows'[k] = rows1[k]
         /\ worker'[w].pc \in {"walk", "ok"}
<1> DEFINE K == PairKeys(rows1, d, worker[w].model)
           rows2 == DeleteRows(rows1, K)
<1>1. \A k \in Embedded(rows2) : k \in Embedded(rows1) /\ rows2[k] = rows1[k]
  BY DEF DeleteRows, Embedded
<1>2. rows' = InsertPendingRows(rows2, worker[w].model, [x \in {d} |-> worker[w].plan])
  BY DEF ReplacePending
<1> HIDE DEF rows2
<1>3. \A k \in Embedded(rows') : k \in Embedded(rows2) /\ rows'[k] = rows2[k]
  BY <1>2, InsertFresh
<1>4. worker'[w].pc \in {"walk", "ok"}
  BY DEF ReplacePending, AfterUpsert, Parts, WorkersOK, Local
<1> QED
  BY <1>1, <1>3, <1>4

\* The new hash comes with stale rows; no other worker holds what was read before.
LEMMA UpsertChangedFresh ==
  ASSUME FreshInv, Parts, RowsHaveDocument, NEW w \in Workers, Workers = {w},
         UpsertChanged(w)
  PROVE  FreshInv'
<1>1. PICK d \in DocAt(worker[w].path) :
        /\ documents' = [documents EXCEPT ![d] = [path |-> worker[w].path,
                                                  hash |-> worker[w].hash]]
        /\ ReplacePending(w, d, MarkStaleRows(rows, {d}), DeleteVecForDocuments(vec, {d}),
                          SeedEmbedJobs(queue, MarkStaleRows(rows, {d})))
  BY DEF UpsertChanged
<1>2. disk' = disk /\ worker[w].pc = "upsert" /\ d \in DOMAIN documents
  BY DEF UpsertChanged, At, DocAt
<1>3. HashesFromDisk'
  <2>1. worker[w].hash <= disk[worker[w].path].ver
    BY <1>2 DEF FreshInv, FreshLocal, HashAtHand
  <2> QED
    BY <1>1, <1>2, <2>1 DEF FreshInv, HashesFromDisk
<1>4. /\ \A k \in Embedded(rows') : /\ k \in Embedded(MarkStaleRows(rows, {d}))
                                    /\ rows'[k] = MarkStaleRows(rows, {d})[k]
      /\ worker'[w].pc \in {"walk", "ok"}
  BY <1>1, ReplacePendingFresh
<1>5. \A k \in Embedded(MarkStaleRows(rows, {d})) :
        k \in Embedded(rows) /\ k.doc # d /\ MarkStaleRows(rows, {d})[k] = rows[k]
  BY DEF MarkStaleRows, Embedded
<1>6. EmbeddingNotOlder'
  <2>1. \A k \in Embedded(rows) : k.doc \in DOMAIN documents
    BY DEF Embedded, RowsHaveDocument
  <2>2. \A x \in DOMAIN documents : x # d => documents'[x] = documents[x]
    BY <1>1
  <2> QED
    BY <1>4, <1>5, <2>1, <2>2 DEF FreshInv, EmbeddingNotOlder
<1>7. FreshLocal(worker[w])'
  BY <1>4 DEF FreshLocal, HashAtHand, PathOfDocument, ReadNotOlder
<1> QED
  BY <1>3, <1>6, <1>7 DEF FreshInv

\* A new document has no vectors.
LEMMA UpsertNewFresh ==
  ASSUME FreshInv, Parts, TableInv, NEW w \in Workers, Workers = {w}, UpsertNew(w)
  PROVE  FreshInv'
<1>1. /\ documents' = [d \in DOMAIN documents \cup {lastDoc + 1} |->
                         IF d = lastDoc + 1
                         THEN [path |-> worker[w].path, hash |-> worker[w].hash]
                         ELSE documents[d]]
      /\ ReplacePending(w, lastDoc + 1, rows, vec, queue)
      /\ disk' = disk /\ worker[w].pc = "upsert"
  BY DEF UpsertNew, At
<1>2. \A d \in DOMAIN documents : d # lastDoc + 1
  BY DEF TableInv, IdsAndModel
<1>3. HashesFromDisk'
  <2>1. worker[w].hash <= disk[worker[w].path].ver
    BY <1>1 DEF FreshInv, FreshLocal, HashAtHand
  <2> QED
    BY <1>1, <2>1 DEF FreshInv, HashesFromDisk
<1>4. /\ \A k \in Embedded(rows') : k \in Embedded(rows) /\ rows'[k] = rows[k]
      /\ worker'[w].pc \in {"walk", "ok"}
  BY <1>1, ReplacePendingFresh
<1>5. EmbeddingNotOlder'
  <2>1. \A k \in Embedded(rows) : k.doc \in DOMAIN documents
    BY DEF Embedded, TableInv, RowsHaveDocument
  <2>2. \A d \in DOMAIN documents : documents'[d] = documents[d]
    BY <1>1, <1>2
  <2> QED
    BY <1>4, <2>1, <2>2 DEF FreshInv, EmbeddingNotOlder
<1>6. FreshLocal(worker[w])'
  BY <1>4 DEF FreshLocal, HashAtHand, PathOfDocument, ReadNotOlder
<1> QED
  BY <1>3, <1>5, <1>6 DEF FreshInv

-----------------------------------------------------------------------------
(* All steps, and the theorem.                                              *)

\* Every step keeps the invariant.
LEMMA NextFresh ==
  ASSUME NEW one, Workers = {one}
  PROVE  FreshInv /\ TableInv /\ Parts /\ [Next]_vars => FreshInv'
<1> SUFFICES ASSUME FreshInv, TableInv, Parts, [Next]_vars
             PROVE  FreshInv'
  OBVIOUS
<1>0. RowsHaveDocument
  BY DEF TableInv
<1>1. CASE \E w \in Workers : WorkerStep(w)
  <2>1. PICK w \in Workers : WorkerStep(w)
    BY <1>1
  <2>2. CASE ClaimNext(w) \/ Complete(w) \/ WalkDone(w) \/ ReleaseJob(w)
    BY <2>2, UnboundStep
  <2>3. CASE (\E p \in Paths : HashCandidate(w, p)) \/ ReplanHash(w)
    BY <2>3, HashFresh
  <2>4. CASE ReadContent(w) \/ ReadContentFails(w) \/ UpsertUnchanged(w)
    BY <2>4, ReadFresh
  <2>5. CASE UpsertChanged(w)
    BY <1>0, <2>5, UpsertChangedFresh
  <2>6. CASE UpsertNew(w)
    BY <2>6, UpsertNewFresh
  <2>7. CASE LoadDocument(w)
    BY <2>7, LoadFresh
  <2>8. CASE CheckFile(w) \/ ListRows(w)
    BY <2>8, CheckAndListFresh
  <2>9. CASE PrepareChunks(w)
    BY <2>9, PrepareFresh
  <2>10. CASE DropDocument(w)
    BY <1>0, <2>10, DropFresh
  <2>11. CASE StoreEmbeddings(w)
    BY <2>11, StoreFresh
  <2>12. CASE NothingToClaim(w)
    BY <2>12, LocalsFresh
       DEF NothingToClaim, vars, tables, FreshInv, EmbeddingNotOlder, Embedded
  <2> QED
    BY <2>1, <2>2, <2>3, <2>4, <2>5, <2>6, <2>7, <2>8, <2>9, <2>10, <2>11, <2>12
       DEF WorkerStep, IngestStep, EmbedStep
<1>2. CASE \/ \E S \in SUBSET DOMAIN queue.jobs : ClaimsExpire(S)
           \/ PostIngest
           \/ UNCHANGED vars
  <2>1. UNCHANGED <<disk, documents, rows, worker>>
    BY <1>2 DEF ClaimsExpire, PostIngest, vars, tables
  <2> QED
    BY <2>1, LocalsFresh DEF FreshInv, EmbeddingNotOlder, Embedded
<1>3. CASE \E p \in Paths : EditFile(p) \/ RemoveFile(p) \/ RestoreFile(p)
  BY <1>3, FilesFresh
<1>4. CASE \E d \in 1..(lastDoc + 1) : PostStale({d})
  BY <1>4, PostStaleFresh
<1>5. CASE \E w \in Workers : Fault(w)
  BY <1>5, UnboundStep
<1>6. CASE \E m \in Models : Restart(m)
  BY <1>6, RestartFresh
<1> QED
  BY <1>1, <1>2, <1>3, <1>4, <1>5, <1>6 DEF Next, Environment

\* A server with a single worker never stores vectors of content older than the
\* hash the document records, through edits, removals, stale requests, failed
\* reads, faults and restarts.
THEOREM SingleWorkerStaysFresh ==
  ASSUME NEW one, Workers = {one}
  PROVE  Spec => []EmbeddingNotOlder
<1>1. FreshInv /\ TableInv /\ Parts /\ [Next]_vars => FreshInv'
  BY NextFresh
<1>2. FreshInv => EmbeddingNotOlder
  BY DEF FreshInv
<1>3. Spec => []Parts
  BY InitPlan, NextPlan, TablesInvariant, PTL DEF Spec
<1> QED
  BY <1>1, <1>2, <1>3, InitFresh, TablesInvariant, PTL DEF Spec

=============================================================================
