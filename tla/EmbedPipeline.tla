--------------------------- MODULE EmbedPipeline ----------------------------
(***************************************************************************)
(* From a file on disk to vectors in the search index: the ingest and      *)
(* embed_document handlers run by concurrent workers, the HTTP requests    *)
(* that enqueue ingest jobs and mark documents stale, files that change    *)
(* under the workers' feet, I/O and embedding-service failures, and        *)
(* restarts with the same or another embedding model.                      *)
(*                                                                         *)
(* Every SQLite transaction is one action; every read of a file and every  *)
(* read of the database outside a transaction is an action of its own, and *)
(* its result is kept in the worker's locals until it is used.             *)
(* A file's content is its version number; versions are never repeated.    *)
(***************************************************************************)
EXTENDS Repository

CONSTANTS
  Workers,      \* worker tasks
  Paths,        \* files below the ingest root
  Models,       \* ids of the embedding models an operator may configure
  FirstModel,   \* the model of the first start
  Dims,         \* model -> vector dimensions
  MaxVersion,   \* bound: versions of one file
  MaxEvents     \* bound: requests, file changes, faults and restarts

ASSUME ModelAssumption ==
  Models \subseteq Nat \ {0} /\ FirstModel \in Models /\ Dims \in [Models -> Nat]
ASSUME BoundAssumption == MaxVersion \in Nat \ {0} /\ MaxEvents \in Nat
ASSUME ChunkAssumption ==
  /\ ContentChunks \in [1..MaxVersion -> SUBSET (Nat \ {0})]
  /\ \A v \in 1..MaxVersion : IsFiniteSet(ContentChunks[v])

VARIABLES
  disk,       \* path -> does the file exist, and its (last) version
  documents,  \* documents table: id -> filepath and file_hash
  lastDoc,    \* its AUTOINCREMENT
  rows,       \* document_embeddings
  vec,        \* document_embedding_vec
  vecModel,   \* embedding_search_state.active_model_id
  models,     \* embedding_models
  active,     \* the model this process was started with
  queue,      \* job_queue
  worker,     \* program counter and locals of each worker
  budget      \* environment events left

tables == <<documents, lastDoc, rows, vec>>
setup  == <<vecModel, models, active>>
vars   == <<disk, tables, setup, queue, worker, budget>>

Idle == [pc |-> "idle", job |-> 0, todo |-> {}, doc |-> 0, model |-> 0,
         path |-> "", hash |-> NoVersion, plan |-> NoVersion, list |-> {},
         read |-> NoVersion]

Busy(w) == worker[w].pc # "idle"
At(w, pc) == worker[w].pc = pc

Event == budget > 0 /\ budget' = budget - 1

\* The document load_document_by_path finds, if any.
DocAt(p) == {d \in DOMAIN documents : documents[d].path = p}

-----------------------------------------------------------------------------
Init ==
  /\ disk = [p \in Paths |-> [exists |-> TRUE, ver |-> 1]]
  /\ documents = [d \in {} |-> [path |-> "", hash |-> NoVersion]]
  /\ lastDoc = 0
  /\ rows = [k \in {} |-> [state |-> "pending", plan |-> NoVersion, emb |-> NoVersion]]
  /\ vec = {}
  /\ active = FirstModel
  /\ vecModel = active
  /\ models = {active}
  /\ queue = [jobs |-> [i \in {} |-> [payload |-> IngestPayload, claim |-> "queued"]],
              last |-> 0]
  /\ worker = [w \in Workers |-> Idle]
  /\ budget = MaxEvents

-----------------------------------------------------------------------------
(* The environment: files, HTTP requests, time.                             *)

\* A file is rewritten with new content, removed, or put back unchanged.
EditFile(p) ==
  /\ disk[p].ver < MaxVersion
  /\ Event
  /\ disk' = [disk EXCEPT ![p] = [exists |-> TRUE, ver |-> @.ver + 1]]
  /\ UNCHANGED <<tables, setup, queue, worker>>

RemoveFile(p) ==
  /\ disk[p].exists
  /\ Event
  /\ disk' = [disk EXCEPT ![p].exists = FALSE]
  /\ UNCHANGED <<tables, setup, queue, worker>>

RestoreFile(p) ==
  /\ ~disk[p].exists
  /\ Event
  /\ disk' = [disk EXCEPT ![p].exists = TRUE]
  /\ UNCHANGED <<tables, setup, queue, worker>>

\* POST /ingest: enqueue the job of the (one) ingest root.
PostIngest ==
  /\ Event
  /\ queue' = EnqueueAll(queue, {IngestPayload})
  /\ UNCHANGED <<disk, tables, setup, worker>>

\* POST /documents/stale: mark, unindex and seed in one transaction.  Ids that
\* do not exist are ignored.
PostStale(D) ==
  /\ Event
  /\ rows' = MarkStaleRows(rows, D \cap DOMAIN documents)
  /\ vec' = DeleteVecForDocuments(vec, D)
  /\ queue' = SeedEmbedJobs(queue, rows')
  /\ UNCHANGED <<disk, documents, lastDoc, setup, worker>>

\* Jobs whose claim nobody works on any more.
Abandoned ==
  {i \in DOMAIN queue.jobs : /\ queue.jobs[i].claim = "claimed"
                             /\ \A w \in Workers : Busy(w) => worker[w].job # i}

\* STALE_JOB_AGE_SECS, or the retry delay of a deferred job, has passed on some
\* rows that nobody works on any more (JobQueue shows when that is the case).
ClaimsExpire(S) ==
  /\ S # {} /\ S \subseteq Abandoned
  /\ queue' = SetClaims(queue, S, "stale")
  /\ UNCHANGED <<disk, tables, setup, worker, budget>>

-----------------------------------------------------------------------------
(* Workers: claim and dispatch.                                             *)

\* tick: claim_job, then resolve_handler on the job type.
ClaimNext(w) ==
  /\ At(w, "idle")
  /\ \E i \in ClaimableIds(queue) :
       LET p == queue.jobs[i].payload IN
       /\ \A k \in ClaimableIds(queue) : i <= k
       /\ queue' = SetClaims(queue, {i}, "claimed")
       /\ worker' = [worker EXCEPT ![w] =
            IF p.type = "ingest"
            THEN [Idle EXCEPT !.pc = "walk", !.job = i, !.todo = Paths, !.model = active]
            ELSE [Idle EXCEPT !.pc = "load", !.job = i, !.doc = p.doc, !.model = p.model]]
  /\ UNCHANGED <<disk, tables, setup, budget>>

\* tick: claim_job found nothing.
NothingToClaim(w) ==
  /\ At(w, "idle")
  /\ ClaimableIds(queue) = {}
  /\ UNCHANGED vars

\* dispatch_job: Ok, the row is deleted by id.
Complete(w) ==
  /\ At(w, "ok")
  /\ queue' = CompleteJob(queue, worker[w].job)
  /\ worker' = [worker EXCEPT ![w] = Idle]
  /\ UNCHANGED <<disk, tables, setup, budget>>

\* dispatch_job: Err.  The row keeps its claim, or gets the synthetic claim of
\* a deferred retry; either way it is claimable again only after some time.
GiveUp(w) ==
  /\ worker' = [worker EXCEPT ![w] = Idle]
  /\ UNCHANGED <<disk, tables, setup, queue>>

\* An I/O error, a pool timeout, a failure of the embedding service or a panic.
Fault(w) == Busy(w) /\ Event /\ GiveUp(w)

-----------------------------------------------------------------------------
(* IngestFolderHandler / IngestFolderGitHandler: one file after the other.  *)

\* The walk is over.
WalkDone(w) ==
  /\ At(w, "walk")
  /\ worker[w].todo = {}
  /\ worker' = [worker EXCEPT ![w].pc = "ok"]
  /\ UNCHANGED <<disk, tables, setup, queue, budget>>

\* ingest_candidate_file, metadata and hash_file.  A file that is gone is skipped.
HashCandidate(w, p) ==
  /\ At(w, "walk")
  /\ p \in worker[w].todo
  /\ LET todo == worker[w].todo \ {p} IN
     worker' = [worker EXCEPT ![w] =
       IF disk[p].exists
       THEN [@ EXCEPT !.pc = "read", !.todo = todo, !.path = p, !.hash = disk[p].ver]
       ELSE [@ EXCEPT !.todo = todo]]
  /\ UNCHANGED <<disk, tables, setup, queue, budget>>

\* read_content_prefix and chunk planning, a second read of the same file.
ReadContent(w) ==
  /\ At(w, "read")
  /\ disk[worker[w].path].exists
  /\ worker' = [worker EXCEPT ![w].pc = "upsert",
                              ![w].plan = disk[worker[w].path].ver]
  /\ UNCHANGED <<disk, tables, setup, queue, budget>>

\* The second read fails although the hash succeeded: ingest plans the filename
\* only, a replan gives up.  A file that is gone fails for free.
ReadContentFails(w) ==
  /\ At(w, "read")
  /\ IF disk[worker[w].path].exists THEN Event ELSE UNCHANGED budget
  /\ IF worker[w].doc = 0
     THEN worker' = [worker EXCEPT ![w].pc = "upsert", ![w].plan = NoVersion]
     ELSE worker' = [worker EXCEPT ![w] = Idle]
  /\ UNCHANGED <<disk, tables, setup, queue>>

\* What the worker does after its upsert: next file, or the end of a replan.
AfterUpsert(w) ==
  [worker EXCEPT ![w] = [@ EXCEPT !.pc = IF worker[w].doc = 0 THEN "walk" ELSE "ok",
                                  !.path = "", !.hash = NoVersion, !.plan = NoVersion]]

\* upsert_document_and_replace_pending_embeddings, no change: nothing is seeded.
UpsertUnchanged(w) ==
  /\ At(w, "upsert")
  /\ \E d \in DocAt(worker[w].path) : documents[d].hash = worker[w].hash
  /\ worker' = AfterUpsert(w)
  /\ UNCHANGED <<disk, tables, setup, queue, budget>>

\* Mutant of ReplacePending: the new rows are not seeded.
ReplacePendingUnseeded(w, d, rows1, vec1, queue1) ==
  LET m == worker[w].model IN
  /\ rows' = InsertPendingRows(DeleteRows(rows1, PairKeys(rows1, d, m)), m,
                               [x \in {d} |-> worker[w].plan])
  /\ vec' = DeleteVecForNonEmbedded(DeleteVecForPair(vec1, d, m), rows', m, {d})
  /\ queue' = queue1
  /\ worker' = AfterUpsert(w)

\* The shared tail of the transaction for a new or changed document d: replace
\* the rows of one model by the new plan and seed everything recoverable.
ReplacePending(w, d, rows1, vec1, queue1) ==
  LET m == worker[w].model IN
  /\ rows' = InsertPendingRows(DeleteRows(rows1, PairKeys(rows1, d, m)), m,
                               [x \in {d} |-> worker[w].plan])
  /\ vec' = DeleteVecForNonEmbedded(DeleteVecForPair(vec1, d, m), rows', m, {d})
  /\ queue' = SeedEmbedJobs(queue1, rows')
  /\ worker' = AfterUpsert(w)

\* Mutant of UpsertChanged: the new hash is stored, the rows are left as they are.
UpsertChangedKeepsRows(w) ==
  /\ At(w, "upsert")
  /\ \E d \in DocAt(worker[w].path) :
       /\ documents[d].hash # worker[w].hash
       /\ documents' = [documents EXCEPT ![d] = [path |-> worker[w].path,
                                                 hash |-> worker[w].hash]]
  /\ worker' = AfterUpsert(w)
  /\ UNCHANGED <<disk, lastDoc, rows, vec, setup, queue, budget>>

\* The stored hash differs: update, mark every model's rows stale, seed, replace.
UpsertChanged(w) ==
  /\ At(w, "upsert")
  /\ \E d \in DocAt(worker[w].path) :
       /\ documents[d].hash # worker[w].hash
       /\ documents' = [documents EXCEPT ![d] = [path |-> worker[w].path,
                                                 hash |-> worker[w].hash]]
       /\ LET rows1 == MarkStaleRows(rows, {d}) IN
          ReplacePending(w, d, rows1, DeleteVecForDocuments(vec, {d}),
                         SeedEmbedJobs(queue, rows1))
  /\ UNCHANGED <<disk, lastDoc, setup, budget>>

\* Mutant of UpsertNew: the id of the new document is not counted.
UpsertNewUncounted(w) ==
  /\ At(w, "upsert")
  /\ DocAt(worker[w].path) = {}
  /\ documents' = [d \in DOMAIN documents \cup {lastDoc + 1} |->
                     IF d = lastDoc + 1
                     THEN [path |-> worker[w].path, hash |-> worker[w].hash]
                     ELSE documents[d]]
  /\ ReplacePending(w, lastDoc + 1, rows, vec, queue)
  /\ UNCHANGED <<disk, lastDoc, setup, budget>>

\* Mutant of UpsertNew: the lookup goes by the id the caller passes (0 during
\* ingest) instead of the path, as if it had run before the transaction.
UpsertNewByCallerId(w) ==
  /\ At(w, "upsert")
  /\ worker[w].doc \notin DOMAIN documents
  /\ lastDoc' = lastDoc + 1
  /\ documents' = [d \in DOMAIN documents \cup {lastDoc + 1} |->
                     IF d = lastDoc + 1
                     THEN [path |-> worker[w].path, hash |-> worker[w].hash]
                     ELSE documents[d]]
  /\ ReplacePending(w, lastDoc + 1, rows, vec, queue)
  /\ UNCHANGED <<disk, setup, budget>>

\* No document at this path yet.
UpsertNew(w) ==
  /\ At(w, "upsert")
  /\ DocAt(worker[w].path) = {}
  /\ lastDoc' = lastDoc + 1
  /\ documents' = [d \in DOMAIN documents \cup {lastDoc + 1} |->
                     IF d = lastDoc + 1
                     THEN [path |-> worker[w].path, hash |-> worker[w].hash]
                     ELSE documents[d]]
  /\ ReplacePending(w, lastDoc + 1, rows, vec, queue)
  /\ UNCHANGED <<disk, setup, budget>>

-----------------------------------------------------------------------------
(* EmbedDocumentHandler.                                                    *)

\* Mutant of LoadDocument: a missing document is an error like any other.
LoadDocumentOrFail(w) ==
  /\ At(w, "load")
  /\ IF worker[w].doc \in DOMAIN documents
     THEN worker' = [worker EXCEPT ![w].pc = "check",
                       ![w].path = documents[worker[w].doc].path,
                       ![w].hash = documents[worker[w].doc].hash]
     ELSE worker' = [worker EXCEPT ![w] = Idle]
  /\ UNCHANGED <<disk, tables, setup, queue, budget>>

\* Load the document; when it is gone the job is completed at once.
LoadDocument(w) ==
  /\ At(w, "load")
  /\ IF worker[w].doc \in DOMAIN documents
     THEN /\ worker' = [worker EXCEPT ![w].pc = "check",
                          ![w].path = documents[worker[w].doc].path,
                          ![w].hash = documents[worker[w].doc].hash]
          /\ UNCHANGED queue
     ELSE /\ worker' = [worker EXCEPT ![w].pc = "ok"]
          /\ queue' = CompleteJob(queue, worker[w].job)
  /\ UNCHANGED <<disk, tables, setup, budget>>

\* std::fs::metadata and hash_file against the hash loaded before.
CheckFile(w) ==
  /\ At(w, "check")
  /\ LET f == disk[worker[w].path] IN
     worker' = [worker EXCEPT ![w].pc =
       IF ~f.exists THEN "drop"
       ELSE IF f.ver # worker[w].hash THEN "changed" ELSE "list"]
  /\ UNCHANGED <<disk, tables, setup, queue, budget>>

\* The file was not found: delete_document.
DropDocument(w) ==
  /\ At(w, "drop")
  /\ LET d == worker[w].doc IN
     /\ vec' = DeleteVecForDocuments(vec, {d})
     /\ rows' = DeleteRows(rows, DocKeys(DOMAIN rows, {d}))
     /\ documents' = [x \in DOMAIN documents \ {d} |-> documents[x]]
  /\ worker' = [worker EXCEPT ![w].pc = "ok"]
  /\ UNCHANGED <<disk, lastDoc, setup, queue, budget>>

\* The hash differs: complete_job comes first, then the replan.
ReleaseJob(w) ==
  /\ At(w, "changed")
  /\ queue' = CompleteJob(queue, worker[w].job)
  /\ worker' = [worker EXCEPT ![w].pc = "replan"]
  /\ UNCHANGED <<disk, tables, setup, budget>>

\* replan_document_from_path hashes again, then shares ReadContent and the
\* upserts with ingest; a file that is gone by now is an error.
ReplanHash(w) ==
  /\ At(w, "replan")
  /\ LET f == disk[worker[w].path] IN
     worker' = [worker EXCEPT ![w] =
       IF f.exists THEN [@ EXCEPT !.pc = "read", !.hash = f.ver] ELSE Idle]
  /\ UNCHANGED <<disk, tables, setup, queue, budget>>

\* list_recoverable_embeddings_for_model.
ListRows(w) ==
  /\ At(w, "list")
  /\ LET K == PairKeys(rows, worker[w].doc, worker[w].model) \cap Recoverable(rows) IN
     worker' = [worker EXCEPT ![w].pc = IF K = {} THEN "ok" ELSE "prepare",
                  ![w].list = {[chunk |-> k.chunk, plan |-> rows[k].plan] : k \in K}]
  /\ UNCHANGED <<disk, tables, setup, queue, budget>>

\* prepare_embedded_chunks: the file is read a second time, and only if there
\* are content rows; every stored range must fit what is read.
PrepareChunks(w) ==
  /\ At(w, "prepare")
  /\ LET f == disk[worker[w].path]
         content == {x.chunk : x \in worker[w].list} \ {FilenameChunk}
     IN worker' = [worker EXCEPT ![w] =
          CASE content = {} -> [@ EXCEPT !.pc = "embed"]
            [] content # {} /\ f.exists /\ content \subseteq ContentChunks[f.ver]
                 -> [@ EXCEPT !.pc = "embed", !.read = f.ver]
            [] OTHER -> Idle]
  /\ UNCHANGED <<disk, tables, setup, queue, budget>>

\* Mutant of StoreEmbeddings: foreign keys are not enforced on the connection.
StoreWithoutForeignKey(w) ==
  /\ At(w, "embed")
  /\ LET d == worker[w].doc
         m == worker[w].model
     IN /\ rows' = ReplaceRows(rows, d, m, worker[w].list, worker[w].read)
        /\ vec' = SyncVecForPair(DeleteVecForPair(vec, d, m), rows', d, m)
        /\ worker' = [worker EXCEPT ![w].pc = "ok", ![w].list = {}, ![w].read = NoVersion]
  /\ UNCHANGED <<disk, documents, lastDoc, setup, queue, budget>>

\* The embedding service answered: replace_embeddings_for_document_model.  The
\* foreign key rejects a deleted document and the vec table rejects vectors of
\* another dimension; the transaction then rolls back.
StoreEmbeddings(w) ==
  /\ At(w, "embed")
  /\ LET d == worker[w].doc
         m == worker[w].model
     IN IF d \in DOMAIN documents /\ Dims[m] = Dims[vecModel]
        THEN /\ rows' = ReplaceRows(rows, d, m, worker[w].list, worker[w].read)
             /\ vec' = SyncVecForPair(DeleteVecForPair(vec, d, m), rows', d, m)
             /\ worker' = [worker EXCEPT ![w].pc = "ok", ![w].list = {},
                                         ![w].read = NoVersion]
        ELSE /\ worker' = [worker EXCEPT ![w] = Idle]
             /\ UNCHANGED <<rows, vec>>
  /\ UNCHANGED <<disk, documents, lastDoc, setup, queue, budget>>

-----------------------------------------------------------------------------
(* Restart: the process dies at any point and main runs again.              *)

\* queue_pending_embeddings_for_document reads the file as it is now; a file
\* that cannot be read gets its filename row only.
BackfillPlans ==
  [d \in DOMAIN documents |->
     LET f == disk[documents[d].path] IN IF f.exists THEN f.ver ELSE NoVersion]

\* reconcile_embedding_startup, then ensure_active_search_model, before any
\* worker or request handler runs.  (Crashes inside this sequence: Startup.)
Restart(m) ==
  /\ Event
  /\ worker' = [w \in Workers |-> Idle]
  /\ active' = m
  /\ models' = models \cup {m}
  /\ rows' = IF m \in models THEN rows ELSE InsertPendingRows(rows, m, BackfillPlans)
  /\ queue' = SeedEmbedJobs(queue, rows')
  /\ vecModel' = m
  /\ vec' = IF vecModel = m THEN vec
            ELSE {k \in Embedded(rows') : k.model = m}
  /\ UNCHANGED <<disk, documents, lastDoc>>

-----------------------------------------------------------------------------
IngestStep(w) ==
  \/ WalkDone(w)
  \/ \E p \in Paths : HashCandidate(w, p)
  \/ ReadContent(w)
  \/ ReadContentFails(w)
  \/ UpsertUnchanged(w)
  \/ UpsertChanged(w)
  \/ UpsertNew(w)

EmbedStep(w) ==
  \/ LoadDocument(w)
  \/ CheckFile(w)
  \/ DropDocument(w)
  \/ ReleaseJob(w)
  \/ ReplanHash(w)
  \/ ListRows(w)
  \/ PrepareChunks(w)
  \/ StoreEmbeddings(w)

WorkerStep(w) ==
  ClaimNext(w) \/ NothingToClaim(w) \/ Complete(w) \/ IngestStep(w) \/ EmbedStep(w)

Environment ==
  \/ \E p \in Paths : EditFile(p) \/ RemoveFile(p) \/ RestoreFile(p)
  \/ PostIngest
  \/ \E d \in 1..(lastDoc + 1) : PostStale({d})
  \/ \E w \in Workers : Fault(w)

Next ==
  \/ \E w \in Workers : WorkerStep(w)
  \/ \E S \in SUBSET DOMAIN queue.jobs : ClaimsExpire(S)
  \/ Environment
  \/ \E m \in Models : Restart(m)

Spec == Init /\ [][Next]_vars

\* A failed job waits for its stale age, hundreds of polls long: the workers come
\* to what is claimable already before they come to it again.
RetriesInTurn == ClaimableIds(queue) = {} /\ ClaimsExpire(Abandoned)

TimelyNext ==
  \/ \E w \in Workers : WorkerStep(w)
  \/ RetriesInTurn
  \/ Environment
  \/ \E m \in Models : Restart(m)

\* Workers poll for ever and time passes, so these steps are not postponed for
\* ever; nothing is assumed of files, requests, faults and restarts.
FairSpec ==
  /\ Init /\ [][TimelyNext]_vars
  /\ \A w \in Workers : WF_vars(WorkerStep(w))
  /\ WF_vars(RetriesInTurn)

-----------------------------------------------------------------------------
(* Properties.                                                              *)

Versions == NoVersion..MaxVersion
Keys == [doc : Nat, model : Models, chunk : Nat]
Row == [state : {"pending", "embedded", "stale"}, plan : Versions, emb : Versions]
Pcs == {"idle", "walk", "read", "upsert", "load", "check", "drop", "changed",
        "replan", "list", "prepare", "embed", "ok"}
Payloads == {IngestPayload} \cup [type : {"embed"}, doc : Nat, model : Models]
Job == [payload : Payloads, claim : {"queued", "claimed", "stale"}]
Local == [pc : Pcs, job : Nat, todo : SUBSET Paths, doc : Nat, model : Models \cup {0},
          path : Paths \cup {""}, hash : Versions, plan : Versions, read : Versions,
          list : SUBSET [chunk : Nat, plan : Versions]]

\* Types of the tables, the process state and the workers' locals.
TypeOK ==
  /\ disk \in [Paths -> [exists : BOOLEAN, ver : 1..MaxVersion]]
  /\ lastDoc \in Nat
  /\ DOMAIN documents \subseteq 1..lastDoc
  /\ documents \in [DOMAIN documents -> [path : Paths, hash : 1..MaxVersion]]
  /\ DOMAIN rows \subseteq Keys
  /\ rows \in [DOMAIN rows -> Row]
  /\ vec \subseteq Keys
  /\ vecModel \in Models /\ active \in Models /\ models \subseteq Models
  /\ queue \in [last : Nat, jobs : [DOMAIN queue.jobs -> Job]]
  /\ DOMAIN queue.jobs \subseteq 1..queue.last
  /\ worker \in [Workers -> Local]
  /\ budget \in 0..MaxEvents

\* documents.filepath has no unique index: only the lookup inside the IMMEDIATE
\* transaction keeps concurrent ingests and replans of one path from inserting
\* it twice, also when the document is deleted in between.
OneDocPerPath ==
  \A c, d \in DOMAIN documents : documents[c].path = documents[d].path => c = d

\* Foreign key with cascade: a handler that outlives its document (deleted by
\* another worker because the file was missing) never brings its rows back.
RowsHaveDocument == \A k \in DOMAIN rows : k.doc \in DOMAIN documents

\* The virtual table takes no part in foreign keys or triggers, so every
\* statement that touches embedding rows must maintain it by hand: what search
\* can find is embedded, and everything embedded under the active model can be found.
IndexMatchesRows ==
  /\ vec \subseteq Embedded(rows)
  /\ {k \in Embedded(rows) : k.model = active} \subseteq vec

\* replace_embeddings deletes the whole pair but writes back only the rows the
\* handler listed as pending or stale.  That loses nothing only because a pair
\* is always one complete plan, entirely embedded or not embedded at all.
WholePlanPerPair ==
  \A k \in DOMAIN rows :
    LET pair == PairKeys(rows, k.doc, k.model) IN
    /\ pair = PlannedKeys(k.doc, k.model, rows[k].plan)
    /\ \A j \in pair : /\ rows[j].plan = rows[k].plan
                        /\ rows[j].state = "embedded" <=> rows[k].state = "embedded"

\* A pair with pending or stale rows has a job that will pick it up.
WorkHasJob ==
  \A p \in SeedPayloads(rows) : \E i \in DOMAIN queue.jobs : queue.jobs[i].payload = p

\* The same, required only while no worker is in the middle of a job.
WorkHasJobAtRest == (\A w \in Workers : ~Busy(w)) => WorkHasJob

\* A document never carries vectors of content older than its recorded hash: the
\* hash is what later ingests compare with, so such vectors would stay for ever.
EmbeddingNotOlder ==
  \A k \in Embedded(rows) :
    k.chunk # FilenameChunk => rows[k].emb >= documents[k.doc].hash

\* Work of document d for model m that no retry can do, as long as nothing else
\* changes: the table has the dimensions of another model, or the file was
\* replanned under another model and the stored ranges of this one do not fit it.
Stranded(d, m) ==
  /\ d \in DOMAIN documents
  /\ \/ Dims[m] # Dims[vecModel]
     \/ /\ models # {m}
        /\ documents[d].hash = disk[documents[d].path].ver
        /\ \E k \in PairKeys(rows, d, m) \cap Recoverable(rows) :
             k.chunk \notin {FilenameChunk} \cup ContentChunks[documents[d].hash]

\* Once files, requests and failures stop, the workers empty the queue: no replan
\* keeps producing new jobs, and no job is retried for ever, except for work that
\* a second model has stranded (with a single model there is none).
QueueDrains ==
  <>[](\A i \in DOMAIN queue.jobs :
         LET p == queue.jobs[i].payload IN p.type = "embed" /\ Stranded(p.doc, p.model))

\* What startup relies on: when nothing more happens from outside, no job is in
\* progress and every recoverable pair is queued (as after a restart), the queued
\* jobs lead to every row being embedded for good, through drops and replans, again
\* except for stranded work.
QueuedWorkIsDone ==
  (budget = 0 /\ WorkHasJob /\ \A w \in Workers : ~Busy(w))
    ~> [](\A k \in Recoverable(rows) : Stranded(k.doc, k.model))

-----------------------------------------------------------------------------
(* The inductive invariant of the tables, for any number of workers.        *)

\* Ids of documents come from the counter; the search state names the model
\* the process runs with, which is registered (so no backfill can touch rows
\* that are in the index).
IdsAndModel ==
  /\ lastDoc \in Nat /\ DOMAIN documents \subseteq 1..lastDoc
  /\ vecModel = active /\ active \in models

TableInv ==
  /\ IdsAndModel
  /\ OneDocPerPath
  /\ RowsHaveDocument
  /\ IndexMatchesRows


-----------------------------------------------------------------------------
(* The inductive invariant of rows, jobs and workers.                       *)

\* What list_recoverable_embeddings returns for a pair that waits.
PlannedList(v) == {[chunk |-> c, plan |-> v] : c \in PlannedChunks(v)}

\* What a worker holds at the points where it is used: the path and the hash of
\* the file it upserts, a registered model, and the rows it will embed, which are
\* one whole plan whatever has become of the pair meanwhile.
LocalsOK ==
  \A w \in Workers :
    /\ Busy(w) => worker[w].model \in models
    /\ worker[w].pc \in {"read", "upsert", "check", "changed", "replan", "list", "prepare"} =>
         worker[w].path \in Paths
    /\ worker[w].pc \in {"read", "upsert"} => worker[w].hash # NoVersion
    /\ worker[w].pc \in {"prepare", "embed"} =>
         \E v \in Versions : worker[w].list = PlannedList(v)

\* Rows and jobs are of registered models, so the backfill of a new model meets
\* no rows of its own.
ModelsKnown ==
  /\ \A k \in DOMAIN rows : k.model \in models
  /\ \A i \in DOMAIN queue.jobs :
       queue.jobs[i].payload = IngestPayload \/ queue.jobs[i].payload.model \in models

PlanInv ==
  /\ TypeOK
  /\ LocalsOK
  /\ ModelsKnown
  /\ IsFiniteSet(DOMAIN rows)
  /\ WholePlanPerPair

=============================================================================
