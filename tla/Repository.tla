----------------------------- MODULE Repository -----------------------------
(***************************************************************************)
(* The statements of ask-core's repository.rs as functions from tables to  *)
(* tables, to be composed inside the transactions of the callers.          *)
(*                                                                         *)
(*   rows   document_embeddings: a function from the columns of its unique *)
(*          index (document, model, chunk) to state, the file version the  *)
(*          chunk range was planned from, and the version embedded.  Chunk *)
(*          0 is the filename row, chunk n > 0 the n-th content range.     *)
(*   vec    document_embedding_vec: the rows that have a vector.  The code *)
(*          uses document_embeddings.id as rowid; ids are never reused.    *)
(*   queue  job_queue: id -> payload and claim, and the AUTOINCREMENT.     *)
(*                                                                         *)
(* A claim is "queued" (claimed_at NULL), "claimed" or "stale" (old enough *)
(* to be claimed again); module JobQueue has the arithmetic behind that.   *)
(***************************************************************************)
EXTENDS Naturals, FiniteSets

CONSTANTS
  ContentChunks   \* file version -> indexes of its content chunks; version 0
                  \* stands for a file whose content could not be read

NoVersion == 0
FilenameChunk == 0

\* plan_pending_embeddings_for_content: one filename chunk, then the content.
PlannedChunks(v) ==
  {FilenameChunk} \cup (IF v = NoVersion THEN {} ELSE ContentChunks[v])

RowKey(d, m, c) == [doc |-> d, model |-> m, chunk |-> c]
PlannedKeys(d, m, v) == {RowKey(d, m, c) : c \in PlannedChunks(v)}

PairKeys(rows, d, m)  == {k \in DOMAIN rows : k.doc = d /\ k.model = m}
DocKeys(keys, D)      == {k \in keys : k.doc \in D}
Embedded(rows)        == {k \in DOMAIN rows : rows[k].state = "embedded"}
Recoverable(rows)     == {k \in DOMAIN rows : rows[k].state \in {"pending", "stale"}}

-----------------------------------------------------------------------------
(* document_embeddings and document_embedding_vec                           *)

\* DELETE FROM document_embeddings for the keys K.
DeleteRows(rows, K) == [k \in DOMAIN rows \ K |-> rows[k]]

\* mark_documents_stale: only embedded rows change, under every model.
MarkStaleRows(rows, D) ==
  [k \in DOMAIN rows |->
     IF k.doc \in D /\ rows[k].state = "embedded"
     THEN [state |-> "stale", plan |-> rows[k].plan, emb |-> rows[k].emb]
     ELSE rows[k]]

\* Mutant of DeleteVecForDocuments: the vectors of changed documents stay.
KeepVecForDocuments(vec, D) == vec

\* delete_vec_rows_for_documents, delete_vec_rows_for_document_model.
DeleteVecForDocuments(vec, D) == {k \in vec : k.doc \notin D}
DeleteVecForPair(vec, d, m)   == {k \in vec : ~(k.doc = d /\ k.model = m)}

\* insert_pending_embeddings for several documents of one model: an upsert that
\* makes every planned row pending and forgets its vector.  plans: doc -> version.
InsertPendingRows(rows, m, plans) ==
  LET new == UNION {PlannedKeys(d, m, plans[d]) : d \in DOMAIN plans} IN
  [k \in DOMAIN rows \cup new |->
     IF k \in new
     THEN [state |-> "pending", plan |-> plans[k.doc], emb |-> NoVersion]
     ELSE rows[k]]

\* delete_vec_rows_for_non_embedded_document_model, the end of the insert.
DeleteVecForNonEmbedded(vec, rows, m, D) ==
  {k \in vec : ~(k.doc \in D /\ k.model = m /\ k \in DOMAIN rows \ Embedded(rows))}

\* Mutant of ReplaceRows: rows of the pair that were not listed survive.
ReplaceListedRowsOnly(rows, d, m, chunks, v) ==
  LET new == {RowKey(d, m, x.chunk) : x \in chunks} IN
  [k \in DOMAIN rows \cup new |->
     IF k \in new
     THEN LET x == CHOOSE y \in chunks : y.chunk = k.chunk IN
          [state |-> "embedded", plan |-> x.plan,
           emb |-> IF k.chunk = FilenameChunk THEN NoVersion ELSE v]
     ELSE rows[k]]

\* replace_embeddings_for_document_model: every row of the pair goes, the chunks
\* the handler listed come back as embedded.  chunks: set of chunk and plan.
ReplaceRows(rows, d, m, chunks, v) ==
  LET new == {RowKey(d, m, x.chunk) : x \in chunks} IN
  [k \in (DOMAIN rows \ PairKeys(rows, d, m)) \cup new |->
     IF k \in new
     THEN LET x == CHOOSE y \in chunks : y.chunk = k.chunk IN
          [state |-> "embedded", plan |-> x.plan,
           emb |-> IF k.chunk = FilenameChunk THEN NoVersion ELSE v]
     ELSE rows[k]]

\* sync_vec_rows_for_document_model: whatever the model, its embedded rows go in.
SyncVecForPair(vec, rows, d, m) == vec \cup (PairKeys(rows, d, m) \cap Embedded(rows))

-----------------------------------------------------------------------------
(* job_queue                                                                *)

IngestPayload == [type |-> "ingest", doc |-> 0, model |-> 0]
EmbedPayload(d, m) == [type |-> "embed", doc |-> d, model |-> m]

\* The pairs seed_embed_jobs selects.
SeedPayloads(rows) == {EmbedPayload(k.doc, k.model) : k \in Recoverable(rows)}

\* Rank of a payload among the inserted ones: ORDER BY document_id, model_id.
InsertRank(p, new) ==
  Cardinality({q \in new : \/ q.doc < p.doc
                           \/ q.doc = p.doc /\ q.model <= p.model})

\* enqueue_job for each payload of P in turn.  A missing payload is inserted
\* with the next id, a stale claim is reset, anything else is left alone and
\* the "already queued" error is swallowed.
EnqueueAll(queue, P) ==
  LET jobs == queue.jobs
      new  == {p \in P : \A i \in DOMAIN jobs : jobs[i].payload # p}
      n    == Cardinality(new)
  IN  [last |-> queue.last + n,
       jobs |-> [i \in DOMAIN jobs \cup (queue.last + 1)..(queue.last + n) |->
                   IF i \in DOMAIN jobs
                   THEN IF jobs[i].payload \in P /\ jobs[i].claim = "stale"
                        THEN [jobs[i] EXCEPT !.claim = "queued"] ELSE jobs[i]
                   ELSE [payload |-> CHOOSE p \in new : InsertRank(p, new) = i - queue.last,
                         claim |-> "queued"]]]

SeedEmbedJobs(queue, rows) == EnqueueAll(queue, SeedPayloads(rows))

\* claim_job: the smallest id that is unclaimed or stale.
ClaimableIds(queue) == {i \in DOMAIN queue.jobs : queue.jobs[i].claim # "claimed"}
SetClaims(queue, S, c) ==
  [queue EXCEPT !.jobs = [k \in DOMAIN queue.jobs |->
     IF k \in S THEN [queue.jobs[k] EXCEPT !.claim = c] ELSE queue.jobs[k]]]

\* complete_job: DELETE by id, a no-op when the row is gone.
CompleteJob(queue, i) ==
  [queue EXCEPT !.jobs = [k \in DOMAIN queue.jobs \ {i} |-> queue.jobs[k]]]
=============================================================================
