------------------------------ MODULE Progress ------------------------------
(***************************************************************************)
(* GET /embedding/stats (http/progress.rs): eight SELECT statements without *)
(* a transaction around them, combined by set arithmetic, while ingest,    *)
(* mark-stale requests and the workers keep committing.                    *)
(*                                                                         *)
(* The writers are the transactions of EmbedPipeline and JobQueue reduced  *)
(* to what the statistics read.  A (document, model) pair is embedded as a *)
(* whole or not at all (EmbedPipeline!WholePlanPerPair), so one state      *)
(* stands for the pair's rows.  Only the active model is counted.          *)
(***************************************************************************)
EXTENDS Integers, FiniteSets

CONSTANTS
  Docs,             \* document ids, from 1
  Unplanned,        \* documents of the start that have no rows under the active
                    \* model: ingested earlier, while another model was active
  StaleJobAge,      \* STALE_JOB_AGE_SECS of the queue
  FailedLockout,    \* FAILED_LOCKOUT_SECS of the statistics
  RecentWindow,     \* RECENT_RATE_WINDOW_SECS
  RetryDelays,      \* the values retry_after_secs can take
  MaxTime,          \* bound: the clock stops here
  MaxCommits        \* bound: commits during one request

ASSUME ProgressAssumption ==
  /\ Docs \subseteq Nat \ {0} /\ Unplanned \subseteq Docs /\ IsFiniteSet(Docs)
  /\ StaleJobAge \in Nat /\ FailedLockout \in Nat /\ RecentWindow \in Nat
  /\ RetryDelays \subseteq 0..StaleJobAge
  /\ MaxTime \in Nat /\ MaxCommits \in Nat

VARIABLES
  now,         \* the wall clock
  documents,   \* ids in the documents table
  lastDoc,     \* its AUTOINCREMENT
  pair,        \* state of a document's rows; "none" when there are none
  embeddedAt,  \* their created_at
  job,         \* embed_document jobs: <<>>, or <<"queued">>, or <<"claimed", at>>
  req,         \* the request: program counter, its clock reading, what it read
  commits,     \* history: transactions committed since the request started
  inserted     \* history: documents inserted since the request started

tables == <<documents, lastDoc, pair, embeddedAt, job>>
vars == <<now, tables, req, commits, inserted>>

NoJob == <<>>
Queued == <<"queued">>
Claimed(t) == <<"claimed", t>>
IsClaimed(d) == job[d] # NoJob /\ job[d] # Queued

Recoverable == {d \in Docs : pair[d] \in {"pending", "stale"}}
InState(s) == {d \in Docs : pair[d] = s}

NoStats == [pc |-> "idle", now |-> 0, total |-> 0, pending |-> {}, stale |-> {},
            embedded |-> {}, claimed |-> {}, recent |-> {}, byType |-> 0]

At(pc) == req.pc = pc
Quiet == commits = 0

Init ==
  /\ now = 0
  /\ documents = Unplanned /\ lastDoc = Cardinality(Unplanned)
  /\ pair = [d \in Docs |-> "none"]
  /\ embeddedAt = [d \in Docs |-> 0]
  /\ job = [d \in Docs |-> NoJob]
  /\ req = NoStats /\ commits = 0 /\ inserted = 0

-----------------------------------------------------------------------------
(* The writers.                                                             *)

Commits(n) ==
  /\ IF At("idle") THEN UNCHANGED <<commits, inserted>>
     ELSE /\ commits < MaxCommits
          /\ commits' = commits + 1
          /\ inserted' = inserted + n
  /\ UNCHANGED <<now, req>>
Commit == Commits(0)

\* seed_embed_jobs after a change of the pairs: a job for every recoverable
\* document; a job that is queued or freshly claimed is left alone.
Seeded(D) ==
  [d \in Docs |->
     IF d \in D /\ (job[d] = NoJob \/ (IsClaimed(d) /\ job[d][2] < now - StaleJobAge))
     THEN Queued ELSE job[d]]

\* Ingest inserts a document with pending rows.
InsertDocument ==
  /\ lastDoc + 1 \in Docs
  /\ lastDoc' = lastDoc + 1
  /\ documents' = documents \cup {lastDoc + 1}
  /\ pair' = [pair EXCEPT ![lastDoc + 1] = "pending"]
  /\ job' = Seeded(Recoverable \cup {lastDoc + 1})
  /\ Commits(1) /\ UNCHANGED embeddedAt

\* Ingest or a replan finds a changed file: the rows are pending again.
ReplanDocument(d) ==
  /\ d \in documents
  /\ pair' = [pair EXCEPT ![d] = "pending"]
  /\ job' = Seeded(Recoverable \cup {d})
  /\ Commit /\ UNCHANGED <<documents, lastDoc, embeddedAt>>

\* POST /documents/stale.
MarkStale(d) ==
  /\ d \in documents /\ pair[d] = "embedded"
  /\ pair' = [pair EXCEPT ![d] = "stale"]
  /\ job' = Seeded(Recoverable \cup {d})
  /\ Commit /\ UNCHANGED <<documents, lastDoc, embeddedAt>>

\* Mutant of DeleteDocument: no cascade, the rows stay.
DeleteDocumentKeepsRows(d) ==
  /\ d \in documents /\ IsClaimed(d)
  /\ documents' = documents \ {d}
  /\ Commit /\ UNCHANGED <<lastDoc, pair, embeddedAt, job>>

\* delete_document, with the cascade to its rows.
DeleteDocument(d) ==
  /\ d \in documents /\ IsClaimed(d)
  /\ documents' = documents \ {d}
  /\ pair' = [pair EXCEPT ![d] = "none"]
  /\ Commit /\ UNCHANGED <<lastDoc, embeddedAt, job>>

\* claim_job, complete_job and defer_job_for_retry.
ClaimJob(d) ==
  /\ job[d] = Queued \/ (IsClaimed(d) /\ job[d][2] < now - StaleJobAge)
  /\ job' = [job EXCEPT ![d] = Claimed(now)]
  /\ Commit /\ UNCHANGED <<documents, lastDoc, pair, embeddedAt>>

CompleteJob(d) ==
  /\ IsClaimed(d)
  /\ job' = [job EXCEPT ![d] = NoJob]
  /\ Commit /\ UNCHANGED <<documents, lastDoc, pair, embeddedAt>>

DeferJob(d, r) ==
  /\ IsClaimed(d)
  /\ job' = [job EXCEPT ![d] = Claimed(now - StaleJobAge + r - 1)]
  /\ Commit /\ UNCHANGED <<documents, lastDoc, pair, embeddedAt>>

\* replace_embeddings_for_document_model.
StoreEmbeddings(d) ==
  /\ IsClaimed(d) /\ d \in Recoverable
  /\ pair' = [pair EXCEPT ![d] = "embedded"]
  /\ embeddedAt' = [embeddedAt EXCEPT ![d] = now]
  /\ Commit /\ UNCHANGED <<documents, lastDoc, job>>

Tick ==
  /\ now < MaxTime
  /\ now' = now + 1
  /\ UNCHANGED <<tables, req, commits, inserted>>

Writer ==
  \/ InsertDocument
  \/ \E d \in Docs :
       \/ ReplanDocument(d) \/ MarkStale(d) \/ DeleteDocument(d)
       \/ ClaimJob(d) \/ CompleteJob(d) \/ StoreEmbeddings(d)
       \/ \E r \in RetryDelays : DeferJob(d, r)
  \/ Tick

-----------------------------------------------------------------------------
(* The request: one action per SELECT.                                      *)

Reading == UNCHANGED <<now, tables, commits, inserted>>

\* embedding_stats reads the clock, then waits for a connection.
StartRequest ==
  /\ At("idle")
  /\ req' = [NoStats EXCEPT !.pc = "total", !.now = now]
  /\ Reading

ReadTotal ==
  /\ At("total")
  /\ req' = [req EXCEPT !.pc = "pending", !.total = Cardinality(documents)]
  /\ Reading

\* load_distinct_document_ids_for_states issues one statement per state.
ReadPending ==
  /\ At("pending")
  /\ req' = [req EXCEPT !.pc = "stale", !.pending = InState("pending")]
  /\ Reading

ReadStale ==
  /\ At("stale")
  /\ req' = [req EXCEPT !.pc = "embedded", !.stale = InState("stale")]
  /\ Reading

ReadEmbedded ==
  /\ At("embedded")
  /\ req' = [req EXCEPT !.pc = "claimed", !.embedded = InState("embedded")]
  /\ Reading

\* Mutant of ReadClaimed: `>` instead of `>=` against the cutoff.
ReadClaimedStrictly ==
  /\ At("claimed")
  /\ req' = [req EXCEPT !.pc = "recent",
               !.claimed = {d \in Docs : IsClaimed(d) /\ job[d][2] > req.now - FailedLockout}]
  /\ Reading

\* load_claimed_embed_document_ids: jobs outlive their documents.
ReadClaimed ==
  /\ At("claimed")
  /\ req' = [req EXCEPT !.pc = "recent",
               !.claimed = {d \in Docs : IsClaimed(d) /\ job[d][2] >= req.now - FailedLockout}]
  /\ Reading

ReadRecent ==
  /\ At("recent")
  /\ req' = [req EXCEPT !.pc = "types",
               !.recent = {d \in InState("embedded") : embeddedAt[d] >= req.now - RecentWindow}]
  /\ Reading

ReadFileTypes ==
  /\ At("types")
  /\ req' = [req EXCEPT !.pc = "counts", !.byType = Cardinality(documents)]
  /\ Reading

\* load_document_embedding_counts: SUM over no rows is NULL, which is no i64.
ReadCounts ==
  /\ At("counts")
  /\ req' = [req EXCEPT !.pc = IF InState("none") # Docs THEN "done" ELSE "failed"]
  /\ Reading

\* The response is sent; the next poll of the page starts from nothing.
EndRequest ==
  /\ req.pc \in {"done", "failed"}
  /\ req' = NoStats /\ commits' = 0 /\ inserted' = 0
  /\ UNCHANGED <<now, tables>>

StatsStep ==
  \/ StartRequest \/ ReadTotal \/ ReadPending \/ ReadStale \/ ReadEmbedded
  \/ ReadClaimed \/ ReadRecent \/ ReadFileTypes \/ ReadCounts \/ EndRequest

Next == Writer \/ StatsStep

Spec == Init /\ [][Next]_vars

-----------------------------------------------------------------------------
(* The snapshot computed from what was read.                                *)

RecoverableDocuments == req.pending \cup req.stale
FailedLocked == Cardinality(RecoverableDocuments \cap req.claimed)

\* Mutant of EmbeddedDocuments: the documents in the state, as the query counts them.
EmbeddedWithoutDifference == Cardinality(req.embedded)

EmbeddedDocuments == Cardinality(req.embedded \ RecoverableDocuments)
EmbeddedRecently == Cardinality(req.recent \ RecoverableDocuments)

\* i64::saturating_sub: 0 is no bound.
Remaining == req.total - EmbeddedDocuments - FailedLocked

-----------------------------------------------------------------------------
(* Properties.                                                              *)

\* A document counts as locked exactly when it waits for an embedding and its
\* job would be refused by claim_job at the time of the request: the cutoff of the
\* statistics and that of the queue are two constants and two comparisons in two
\* crates.  Stated for a request during which nothing was committed.
LockedIsUnclaimable ==
  At("done") /\ Quiet =>
    FailedLocked = Cardinality({d \in Recoverable :
                      IsClaimed(d) /\ ~(job[d][2] < req.now - StaleJobAge)})

\* Documents move between the states while the statements run, so one document
\* may be seen by several of them.  Still none is counted twice: the remaining
\* documents go below zero only by documents inserted after the total was read.
RemainingNotDoubleCounted ==
  At("done") => Remaining >= -inserted /\ Remaining <= req.total

\* The rate shown belongs to the documents shown: without a commit in between,
\* what was embedded in the last minutes is part of what is embedded, and the
\* document counts agree with each other.
QuietStatsAgree ==
  At("done") /\ Quiet =>
    /\ Remaining >= 0
    /\ EmbeddedRecently <= EmbeddedDocuments
    /\ req.byType = req.total

\* The request is answered whatever the corpus, the empty one included, for which
\* build_embedding_stats_response provides a percentage of its own.
StatsAnswered == ~At("failed")

=============================================================================
