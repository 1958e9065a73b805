------------------------------ MODULE Startup -------------------------------
(***************************************************************************)
(* The startup sequence of ask-server, statement by statement: resolve or  *)
(* insert the configured model, backfill pending rows, seed jobs, rebuild  *)
(* the vector table, serve.  Outside the migrations nothing here runs in a *)
(* transaction: every statement commits by itself, and the process may die *)
(* between any two of them and come back with the same or another model.   *)
(* What happens while serving is reduced to its effect on the tables, with *)
(* the commits of a handler that a crash or another step can separate.     *)
(***************************************************************************)
EXTENDS Naturals, FiniteSets

CONSTANTS
  Docs,        \* documents that can exist
  OldDocs,     \* documents ingested before the first start below
  Models,      \* ids of the models an operator may configure
  OldModel,    \* the model those documents were embedded with
  Dims,        \* model -> vector dimensions
  Chunks,      \* row numbers of a document's plan
  Workers,     \* how many workers handle jobs
  MaxCrashes   \* bound

ASSUME StartupAssumption ==
  /\ Docs \subseteq Nat /\ OldDocs \subseteq Docs
  /\ Models \subseteq Nat \ {0} /\ OldModel \in Models
  /\ Dims \in [Models -> Nat] /\ Chunks \subseteq Nat
  /\ Workers \in Nat /\ MaxCrashes \in Nat

VARIABLES
  docs,      \* documents
  models,    \* embedding_models
  rows,      \* document_embeddings: <<doc, model, chunk>> -> "embedded", or
             \* "pending" for both recoverable states (pending and stale)
  jobs,      \* queued or claimed embed_document jobs: <<doc, model>>
  table,     \* document_embedding_vec: exists, dimension, rows
  state,     \* embedding_search_state.active_model_id, 0 when there is none
  proc,      \* the process: program counter, configured model, rows to insert
  used,      \* document ids given out: AUTOINCREMENT gives none out twice
  ending,    \* jobs a handler has done whose completion is still to come
  replans,   \* jobs a handler has deleted whose replan is still to come
  crashes,   \* crashes so far
  torn,      \* history: a crash interrupted the last rebuild of the index
  cut,       \* history: models whose backfill was interrupted
  corpus     \* history: the documents held before the first start

vars == <<docs, models, rows, jobs, table, state, proc,
          used, ending, replans, crashes, torn, cut, corpus>>
store == <<docs, models, rows, jobs, table, state>>
work == <<used, ending, replans>>
history == <<crashes, torn, cut, corpus>>

RowsOf(D, m) == {<<d, m, c>> : d \in D, c \in Chunks}
RowsWith(s) == {k \in DOMAIN rows : rows[k] = s}
Pair(k) == <<k[1], k[2]>>
Recoverable == {Pair(k) : k \in RowsWith("pending")}

\* The next row of a work list: documents in id order, chunks in plan order.
IsFirst(k, S) ==
  k \in S /\ \A j \in S : k[1] < j[1] \/ (k[1] = j[1] /\ k[3] <= j[3])

Goto(pc) == proc' = [proc EXCEPT !.pc = pc]

-----------------------------------------------------------------------------
Init ==
  /\ docs = OldDocs
  /\ models = {OldModel}
  /\ rows = [k \in RowsOf(OldDocs, OldModel) |-> "embedded"]
  /\ jobs = {}
  /\ table = [exists |-> TRUE, dims |-> Dims[OldModel], rows |-> RowsOf(OldDocs, OldModel)]
  /\ state = OldModel
  /\ proc = [pc |-> "down", model |-> OldModel, todo |-> {}]
  /\ used = OldDocs /\ ending = {} /\ replans = {}
  /\ crashes = 0 /\ torn = FALSE /\ cut = {} /\ corpus = OldDocs

\* main: the process starts with configured model m.
Boot(m) ==
  /\ proc.pc = "down"
  /\ proc' = [pc |-> "find", model |-> m, todo |-> {}]
  /\ UNCHANGED <<store, work, history>>

\* Mutant of FindModel: a known model needs no seeding.
FindModelSkipsSeed ==
  /\ proc.pc = "find"
  /\ Goto(IF proc.model \in models THEN "index" ELSE "insert")
  /\ UNCHANGED <<store, work, history>>

\* reconcile_embedding_startup: find_model_by_identity.
FindModel ==
  /\ proc.pc = "find"
  /\ Goto(IF proc.model \in models THEN "seed" ELSE "insert")
  /\ UNCHANGED <<store, work, history>>

\* insert_model commits by itself; list_documents then fixes the work list.
InsertModel ==
  /\ proc.pc = "insert"
  /\ models' = models \cup {proc.model}
  /\ proc' = [proc EXCEPT !.pc = "backfill", !.todo = RowsOf(docs, proc.model)]
  /\ UNCHANGED <<docs, rows, jobs, table, state, work, history>>

\* Mutant of BackfillRow: the loop stops before the last row.
BackfillAllButLast ==
  /\ proc.pc = "backfill"
  /\ IF Cardinality(proc.todo) <= 1
     THEN Goto("seed") /\ UNCHANGED rows
     ELSE \E k \in proc.todo :
            /\ IsFirst(k, proc.todo)
            /\ rows' = [j \in DOMAIN rows \cup {k} |-> IF j = k THEN "pending" ELSE rows[j]]
            /\ proc' = [proc EXCEPT !.todo = @ \ {k}]
  /\ UNCHANGED <<docs, models, jobs, table, state, work, history>>

\* backfill_pending_for_model: insert_pending_embeddings, row after row.
BackfillRow ==
  /\ proc.pc = "backfill"
  /\ IF proc.todo = {}
     THEN Goto("seed") /\ UNCHANGED rows
     ELSE \E k \in proc.todo :
            /\ IsFirst(k, proc.todo)
            /\ rows' = [j \in DOMAIN rows \cup {k} |-> IF j = k THEN "pending" ELSE rows[j]]
            /\ proc' = [proc EXCEPT !.todo = @ \ {k}]
  /\ UNCHANGED <<docs, models, jobs, table, state, work, history>>

\* Mutant of SeedJob: "already queued" is reported as an error and ends main.
SeedJobRejectsQueued ==
  /\ proc.pc = "seed"
  /\ Goto(IF Recoverable \cap jobs = {} THEN "index" ELSE "down")
  /\ jobs' = jobs \cup Recoverable
  /\ UNCHANGED <<docs, models, rows, table, state, work, history>>

\* seed_embed_jobs outside a transaction: one enqueue after the other.  (The
\* backfill seeds once more before; the second pass finds everything queued.)
SeedJob ==
  /\ proc.pc = "seed"
  /\ IF Recoverable \subseteq jobs
     THEN Goto("index") /\ UNCHANGED jobs
     ELSE /\ \E p \in Recoverable \ jobs :
               /\ \A q \in Recoverable \ jobs :
                    p[1] < q[1] \/ (p[1] = q[1] /\ p[2] <= q[2])
               /\ jobs' = jobs \cup {p}
          /\ UNCHANGED proc
  /\ UNCHANGED <<docs, models, rows, table, state, work, history>>

\* Mutant of CheckIndex: an existing table is taken to be the right one.
CheckTableOnly ==
  /\ proc.pc = "index"
  /\ Goto(IF table.exists THEN "serving" ELSE "drop")
  /\ UNCHANGED <<store, work, history>>

\* ensure_active_search_model: active_index_requires_rebuild.
CheckIndex ==
  /\ proc.pc = "index"
  /\ Goto(IF table.exists /\ state = proc.model THEN "serving" ELSE "drop")
  /\ UNCHANGED <<store, work, history>>

\* DROP TABLE IF EXISTS; CREATE VIRTUAL TABLE: two statements of one batch.
DropTable ==
  /\ proc.pc = "drop"
  /\ table' = [exists |-> FALSE, dims |-> 0, rows |-> {}]
  /\ Goto("create")
  /\ UNCHANGED <<docs, models, rows, jobs, state, work, history>>

CreateTable ==
  /\ proc.pc = "create"
  /\ table' = [exists |-> TRUE, dims |-> Dims[proc.model], rows |-> {}]
  /\ Goto("record")
  /\ UNCHANGED <<docs, models, rows, jobs, state, work, history>>

\* The upsert of embedding_search_state.
RecordState ==
  /\ proc.pc = "record"
  /\ state' = proc.model
  /\ Goto("fill")
  /\ UNCHANGED <<docs, models, rows, jobs, table, work, history>>

\* backfill_active_search_model: one INSERT ... SELECT.
FillIndex ==
  /\ proc.pc = "fill"
  /\ table' = [table EXCEPT !.rows = @ \cup {k \in RowsWith("embedded") : k[2] = proc.model}]
  /\ torn' = FALSE
  /\ Goto("serving")
  /\ UNCHANGED <<docs, models, rows, jobs, state, work, crashes, cut, corpus>>

-----------------------------------------------------------------------------
(* Serving, in outline: EmbedPipeline has the detail.                       *)

\* AUTOINCREMENT: an id above every one given out so far.
NewIds == {d \in Docs : \A u \in used : u < d}

RowsOfPair(p) == {k \in DOMAIN rows : Pair(k) = p}

\* A worker is free and takes the job of pair p.
Handles(p) ==
  /\ proc.pc = "serving"
  /\ p \in jobs \ ending
  /\ Cardinality(ending) + Cardinality(replans) < Workers

\* It finds the document and the model of the pair.
Loads(p) == Handles(p) /\ p[1] \in docs /\ p[2] \in models

\* The document of the job is gone: the handler deletes the job itself.
OrphanJob(p) ==
  /\ Handles(p) /\ p[1] \notin docs
  /\ jobs' = jobs \ {p}
  /\ UNCHANGED <<docs, models, rows, table, state, proc, work, history>>

\* delete_document, when the file is gone: rows, index entries, then the document.
DropDocument(p) ==
  /\ Loads(p)
  /\ docs' = docs \ {p[1]}
  /\ rows' = [k \in {j \in DOMAIN rows : j[1] # p[1]} |-> rows[k]]
  /\ table' = [table EXCEPT !.rows = {k \in @ : k[1] # p[1]}]
  /\ ending' = ending \cup {p}
  /\ UNCHANGED <<models, jobs, state, proc, used, replans, history>>

\* The file changed: the handler deletes the job before it replans.
ReleaseJob(p) ==
  /\ Loads(p)
  /\ jobs' = jobs \ {p}
  /\ replans' = replans \cup {p}
  /\ UNCHANGED <<docs, models, rows, table, state, proc, used, ending, history>>

\* Nothing is recoverable: the handler returns.
SkipPair(p) ==
  /\ Loads(p)
  /\ p \notin Recoverable
  /\ ending' = ending \cup {p}
  /\ UNCHANGED <<store, proc, used, replans, history>>

\* The vectors of the pair are stored, in the table too; a table of another
\* dimension makes the transaction fail, and the job stays.
EmbedPair(p) ==
  /\ Loads(p)
  /\ p \in Recoverable
  /\ Dims[p[2]] = table.dims
  /\ rows' = [k \in DOMAIN rows |-> IF k \in RowsOfPair(p) THEN "embedded" ELSE rows[k]]
  /\ table' = [table EXCEPT !.rows = @ \cup RowsOfPair(p)]
  /\ ending' = ending \cup {p}
  /\ UNCHANGED <<docs, models, jobs, state, proc, used, replans, history>>

\* complete_job, after the handler: a transaction of its own, which may fail.
CompleteJob(p) ==
  /\ proc.pc = "serving"
  /\ p \in ending
  /\ ending' = ending \ {p}
  /\ jobs' \in {jobs, jobs \ {p}}
  /\ UNCHANGED <<docs, models, rows, table, state, proc, used, replans, history>>

\* upsert_document_and_replace_pending_embeddings: a plan of pending rows for
\* model m, the rows of other models stale, none indexed, and a seeding pass.
ReplacePending(d, m) ==
  /\ docs' = docs \cup {d}
  /\ used' = used \cup {d}
  /\ rows' = [k \in DOMAIN rows \cup RowsOf({d}, m) |->
                IF k \in DOMAIN rows /\ k[1] # d THEN rows[k] ELSE "pending"]
  /\ table' = [table EXCEPT !.rows = {k \in @ : k[1] # d}]
  /\ jobs' = jobs \cup {Pair(k) : k \in {j \in DOMAIN rows' : rows'[j] = "pending"}}
  /\ UNCHANGED <<models, state>>

\* The replan ends without writing (the file is gone or unreadable, has its old
\* content again, or a statement fails), or writes the document of its path: the
\* one of the job, one ingested since that was deleted, or a new one.
FinishReplan(p) ==
  /\ proc.pc = "serving"
  /\ p \in replans
  /\ replans' = replans \ {p}
  /\ \/ UNCHANGED <<store, used>>
     \/ \E d \in IF p[1] \in docs THEN {p[1]}
                 ELSE NewIds \cup {e \in docs : p[1] < e} :
          ReplacePending(d, p[2])
  /\ UNCHANGED <<proc, ending, history>>

\* An ingest job plans a new or a changed file under the active model.
IngestDocument(d) ==
  /\ proc.pc = "serving"
  /\ d \in docs \cup NewIds
  /\ ReplacePending(d, proc.model)
  /\ UNCHANGED <<proc, ending, replans, history>>

\* Mutant of MarkStale: the vectors stay in the table.
MarkStaleKeepsVectors(d) ==
  /\ proc.pc = "serving"
  /\ d \in docs
  /\ rows' = [k \in DOMAIN rows |-> IF k[1] = d THEN "pending" ELSE rows[k]]
  /\ jobs' = jobs \cup {Pair(k) : k \in {j \in DOMAIN rows : rows'[j] = "pending"}}
  /\ UNCHANGED <<docs, models, table, state, proc, work, history>>

\* mark_documents_stale, with the seeding that follows it.
MarkStale(d) ==
  /\ proc.pc = "serving"
  /\ d \in docs
  /\ rows' = [k \in DOMAIN rows |-> IF k[1] = d THEN "pending" ELSE rows[k]]
  /\ table' = [table EXCEPT !.rows = {k \in @ : k[1] # d}]
  /\ jobs' = jobs \cup {Pair(k) : k \in {j \in DOMAIN rows : rows'[j] = "pending"}}
  /\ UNCHANGED <<docs, models, state, proc, work, history>>

\* The process dies.
Crash ==
  /\ proc.pc # "down"
  /\ crashes < MaxCrashes
  /\ crashes' = crashes + 1
  /\ torn' = (torn \/ proc.pc \in {"create", "record", "fill"})
  /\ cut' = IF proc.pc = "backfill" THEN cut \cup {proc.model} ELSE cut
  /\ proc' = [proc EXCEPT !.pc = "down", !.todo = {}]
  /\ ending' = {} /\ replans' = {}
  /\ UNCHANGED <<store, used, corpus>>

Reconcile ==
  \/ FindModel \/ InsertModel \/ BackfillRow \/ SeedJob
  \/ CheckIndex \/ DropTable \/ CreateTable \/ RecordState \/ FillIndex

StartupStep == (\E m \in Models : Boot(m)) \/ Reconcile

Handle(p) ==
  \/ OrphanJob(p) \/ DropDocument(p) \/ ReleaseJob(p) \/ SkipPair(p) \/ EmbedPair(p)

Serve ==
  \/ \E p \in jobs : Handle(p)
  \/ \E p \in ending : CompleteJob(p)
  \/ \E p \in replans : FinishReplan(p)
  \/ \E d \in Docs : IngestDocument(d) \/ MarkStale(d)

Next == StartupStep \/ Serve \/ Crash

Spec == Init /\ [][Next]_vars

\* The process keeps executing its startup code once it runs.
FairSpec == Spec /\ WF_vars(StartupStep)

-----------------------------------------------------------------------------
(* Properties.                                                              *)

Pcs == {"down", "find", "insert", "backfill", "seed", "index", "drop",
        "create", "record", "fill", "serving"}
Serving == proc.pc = "serving"

\* Types of the tables and of the process.
TypeOK ==
  /\ docs \subseteq Docs /\ models \subseteq Models
  /\ DOMAIN rows \subseteq UNION {RowsOf(docs, m) : m \in models}
  /\ rows \in [DOMAIN rows -> {"pending", "embedded"}]
  /\ jobs \subseteq Docs \X Models
  /\ table \in [exists : BOOLEAN, dims : Nat, rows : SUBSET DOMAIN rows]
  /\ state \in models \cup {0}
  /\ proc \in [pc : Pcs, model : Models, todo : SUBSET RowsOf(docs, proc.model)]
  /\ docs \cup corpus \subseteq used /\ used \subseteq Docs
  /\ ending \subseteq Docs \X Models /\ replans \subseteq Docs \X models
  /\ torn \in BOOLEAN /\ cut \subseteq models

\* startup.rs: when the workers start, every row left without its vectors by the
\* previous run or by an interrupted startup has a job.  (Later a replan that
\* fails, or a completion that follows a stale mark, may take one away.)
QueuedWhenServingStarts == [][~Serving /\ Serving' => Recoverable' \subseteq jobs']_vars

\* The vector table never offers a row that is not embedded, in whatever state
\* crashes and model changes leave the two tables.
IndexSound == table.rows \subseteq RowsWith("embedded")

\* Unless a crash fell into a rebuild, a serving process searches a table that
\* belongs to its model and holds all of that model's embedded rows.
CleanIndexComplete ==
  Serving /\ ~torn =>
    /\ table.exists /\ state = proc.model /\ table.dims = Dims[proc.model]
    /\ {k \in RowsWith("embedded") : k[2] = proc.model} \subseteq table.rows

\* The same without the exception.
ServingIndexComplete ==
  Serving =>
    /\ table.exists /\ state = proc.model /\ table.dims = Dims[proc.model]
    /\ {k \in RowsWith("embedded") : k[2] = proc.model} \subseteq table.rows

\* Unless a crash fell into its backfill, a model registered after the old
\* documents were ingested has every row of the plans of those still there.
BackfillCoversCorpus ==
  \A m \in models \ cut :
    (proc.pc = "backfill" /\ proc.model = m) \/ RowsOf(corpus \cap docs, m) \subseteq DOMAIN rows

\* The same without the exception, for a process that serves.
ServingModelSeesCorpus ==
  Serving => RowsOf(corpus \cap docs, proc.model) \subseteq DOMAIN rows

\* Crashes are finite: in the end the server serves for good.
StartupCompletes == <>[]Serving

=============================================================================
