---------------------------- MODULE ServerStart -----------------------------
(***************************************************************************)
(* main of ask-server over a database file left by any earlier build:      *)
(* Migrations first, then Startup on the tables they left, then serving.   *)
(* A crash falls into either part and the next process begins anew.        *)
(***************************************************************************)
EXTENDS Startup, Migrations

serverVars == <<vars, migVars>>

TableRows(t) == db.tables[t].rows
Key(r) == <<r[1], r[2], r[3]>>

\* Old builds wrote ids of this model, one row per document, model and chunk, rows
\* only of documents and models they had, and at most one active model, of theirs.
ASSUME CorporaAssumption ==
  \A old \in Corpora :
    /\ \A r \in old.documents : r[1] \in Docs
    /\ \A r \in old.embedding_models : r[1] \in Models
    /\ \A r \in old.document_embeddings :
         /\ \E q \in old.documents : q[1] = r[1]
         /\ \E q \in old.embedding_models : q[1] = r[2]
         /\ r[3] \in Chunks /\ r[4] \in {"pending", "embedded"}
         /\ \A q \in old.document_embeddings : Key(q) = Key(r) => q[4] = r[4]
    /\ \A r \in old.job_queue : r[1] \in Docs /\ r[2] \in Models
    /\ \A r \in old.embedding_search_state :
         \E q \in old.embedding_models : q[1] = r[2]

ServerInit ==
  /\ MigrationsInit
  /\ docs = {} /\ models = {} /\ rows = <<>> /\ jobs = {} /\ state = 0
  /\ table = [exists |-> FALSE, dims |-> 0, rows |-> {}]
  /\ proc = [pc |-> "down", model |-> OldModel, todo |-> {}]
  /\ used = {} /\ ending = {} /\ replans = {}
  /\ crashes = 0 /\ torn = FALSE /\ cut = {} /\ corpus = {}

\* The state column by key.
States(S) == [k \in {Key(r) : r \in S} |-> (CHOOSE r \in S : Key(r) = k)[4]]

EmbeddedKeys(m) ==
  {Key(r) : r \in {q \in TableRows("document_embeddings") : q[2] = m /\ q[4] = "embedded"}}

\* Builds that recorded an active model also had its virtual table, which the
\* migrations never touch.
IndexAsLeft ==
  \/ /\ TableRows("embedding_search_state") = {}
     /\ state' = 0
     /\ table' = [exists |-> FALSE, dims |-> 0, rows |-> {}]
  \/ \E s \in TableRows("embedding_search_state") :
       /\ state' = s[2]
       /\ table' = [exists |-> TRUE, dims |-> Dims[s[2]], rows |-> EmbeddedKeys(s[2])]

\* The reconciliation works on what the migrations left, until a start writes.
FirstBoot(m) ==
  /\ mig.pc = "done" /\ proc.pc = "down" /\ models = {}
  /\ docs' = {r[1] : r \in TableRows("documents")}
  /\ models' = {r[1] : r \in TableRows("embedding_models")}
  /\ rows' = States(TableRows("document_embeddings"))
  /\ jobs' = {<<r[1], r[2]>> : r \in TableRows("job_queue")}
  /\ IndexAsLeft
  /\ used' = docs' \cup {r[1] : r \in TableRows("job_queue")}
  /\ corpus' = docs'
  /\ cut' = {n \in models' : ~(RowsOf(docs', n) \subseteq DOMAIN rows')}
  /\ proc' = [pc |-> "find", model |-> m, todo |-> {}]
  /\ UNCHANGED <<ending, replans, crashes, torn, migVars>>

LaterBoot(m) ==
  /\ mig.pc = "done" /\ models # {}
  /\ Boot(m)
  /\ UNCHANGED migVars

CrashInMigration ==
  /\ proc.pc = "down" /\ mig.pc # "off"
  /\ crashes < MaxCrashes
  /\ crashes' = crashes + 1
  /\ DieMigrating
  /\ UNCHANGED <<store, proc, work, torn, cut, corpus>>

ServerStartStep ==
  \/ proc.pc = "down" /\ MigrationStep /\ UNCHANGED vars
  \/ \E m \in Models : FirstBoot(m) \/ LaterBoot(m)
  \/ Reconcile /\ UNCHANGED migVars

ServerNext ==
  \/ ServerStartStep
  \/ Serve /\ UNCHANGED migVars
  \/ CrashInMigration
  \/ Crash /\ DieMigrating

\* A process that runs keeps executing main.
ServerSpec == ServerInit /\ [][ServerNext]_serverVars /\ WF_serverVars(ServerStartStep)

=============================================================================
