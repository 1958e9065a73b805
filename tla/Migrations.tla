----------------------------- MODULE Migrations -----------------------------
(***************************************************************************)
(* apply_pending_migrations and the seven SQL scripts, statement by        *)
(* statement, each script in a transaction of its own that also records    *)
(* its version.  The database file may come from any earlier server build, *)
(* holding the rows that build could write, and the process may die at any *)
(* statement.  The connection enforces foreign keys; the scripts' PRAGMA   *)
(* foreign_keys statements do nothing inside a transaction.                *)
(* A row is a tuple of the columns that identify it and refer to others;   *)
(* the other columns are the table's "shape", the version that defined it. *)
(***************************************************************************)
EXTENDS Naturals, Sequences, FiniteSetsExt

CONSTANT Corpora   \* what an old database may hold: table name -> rows

VARIABLES
  db,    \* the committed database: tables, indexes (name -> table), versions
  tx,    \* the open transaction's view of it
  mig,   \* the caller: control point, versions loaded as applied, position
  held   \* history: what the database held before the first start

migVars == <<db, tx, mig, held>>

-----------------------------------------------------------------------------
(* SQL statements.                                                          *)

\* REFERENCES ... ON DELETE CASCADE: <<column, parent table>>, by table name.
References(t) ==
  CASE t = "document_embeddings" -> {<<1, "documents">>, <<2, "embedding_models">>}
    [] t = "embedding_search_state" -> {<<2, "embedding_models">>}
    [] OTHER -> {}

Create(t)         == [do |-> "create", t |-> t]
CreateIfAbsent(t) == [do |-> "create_if_absent", t |-> t]
Rename(t, u)      == [do |-> "rename", t |-> t, to |-> u]
Copy(u, t, shape) == [do |-> "copy", from |-> u, t |-> t, shape |-> shape]
Drop(t)           == [do |-> "drop", t |-> t]
Index(i, t)       == [do |-> "index", t |-> t, name |-> i]
IndexIfAbsent(i, t) == [do |-> "index_if_absent", t |-> t, name |-> i]
DropIndex(i)      == [do |-> "drop_index", name |-> i]
AddColumns(t)     == [do |-> "add_columns", t |-> t]

\* A copied row needs its parents: the foreign keys are enforced at once.
ParentsExist(d, t, S) ==
  \A r \in S, p \in d.tables[t].parents : \E q \in d.tables[p[2]].rows : q[1] = r[p[1]]

\* SQLite accepts the statement.
Accepts(d, s, v) ==
  CASE s.do = "create" -> s.t \notin DOMAIN d.tables
    [] s.do = "rename" -> s.t \in DOMAIN d.tables /\ s.to \notin DOMAIN d.tables
    [] s.do = "copy"   -> /\ {s.t, s.from} \subseteq DOMAIN d.tables
                          /\ d.tables[s.from].shape = s.shape
                          /\ ParentsExist(d, s.t, d.tables[s.from].rows)
    [] s.do = "drop"   -> s.t \in DOMAIN d.tables
    [] s.do = "index"  -> s.t \in DOMAIN d.tables /\ s.name \notin DOMAIN d.indexes
    [] s.do = "add_columns" -> s.t \in DOMAIN d.tables /\ d.tables[s.t].shape < v
    [] OTHER -> TRUE

\* A renamed table keeps its indexes, and references to it follow the name.
Renamed(d, t, u) ==
  LET now(n) == IF n = t THEN u ELSE n
      old(n) == IF n = u THEN t ELSE n IN
  [tables |-> [n \in {now(k) : k \in DOMAIN d.tables} |->
                 [d.tables[old(n)] EXCEPT !.parents = {<<p[1], now(p[2])>> : p \in @}]],
   indexes |-> [i \in DOMAIN d.indexes |-> now(d.indexes[i])],
   versions |-> d.versions]

\* DROP TABLE deletes the rows first, which cascades to the referring tables.
Dropped(d, t) ==
  LET kept(n) == {r \in d.tables[n].rows :
                    \A p \in d.tables[n].parents :
                      p[2] = t => \A q \in d.tables[t].rows : q[1] # r[p[1]]} IN
  [tables |-> [n \in DOMAIN d.tables \ {t} |-> [d.tables[n] EXCEPT !.rows = kept(n)]],
   indexes |-> [i \in {j \in DOMAIN d.indexes : d.indexes[j] # t} |-> d.indexes[i]],
   versions |-> d.versions]

IndexDropped(d, i) == [d EXCEPT !.indexes = [j \in DOMAIN @ \ {i} |-> @[j]]]

Copied(d, u, t) == [d EXCEPT !.tables[t].rows = @ \cup d.tables[u].rows]

\* f with a value for x, unless it has one.
Extended(f, x, value) ==
  [y \in DOMAIN f \cup {x} |-> IF y \in DOMAIN f THEN f[y] ELSE value]

EmptyTable(t, v) == [shape |-> v, parents |-> References(t), rows |-> {}]

Effect(d, s, v) ==
  CASE s.do \in {"create", "create_if_absent"} ->
         [d EXCEPT !.tables = Extended(@, s.t, EmptyTable(s.t, v))]
    [] s.do = "rename" -> Renamed(d, s.t, s.to)
    [] s.do = "copy" -> Copied(d, s.from, s.t)
    [] s.do = "drop" -> Dropped(d, s.t)
    [] s.do \in {"index", "index_if_absent"} ->
         [d EXCEPT !.indexes = Extended(@, s.name, s.t)]
    [] s.do = "drop_index" -> IndexDropped(d, s.name)
    [] s.do = "add_columns" -> [d EXCEPT !.tables[s.t].shape = v]

-----------------------------------------------------------------------------
(* The scripts.                                                             *)

CreateDomainTables ==
  <<CreateIfAbsent("documents"),
    CreateIfAbsent("embedding_models"),
    CreateIfAbsent("document_embeddings"),
    IndexIfAbsent("idx_embeddings_unique", "document_embeddings"),
    IndexIfAbsent("idx_embeddings_document", "document_embeddings"),
    IndexIfAbsent("idx_embeddings_model_state", "document_embeddings")>>

CreateJobQueue ==
  <<CreateIfAbsent("job_queue"), IndexIfAbsent("idx_job_queue_unique", "job_queue")>>

SimplifyJobQueueClaim ==
  <<Rename("job_queue", "job_queue_old"),
    Create("job_queue"),
    Copy("job_queue_old", "job_queue", 3),
    Drop("job_queue_old"),
    Index("idx_job_queue_unique", "job_queue")>>

RebuildModelIdentity ==
  <<Rename("embedding_models", "embedding_models_old"),
    Rename("document_embeddings", "document_embeddings_old"),
    Rename("embedding_search_state", "embedding_search_state_old"),
    DropIndex("idx_embeddings_unique"),
    DropIndex("idx_embeddings_document"),
    DropIndex("idx_embeddings_model_state"),
    Create("embedding_models"),
    Index("idx_embedding_models_identity_unique", "embedding_models"),
    Create("document_embeddings"),
    Index("idx_embeddings_unique", "document_embeddings"),
    Index("idx_embeddings_document", "document_embeddings"),
    Index("idx_embeddings_model_state", "document_embeddings"),
    Create("embedding_search_state"),
    Copy("embedding_models_old", "embedding_models", 2),
    Copy("document_embeddings_old", "document_embeddings", 2),
    Copy("embedding_search_state_old", "embedding_search_state", 5),
    Drop("embedding_search_state_old"),
    Drop("document_embeddings_old"),
    Drop("embedding_models_old")>>

Migration ==   \* MIGRATIONS: version -> script
  <<<<>>, CreateDomainTables, CreateJobQueue, SimplifyJobQueueClaim,
    <<Create("embedding_search_state")>>, RebuildModelIdentity,
    <<AddColumns("documents")>>>>

Versions == DOMAIN Migration

-----------------------------------------------------------------------------
(* Old databases.                                                           *)

\* The migrations that create or redefine each table, and where each index is.
DefinedBy ==
  [documents |-> {2, 7}, embedding_models |-> {2, 6}, document_embeddings |-> {2, 6},
   job_queue |-> {3, 4}, embedding_search_state |-> {5, 6}]

IndexOn ==
  [idx_embeddings_unique |-> "document_embeddings",
   idx_embeddings_document |-> "document_embeddings",
   idx_embeddings_model_state |-> "document_embeddings",
   idx_job_queue_unique |-> "job_queue",
   idx_embedding_models_identity_unique |-> "embedding_models"]

TablesBy(k) == {t \in DOMAIN DefinedBy : DefinedBy[t] \cap 1..k # {}}
IndexesBy(k) ==
  {i \in DOMAIN IndexOn :
     IF i = "idx_embedding_models_identity_unique" THEN k >= 6 ELSE IndexOn[i] \in TablesBy(k)}

\* The database of a build that knew the first k migrations, holding these rows.
Installed(k, rowsOf) ==
  [tables |-> [t \in TablesBy(k) |->
                 [shape |-> Max(DefinedBy[t] \cap 1..k), parents |-> References(t),
                  rows |-> rowsOf[t]]],
   indexes |-> [i \in IndexesBy(k) |-> IndexOn[i]],
   versions |-> 1..k]

-----------------------------------------------------------------------------
Caller(pc, applied, version, next) ==
  [pc |-> pc, applied |-> applied, version |-> version, next |-> next]

Off == Caller("off", {}, 0, 1)

MigrationsInit ==
  /\ \E k \in 0..Len(Migration), corpus \in Corpora : db = Installed(k, corpus)
  /\ tx = db
  /\ mig = Off
  /\ held = [t \in DOMAIN db.tables |-> db.tables[t].rows]

\* create_migrations_table, validate_migrations (nothing to reject in this
\* list) and load_applied_versions, read once before the loop.
LoadApplied ==
  /\ mig.pc = "off"
  /\ mig' = Caller("choose", db.versions, 0, 1)
  /\ UNCHANGED <<db, tx, held>>

Unapplied == {v \in Versions : v > mig.version /\ v \notin mig.applied}

\* The loop's next version that is not recorded opens a transaction.
BeginMigration ==
  /\ mig.pc = "choose"
  /\ IF Unapplied = {}
     THEN mig' = Caller("done", mig.applied, mig.version, mig.next)
     ELSE \E v \in Unapplied :
            /\ \A w \in Unapplied : v <= w
            /\ mig' = Caller("script", mig.applied, v, 1)
  /\ tx' = db
  /\ UNCHANGED <<db, held>>

Statement == Migration[mig.version][mig.next]

\* Mutant of RunStatement: execute_batch outside a transaction.
RunStatementAutocommit ==
  /\ mig.pc = "script"
  /\ mig.next <= Len(Migration[mig.version])
  /\ IF Accepts(tx, Statement, mig.version)
     THEN /\ tx' = Effect(tx, Statement, mig.version)
          /\ db' = tx'
          /\ mig' = Caller("script", mig.applied, mig.version, mig.next + 1)
     ELSE /\ tx' = db /\ mig' = Off /\ UNCHANGED db
  /\ UNCHANGED held

\* execute_batch, one statement; an error ends main and rolls back.
RunStatement ==
  /\ mig.pc = "script"
  /\ mig.next <= Len(Migration[mig.version])
  /\ IF Accepts(tx, Statement, mig.version)
     THEN /\ tx' = Effect(tx, Statement, mig.version)
          /\ mig' = Caller("script", mig.applied, mig.version, mig.next + 1)
     ELSE /\ tx' = db
          /\ mig' = Off
  /\ UNCHANGED <<db, held>>

Recorded(d, v) == [d EXCEPT !.versions = @ \cup {v}]

RecordVersion ==
  /\ mig.pc = "script"
  /\ mig.next > Len(Migration[mig.version])
  /\ tx' = Recorded(tx, mig.version)
  /\ mig' = Caller("commit", mig.applied, mig.version, mig.next)
  /\ UNCHANGED <<db, held>>

\* Mutant of CommitMigration: only the record is kept.
CommitRecordOnly ==
  /\ mig.pc = "commit"
  /\ db' = [db EXCEPT !.versions = tx.versions]
  /\ mig' = Caller("choose", mig.applied, mig.version, mig.next)
  /\ UNCHANGED <<tx, held>>

CommitMigration ==
  /\ mig.pc = "commit"
  /\ db' = tx
  /\ mig' = Caller("choose", mig.applied, mig.version, mig.next)
  /\ UNCHANGED <<tx, held>>

MigrationStep ==
  LoadApplied \/ BeginMigration \/ RunStatement \/ RecordVersion \/ CommitMigration

\* The process dies: SQLite rolls the open transaction back.
DieMigrating ==
  /\ mig' = Off
  /\ tx' = db
  /\ UNCHANGED <<db, held>>

-----------------------------------------------------------------------------
(* Properties.                                                              *)

\* The doc comment of apply_pending_migrations, across crashes at any statement:
\* the recorded versions are the first k, and the committed tables and indexes are
\* the ones a fresh installation of those k versions has, with no leftovers.
RecordedMeansApplied ==
  \E k \in 0..Len(Migration) :
    /\ DOMAIN db.tables = TablesBy(k)
    /\ db = Installed(k, [t \in DOMAIN db.tables |-> db.tables[t].rows])

\* Rebuilding tables loses no row and invents none, wherever the process dies:
\* a committed table holds what it held before the first start, and a table the
\* old build did not have is empty.
MigratingLosesNothing ==
  \A t \in DOMAIN db.tables :
    db.tables[t].rows = IF t \in DOMAIN held THEN held[t] ELSE {}

=============================================================================
