--------------------------- MODULE StartupProofs ----------------------------
(***************************************************************************)
(* Proofs about the start of the server: Startup's invariants hold for any *)
(* corpus, any models and any number of crashes and model changes; the     *)
(* migrations lose nothing and leave what they record, whichever build     *)
(* left the database; and Startup's invariants hold of the server, which   *)
(* reconciles what the migrations left.                                    *)
(***************************************************************************)
EXTENDS ServerStart, OrderLemmas

\* A model whose backfill runs has just been inserted: the index knows no row
\* of it yet.
FreshModel ==
  /\ proc.pc = "insert" => proc.model \notin models
  /\ proc.pc = "backfill" => \A k \in table.rows : k[2] # proc.model

AfterSeeding == {"index", "drop", "create", "record", "fill"}

\* From the seeding pass until the workers start, recoverable rows have their jobs.
QueuedSinceSeeding == proc.pc \in AfterSeeding => Recoverable \subseteq jobs

\* How far the rebuild of the index has come, by program counter.
RebuildStages ==
  /\ proc.pc \notin {"down", "find", "insert"} => proc.model \in models
  /\ proc.pc = "create" => ~table.exists
  /\ proc.pc \in {"record", "fill"} => table.exists /\ table.dims = Dims[proc.model]
  /\ proc.pc \in {"fill", "serving"} => state = proc.model
  /\ proc.pc = "serving" => table.exists
  /\ proc.pc # "backfill" => proc.todo = {}

EmbeddedOf(m) == {k \in RowsWith("embedded") : k[2] = m}

\* Outside a rebuild, and unless one was interrupted, a table that exists
\* belongs to the recorded model and is complete for it.
TableMatchesState ==
  ~torn /\ table.exists /\ proc.pc \notin {"record", "fill"} =>
    table.dims = Dims[state] /\ EmbeddedOf(state) \subseteq table.rows

\* What the backfill has not inserted yet is still on its list.
BackfillOnItsWay ==
  \A m \in models \ cut :
    RowsOf(corpus \cap docs, m) \subseteq
      DOMAIN rows \cup (IF proc.pc = "backfill" /\ proc.model = m THEN proc.todo ELSE {})

StartInv ==
  /\ TypeOK /\ IndexSound
  /\ FreshModel /\ QueuedSinceSeeding /\ RebuildStages /\ TableMatchesState /\ BackfillOnItsWay

-----------------------------------------------------------------------------
\* A row of a plan names its document and its model.
LEMMA RowsOfFacts ==
  ASSUME NEW D, NEW m
  PROVE  \A k \in RowsOf(D, m) : k[1] \in D /\ k[2] = m
BY DEF RowsOf

\* More documents have more rows.
LEMMA RowsOfMonotone ==
  ASSUME NEW D, NEW E, NEW m, D \subseteq E
  PROVE  RowsOf(D, m) \subseteq RowsOf(E, m)
BY DEF RowsOf

\* Every stored row belongs to a stored document and a stored model.
LEMMA RowKeys ==
  ASSUME TypeOK
  PROVE  \A k \in DOMAIN rows : k[1] \in docs /\ k[2] \in models
BY RowsOfFacts DEF TypeOK

\* The initial state.
LEMMA StartInit == Init => StartInv
<1> SUFFICES ASSUME Init  PROVE StartInv
  OBVIOUS
<1> USE DEF Init
<1>1. TypeOK
  <2>1. table \in [exists : BOOLEAN, dims : Nat, rows : SUBSET DOMAIN rows]
    BY StartupAssumption
  <2>2. proc \in [pc : Pcs, model : Models, todo : SUBSET RowsOf(docs, proc.model)]
    BY StartupAssumption DEF Pcs
  <2>3. DOMAIN rows = UNION {RowsOf(docs, m) : m \in models}
    OBVIOUS
  <2>4. rows \in [DOMAIN rows -> {"pending", "embedded"}]
    OBVIOUS
  <2>5. docs \subseteq Docs /\ models \subseteq Models
    BY StartupAssumption
  <2> HIDE DEF Init
  <2> QED  BY <2>1, <2>2, <2>3, <2>4, <2>5 DEF TypeOK, Init
<1>2. RowsWith("embedded") = RowsOf(OldDocs, OldModel)
  BY DEF RowsWith
<1>3. IndexSound /\ TableMatchesState
  BY <1>2 DEF IndexSound, TableMatchesState, EmbeddedOf
<1>4. FreshModel /\ QueuedSinceSeeding /\ RebuildStages
  BY DEF FreshModel, QueuedSinceSeeding, AfterSeeding, RebuildStages
<1>5. BackfillOnItsWay
  <2>1. corpus \cap docs = OldDocs /\ DOMAIN rows = RowsOf(OldDocs, OldModel)
    OBVIOUS
  <2> QED  BY <2>1 DEF BackfillOnItsWay
<1> QED  BY <1>1, <1>3, <1>4, <1>5 DEF StartInv

\* Steps that only move the program counter.
LEMMA CounterSteps ==
  ASSUME StartInv, NEW m \in Models, Boot(m) \/ FindModel \/ CheckIndex
  PROVE  StartInv'
<1> USE DEF StartInv, store, history, work
<1>1. UNCHANGED <<docs, models, rows, jobs, table, state, torn, cut, corpus, used, ending, replans>>
  BY DEF Boot, FindModel, CheckIndex
<1>2. TypeOK'
  <2>1. proc' \in [pc : Pcs, model : Models, todo : SUBSET RowsOf(docs, proc'.model)]
    BY DEF TypeOK, Boot, FindModel, CheckIndex, Goto, Pcs
  <2> QED  BY <2>1, <1>1 DEF TypeOK
<1>3. IndexSound'
  BY <1>1 DEF IndexSound, RowsWith
<1>4. Recoverable' = Recoverable /\ \A n : EmbeddedOf(n)' = EmbeddedOf(n)
  BY <1>1 DEF Recoverable, RowsWith, EmbeddedOf
<1>5. QueuedSinceSeeding'
  BY <1>1, <1>4 DEF TypeOK, QueuedSinceSeeding, AfterSeeding, Boot, FindModel, CheckIndex, Goto
<1>6. FreshModel' /\ RebuildStages'
  BY <1>1 DEF TypeOK, FreshModel, RebuildStages, Boot, FindModel, CheckIndex, Goto
<1>7. TableMatchesState'
  BY <1>1, <1>4 DEF TypeOK, TableMatchesState, Boot, FindModel, CheckIndex, Goto
<1>8. BackfillOnItsWay'
  <2>1. proc.pc # "backfill" /\ proc'.pc # "backfill"
    BY DEF TypeOK, Boot, FindModel, CheckIndex, Goto
  <2> QED  BY <2>1, <1>1 DEF BackfillOnItsWay
<1> QED  BY <1>2, <1>3, <1>5, <1>6, <1>7, <1>8

\* A known set of embedded rows and of pairs with work depends on the rows only.
LEMMA RowsDecide ==
  ASSUME UNCHANGED rows
  PROVE  /\ Recoverable' = Recoverable
         /\ RowsWith("embedded")' = RowsWith("embedded")
         /\ \A n : EmbeddedOf(n)' = EmbeddedOf(n)
BY DEF Recoverable, RowsWith, EmbeddedOf

\* Registering the model: it is new, and its whole corpus is on the list.
LEMMA InsertModelStep ==
  ASSUME StartInv, InsertModel
  PROVE  StartInv'
<1> USE DEF StartInv
<1>1. /\ proc.pc = "insert" /\ proc.model \in Models \ models
      /\ models' = models \cup {proc.model}
      /\ UNCHANGED <<docs, rows, jobs, table, state, torn, cut, corpus, used, ending, replans>>
      /\ proc'.pc = "backfill" /\ proc'.model = proc.model
      /\ proc'.todo = RowsOf(docs, proc.model)
      /\ proc' \in [pc : Pcs, model : Models, todo : SUBSET RowsOf(docs, proc'.model)]
  BY DEF InsertModel, history, work, FreshModel, TypeOK, Pcs
<1>2. TypeOK'
  BY <1>1 DEF TypeOK
<1>3. IndexSound'
  BY <1>1, RowsDecide DEF IndexSound
<1>4. FreshModel'
  <2>1. \A k \in table.rows : k[2] \in models
    BY RowKeys DEF TypeOK
  <2> QED  BY <1>1, <2>1 DEF FreshModel
<1>5. QueuedSinceSeeding' /\ RebuildStages'
  BY <1>1 DEF QueuedSinceSeeding, AfterSeeding, RebuildStages
<1>6. TableMatchesState'
  BY <1>1, RowsDecide DEF TableMatchesState
<1>7. BackfillOnItsWay'
  <2> SUFFICES ASSUME NEW m \in models' \ cut
               PROVE  RowsOf(corpus \cap docs, m) \subseteq
                        DOMAIN rows \cup (IF proc'.model = m THEN proc'.todo ELSE {})
    BY <1>1 DEF BackfillOnItsWay
  <2>1. CASE m = proc.model
    <3>1. RowsOf(corpus \cap docs, m) \subseteq RowsOf(docs, m)
      BY RowsOfMonotone DEF TypeOK
    <3> QED  BY <1>1, <2>1, <3>1
  <2>2. CASE m # proc.model
    BY <1>1, <2>2 DEF BackfillOnItsWay
  <2> QED  BY <2>1, <2>2
<1> QED  BY <1>2, <1>3, <1>4, <1>5, <1>6, <1>7

\* Rows that become pending, of a model the index does not know.
LEMMA BackfillStep ==
  ASSUME StartInv, BackfillRow
  PROVE  StartInv'
<1> USE DEF StartInv
<1>1. /\ proc.pc = "backfill" /\ proc.model \in models
      /\ UNCHANGED <<docs, models, jobs, table, state, torn, cut, corpus, used, ending, replans>>
  BY DEF BackfillRow, history, work, RebuildStages
<1>2. CASE proc.todo = {}
  <2>1. /\ UNCHANGED rows
        /\ proc'.pc = "seed" /\ proc'.model = proc.model /\ proc'.todo = {}
        /\ proc' \in [pc : Pcs, model : Models, todo : SUBSET RowsOf(docs, proc'.model)]
    BY <1>2 DEF BackfillRow, Goto, TypeOK, Pcs
  <2>2. TypeOK'
    BY <1>1, <2>1 DEF TypeOK
  <2>3. IndexSound' /\ TableMatchesState'
    BY <1>1, <2>1, RowsDecide DEF IndexSound, TableMatchesState
  <2>4. FreshModel' /\ QueuedSinceSeeding' /\ RebuildStages'
    BY <1>1, <2>1 DEF FreshModel, QueuedSinceSeeding, AfterSeeding, RebuildStages
  <2>5. BackfillOnItsWay'
    BY <1>1, <1>2, <2>1 DEF BackfillOnItsWay
  <2> QED  BY <2>2, <2>3, <2>4, <2>5
<1>3. CASE proc.todo # {}
  <2>1. PICK k \in proc.todo :
          /\ rows' = [j \in DOMAIN rows \cup {k} |-> IF j = k THEN "pending" ELSE rows[j]]
          /\ proc' = [proc EXCEPT !.todo = @ \ {k}]
    BY <1>3 DEF BackfillRow
  <2>2. k \in RowsOf(docs, proc.model) /\ k[2] = proc.model /\ k \notin table.rows
    BY <1>1, RowsOfFacts DEF TypeOK, FreshModel
  <2>3. /\ proc'.pc = proc.pc /\ proc'.model = proc.model /\ proc'.todo = proc.todo \ {k}
        /\ proc' \in [pc : Pcs, model : Models, todo : SUBSET RowsOf(docs, proc'.model)]
    BY <2>1 DEF TypeOK
  <2>4. RowsWith("embedded")' = RowsWith("embedded") \ {k}
    BY <2>1 DEF RowsWith
  <2>5. TypeOK'
    <3>1. DOMAIN rows' \subseteq UNION {RowsOf(docs, m) : m \in models}
      BY <1>1, <2>1, <2>2 DEF TypeOK
    <3>2. rows' \in [DOMAIN rows' -> {"pending", "embedded"}]
      BY <2>1 DEF TypeOK
    <3>3. table \in [exists : BOOLEAN, dims : Nat, rows : SUBSET DOMAIN rows']
      BY <2>1 DEF TypeOK
    <3> QED  BY <1>1, <2>3, <3>1, <3>2, <3>3 DEF TypeOK
  <2>6. IndexSound'
    BY <1>1, <2>2, <2>4 DEF IndexSound
  <2>7. FreshModel' /\ QueuedSinceSeeding' /\ RebuildStages'
    BY <1>1, <2>3 DEF FreshModel, QueuedSinceSeeding, AfterSeeding, RebuildStages
  <2>8. TableMatchesState'
    BY <1>1, <2>3, <2>4 DEF TableMatchesState, EmbeddedOf
  <2>9. BackfillOnItsWay'
    BY <1>1, <2>1, <2>3 DEF BackfillOnItsWay
  <2> QED  BY <2>5, <2>6, <2>7, <2>8, <2>9
<1> QED  BY <1>2, <1>3

\* The seeding pass ends only when nothing recoverable is without a job.
LEMMA SeedStep ==
  ASSUME StartInv, SeedJob
  PROVE  StartInv'
<1> USE DEF StartInv
<1>1. /\ proc.pc = "seed" /\ UNCHANGED <<docs, models, rows, table, state, torn, cut, corpus, used, ending, replans>>
      /\ jobs' \subseteq jobs \cup Recoverable
      /\ \/ UNCHANGED proc
         \/ proc' = [proc EXCEPT !.pc = "index"] /\ Recoverable \subseteq jobs'
  BY DEF SeedJob, history, work, Goto
<1>2. /\ proc'.pc \in {"seed", "index"} /\ proc'.model = proc.model /\ proc'.todo = proc.todo
      /\ proc' \in [pc : Pcs, model : Models, todo : SUBSET RowsOf(docs, proc'.model)]
      /\ proc'.pc = "index" => Recoverable \subseteq jobs'
  BY <1>1 DEF TypeOK, Pcs
<1>3. TypeOK'
  <2>1. Recoverable \subseteq docs \X models
    BY RowKeys DEF Recoverable, RowsWith, Pair
  <2> QED  BY <1>1, <1>2, <2>1 DEF TypeOK
<1>4. IndexSound' /\ TableMatchesState'
  BY <1>1, <1>2, RowsDecide DEF IndexSound, TableMatchesState
<1>5. QueuedSinceSeeding'
  BY <1>1, <1>2, RowsDecide DEF QueuedSinceSeeding, AfterSeeding
<1>6. FreshModel' /\ RebuildStages' /\ BackfillOnItsWay'
  BY <1>1, <1>2 DEF FreshModel, RebuildStages, BackfillOnItsWay
<1> QED  BY <1>3, <1>4, <1>5, <1>6

\* The statements of the rebuild before the fill.
LEMMA RebuildSteps ==
  ASSUME StartInv, DropTable \/ CreateTable \/ RecordState
  PROVE  StartInv'
<1> USE DEF StartInv
<1>1. /\ UNCHANGED <<docs, models, rows, jobs, torn, cut, corpus, used, ending, replans>>
      /\ proc.pc \in {"drop", "create", "record"}
      /\ proc'.pc \in {"create", "record", "fill"}
      /\ proc'.model = proc.model /\ proc'.todo = proc.todo
      /\ proc' \in [pc : Pcs, model : Models, todo : SUBSET RowsOf(docs, proc'.model)]
      /\ table'.rows \subseteq table.rows
  BY DEF DropTable, CreateTable, RecordState, history, work, Goto, TypeOK, Pcs
<1>2. /\ table' \in [exists : BOOLEAN, dims : Nat, rows : SUBSET DOMAIN rows]
      /\ state' \in models \cup {0}
      /\ proc.model \in models
  <2>1. proc.model \in models /\ proc.model \in Models
    BY <1>1 DEF RebuildStages, TypeOK
  <2>2. Dims[proc.model] \in Nat
    BY <2>1, StartupAssumption
  <2>3. CASE DropTable
    BY <2>1, <2>3 DEF DropTable, TypeOK
  <2>4. CASE CreateTable
    BY <2>1, <2>2, <2>4 DEF CreateTable, TypeOK
  <2>5. CASE RecordState
    BY <2>1, <2>5 DEF RecordState, TypeOK
  <2> QED  BY <2>1, <2>3, <2>4, <2>5
<1>3. TypeOK'
  BY <1>1, <1>2 DEF TypeOK
<1>4. IndexSound'
  BY <1>1, RowsDecide DEF IndexSound
<1>5. FreshModel' /\ BackfillOnItsWay'
  BY <1>1 DEF FreshModel, BackfillOnItsWay
<1>6. QueuedSinceSeeding'
  BY <1>1, RowsDecide DEF QueuedSinceSeeding, AfterSeeding
<1>7. RebuildStages'
  BY <1>1, <1>2 DEF RebuildStages, DropTable, CreateTable, RecordState, Goto, TypeOK
<1>8. TableMatchesState'
  BY <1>1 DEF TableMatchesState, DropTable, CreateTable, RecordState, Goto, TypeOK
<1> QED  BY <1>3, <1>4, <1>5, <1>6, <1>7, <1>8

\* The fill completes the table for the recorded model.
LEMMA FillStep ==
  ASSUME StartInv, FillIndex
  PROVE  StartInv'
<1> USE DEF StartInv
<1>1. /\ UNCHANGED <<docs, models, rows, jobs, state, cut, corpus, used, ending, replans>>
      /\ torn' = FALSE
      /\ proc.pc = "fill" /\ proc'.pc = "serving"
      /\ proc'.model = proc.model /\ proc'.todo = proc.todo
      /\ proc' \in [pc : Pcs, model : Models, todo : SUBSET RowsOf(docs, proc'.model)]
      /\ table'.rows = table.rows \cup EmbeddedOf(proc.model)
      /\ table'.exists = table.exists /\ table'.dims = table.dims
  BY DEF FillIndex, work, Goto, TypeOK, Pcs, EmbeddedOf
<1>2. table' \in [exists : BOOLEAN, dims : Nat, rows : SUBSET DOMAIN rows]
  BY DEF FillIndex, TypeOK, RowsWith
<1>3. TypeOK'
  <2>1. torn' \in BOOLEAN
    BY <1>1
  <2>2. /\ docs' \subseteq Docs /\ models' \subseteq Models
        /\ DOMAIN rows' \subseteq UNION {RowsOf(docs', m) : m \in models'}
        /\ rows' \in [DOMAIN rows' -> {"pending", "embedded"}]
        /\ jobs' \subseteq Docs \X Models /\ state' \in models' \cup {0}
        /\ cut' \subseteq models'
        /\ docs' \cup corpus' \subseteq used' /\ used' \subseteq Docs
        /\ ending' \subseteq Docs \X Models /\ replans' \subseteq Docs \X models'
    BY <1>1 DEF TypeOK
  <2>3. proc' \in [pc : Pcs, model : Models, todo : SUBSET RowsOf(docs', proc'.model)]
    BY <1>1
  <2>4. table' \in [exists : BOOLEAN, dims : Nat, rows : SUBSET DOMAIN rows']
    BY <1>1, <1>2
  <2> QED  BY <2>1, <2>2, <2>3, <2>4 DEF TypeOK
<1>4. IndexSound'
  BY <1>1, RowsDecide DEF IndexSound, EmbeddedOf
<1>5. FreshModel' /\ BackfillOnItsWay' /\ RebuildStages'
  BY <1>1 DEF FreshModel, BackfillOnItsWay, RebuildStages
<1>6. QueuedSinceSeeding'
  BY <1>1, RowsDecide DEF QueuedSinceSeeding, AfterSeeding
<1>7. TableMatchesState'
  BY <1>1, RowsDecide DEF TableMatchesState, RebuildStages
<1> QED  BY <1>3, <1>4, <1>5, <1>6, <1>7

\* A handler's steps that touch no row: it takes jobs away, or notes that it did.
LEMMA JobSteps ==
  ASSUME StartInv, NEW p \in Docs \X Models,
         OrphanJob(p) \/ ReleaseJob(p) \/ SkipPair(p) \/ CompleteJob(p)
  PROVE  StartInv'
<1> USE DEF StartInv
<1>1. /\ proc.pc = "serving"
      /\ UNCHANGED <<docs, models, rows, table, state, proc, used, torn, cut, corpus>>
      /\ jobs' \subseteq jobs
      /\ ending' \subseteq ending \cup {p}
      /\ \/ replans' = replans
         \/ p[2] \in models /\ replans' = replans \cup {p}
  BY DEF OrphanJob, ReleaseJob, SkipPair, CompleteJob, Loads, Handles, store, work, history
<1>2. ending' \subseteq Docs \X Models /\ replans' \subseteq Docs \X models
  BY <1>1 DEF TypeOK
<1>3. TypeOK'
  BY <1>1, <1>2 DEF TypeOK
<1>4. IndexSound' /\ TableMatchesState'
  BY <1>1, RowsDecide DEF IndexSound, TableMatchesState
<1>5. FreshModel' /\ QueuedSinceSeeding' /\ RebuildStages' /\ BackfillOnItsWay'
  BY <1>1 DEF FreshModel, QueuedSinceSeeding, AfterSeeding, RebuildStages, BackfillOnItsWay
<1> QED  BY <1>3, <1>4, <1>5

\* A handler that succeeds embeds its pair and indexes it.
LEMMA EmbedPairStep ==
  ASSUME StartInv, NEW p \in Docs \X Models, EmbedPair(p)
  PROVE  StartInv'
<1> USE DEF StartInv
<1> DEFINE pair == RowsOfPair(p)
<1>1. /\ UNCHANGED <<docs, models, jobs, state, proc, used, replans, torn, cut, corpus>>
      /\ proc.pc = "serving" /\ Dims[p[2]] = table.dims
      /\ rows' = [k \in DOMAIN rows |-> IF k \in pair THEN "embedded" ELSE rows[k]]
      /\ table' = [table EXCEPT !.rows = @ \cup pair]
      /\ ending' = ending \cup {p}
  BY DEF EmbedPair, Loads, Handles, history
<1>2. RowsWith("embedded")' = RowsWith("embedded") \cup pair
  BY <1>1 DEF RowsWith, RowsOfPair
<1>3. /\ table'.rows = table.rows \cup pair
      /\ table'.exists = table.exists /\ table'.dims = table.dims
      /\ table' \in [exists : BOOLEAN, dims : Nat, rows : SUBSET DOMAIN rows']
  BY <1>1 DEF TypeOK, RowsOfPair
<1>4. DOMAIN rows' = DOMAIN rows /\ rows' \in [DOMAIN rows' -> {"pending", "embedded"}]
  BY <1>1 DEF TypeOK
<1> HIDE DEF pair
<1>5. TypeOK'
  BY <1>1, <1>3, <1>4 DEF TypeOK
<1>6. IndexSound'
  BY <1>2, <1>3 DEF IndexSound
<1>7. FreshModel' /\ RebuildStages' /\ BackfillOnItsWay' /\ QueuedSinceSeeding'
  BY <1>1, <1>3, <1>4
     DEF FreshModel, RebuildStages, BackfillOnItsWay, QueuedSinceSeeding, AfterSeeding
<1>8. TableMatchesState'
  BY <1>1, <1>2, <1>3 DEF TableMatchesState, EmbeddedOf
<1> QED  BY <1>5, <1>6, <1>7, <1>8

\* A deleted document takes its rows and its index entries along.
LEMMA DropDocumentStep ==
  ASSUME StartInv, NEW p \in Docs \X Models, DropDocument(p)
  PROVE  StartInv'
<1> USE DEF StartInv
<1> DEFINE d == p[1]
<1>1. /\ proc.pc = "serving" /\ docs' = docs \ {d}
      /\ rows' = [k \in {j \in DOMAIN rows : j[1] # d} |-> rows[k]]
      /\ table' = [table EXCEPT !.rows = {k \in @ : k[1] # d}]
      /\ ending' = ending \cup {p}
      /\ UNCHANGED <<models, jobs, state, proc, used, replans, torn, cut, corpus>>
  BY DEF DropDocument, Loads, Handles, history
<1> HIDE DEF d
<1>2. /\ DOMAIN rows' = {j \in DOMAIN rows : j[1] # d}
      /\ rows' \in [DOMAIN rows' -> {"pending", "embedded"}]
      /\ RowsWith("embedded")' = {k \in RowsWith("embedded") : k[1] # d}
  BY <1>1 DEF TypeOK, RowsWith
<1>3. /\ table'.rows = {k \in table.rows : k[1] # d}
      /\ table'.exists = table.exists /\ table'.dims = table.dims
      /\ table' \in [exists : BOOLEAN, dims : Nat, rows : SUBSET DOMAIN rows']
  BY <1>1, <1>2 DEF TypeOK
<1>4. TypeOK'
  <2>1. DOMAIN rows' \subseteq UNION {RowsOf(docs', m) : m \in models}
    <3> SUFFICES ASSUME NEW k \in DOMAIN rows'
                 PROVE  \E m \in models : k \in RowsOf(docs', m)
      OBVIOUS
    <3>1. PICK m \in models : k \in RowsOf(docs, m)
      BY <1>2 DEF TypeOK
    <3>2. k \in RowsOf(docs', m)
      BY <1>1, <1>2, <3>1 DEF RowsOf
    <3> QED  BY <3>2
  <2>2. proc \in [pc : Pcs, model : Models, todo : SUBSET RowsOf(docs', proc.model)]
    BY <1>1 DEF TypeOK, RebuildStages
  <2> QED  BY <1>1, <1>2, <1>3, <2>1, <2>2 DEF TypeOK
<1>5. IndexSound'
  BY <1>2, <1>3 DEF IndexSound
<1>6. FreshModel' /\ RebuildStages' /\ QueuedSinceSeeding'
  BY <1>1, <1>3 DEF FreshModel, RebuildStages, QueuedSinceSeeding, AfterSeeding
<1>7. TableMatchesState'
  BY <1>1, <1>2, <1>3 DEF TableMatchesState, EmbeddedOf
<1>8. BackfillOnItsWay'
  <2> SUFFICES ASSUME NEW m \in models \ cut, NEW k \in RowsOf(corpus \cap docs', m)
               PROVE  k \in DOMAIN rows'
    BY <1>1 DEF BackfillOnItsWay
  <2>1. k \in RowsOf(corpus \cap docs, m) /\ k[1] # d
    BY <1>1 DEF RowsOf
  <2> QED  BY <1>1, <1>2, <2>1 DEF BackfillOnItsWay
<1> QED  BY <1>4, <1>5, <1>6, <1>7, <1>8

\* A plan that replaces a document's rows: all pending, none indexed, all queued.
LEMMA ReplacePendingStep ==
  ASSUME StartInv, proc.pc = "serving",
         NEW d \in Docs, d \in docs \/ d \notin used, NEW m \in models, ReplacePending(d, m),
         UNCHANGED <<proc, torn, cut, corpus>>, ending' \subseteq ending, replans' \subseteq replans
  PROVE  StartInv'
<1> USE DEF StartInv
<1> DEFINE new == RowsOf({d}, m)
<1>1. /\ docs' = docs \cup {d} /\ used' = used \cup {d} /\ UNCHANGED <<models, state>>
      /\ rows' = [k \in DOMAIN rows \cup new |->
                    IF k \in DOMAIN rows /\ k[1] # d THEN rows[k] ELSE "pending"]
      /\ table' = [table EXCEPT !.rows = {k \in @ : k[1] # d}]
      /\ jobs' = jobs \cup {Pair(k) : k \in {j \in DOMAIN rows' : rows'[j] = "pending"}}
  BY DEF ReplacePending
<1>2. (\A k \in new : k[1] = d /\ k[2] = m) /\ new \subseteq RowsOf(docs', m)
  BY <1>1, RowsOfFacts, RowsOfMonotone
<1> HIDE DEF new
<1>3. /\ DOMAIN rows' = DOMAIN rows \cup new
      /\ rows' \in [DOMAIN rows' -> {"pending", "embedded"}]
      /\ RowsWith("embedded")' = {k \in RowsWith("embedded") : k[1] # d}
  <2>1. DOMAIN rows' = DOMAIN rows \cup new
    BY <1>1
  <2>2. rows' \in [DOMAIN rows' -> {"pending", "embedded"}]
    BY <1>1 DEF TypeOK
  <2>3. RowsWith("embedded")' = {k \in RowsWith("embedded") : k[1] # d}
    BY <1>1, <1>2 DEF RowsWith
  <2> QED  BY <2>1, <2>2, <2>3
<1>4. /\ table'.rows = {k \in table.rows : k[1] # d}
      /\ table'.exists = table.exists /\ table'.dims = table.dims
      /\ table' \in [exists : BOOLEAN, dims : Nat, rows : SUBSET DOMAIN rows']
  BY <1>1, <1>3 DEF TypeOK
<1>5. TypeOK'
  <2>1. \A n : RowsOf(docs, n) \subseteq RowsOf(docs', n)
    BY <1>1, RowsOfMonotone
  <2>2. DOMAIN rows' \subseteq UNION {RowsOf(docs', n) : n \in models}
    BY <1>2, <1>3, <2>1 DEF TypeOK
  <2>3. jobs' \subseteq Docs \X Models
    <3>1. \A k \in DOMAIN rows' : Pair(k) \in Docs \X Models
      BY <1>2, <1>3, RowKeys DEF Pair, TypeOK
    <3>2. jobs \subseteq Docs \X Models
      BY DEF TypeOK
    <3> QED  BY <1>1, <3>1, <3>2
  <2>4. proc \in [pc : Pcs, model : Models, todo : SUBSET RowsOf(docs', proc.model)]
    BY <2>1 DEF TypeOK
  <2>5. docs' \cup corpus' \subseteq used' /\ used' \subseteq Docs /\ docs' \subseteq Docs
    BY <1>1 DEF TypeOK
  <2>6. ending' \subseteq Docs \X Models /\ replans' \subseteq Docs \X models
    BY DEF TypeOK
  <2> QED  BY <1>1, <1>3, <1>4, <2>2, <2>3, <2>4, <2>5, <2>6 DEF TypeOK
<1>6. IndexSound'
  BY <1>3, <1>4 DEF IndexSound
<1>7. FreshModel' /\ RebuildStages' /\ QueuedSinceSeeding'
  BY <1>1, <1>4 DEF FreshModel, RebuildStages, QueuedSinceSeeding, AfterSeeding
<1>8. TableMatchesState'
  BY <1>1, <1>3, <1>4 DEF TableMatchesState, EmbeddedOf
<1>9. BackfillOnItsWay'
  <2>1. corpus \cap docs' = corpus \cap docs
    BY <1>1 DEF TypeOK
  <2> QED  BY <1>1, <1>3, <2>1 DEF BackfillOnItsWay
<1> QED  BY <1>5, <1>6, <1>7, <1>8, <1>9

\* The two ways to a new plan.
LEMMA ReplanSteps ==
  ASSUME StartInv,
         \/ \E p \in replans : FinishReplan(p)
         \/ \E d \in Docs : IngestDocument(d)
  PROVE  StartInv'
<1> USE DEF StartInv
<1>1. \A d \in NewIds : d \in Docs \ used
  BY StartupAssumption DEF NewIds
<1>2. ASSUME NEW p \in replans, FinishReplan(p)
      PROVE  StartInv'
  <2>1. /\ proc.pc = "serving" /\ replans' = replans \ {p}
        /\ UNCHANGED <<proc, ending, torn, cut, corpus>>
    BY <1>2 DEF FinishReplan, history
  <2>2. CASE UNCHANGED <<store, used>>
    <3>1. TypeOK'
      BY <2>1, <2>2 DEF TypeOK, store
    <3>2. IndexSound' /\ TableMatchesState'
      BY <2>1, <2>2, RowsDecide DEF IndexSound, TableMatchesState, store
    <3>3. FreshModel' /\ QueuedSinceSeeding' /\ RebuildStages' /\ BackfillOnItsWay'
      BY <2>1, <2>2
         DEF FreshModel, QueuedSinceSeeding, AfterSeeding, RebuildStages, BackfillOnItsWay, store
    <3> QED  BY <3>1, <3>2, <3>3
  <2>3. CASE ~UNCHANGED <<store, used>>
    <3>1. PICK d \in IF p[1] \in docs THEN {p[1]} ELSE NewIds \cup {e \in docs : p[1] < e} :
            ReplacePending(d, p[2])
      BY <1>2, <2>3 DEF FinishReplan
    <3>2. d \in Docs /\ (d \in docs \/ d \notin used) /\ p[2] \in models
      BY <1>1, <3>1 DEF TypeOK
    <3> QED  BY <2>1, <3>1, <3>2, ReplacePendingStep
  <2> QED  BY <2>2, <2>3
<1>3. ASSUME NEW d \in Docs, IngestDocument(d)
      PROVE  StartInv'
  <2>1. /\ proc.pc = "serving" /\ ReplacePending(d, proc.model)
        /\ d \in docs \/ d \notin used
        /\ UNCHANGED <<proc, ending, replans, torn, cut, corpus>>
    BY <1>1, <1>3 DEF IngestDocument, history
  <2>2. proc.model \in models
    BY <2>1 DEF RebuildStages
  <2> QED  BY <2>1, <2>2, ReplacePendingStep
<1> QED  BY <1>2, <1>3

\* Stale rows leave the index and get their jobs.
LEMMA MarkStaleStep ==
  ASSUME StartInv, NEW d \in Docs, MarkStale(d)
  PROVE  StartInv'
<1> USE DEF StartInv
<1>1. /\ proc.pc = "serving"
      /\ rows' = [k \in DOMAIN rows |-> IF k[1] = d THEN "pending" ELSE rows[k]]
      /\ table' = [table EXCEPT !.rows = {k \in @ : k[1] # d}]
      /\ jobs' = jobs \cup {Pair(k) : k \in {j \in DOMAIN rows : rows'[j] = "pending"}}
      /\ UNCHANGED <<docs, models, state, proc, torn, cut, corpus, used, ending, replans>>
  BY DEF MarkStale, history, work
<1>2. /\ table'.rows = {k \in table.rows : k[1] # d}
      /\ table'.exists = table.exists /\ table'.dims = table.dims
      /\ table' \in [exists : BOOLEAN, dims : Nat, rows : SUBSET DOMAIN rows]
  BY <1>1 DEF TypeOK
<1>3. /\ DOMAIN rows' = DOMAIN rows /\ rows' \in [DOMAIN rows' -> {"pending", "embedded"}]
      /\ RowsWith("embedded")' = {k \in RowsWith("embedded") : k[1] # d}
  BY <1>1 DEF TypeOK, RowsWith
<1>4. TypeOK'
  <2>1. jobs' \subseteq Docs \X Models
    <3>1. \A k \in DOMAIN rows : Pair(k) \in Docs \X Models
      BY RowKeys DEF Pair, TypeOK
    <3> QED  BY <1>1, <3>1 DEF TypeOK
  <2>2. table' \in [exists : BOOLEAN, dims : Nat, rows : SUBSET DOMAIN rows']
    BY <1>2, <1>3
  <2>3. DOMAIN rows' \subseteq UNION {RowsOf(docs, m) : m \in models}
    BY <1>3 DEF TypeOK
  <2>4. /\ docs' \subseteq Docs /\ models' \subseteq Models
        /\ state' \in models' \cup {0} /\ torn' \in BOOLEAN
        /\ cut' \subseteq models'
        /\ docs' \cup corpus' \subseteq used' /\ used' \subseteq Docs
        /\ ending' \subseteq Docs \X Models /\ replans' \subseteq Docs \X models'
        /\ DOMAIN rows' \subseteq UNION {RowsOf(docs', m) : m \in models'}
    <3>1. UNCHANGED <<docs, models, state, torn, cut, corpus, used, ending, replans>>
      BY <1>1
    <3> QED  BY <2>3, <3>1 DEF TypeOK
  <2>5. proc' \in [pc : Pcs, model : Models, todo : SUBSET RowsOf(docs', proc'.model)]
    BY <1>1 DEF TypeOK
  <2>6. rows' \in [DOMAIN rows' -> {"pending", "embedded"}]
    BY <1>3
  <2> QED  BY <2>1, <2>2, <2>4, <2>5, <2>6 DEF TypeOK
<1>5. IndexSound'
  BY <1>2, <1>3 DEF IndexSound
<1>6. FreshModel' /\ RebuildStages' /\ BackfillOnItsWay' /\ QueuedSinceSeeding'
  BY <1>1, <1>2, <1>3
     DEF FreshModel, RebuildStages, BackfillOnItsWay, QueuedSinceSeeding, AfterSeeding
<1>7. TableMatchesState'
  BY <1>1, <1>2, <1>3 DEF TableMatchesState, EmbeddedOf
<1> QED  BY <1>4, <1>5, <1>6, <1>7

\* A crash keeps the tables and is remembered where it cut a job in two.
LEMMA CrashStep ==
  ASSUME StartInv, Crash
  PROVE  StartInv'
<1> USE DEF StartInv
<1>1. /\ UNCHANGED <<docs, models, rows, jobs, table, state, used, corpus>>
      /\ ending' = {} /\ replans' = {}
      /\ torn' = (torn \/ proc.pc \in {"create", "record", "fill"})
      /\ cut' = IF proc.pc = "backfill" THEN cut \cup {proc.model} ELSE cut
      /\ proc'.pc = "down" /\ proc'.model = proc.model /\ proc'.todo = {}
      /\ proc' \in [pc : Pcs, model : Models, todo : SUBSET RowsOf(docs, proc'.model)]
  BY DEF Crash, store, TypeOK, Pcs
<1>2. TypeOK'
  BY <1>1 DEF TypeOK, RebuildStages
<1>3. IndexSound' /\ TableMatchesState'
  BY <1>1, RowsDecide DEF IndexSound, TableMatchesState
<1>4. FreshModel' /\ RebuildStages' /\ QueuedSinceSeeding' /\ BackfillOnItsWay'
  BY <1>1 DEF FreshModel, RebuildStages, QueuedSinceSeeding, AfterSeeding, BackfillOnItsWay
<1> QED  BY <1>2, <1>3, <1>4

\* Every step of the reconciliation and of serving keeps it.
LEMMA StartNext == ASSUME StartInv, Next  PROVE StartInv'
<1>1. (\E m \in Models : Boot(m)) /\ StartInv => StartInv'
  BY CounterSteps
<1>2. (FindModel \/ CheckIndex) /\ StartInv => StartInv'
  BY CounterSteps, StartupAssumption
<1> QED
  <2>1. Serve => StartInv'
    <3>1. jobs \subseteq Docs \X Models /\ ending \subseteq Docs \X Models
      BY DEF StartInv, TypeOK
    <3>2. (\E p \in jobs : Handle(p)) \/ (\E p \in ending : CompleteJob(p)) => StartInv'
      BY <3>1, JobSteps, EmbedPairStep, DropDocumentStep DEF Handle
    <3> QED  BY <3>2, ReplanSteps, MarkStaleStep DEF Serve
  <2> QED
    BY <1>1, <1>2, <2>1, InsertModelStep, BackfillStep, SeedStep, RebuildSteps, FillStep,
       CrashStep
       DEF Next, StartupStep, Reconcile

\* And so does everything that leaves the tables and the process alone.
LEMMA StartFrame ==
  ASSUME StartInv, UNCHANGED <<store, proc, work, torn, cut, corpus>>
  PROVE  StartInv'
<1> USE DEF store, work
<1>1. TypeOK'
  BY DEF StartInv, TypeOK
<1>2. IndexSound' /\ TableMatchesState' /\ QueuedSinceSeeding'
  BY RowsDecide DEF StartInv, IndexSound, TableMatchesState, QueuedSinceSeeding
<1>3. FreshModel' /\ RebuildStages' /\ BackfillOnItsWay'
  BY DEF StartInv, FreshModel, RebuildStages, BackfillOnItsWay
<1> QED  BY <1>1, <1>2, <1>3 DEF StartInv

\* The invariant holds in every behaviour of the reconciliation by itself.
LEMMA StartInvariant == Spec => []StartInv
<1>1. StartInv /\ UNCHANGED vars => StartInv'
  BY StartFrame DEF vars, store, work
<1> QED  BY <1>1, StartNext, StartInit, PTL DEF Spec

-----------------------------------------------------------------------------
(* The migrations: the database between two statements of the scripts.     *)

OldNames == {"job_queue_old", "embedding_models_old", "document_embeddings_old",
             "embedding_search_state_old"}
TableNames == {"documents", "embedding_models", "document_embeddings", "job_queue",
               "embedding_search_state"}
AllTables == TableNames \cup OldNames
AllIndexes == {"idx_embeddings_unique", "idx_embeddings_document",
               "idx_embeddings_model_state", "idx_job_queue_unique",
               "idx_embedding_models_identity_unique"}

\* Statement m of script w is behind a run that is about to do statement n of v.
Done(v, n, w, m) == v > w \/ (v = w /\ n > m)

\* Statement m of script w is behind it, and statement l is not.
Between(v, n, w, m, l) == Done(v, n, w, m) /\ ~Done(v, n, w, l)

\* The tables there are ...
Present(t, v, n) ==
  CASE t = "documents" -> Done(v, n, 2, 1)
    [] t = "embedding_models" -> Done(v, n, 2, 2) /\ ~Between(v, n, 6, 1, 7)
    [] t = "document_embeddings" -> Done(v, n, 2, 3) /\ ~Between(v, n, 6, 2, 9)
    [] t = "job_queue" -> Done(v, n, 3, 1) /\ ~Between(v, n, 4, 1, 2)
    [] t = "embedding_search_state" -> Done(v, n, 5, 1) /\ ~Between(v, n, 6, 3, 13)
    [] t = "job_queue_old" -> Between(v, n, 4, 1, 4)
    [] t = "embedding_models_old" -> Between(v, n, 6, 1, 19)
    [] t = "document_embeddings_old" -> Between(v, n, 6, 2, 18)
    [] t = "embedding_search_state_old" -> Between(v, n, 6, 3, 17)

\* ... the versions that defined them ...
ShapeAt(t, v, n) ==
  CASE t = "documents" -> IF Done(v, n, 7, 1) THEN 7 ELSE 2
    [] t = "embedding_models" -> IF Done(v, n, 6, 7) THEN 6 ELSE 2
    [] t = "document_embeddings" -> IF Done(v, n, 6, 9) THEN 6 ELSE 2
    [] t = "job_queue" -> IF Done(v, n, 4, 2) THEN 4 ELSE 3
    [] t = "embedding_search_state" -> IF Done(v, n, 6, 13) THEN 6 ELSE 5
    [] t = "job_queue_old" -> 3
    [] t = "embedding_search_state_old" -> 5
    [] OTHER -> 2

\* ... which tables they refer to ...
OldReferences(t) ==
  CASE t \in {"document_embeddings", "document_embeddings_old"} ->
         {<<1, "documents">>, <<2, "embedding_models_old">>}
    [] t \in {"embedding_search_state", "embedding_search_state_old"} ->
         {<<2, "embedding_models_old">>}
    [] OTHER -> {}

RefersToOld(t, v, n) ==
  \/ t \in OldNames
  \/ t = "document_embeddings" /\ Between(v, n, 6, 1, 9)
  \/ t = "embedding_search_state" /\ Between(v, n, 6, 1, 13)

ParentsAt(t, v, n) == IF RefersToOld(t, v, n) THEN OldReferences(t) ELSE References(t)

\* ... and what they hold: nothing until the rows are copied.
Kept(t) == IF t \in DOMAIN held THEN held[t] ELSE {}

RowsAt(t, v, n) ==
  CASE t = "documents" -> Kept("documents")
    [] t = "embedding_models" ->
         IF Between(v, n, 6, 7, 14) THEN {} ELSE Kept("embedding_models")
    [] t = "document_embeddings" ->
         IF Between(v, n, 6, 9, 15) THEN {} ELSE Kept("document_embeddings")
    [] t = "embedding_search_state" ->
         IF Between(v, n, 6, 13, 16) THEN {} ELSE Kept("embedding_search_state")
    [] t = "job_queue" -> IF Between(v, n, 4, 2, 3) THEN {} ELSE Kept("job_queue")
    [] t = "job_queue_old" -> Kept("job_queue")
    [] t = "embedding_models_old" -> Kept("embedding_models")
    [] t = "document_embeddings_old" -> Kept("document_embeddings")
    [] t = "embedding_search_state_old" -> Kept("embedding_search_state")

TableAt(t, v, n) ==
  [shape |-> ShapeAt(t, v, n), parents |-> ParentsAt(t, v, n), rows |-> RowsAt(t, v, n)]

\* The indexes, and the tables they are on.
IndexPresent(i, v, n) ==
  CASE i = "idx_embeddings_unique" -> Done(v, n, 2, 4) /\ ~Between(v, n, 6, 4, 10)
    [] i = "idx_embeddings_document" -> Done(v, n, 2, 5) /\ ~Between(v, n, 6, 5, 11)
    [] i = "idx_embeddings_model_state" -> Done(v, n, 2, 6) /\ ~Between(v, n, 6, 6, 12)
    [] i = "idx_job_queue_unique" -> Done(v, n, 3, 2) /\ ~Between(v, n, 4, 4, 5)
    [] i = "idx_embedding_models_identity_unique" -> Done(v, n, 6, 8)

IndexTable(i, v, n) ==
  CASE i = "idx_job_queue_unique" ->
         IF Between(v, n, 4, 1, 5) THEN "job_queue_old" ELSE "job_queue"
    [] i = "idx_embedding_models_identity_unique" -> "embedding_models"
    [] OTHER -> IF Between(v, n, 6, 2, 7) THEN "document_embeddings_old"
                                         ELSE "document_embeddings"

DbAt(v, n, vs) ==
  [tables |-> [t \in {x \in AllTables : Present(x, v, n)} |-> TableAt(t, v, n)],
   indexes |-> [i \in {x \in AllIndexes : IndexPresent(x, v, n)} |-> IndexTable(i, v, n)],
   versions |-> vs]

-----------------------------------------------------------------------------
(* What the statements do to it.                                            *)

SameTable(x, v, n) ==
  /\ Present(x, v, n + 1) <=> Present(x, v, n)
  /\ Present(x, v, n) => TableAt(x, v, n + 1) = TableAt(x, v, n)

SameIndex(i, v, n) ==
  /\ IndexPresent(i, v, n + 1) <=> IndexPresent(i, v, n)
  /\ IndexPresent(i, v, n) => IndexTable(i, v, n + 1) = IndexTable(i, v, n)

AddsTable(t, v, n) ==
  /\ t \in AllTables /\ ~Present(t, v, n) /\ Present(t, v, n + 1)
  /\ ShapeAt(t, v, n + 1) = v /\ ParentsAt(t, v, n + 1) = References(t)
  /\ RowsAt(t, v, n + 1) = {}
  /\ \A x \in AllTables \ {t} : SameTable(x, v, n)
  /\ \A i \in AllIndexes : SameIndex(i, v, n)

AddsIndex(j, t, v, n) ==
  /\ j \in AllIndexes /\ ~IndexPresent(j, v, n) /\ IndexPresent(j, v, n + 1)
  /\ IndexTable(j, v, n + 1) = t
  /\ \A x \in AllTables : SameTable(x, v, n)
  /\ \A i \in AllIndexes \ {j} : SameIndex(i, v, n)

DropsIndex(j, v, n) ==
  /\ j \in AllIndexes /\ ~IndexPresent(j, v, n + 1)
  /\ \A x \in AllTables : SameTable(x, v, n)
  /\ \A i \in AllIndexes \ {j} : SameIndex(i, v, n)

CopiesRows(u, t, v, n) ==
  /\ t \in AllTables /\ Present(t, v, n) /\ Present(t, v, n + 1)
  /\ u \in AllTables /\ Present(u, v, n)
  /\ ShapeAt(t, v, n + 1) = ShapeAt(t, v, n) /\ ParentsAt(t, v, n + 1) = ParentsAt(t, v, n)
  /\ RowsAt(t, v, n + 1) = RowsAt(t, v, n) \cup RowsAt(u, v, n)
  /\ \A x \in AllTables \ {t} : SameTable(x, v, n)
  /\ \A i \in AllIndexes : SameIndex(i, v, n)

DropsTable(t, v, n) ==
  /\ t \in AllTables /\ Present(t, v, n) /\ ~Present(t, v, n + 1)
  /\ \A x \in AllTables \ {t} : SameTable(x, v, n)
  /\ \A x \in AllTables \ {t} : Present(x, v, n) => \A p \in ParentsAt(x, v, n) : p[2] # t
  /\ \A i \in AllIndexes :
       /\ IndexPresent(i, v, n + 1) <=> IndexPresent(i, v, n) /\ IndexTable(i, v, n) # t
       /\ IndexPresent(i, v, n + 1) => IndexTable(i, v, n + 1) = IndexTable(i, v, n)

Moved(x, t, u) == IF x = t THEN u ELSE x

RenamesTable(t, u, v, n) ==
  /\ t \in AllTables /\ u \in AllTables /\ t # u
  /\ Present(t, v, n) /\ ~Present(u, v, n) /\ ~Present(t, v, n + 1) /\ Present(u, v, n + 1)
  /\ \A x \in AllTables \ {t, u} : Present(x, v, n + 1) <=> Present(x, v, n)
  /\ \A x \in AllTables : Present(x, v, n + 1) =>
       /\ ShapeAt(x, v, n + 1) = ShapeAt(Moved(x, u, t), v, n)
       /\ RowsAt(x, v, n + 1) = RowsAt(Moved(x, u, t), v, n)
       /\ ParentsAt(x, v, n + 1) =
            {<<p[1], Moved(p[2], t, u)>> : p \in ParentsAt(Moved(x, u, t), v, n)}
  /\ \A i \in AllIndexes :
       /\ IndexPresent(i, v, n + 1) <=> IndexPresent(i, v, n)
       /\ IndexPresent(i, v, n) => IndexTable(i, v, n + 1) = Moved(IndexTable(i, v, n), t, u)

AddsColumns(t, v, n) ==
  /\ t \in AllTables /\ Present(t, v, n) /\ Present(t, v, n + 1)
  /\ ShapeAt(t, v, n + 1) = v /\ ParentsAt(t, v, n + 1) = ParentsAt(t, v, n)
  /\ RowsAt(t, v, n + 1) = RowsAt(t, v, n)
  /\ \A x \in AllTables \ {t} : SameTable(x, v, n)
  /\ \A i \in AllIndexes : SameIndex(i, v, n)

\* The parts.
LEMMA DbParts ==
  ASSUME NEW v, NEW n, NEW vs
  PROVE  LET d == DbAt(v, n, vs) IN
         /\ d.versions = vs /\ d = [tables |-> d.tables, indexes |-> d.indexes, versions |-> vs]
         /\ DOMAIN d.tables = {x \in AllTables : Present(x, v, n)}
         /\ \A x \in DOMAIN d.tables : d.tables[x] = TableAt(x, v, n)
         /\ DOMAIN d.indexes = {x \in AllIndexes : IndexPresent(x, v, n)}
         /\ \A i \in DOMAIN d.indexes : d.indexes[i] = IndexTable(i, v, n)
BY DEF DbAt

IsFunction(f) == f = [x \in DOMAIN f |-> f[x]]

\* A database is known by its parts.
LEMMA DbKnown ==
  ASSUME NEW v, NEW n, NEW vs, NEW T, NEW I,
         IsFunction(T), IsFunction(I),
         DOMAIN T = {x \in AllTables : Present(x, v, n)},
         \A x \in DOMAIN T : T[x] = TableAt(x, v, n),
         DOMAIN I = {x \in AllIndexes : IndexPresent(x, v, n)},
         \A i \in DOMAIN I : I[i] = IndexTable(i, v, n)
  PROVE  [tables |-> T, indexes |-> I, versions |-> vs] = DbAt(v, n, vs)
<1>1. T = [t \in {x \in AllTables : Present(x, v, n)} |-> TableAt(t, v, n)]
  BY DEF IsFunction
<1>2. I = [i \in {x \in AllIndexes : IndexPresent(x, v, n)} |-> IndexTable(i, v, n)]
  BY DEF IsFunction
<1> QED
  BY <1>1, <1>2 DEF DbAt

\* Parts of a database replaced.
LEMMA DbReplace ==
  ASSUME NEW A, NEW B, NEW vs, NEW T, NEW I,
         NEW d, d = [tables |-> A, indexes |-> B, versions |-> vs]
  PROVE  /\ [d EXCEPT !.tables = T] = [tables |-> T, indexes |-> B, versions |-> vs]
         /\ [d EXCEPT !.indexes = I] = [tables |-> A, indexes |-> I, versions |-> vs]
<1> DEFINE e == [tables |-> A, indexes |-> B, versions |-> vs]
<1>1. [e EXCEPT !.tables = T] = [tables |-> T, indexes |-> B, versions |-> vs]
  OBVIOUS
<1>2. [e EXCEPT !.indexes = I] = [tables |-> A, indexes |-> I, versions |-> vs]
  OBVIOUS
<1> QED
  BY <1>1, <1>2, Zenon

\* CREATE TABLE.
LEMMA CreateAt ==
  ASSUME NEW v, NEW n, NEW vs, NEW t, AddsTable(t, v, n)
  PROVE  [DbAt(v, n, vs) EXCEPT !.tables = Extended(@, t, EmptyTable(t, v))]
           = DbAt(v, n + 1, vs)
<1> DEFINE d == DbAt(v, n, vs)
           T == Extended(d.tables, t, EmptyTable(t, v))
           I == d.indexes
<1>1. [d EXCEPT !.tables = T] = [tables |-> T, indexes |-> I, versions |-> vs]
  <2>1. d = [tables |-> d.tables, indexes |-> I, versions |-> vs]
    BY DbParts
  <2> HIDE DEF d, T, I
  <2> QED
    BY <2>1, DbReplace
<1>2. /\ DOMAIN T = DOMAIN d.tables \cup {t} /\ IsFunction(T) /\ IsFunction(I)
      /\ \A x \in DOMAIN T : T[x] = IF x \in DOMAIN d.tables THEN d.tables[x]
                                                             ELSE EmptyTable(t, v)
  BY DEF Extended, IsFunction, DbAt
<1>3. /\ DOMAIN d.tables = {x \in AllTables : Present(x, v, n)}
      /\ \A x \in DOMAIN d.tables : d.tables[x] = TableAt(x, v, n)
      /\ DOMAIN I = {x \in AllIndexes : IndexPresent(x, v, n)}
      /\ \A i \in DOMAIN I : I[i] = IndexTable(i, v, n)
  BY DbParts
<1> HIDE DEF d, T, I
<1>4. DOMAIN T = {x \in AllTables : Present(x, v, n + 1)}
  BY <1>2, <1>3 DEF AddsTable, SameTable
<1>5. \A x \in DOMAIN T : T[x] = TableAt(x, v, n + 1)
  <2>1. TableAt(t, v, n + 1) = EmptyTable(t, v)
    BY DEF AddsTable, TableAt, EmptyTable
  <2> QED
    BY <1>2, <1>3, <2>1 DEF AddsTable, SameTable
<1>6. DOMAIN I = {x \in AllIndexes : IndexPresent(x, v, n + 1)}
  BY <1>3 DEF AddsTable, SameIndex
<1>7. \A i \in DOMAIN I : I[i] = IndexTable(i, v, n + 1)
  BY <1>3 DEF AddsTable, SameIndex
<1>8. [tables |-> T, indexes |-> I, versions |-> vs] = DbAt(v, n + 1, vs)
  BY <1>2, <1>4, <1>5, <1>6, <1>7, DbKnown
<1> QED
  BY <1>1, <1>8, Zenon DEF d, T

\* Parts of a table replaced.
LEMMA TableReplace ==
  ASSUME NEW A, NEW B, NEW C, NEW r, r = [shape |-> A, parents |-> B, rows |-> C], NEW X
  PROVE  /\ [r EXCEPT !.shape = X] = [shape |-> X, parents |-> B, rows |-> C]
         /\ [r EXCEPT !.parents = X] = [shape |-> A, parents |-> X, rows |-> C]
         /\ [r EXCEPT !.rows = X] = [shape |-> A, parents |-> B, rows |-> X]
<1> DEFINE e == [shape |-> A, parents |-> B, rows |-> C]
<1>1. [e EXCEPT !.shape = X] = [shape |-> X, parents |-> B, rows |-> C]
  OBVIOUS
<1>2. [e EXCEPT !.parents = X] = [shape |-> A, parents |-> X, rows |-> C]
  OBVIOUS
<1>3. [e EXCEPT !.rows = X] = [shape |-> A, parents |-> B, rows |-> X]
  OBVIOUS
<1> QED
  BY <1>1, <1>2, <1>3, Zenon

\* CREATE INDEX.
LEMMA IndexAt ==
  ASSUME NEW v, NEW n, NEW vs, NEW j, NEW t, AddsIndex(j, t, v, n)
  PROVE  [DbAt(v, n, vs) EXCEPT !.indexes = Extended(@, j, t)] = DbAt(v, n + 1, vs)
<1> DEFINE d == DbAt(v, n, vs)
           T == d.tables
           I == Extended(d.indexes, j, t)
<1>1. [d EXCEPT !.indexes = I] = [tables |-> T, indexes |-> I, versions |-> vs]
  <2>1. d = [tables |-> T, indexes |-> d.indexes, versions |-> vs]
    BY DbParts
  <2> HIDE DEF d, T, I
  <2> QED
    BY <2>1, DbReplace
<1>2. /\ DOMAIN I = DOMAIN d.indexes \cup {j} /\ IsFunction(T) /\ IsFunction(I)
      /\ \A x \in DOMAIN I : I[x] = IF x \in DOMAIN d.indexes THEN d.indexes[x] ELSE t
  BY DEF Extended, IsFunction, DbAt
<1>3. /\ DOMAIN T = {x \in AllTables : Present(x, v, n)}
      /\ \A x \in DOMAIN T : T[x] = TableAt(x, v, n)
      /\ DOMAIN d.indexes = {x \in AllIndexes : IndexPresent(x, v, n)}
      /\ \A i \in DOMAIN d.indexes : d.indexes[i] = IndexTable(i, v, n)
  BY DbParts
<1> HIDE DEF d, T, I
<1>4. DOMAIN T = {x \in AllTables : Present(x, v, n + 1)}
  BY <1>3 DEF AddsIndex, SameTable
<1>5. \A x \in DOMAIN T : T[x] = TableAt(x, v, n + 1)
  BY <1>3 DEF AddsIndex, SameTable
<1>6. DOMAIN I = {x \in AllIndexes : IndexPresent(x, v, n + 1)}
  BY <1>2, <1>3 DEF AddsIndex, SameIndex
<1>7. \A i \in DOMAIN I : I[i] = IndexTable(i, v, n + 1)
  BY <1>2, <1>3 DEF AddsIndex, SameIndex
<1>8. [tables |-> T, indexes |-> I, versions |-> vs] = DbAt(v, n + 1, vs)
  BY <1>2, <1>4, <1>5, <1>6, <1>7, DbKnown
<1> QED
  BY <1>1, <1>8, Zenon DEF d, I

\* DROP INDEX.
LEMMA DropIndexAt ==
  ASSUME NEW v, NEW n, NEW vs, NEW j, DropsIndex(j, v, n)
  PROVE  IndexDropped(DbAt(v, n, vs), j) = DbAt(v, n + 1, vs)
<1> DEFINE d == DbAt(v, n, vs)
           T == d.tables
           I == [i \in DOMAIN d.indexes \ {j} |-> d.indexes[i]]
<1>1. IndexDropped(d, j) = [tables |-> T, indexes |-> I, versions |-> vs]
  <2>1. d = [tables |-> T, indexes |-> d.indexes, versions |-> vs]
    BY DbParts
  <2>2. IndexDropped(d, j) = [d EXCEPT !.indexes = I]
    <3> HIDE DEF d
    <3> QED
      BY Zenon DEF IndexDropped
  <2> HIDE DEF d, T, I
  <2> QED
    BY <2>1, <2>2, DbReplace
<1>2. /\ DOMAIN I = DOMAIN d.indexes \ {j} /\ IsFunction(T) /\ IsFunction(I)
      /\ \A x \in DOMAIN I : I[x] = d.indexes[x]
  BY DEF IsFunction, DbAt
<1>3. /\ DOMAIN T = {x \in AllTables : Present(x, v, n)}
      /\ \A x \in DOMAIN T : T[x] = TableAt(x, v, n)
      /\ DOMAIN d.indexes = {x \in AllIndexes : IndexPresent(x, v, n)}
      /\ \A i \in DOMAIN d.indexes : d.indexes[i] = IndexTable(i, v, n)
  BY DbParts
<1> HIDE DEF d, T, I
<1>4. DOMAIN T = {x \in AllTables : Present(x, v, n + 1)}
  BY <1>3 DEF DropsIndex, SameTable
<1>5. \A x \in DOMAIN T : T[x] = TableAt(x, v, n + 1)
  BY <1>3 DEF DropsIndex, SameTable
<1>6. DOMAIN I = {x \in AllIndexes : IndexPresent(x, v, n + 1)}
  BY <1>2, <1>3 DEF DropsIndex, SameIndex
<1>7. \A i \in DOMAIN I : I[i] = IndexTable(i, v, n + 1)
  BY <1>2, <1>3 DEF DropsIndex, SameIndex
<1>8. [tables |-> T, indexes |-> I, versions |-> vs] = DbAt(v, n + 1, vs)
  BY <1>2, <1>4, <1>5, <1>6, <1>7, DbKnown
<1> QED
  BY <1>1, <1>8, Zenon DEF d

\* INSERT INTO ... SELECT.
LEMMA CopyAt ==
  ASSUME NEW v, NEW n, NEW vs, NEW u, NEW t, CopiesRows(u, t, v, n)
  PROVE  Copied(DbAt(v, n, vs), u, t) = DbAt(v, n + 1, vs)
<1> DEFINE d == DbAt(v, n, vs)
           T == [d.tables EXCEPT ![t] = [d.tables[t] EXCEPT !.rows = @ \cup d.tables[u].rows]]
           I == d.indexes
<1>1. [d EXCEPT !.tables = T] = [tables |-> T, indexes |-> I, versions |-> vs]
  <2>1. d = [tables |-> d.tables, indexes |-> I, versions |-> vs]
    BY DbParts
  <2> HIDE DEF d, T, I
  <2> QED
    BY <2>1, DbReplace
<1>2. /\ DOMAIN T = DOMAIN d.tables /\ IsFunction(T) /\ IsFunction(I)
      /\ \A x \in DOMAIN T \ {t} : T[x] = d.tables[x]
  BY DEF IsFunction, DbAt
<1>3. /\ DOMAIN d.tables = {x \in AllTables : Present(x, v, n)}
      /\ \A x \in DOMAIN d.tables : d.tables[x] = TableAt(x, v, n)
      /\ DOMAIN I = {x \in AllIndexes : IndexPresent(x, v, n)}
      /\ \A i \in DOMAIN I : I[i] = IndexTable(i, v, n)
  BY DbParts
<1>4. t \in DOMAIN d.tables /\ u \in DOMAIN d.tables
  BY <1>3 DEF CopiesRows
<1>5. T[t] = TableAt(t, v, n + 1)
  <2> DEFINE r == d.tables[t]
             R == RowsAt(t, v, n) \cup RowsAt(u, v, n)
  <2>1. r = [shape |-> ShapeAt(t, v, n), parents |-> ParentsAt(t, v, n),
             rows |-> RowsAt(t, v, n)]
    BY <1>3, <1>4 DEF TableAt
  <2>2. r.rows = RowsAt(t, v, n) /\ d.tables[u].rows = RowsAt(u, v, n)
    <3>1. r = TableAt(t, v, n) /\ d.tables[u] = TableAt(u, v, n)
      BY <1>3, <1>4
    <3>2. \A x : TableAt(x, v, n).rows = RowsAt(x, v, n)
      BY DEF TableAt
    <3> QED
      BY <3>1, <3>2, Zenon
  <2>3. T[t] = [r EXCEPT !.rows = r.rows \cup d.tables[u].rows]
    BY <1>4
  <2>4. T[t] = [r EXCEPT !.rows = R]
    BY <2>2, <2>3, Zenon
  <2> HIDE DEF d, r, T, R
  <2>5. T[t] = [shape |-> ShapeAt(t, v, n), parents |-> ParentsAt(t, v, n), rows |-> R]
    BY <2>1, <2>4, TableReplace
  <2> QED
    BY <2>5 DEF CopiesRows, TableAt, R
<1>6. Copied(d, u, t) = [d EXCEPT !.tables = T]
  <2> HIDE DEF d
  <2> QED
    BY DEF Copied
<1> HIDE DEF d, T, I
<1>7. DOMAIN T = {x \in AllTables : Present(x, v, n + 1)}
  BY <1>2, <1>3 DEF CopiesRows, SameTable
<1>8. \A x \in DOMAIN T : T[x] = TableAt(x, v, n + 1)
  BY <1>2, <1>3, <1>5 DEF CopiesRows, SameTable
<1>9. DOMAIN I = {x \in AllIndexes : IndexPresent(x, v, n + 1)}
  BY <1>2, <1>3 DEF CopiesRows, SameIndex
<1>10. \A i \in DOMAIN I : I[i] = IndexTable(i, v, n + 1)
  BY <1>2, <1>3 DEF CopiesRows, SameIndex
<1>11. [tables |-> T, indexes |-> I, versions |-> vs] = DbAt(v, n + 1, vs)
  BY <1>2, <1>7, <1>8, <1>9, <1>10, DbKnown
<1> QED
  BY <1>1, <1>6, <1>11, Zenon DEF d

\* ALTER TABLE ... ADD COLUMN.
LEMMA AddColumnsAt ==
  ASSUME NEW v, NEW n, NEW vs, NEW t, AddsColumns(t, v, n)
  PROVE  [DbAt(v, n, vs) EXCEPT !.tables[t].shape = v] = DbAt(v, n + 1, vs)
<1> DEFINE d == DbAt(v, n, vs)
           T == [d.tables EXCEPT ![t] = [d.tables[t] EXCEPT !.shape = v]]
           I == d.indexes
<1>1. [d EXCEPT !.tables = T] = [tables |-> T, indexes |-> I, versions |-> vs]
  <2>1. d = [tables |-> d.tables, indexes |-> I, versions |-> vs]
    BY DbParts
  <2> HIDE DEF d, T, I
  <2> QED
    BY <2>1, DbReplace
<1>2. /\ DOMAIN T = DOMAIN d.tables /\ IsFunction(T) /\ IsFunction(I)
      /\ \A x \in DOMAIN T \ {t} : T[x] = d.tables[x]
  BY DEF IsFunction, DbAt
<1>3. /\ DOMAIN d.tables = {x \in AllTables : Present(x, v, n)}
      /\ \A x \in DOMAIN d.tables : d.tables[x] = TableAt(x, v, n)
      /\ DOMAIN I = {x \in AllIndexes : IndexPresent(x, v, n)}
      /\ \A i \in DOMAIN I : I[i] = IndexTable(i, v, n)
  BY DbParts
<1>4. t \in DOMAIN d.tables
  BY <1>3 DEF AddsColumns
<1>5. T[t] = TableAt(t, v, n + 1)
  <2> DEFINE r == d.tables[t]
  <2>1. r = [shape |-> ShapeAt(t, v, n), parents |-> ParentsAt(t, v, n),
             rows |-> RowsAt(t, v, n)]
    BY <1>3, <1>4 DEF TableAt
  <2>2. T[t] = [r EXCEPT !.shape = v]
    BY <1>4
  <2> HIDE DEF d, r, T
  <2>3. T[t] = [shape |-> v, parents |-> ParentsAt(t, v, n), rows |-> RowsAt(t, v, n)]
    BY <2>1, <2>2, TableReplace
  <2> QED
    BY <2>3 DEF AddsColumns, TableAt
<1>6. [d EXCEPT !.tables[t].shape = v] = [d EXCEPT !.tables = T]
  <2> HIDE DEF d
  <2> QED
    OBVIOUS
<1> HIDE DEF d, T, I
<1>7. DOMAIN T = {x \in AllTables : Present(x, v, n + 1)}
  BY <1>2, <1>3 DEF AddsColumns, SameTable
<1>8. \A x \in DOMAIN T : T[x] = TableAt(x, v, n + 1)
  BY <1>2, <1>3, <1>5 DEF AddsColumns, SameTable
<1>9. DOMAIN I = {x \in AllIndexes : IndexPresent(x, v, n + 1)}
  BY <1>2, <1>3 DEF AddsColumns, SameIndex
<1>10. \A i \in DOMAIN I : I[i] = IndexTable(i, v, n + 1)
  BY <1>2, <1>3 DEF AddsColumns, SameIndex
<1>11. [tables |-> T, indexes |-> I, versions |-> vs] = DbAt(v, n + 1, vs)
  BY <1>2, <1>7, <1>8, <1>9, <1>10, DbKnown
<1> QED
  BY <1>1, <1>6, <1>11, Zenon DEF d

\* DROP TABLE.
LEMMA DropTableAt ==
  ASSUME NEW v, NEW n, NEW vs, NEW t, DropsTable(t, v, n)
  PROVE  Dropped(DbAt(v, n, vs), t) = DbAt(v, n + 1, vs)
<1> DEFINE d == DbAt(v, n, vs)
           kept(x) == {r \in d.tables[x].rows :
                         \A p \in d.tables[x].parents :
                           p[2] = t => \A q \in d.tables[t].rows : q[1] # r[p[1]]}
           T == [x \in DOMAIN d.tables \ {t} |-> [d.tables[x] EXCEPT !.rows = kept(x)]]
           I == [i \in {j \in DOMAIN d.indexes : d.indexes[j] # t} |-> d.indexes[i]]
<1>1. Dropped(d, t) = [tables |-> T, indexes |-> I, versions |-> vs]
  <2>1. d.versions = vs
    BY DbParts
  <2> HIDE DEF d
  <2>2. Dropped(d, t) = [tables |-> T, indexes |-> I, versions |-> d.versions]
    BY Zenon DEF Dropped
  <2> QED
    BY <2>1, <2>2, Zenon
<1>2. /\ DOMAIN T = DOMAIN d.tables \ {t} /\ IsFunction(T) /\ IsFunction(I)
      /\ DOMAIN I = {j \in DOMAIN d.indexes : d.indexes[j] # t}
      /\ \A i \in DOMAIN I : I[i] = d.indexes[i]
  BY DEF IsFunction
<1>3. /\ DOMAIN d.tables = {x \in AllTables : Present(x, v, n)}
      /\ \A x \in DOMAIN d.tables : d.tables[x] = TableAt(x, v, n)
      /\ DOMAIN d.indexes = {x \in AllIndexes : IndexPresent(x, v, n)}
      /\ \A i \in DOMAIN d.indexes : d.indexes[i] = IndexTable(i, v, n)
  BY DbParts
<1>4. ASSUME NEW x \in DOMAIN T
      PROVE  T[x] = TableAt(x, v, n + 1)
  <2> DEFINE r == d.tables[x]
  <2>1. x \in AllTables \ {t} /\ Present(x, v, n) /\ x \in DOMAIN d.tables
    BY <1>2, <1>3, <1>4
  <2>2. r = TableAt(x, v, n)
    BY <1>3, <2>1
  <2>3. r.parents = ParentsAt(x, v, n) /\ r.rows = RowsAt(x, v, n)
    <3>1. TableAt(x, v, n).parents = ParentsAt(x, v, n) /\ TableAt(x, v, n).rows = RowsAt(x, v, n)
      BY DEF TableAt
    <3> QED
      BY <2>2, <3>1, Zenon
  <2>4. \A p \in r.parents : p[2] # t
    BY <2>1, <2>3 DEF DropsTable
  <2>5. kept(x) = RowsAt(x, v, n)
    BY <2>3, <2>4
  <2>6. T[x] = [r EXCEPT !.rows = kept(x)]
    BY <1>2, <1>4
  <2> HIDE DEF d, r, T, kept
  <2>7. T[x] = [r EXCEPT !.rows = RowsAt(x, v, n)]
    BY <2>5, <2>6, Zenon
  <2>8. T[x] = TableAt(x, v, n)
    BY <2>2, <2>7, TableReplace DEF TableAt
  <2> QED
    BY <2>1, <2>8 DEF DropsTable, SameTable
<1> HIDE DEF d, T, I
<1>5. DOMAIN T = {x \in AllTables : Present(x, v, n + 1)}
  BY <1>2, <1>3 DEF DropsTable, SameTable
<1>6. DOMAIN I = {x \in AllIndexes : IndexPresent(x, v, n + 1)}
  BY <1>2, <1>3 DEF DropsTable
<1>7. \A i \in DOMAIN I : I[i] = IndexTable(i, v, n + 1)
  BY <1>2, <1>3, <1>6 DEF DropsTable
<1>8. [tables |-> T, indexes |-> I, versions |-> vs] = DbAt(v, n + 1, vs)
  BY <1>2, <1>4, <1>5, <1>6, <1>7, DbKnown
<1> QED
  BY <1>1, <1>8, Zenon DEF d

\* ALTER TABLE ... RENAME TO.
LEMMA RenameAt ==
  ASSUME NEW v, NEW n, NEW vs, NEW t, NEW u, RenamesTable(t, u, v, n)
  PROVE  Renamed(DbAt(v, n, vs), t, u) = DbAt(v, n + 1, vs)
<1> DEFINE d == DbAt(v, n, vs)
           T == [x \in {Moved(k, t, u) : k \in DOMAIN d.tables} |->
                   [d.tables[Moved(x, u, t)] EXCEPT
                      !.parents = {<<p[1], Moved(p[2], t, u)>> : p \in @}]]
           I == [i \in DOMAIN d.indexes |-> Moved(d.indexes[i], t, u)]
<1>1. Renamed(d, t, u) = [tables |-> T, indexes |-> I, versions |-> vs]
  <2>1. d.versions = vs
    BY DbParts
  <2> HIDE DEF d
  <2>2. Renamed(d, t, u) = [tables |-> T, indexes |-> I, versions |-> d.versions]
    BY Zenon DEF Renamed, Moved
  <2> QED
    BY <2>1, <2>2, Zenon
<1>2. /\ DOMAIN T = {Moved(k, t, u) : k \in DOMAIN d.tables} /\ IsFunction(T) /\ IsFunction(I)
      /\ DOMAIN I = DOMAIN d.indexes
      /\ \A i \in DOMAIN I : I[i] = Moved(d.indexes[i], t, u)
  BY DEF IsFunction
<1>3. /\ DOMAIN d.tables = {x \in AllTables : Present(x, v, n)}
      /\ \A x \in DOMAIN d.tables : d.tables[x] = TableAt(x, v, n)
      /\ DOMAIN d.indexes = {x \in AllIndexes : IndexPresent(x, v, n)}
      /\ \A i \in DOMAIN d.indexes : d.indexes[i] = IndexTable(i, v, n)
  BY DbParts
<1>4. DOMAIN T = {x \in AllTables : Present(x, v, n + 1)}
  <2> HIDE DEF d, T
  <2>1. \A x : x \in DOMAIN T <=> x = u \/ (x \in DOMAIN d.tables /\ x # t)
    BY <1>2, <1>3 DEF RenamesTable, Moved
  <2> QED
    BY <1>3, <2>1 DEF RenamesTable
<1>5. ASSUME NEW x \in DOMAIN T
      PROVE  T[x] = TableAt(x, v, n + 1)
  <2> DEFINE y == Moved(x, u, t)
             r == d.tables[y]
             P == {<<p[1], Moved(p[2], t, u)>> : p \in ParentsAt(y, v, n)}
  <2>1. x \in AllTables /\ Present(x, v, n + 1) /\ y \in AllTables /\ Present(y, v, n)
    BY <1>4, <1>5 DEF RenamesTable, Moved
  <2>2. r = TableAt(y, v, n)
    BY <1>3, <2>1
  <2>3. r.parents = ParentsAt(y, v, n)
    <3>1. TableAt(y, v, n).parents = ParentsAt(y, v, n)
      BY DEF TableAt
    <3> QED
      BY <2>2, <3>1, Zenon
  <2>4. T[x] = [r EXCEPT !.parents = {<<p[1], Moved(p[2], t, u)>> : p \in r.parents}]
    BY <1>2, <1>5
  <2> HIDE DEF d, r, T, y
  <2>5. T[x] = [r EXCEPT !.parents = P]
    BY <2>3, <2>4, Zenon
  <2>6. /\ ShapeAt(x, v, n + 1) = ShapeAt(y, v, n) /\ RowsAt(x, v, n + 1) = RowsAt(y, v, n)
        /\ ParentsAt(x, v, n + 1) = P
    BY <2>1 DEF RenamesTable, y
  <2> HIDE DEF P
  <2>7. T[x] = [shape |-> ShapeAt(y, v, n), parents |-> P, rows |-> RowsAt(y, v, n)]
    BY <2>2, <2>5, TableReplace DEF TableAt
  <2> QED
    BY <2>6, <2>7 DEF TableAt
<1> HIDE DEF d, T, I
<1>6. DOMAIN I = {x \in AllIndexes : IndexPresent(x, v, n + 1)}
  BY <1>2, <1>3 DEF RenamesTable
<1>7. \A i \in DOMAIN I : I[i] = IndexTable(i, v, n + 1)
  BY <1>2, <1>3 DEF RenamesTable
<1>8. [tables |-> T, indexes |-> I, versions |-> vs] = DbAt(v, n + 1, vs)
  BY <1>2, <1>4, <1>5, <1>6, <1>7, DbKnown
<1> QED
  BY <1>1, <1>8, Zenon DEF d

-----------------------------------------------------------------------------
(* What each script does to it.                                             *)

RunsAt(s, v, n) == \A vs : Effect(DbAt(v, n, vs), s, v) = DbAt(v, n + 1, vs)

\* A statement that makes the difference between two positions runs from one to
\* the other.
LEMMA StatementRuns ==
  ASSUME NEW v, NEW n, NEW t, NEW u, NEW i, NEW shape
  PROVE  /\ AddsTable(t, v, n) => RunsAt(Create(t), v, n) /\ RunsAt(CreateIfAbsent(t), v, n)
         /\ AddsIndex(i, t, v, n) => RunsAt(Index(i, t), v, n) /\ RunsAt(IndexIfAbsent(i, t), v, n)
         /\ DropsIndex(i, v, n) => RunsAt(DropIndex(i), v, n)
         /\ CopiesRows(u, t, v, n) => RunsAt(Copy(u, t, shape), v, n)
         /\ DropsTable(t, v, n) => RunsAt(Drop(t), v, n)
         /\ RenamesTable(t, u, v, n) => RunsAt(Rename(t, u), v, n)
         /\ AddsColumns(t, v, n) => RunsAt(AddColumns(t), v, n)
<1>1. \A d : Effect(d, Create(t), v) = [d EXCEPT !.tables = Extended(@, t, EmptyTable(t, v))]
  BY DEF Effect, Create
<1>2. \A d : Effect(d, CreateIfAbsent(t), v) = [d EXCEPT !.tables = Extended(@, t, EmptyTable(t, v))]
  BY DEF Effect, CreateIfAbsent
<1>3. \A d : Effect(d, Index(i, t), v) = [d EXCEPT !.indexes = Extended(@, i, t)]
  BY DEF Effect, Index
<1>4. \A d : Effect(d, IndexIfAbsent(i, t), v) = [d EXCEPT !.indexes = Extended(@, i, t)]
  BY DEF Effect, IndexIfAbsent
<1>5. \A d : Effect(d, DropIndex(i), v) = IndexDropped(d, i)
  BY DEF Effect, DropIndex
<1>6. \A d : Effect(d, Copy(u, t, shape), v) = Copied(d, u, t)
  BY DEF Effect, Copy
<1>7. \A d : Effect(d, Drop(t), v) = Dropped(d, t)
  BY DEF Effect, Drop
<1>8. \A d : Effect(d, Rename(t, u), v) = Renamed(d, t, u)
  BY DEF Effect, Rename
<1>9. ASSUME NEW vs, AddsColumns(t, v, n)
      PROVE  Effect(DbAt(v, n, vs), AddColumns(t), v) = DbAt(v, n + 1, vs)
  <2>1. Effect(DbAt(v, n, vs), AddColumns(t), v)
          = [DbAt(v, n, vs) EXCEPT !.tables[t].shape = v]
    BY DEF Effect, AddColumns
  <2>2. [DbAt(v, n, vs) EXCEPT !.tables[t].shape = v] = DbAt(v, n + 1, vs)
    BY <1>9, AddColumnsAt
  <2> QED
    BY <2>1, <2>2, Zenon
<1>10. AddsTable(t, v, n) => RunsAt(Create(t), v, n) /\ RunsAt(CreateIfAbsent(t), v, n)
  BY <1>1, <1>2, CreateAt DEF RunsAt
<1>11. AddsIndex(i, t, v, n) => RunsAt(Index(i, t), v, n) /\ RunsAt(IndexIfAbsent(i, t), v, n)
  BY <1>3, <1>4, IndexAt DEF RunsAt
<1>12. DropsIndex(i, v, n) => RunsAt(DropIndex(i), v, n)
  BY <1>5, DropIndexAt DEF RunsAt
<1>13. CopiesRows(u, t, v, n) => RunsAt(Copy(u, t, shape), v, n)
  BY <1>6, CopyAt DEF RunsAt
<1>14. DropsTable(t, v, n) => RunsAt(Drop(t), v, n)
  BY <1>7, DropTableAt DEF RunsAt
<1>15. RenamesTable(t, u, v, n) => RunsAt(Rename(t, u), v, n)
  BY <1>8, RenameAt DEF RunsAt
<1>16. AddsColumns(t, v, n) => RunsAt(AddColumns(t), v, n)
  BY <1>9 DEF RunsAt
<1> QED
  BY <1>10, <1>11, <1>12, <1>13, <1>14, <1>15, <1>16

\* What the old database held is there before script v runs.
HeldBefore(v) == \A t \in DOMAIN held : t \in TableNames /\ Present(t, v, 1)

\* A table that only script v creates held nothing.
LEMMA NothingKept ==
  ASSUME NEW v, HeldBefore(v), NEW t, ~Present(t, v, 1)
  PROVE  Kept(t) = {}
BY DEF HeldBefore, Kept

\* The tables that are referred to.
LEMMA Referred ==
  ASSUME NEW t
  PROVE  /\ \A p \in References(t) : p[2] \in {"documents", "embedding_models"}
         /\ \A p \in OldReferences(t) : p[2] \in {"documents", "embedding_models_old"}
BY DEF References, OldReferences

\* Migration 2, create_domain_tables: CREATE ... IF NOT EXISTS makes every object.
LEMMA Script2 ==
  ASSUME HeldBefore(2)
  PROVE  \A n \in 1..6 : RunsAt(Migration[2][n], 2, n)
<1> USE DEF SameTable, SameIndex, AllTables, TableNames, OldNames, AllIndexes, TableAt, Present,
            ShapeAt, ParentsAt, RefersToOld, RowsAt, IndexPresent, IndexTable, Between, Done
<1>0. \A t \in AllTables : ~Present(t, 2, 1) => Kept(t) = {}
  BY NothingKept
<1>1. AddsTable("documents", 2, 1)
  BY <1>0 DEF AddsTable
<1>2. AddsTable("embedding_models", 2, 2)
  BY <1>0 DEF AddsTable
<1>3. AddsTable("document_embeddings", 2, 3)
  BY <1>0 DEF AddsTable
<1>4. AddsIndex("idx_embeddings_unique", "document_embeddings", 2, 4)
  BY DEF AddsIndex
<1>5. AddsIndex("idx_embeddings_document", "document_embeddings", 2, 5)
  BY DEF AddsIndex
<1>6. AddsIndex("idx_embeddings_model_state", "document_embeddings", 2, 6)
  BY DEF AddsIndex
<1> HIDE DEF SameTable, SameIndex, AllTables, TableNames, OldNames, AllIndexes, TableAt, Present,
            ShapeAt, ParentsAt, RefersToOld, RowsAt, IndexPresent, IndexTable, Between, Done
<1>7. /\ RunsAt(CreateIfAbsent("documents"), 2, 1)
      /\ RunsAt(CreateIfAbsent("embedding_models"), 2, 2)
      /\ RunsAt(CreateIfAbsent("document_embeddings"), 2, 3)
      /\ RunsAt(IndexIfAbsent("idx_embeddings_unique", "document_embeddings"), 2, 4)
      /\ RunsAt(IndexIfAbsent("idx_embeddings_document", "document_embeddings"), 2, 5)
      /\ RunsAt(IndexIfAbsent("idx_embeddings_model_state", "document_embeddings"), 2, 6)
  BY <1>1, <1>2, <1>3, <1>4, <1>5, <1>6, StatementRuns
<1> QED
  BY <1>7 DEF Migration, CreateDomainTables

\* Migration 3, create_job_queue.
LEMMA Script3 ==
  ASSUME HeldBefore(3)
  PROVE  \A n \in 1..2 : RunsAt(Migration[3][n], 3, n)
<1> USE DEF SameTable, SameIndex, AllTables, TableNames, OldNames, AllIndexes, TableAt, Present,
            ShapeAt, ParentsAt, RefersToOld, RowsAt, IndexPresent, IndexTable, Between, Done
<1>0. \A t \in AllTables : ~Present(t, 3, 1) => Kept(t) = {}
  BY NothingKept
<1>1. AddsTable("job_queue", 3, 1)
  BY <1>0 DEF AddsTable
<1>2. AddsIndex("idx_job_queue_unique", "job_queue", 3, 2)
  BY DEF AddsIndex
<1> HIDE DEF SameTable, SameIndex, AllTables, TableNames, OldNames, AllIndexes, TableAt, Present,
            ShapeAt, ParentsAt, RefersToOld, RowsAt, IndexPresent, IndexTable, Between, Done
<1>3. /\ RunsAt(CreateIfAbsent("job_queue"), 3, 1)
      /\ RunsAt(IndexIfAbsent("idx_job_queue_unique", "job_queue"), 3, 2)
  BY <1>1, <1>2, StatementRuns
<1> QED
  BY <1>3 DEF Migration, CreateJobQueue

\* Migration 4 rebuilds job_queue: rename, create, copy, drop, index.
LEMMA Script4 ==
  \A n \in 1..5 : RunsAt(Migration[4][n], 4, n)
<1> USE DEF SameTable, SameIndex, AllTables, TableNames, OldNames, AllIndexes, TableAt, Present,
            ShapeAt, ParentsAt, RefersToOld, RowsAt, IndexPresent, IndexTable, Between, Done
<1>1. RenamesTable("job_queue", "job_queue_old", 4, 1)
  BY DEF RenamesTable, Moved, References, OldReferences
<1>2. AddsTable("job_queue", 4, 2)
  BY DEF AddsTable
<1>3. CopiesRows("job_queue_old", "job_queue", 4, 3)
  BY DEF CopiesRows
<1>4. DropsTable("job_queue_old", 4, 4)
  <2>1. \A x \in AllTables \ {"job_queue_old"} : SameTable(x, 4, 4)
    OBVIOUS
  <2>2. \A i \in AllIndexes : IndexPresent(i, 4, 5) <=> IndexPresent(i, 4, 4) /\ IndexTable(i, 4, 4) # "job_queue_old"
    <3>1. \A i \in AllIndexes : IndexTable(i, 4, 4) = "job_queue_old" <=> i = "idx_job_queue_unique"
      OBVIOUS
    <3>2. \A i \in AllIndexes : IndexPresent(i, 4, 5) <=> IndexPresent(i, 4, 4) /\ i # "idx_job_queue_unique"
      <4>1. ~IndexPresent("idx_job_queue_unique", 4, 5)
        OBVIOUS
      <4>2. \A i \in AllIndexes \ {"idx_job_queue_unique"} : IndexPresent(i, 4, 5) <=> IndexPresent(i, 4, 4)
        OBVIOUS
      <4> HIDE DEF IndexPresent
      <4> QED
        BY <4>1, <4>2
    <3> HIDE DEF IndexPresent, IndexTable
    <3> QED
      BY <3>1, <3>2
  <2>3. \A i \in AllIndexes : IndexPresent(i, 4, 5) => IndexTable(i, 4, 5) = IndexTable(i, 4, 4)
    OBVIOUS
  <2>4. "job_queue_old" \in AllTables /\ Present("job_queue_old", 4, 4) /\ ~Present("job_queue_old", 4, 5)
    OBVIOUS
  <2>5. \A x : ParentsAt(x, 4, 4) \in {References(x), OldReferences(x)}
    OBVIOUS
  <2> HIDE DEF SameTable, SameIndex, AllTables, TableNames, OldNames, AllIndexes, TableAt, Present,
              ShapeAt, ParentsAt, RefersToOld, RowsAt, IndexPresent, IndexTable, Between, Done
  <2>6. \A x \in AllTables \ {"job_queue_old"} : Present(x, 4, 4) => \A p \in ParentsAt(x, 4, 4) : p[2] # "job_queue_old"
    BY <2>5, Referred
  <2> QED
    BY <2>1, <2>2, <2>3, <2>4, <2>6 DEF DropsTable
<1>5. AddsIndex("idx_job_queue_unique", "job_queue", 4, 5)
  BY DEF AddsIndex
<1> HIDE DEF SameTable, SameIndex, AllTables, TableNames, OldNames, AllIndexes, TableAt, Present,
            ShapeAt, ParentsAt, RefersToOld, RowsAt, IndexPresent, IndexTable, Between, Done
<1>6. /\ RunsAt(Rename("job_queue", "job_queue_old"), 4, 1)
      /\ RunsAt(Create("job_queue"), 4, 2)
      /\ RunsAt(Copy("job_queue_old", "job_queue", 3), 4, 3)
      /\ RunsAt(Drop("job_queue_old"), 4, 4)
      /\ RunsAt(Index("idx_job_queue_unique", "job_queue"), 4, 5)
  BY <1>1, <1>2, <1>3, <1>4, <1>5, StatementRuns
<1> QED
  BY <1>6 DEF Migration, SimplifyJobQueueClaim

\* Migration 5 creates embedding_search_state.
LEMMA Script5 ==
  ASSUME HeldBefore(5)
  PROVE  \A n \in 1..1 : RunsAt(Migration[5][n], 5, n)
<1> USE DEF SameTable, SameIndex, AllTables, TableNames, OldNames, AllIndexes, TableAt, Present,
            ShapeAt, ParentsAt, RefersToOld, RowsAt, IndexPresent, IndexTable, Between, Done
<1>0. \A t \in AllTables : ~Present(t, 5, 1) => Kept(t) = {}
  BY NothingKept
<1>1. AddsTable("embedding_search_state", 5, 1)
  BY <1>0 DEF AddsTable
<1> HIDE DEF SameTable, SameIndex, AllTables, TableNames, OldNames, AllIndexes, TableAt, Present,
            ShapeAt, ParentsAt, RefersToOld, RowsAt, IndexPresent, IndexTable, Between, Done
<1>2. RunsAt(Create("embedding_search_state"), 5, 1)
  BY <1>1, StatementRuns
<1> QED
  BY <1>2 DEF Migration

\* Migration 6 rebuilds the three tables of the embedding models; the copies come
\* before the drops, and the drops in an order in which nothing cascades.
LEMMA Script6 ==
  \A n \in 1..19 : RunsAt(Migration[6][n], 6, n)
<1> USE DEF SameTable, SameIndex, AllTables, TableNames, OldNames, AllIndexes, TableAt, Present,
            ShapeAt, ParentsAt, RefersToOld, RowsAt, IndexPresent, IndexTable, Between, Done
<1>1. RenamesTable("embedding_models", "embedding_models_old", 6, 1)
  BY DEF RenamesTable, Moved, References, OldReferences
<1>2. RenamesTable("document_embeddings", "document_embeddings_old", 6, 2)
  BY DEF RenamesTable, Moved, References, OldReferences
<1>3. RenamesTable("embedding_search_state", "embedding_search_state_old", 6, 3)
  BY DEF RenamesTable, Moved, References, OldReferences
<1>4. DropsIndex("idx_embeddings_unique", 6, 4)
  BY DEF DropsIndex
<1>5. DropsIndex("idx_embeddings_document", 6, 5)
  BY DEF DropsIndex
<1>6. DropsIndex("idx_embeddings_model_state", 6, 6)
  BY DEF DropsIndex
<1>7. AddsTable("embedding_models", 6, 7)
  BY DEF AddsTable
<1>8. AddsIndex("idx_embedding_models_identity_unique", "embedding_models", 6, 8)
  BY DEF AddsIndex
<1>9. AddsTable("document_embeddings", 6, 9)
  <2>1. \A x \in AllTables \ {"document_embeddings"} : SameTable(x, 6, 9)
    <3> SUFFICES ASSUME NEW x \in AllTables \ {"document_embeddings"} PROVE SameTable(x, 6, 9)
      OBVIOUS
    <3>1. Present(x, 6, 10) <=> Present(x, 6, 9)
      OBVIOUS
    <3>2. Present(x, 6, 9) => ShapeAt(x, 6, 10) = ShapeAt(x, 6, 9)
      OBVIOUS
    <3>3. Present(x, 6, 9) => ParentsAt(x, 6, 10) = ParentsAt(x, 6, 9)
      OBVIOUS
    <3>4. Present(x, 6, 9) => RowsAt(x, 6, 10) = RowsAt(x, 6, 9)
      OBVIOUS
    <3> HIDE DEF Present, ShapeAt, ParentsAt, RowsAt
    <3> QED
      BY <3>1, <3>2, <3>3, <3>4
  <2>2. \A i \in AllIndexes : SameIndex(i, 6, 9)
    OBVIOUS
  <2>3. "document_embeddings" \in AllTables /\ ~Present("document_embeddings", 6, 9) /\ Present("document_embeddings", 6, 10)
    OBVIOUS
  <2>4. ShapeAt("document_embeddings", 6, 10) = 6 /\ ParentsAt("document_embeddings", 6, 10) = References("document_embeddings")
    OBVIOUS
  <2>5. RowsAt("document_embeddings", 6, 10) = {}
    OBVIOUS
  <2> HIDE DEF SameTable, SameIndex, AllTables, TableNames, OldNames, AllIndexes, TableAt, Present,
              ShapeAt, ParentsAt, RefersToOld, RowsAt, IndexPresent, IndexTable, Between, Done
  <2> QED
    BY <2>1, <2>2, <2>3, <2>4, <2>5 DEF AddsTable
<1>10. AddsIndex("idx_embeddings_unique", "document_embeddings", 6, 10)
  BY DEF AddsIndex
<1>11. AddsIndex("idx_embeddings_document", "document_embeddings", 6, 11)
  BY DEF AddsIndex
<1>12. AddsIndex("idx_embeddings_model_state", "document_embeddings", 6, 12)
  BY DEF AddsIndex
<1>13. AddsTable("embedding_search_state", 6, 13)
  <2>1. \A x \in AllTables \ {"embedding_search_state"} : SameTable(x, 6, 13)
    <3> SUFFICES ASSUME NEW x \in AllTables \ {"embedding_search_state"} PROVE SameTable(x, 6, 13)
      OBVIOUS
    <3>1. Present(x, 6, 14) <=> Present(x, 6, 13)
      OBVIOUS
    <3>2. Present(x, 6, 13) => ShapeAt(x, 6, 14) = ShapeAt(x, 6, 13)
      OBVIOUS
    <3>3. Present(x, 6, 13) => ParentsAt(x, 6, 14) = ParentsAt(x, 6, 13)
      OBVIOUS
    <3>4. Present(x, 6, 13) => RowsAt(x, 6, 14) = RowsAt(x, 6, 13)
      OBVIOUS
    <3> HIDE DEF Present, ShapeAt, ParentsAt, RowsAt
    <3> QED
      BY <3>1, <3>2, <3>3, <3>4
  <2>2. \A i \in AllIndexes : SameIndex(i, 6, 13)
    OBVIOUS
  <2>3. "embedding_search_state" \in AllTables /\ ~Present("embedding_search_state", 6, 13) /\ Present("embedding_search_state", 6, 14)
    OBVIOUS
  <2>4. ShapeAt("embedding_search_state", 6, 14) = 6 /\ ParentsAt("embedding_search_state", 6, 14) = References("embedding_search_state")
    OBVIOUS
  <2>5. RowsAt("embedding_search_state", 6, 14) = {}
    OBVIOUS
  <2> HIDE DEF SameTable, SameIndex, AllTables, TableNames, OldNames, AllIndexes, TableAt, Present,
              ShapeAt, ParentsAt, RefersToOld, RowsAt, IndexPresent, IndexTable, Between, Done
  <2> QED
    BY <2>1, <2>2, <2>3, <2>4, <2>5 DEF AddsTable
<1>14. CopiesRows("embedding_models_old", "embedding_models", 6, 14)
  BY DEF CopiesRows
<1>15. CopiesRows("document_embeddings_old", "document_embeddings", 6, 15)
  BY DEF CopiesRows
<1>16. CopiesRows("embedding_search_state_old", "embedding_search_state", 6, 16)
  BY DEF CopiesRows
<1>17. DropsTable("embedding_search_state_old", 6, 17)
  <2>1. \A x \in AllTables \ {"embedding_search_state_old"} : SameTable(x, 6, 17)
    OBVIOUS
  <2>2. \A i \in AllIndexes : IndexPresent(i, 6, 18) <=> IndexPresent(i, 6, 17) /\ IndexTable(i, 6, 17) # "embedding_search_state_old"
    <3>1. \A i \in AllIndexes : IndexTable(i, 6, 17) # "embedding_search_state_old"
      OBVIOUS
    <3>2. \A i \in AllIndexes : IndexPresent(i, 6, 18) <=> IndexPresent(i, 6, 17)
      OBVIOUS
    <3> HIDE DEF IndexPresent, IndexTable
    <3> QED
      BY <3>1, <3>2
  <2>3. \A i \in AllIndexes : IndexPresent(i, 6, 18) => IndexTable(i, 6, 18) = IndexTable(i, 6, 17)
    OBVIOUS
  <2>4. "embedding_search_state_old" \in AllTables /\ Present("embedding_search_state_old", 6, 17) /\ ~Present("embedding_search_state_old", 6, 18)
    OBVIOUS
  <2>5. \A x : ParentsAt(x, 6, 17) \in {References(x), OldReferences(x)}
    OBVIOUS
  <2> HIDE DEF SameTable, SameIndex, AllTables, TableNames, OldNames, AllIndexes, TableAt, Present,
              ShapeAt, ParentsAt, RefersToOld, RowsAt, IndexPresent, IndexTable, Between, Done
  <2>6. \A x \in AllTables \ {"embedding_search_state_old"} : Present(x, 6, 17) => \A p \in ParentsAt(x, 6, 17) : p[2] # "embedding_search_state_old"
    BY <2>5, Referred
  <2> QED
    BY <2>1, <2>2, <2>3, <2>4, <2>6 DEF DropsTable
<1>18. DropsTable("document_embeddings_old", 6, 18)
  <2>1. \A x \in AllTables \ {"document_embeddings_old"} : SameTable(x, 6, 18)
    OBVIOUS
  <2>2. \A i \in AllIndexes : IndexPresent(i, 6, 19) <=> IndexPresent(i, 6, 18) /\ IndexTable(i, 6, 18) # "document_embeddings_old"
    <3>1. \A i \in AllIndexes : IndexTable(i, 6, 18) # "document_embeddings_old"
      OBVIOUS
    <3>2. \A i \in AllIndexes : IndexPresent(i, 6, 19) <=> IndexPresent(i, 6, 18)
      OBVIOUS
    <3> HIDE DEF IndexPresent, IndexTable
    <3> QED
      BY <3>1, <3>2
  <2>3. \A i \in AllIndexes : IndexPresent(i, 6, 19) => IndexTable(i, 6, 19) = IndexTable(i, 6, 18)
    OBVIOUS
  <2>4. "document_embeddings_old" \in AllTables /\ Present("document_embeddings_old", 6, 18) /\ ~Present("document_embeddings_old", 6, 19)
    OBVIOUS
  <2>5. \A x : ParentsAt(x, 6, 18) \in {References(x), OldReferences(x)}
    OBVIOUS
  <2> HIDE DEF SameTable, SameIndex, AllTables, TableNames, OldNames, AllIndexes, TableAt, Present,
              ShapeAt, ParentsAt, RefersToOld, RowsAt, IndexPresent, IndexTable, Between, Done
  <2>6. \A x \in AllTables \ {"document_embeddings_old"} : Present(x, 6, 18) => \A p \in ParentsAt(x, 6, 18) : p[2] # "document_embeddings_old"
    BY <2>5, Referred
  <2> QED
    BY <2>1, <2>2, <2>3, <2>4, <2>6 DEF DropsTable
<1>19. DropsTable("embedding_models_old", 6, 19)
  <2>1. \A x \in AllTables \ {"embedding_models_old"} : SameTable(x, 6, 19)
    OBVIOUS
  <2>2. \A i \in AllIndexes : IndexPresent(i, 6, 20) <=> IndexPresent(i, 6, 19) /\ IndexTable(i, 6, 19) # "embedding_models_old"
    <3>1. \A i \in AllIndexes : IndexTable(i, 6, 19) # "embedding_models_old"
      OBVIOUS
    <3>2. \A i \in AllIndexes : IndexPresent(i, 6, 20) <=> IndexPresent(i, 6, 19)
      OBVIOUS
    <3> HIDE DEF IndexPresent, IndexTable
    <3> QED
      BY <3>1, <3>2
  <2>3. \A i \in AllIndexes : IndexPresent(i, 6, 20) => IndexTable(i, 6, 20) = IndexTable(i, 6, 19)
    OBVIOUS
  <2>4. "embedding_models_old" \in AllTables /\ Present("embedding_models_old", 6, 19) /\ ~Present("embedding_models_old", 6, 20)
    OBVIOUS
  <2>5. \A x \in AllTables \ {"embedding_models_old"} : Present(x, 6, 19) => ParentsAt(x, 6, 19) = References(x)
    <3>1. \A x \in AllTables \ {"embedding_models_old"} : Present(x, 6, 19) => ~RefersToOld(x, 6, 19)
      <4>1. \A x \in OldNames \ {"embedding_models_old"} : ~Present(x, 6, 19)
        <5>1. ~Present("job_queue_old", 6, 19) /\ ~Present("document_embeddings_old", 6, 19)
          OBVIOUS
        <5>2. ~Present("embedding_search_state_old", 6, 19)
          OBVIOUS
        <5> HIDE DEF Present
        <5> QED
          BY <5>1, <5>2
      <4>2. \A x \in TableNames : ~RefersToOld(x, 6, 19)
        <5>1. \A x \in OldNames : x \notin TableNames
          OBVIOUS
        <5>2. ~Between(6, 19, 6, 1, 9) /\ ~Between(6, 19, 6, 1, 13)
          OBVIOUS
        <5> HIDE DEF Between, TableNames, OldNames
        <5> QED
          BY <5>1, <5>2
      <4> HIDE DEF RefersToOld, Present
      <4> QED
        BY <4>1, <4>2
    <3> HIDE DEF RefersToOld, Present
    <3> QED
      BY <3>1
  <2> HIDE DEF SameTable, SameIndex, AllTables, TableNames, OldNames, AllIndexes, TableAt, Present,
              ShapeAt, ParentsAt, RefersToOld, RowsAt, IndexPresent, IndexTable, Between, Done
  <2>6. \A x \in AllTables \ {"embedding_models_old"} : Present(x, 6, 19) => \A p \in ParentsAt(x, 6, 19) : p[2] # "embedding_models_old"
    BY <2>5, Referred
  <2> QED
    BY <2>1, <2>2, <2>3, <2>4, <2>6 DEF DropsTable
<1> HIDE DEF SameTable, SameIndex, AllTables, TableNames, OldNames, AllIndexes, TableAt, Present,
            ShapeAt, ParentsAt, RefersToOld, RowsAt, IndexPresent, IndexTable, Between, Done
<1>20. /\ RunsAt(Rename("embedding_models", "embedding_models_old"), 6, 1)
       /\ RunsAt(Rename("document_embeddings", "document_embeddings_old"), 6, 2)
       /\ RunsAt(Rename("embedding_search_state", "embedding_search_state_old"), 6, 3)
       /\ RunsAt(DropIndex("idx_embeddings_unique"), 6, 4)
       /\ RunsAt(DropIndex("idx_embeddings_document"), 6, 5)
       /\ RunsAt(DropIndex("idx_embeddings_model_state"), 6, 6)
       /\ RunsAt(Create("embedding_models"), 6, 7)
       /\ RunsAt(Index("idx_embedding_models_identity_unique", "embedding_models"), 6, 8)
       /\ RunsAt(Create("document_embeddings"), 6, 9)
       /\ RunsAt(Index("idx_embeddings_unique", "document_embeddings"), 6, 10)
       /\ RunsAt(Index("idx_embeddings_document", "document_embeddings"), 6, 11)
       /\ RunsAt(Index("idx_embeddings_model_state", "document_embeddings"), 6, 12)
       /\ RunsAt(Create("embedding_search_state"), 6, 13)
       /\ RunsAt(Copy("embedding_models_old", "embedding_models", 2), 6, 14)
       /\ RunsAt(Copy("document_embeddings_old", "document_embeddings", 2), 6, 15)
       /\ RunsAt(Copy("embedding_search_state_old", "embedding_search_state", 5), 6, 16)
       /\ RunsAt(Drop("embedding_search_state_old"), 6, 17)
       /\ RunsAt(Drop("document_embeddings_old"), 6, 18)
       /\ RunsAt(Drop("embedding_models_old"), 6, 19)
  BY <1>1, <1>2, <1>3, <1>4, <1>5, <1>6, <1>7, <1>8, <1>9, <1>10, <1>11, <1>12, <1>13, <1>14, <1>15, <1>16, <1>17, <1>18, <1>19, StatementRuns
<1> QED
  BY <1>20 DEF Migration, RebuildModelIdentity

\* Migration 7 adds columns to documents.
LEMMA Script7 ==
  \A n \in 1..1 : RunsAt(Migration[7][n], 7, n)
<1> USE DEF SameTable, SameIndex, AllTables, TableNames, OldNames, AllIndexes, TableAt, Present,
            ShapeAt, ParentsAt, RefersToOld, RowsAt, IndexPresent, IndexTable, Between, Done
<1>1. AddsColumns("documents", 7, 1)
  <2>1. \A x \in AllTables \ {"documents"} : SameTable(x, 7, 1)
    <3> SUFFICES ASSUME NEW x \in AllTables \ {"documents"} PROVE SameTable(x, 7, 1)
      OBVIOUS
    <3>1. Present(x, 7, 2) <=> Present(x, 7, 1)
      OBVIOUS
    <3>2. Present(x, 7, 1) => ShapeAt(x, 7, 2) = ShapeAt(x, 7, 1)
      OBVIOUS
    <3>3. Present(x, 7, 1) => ParentsAt(x, 7, 2) = ParentsAt(x, 7, 1)
      OBVIOUS
    <3>4. Present(x, 7, 1) => RowsAt(x, 7, 2) = RowsAt(x, 7, 1)
      OBVIOUS
    <3> HIDE DEF Present, ShapeAt, ParentsAt, RowsAt
    <3> QED
      BY <3>1, <3>2, <3>3, <3>4
  <2>2. \A i \in AllIndexes : SameIndex(i, 7, 1)
    OBVIOUS
  <2>3. "documents" \in AllTables /\ Present("documents", 7, 1) /\ Present("documents", 7, 2)
    OBVIOUS
  <2>4. ShapeAt("documents", 7, 2) = 7 /\ ParentsAt("documents", 7, 2) = ParentsAt("documents", 7, 1)
    OBVIOUS
  <2>5. RowsAt("documents", 7, 2) = RowsAt("documents", 7, 1)
    OBVIOUS
  <2> HIDE DEF SameTable, SameIndex, AllTables, TableNames, OldNames, AllIndexes, TableAt, Present,
              ShapeAt, ParentsAt, RefersToOld, RowsAt, IndexPresent, IndexTable, Between, Done
  <2> QED
    BY <2>1, <2>2, <2>3, <2>4, <2>5 DEF AddsColumns
<1> HIDE DEF SameTable, SameIndex, AllTables, TableNames, OldNames, AllIndexes, TableAt, Present,
            ShapeAt, ParentsAt, RefersToOld, RowsAt, IndexPresent, IndexTable, Between, Done
<1>2. RunsAt(AddColumns("documents"), 7, 1)
  BY <1>1, StatementRuns
<1> QED
  BY <1>2 DEF Migration

-----------------------------------------------------------------------------
(* Databases between two scripts.                                           *)

\* How long the scripts are.
LEMMA ScriptLengths ==
  /\ Len(Migration) = 7 /\ DOMAIN Migration = 1..7
  /\ Len(Migration[1]) = 0 /\ Len(Migration[2]) = 6 /\ Len(Migration[3]) = 2
  /\ Len(Migration[4]) = 5 /\ Len(Migration[5]) = 1 /\ Len(Migration[6]) = 19
  /\ Len(Migration[7]) = 1
BY DEF Migration, CreateDomainTables, CreateJobQueue, SimplifyJobQueueClaim, RebuildModelIdentity

\* The last of two versions.
LEMMA LastOfTwo ==
  ASSUME NEW a \in Nat, NEW b \in Nat, 0 < a, a < b, NEW k \in Nat
  PROVE  /\ {a, b} \cap 1..k # {} <=> a <= k
         /\ a <= k => Max({a, b} \cap 1..k) = IF b <= k THEN b ELSE a
<1> DEFINE S == {a, b} \cap 1..k
<1>1. S \in SUBSET Nat /\ (\A x \in S : x <= k) /\ (\A x \in S : x = a \/ x = b)
      /\ (a \in S <=> a <= k) /\ (b \in S <=> b <= k)
  OBVIOUS
<1> HIDE DEF S
<1>2. S # {} <=> a <= k
  <2>1. a <= k => a \in S
    BY <1>1
  <2>2. ASSUME NEW x \in S
        PROVE  a <= k
    <3>1. x <= k /\ (x = a \/ x = b)
      BY <1>1
    <3> QED
      BY <3>1
  <2> QED
    BY <2>1, <2>2
<1>3. a <= k => Max(S) \in S /\ \A x \in S : x <= Max(S)
  BY <1>1, <1>2, MaxOfNaturals
<1>4. a <= k => Max(S) = IF b <= k THEN b ELSE a
  <2> SUFFICES ASSUME a <= k
               PROVE  Max(S) = IF b <= k THEN b ELSE a
    OBVIOUS
  <2>1. Max(S) \in S /\ (\A x \in S : x <= Max(S)) /\ (Max(S) = a \/ Max(S) = b)
    BY <1>1, <1>3
  <2>2. CASE b <= k
    <3>1. b \in S /\ b <= Max(S)
      BY <1>1, <2>1, <2>2
    <3> QED
      BY <2>1, <2>2, <3>1
  <2>3. CASE ~(b <= k)
    BY <1>1, <2>1, <2>3
  <2> QED
    BY <2>2, <2>3
<1> QED
  BY <1>2, <1>4 DEF S

\* A build that knew k migrations left the database that is there before script
\* k + 1: its tables,
LEMMA InstalledTables ==
  ASSUME NEW k \in 0..7
  PROVE  /\ TablesBy(k) \subseteq TableNames
         /\ TablesBy(k) = {t \in AllTables : Present(t, k + 1, 1)}
         /\ \A t \in TablesBy(k) :
              /\ Max(DefinedBy[t] \cap 1..k) = ShapeAt(t, k + 1, 1)
              /\ References(t) = ParentsAt(t, k + 1, 1)
              /\ RowsAt(t, k + 1, 1) = Kept(t)
<1>1. /\ DOMAIN DefinedBy = TableNames
      /\ DefinedBy["documents"] = {2, 7} /\ DefinedBy["embedding_models"] = {2, 6}
      /\ DefinedBy["document_embeddings"] = {2, 6} /\ DefinedBy["job_queue"] = {3, 4}
      /\ DefinedBy["embedding_search_state"] = {5, 6}
  BY DEF DefinedBy, TableNames
<1>3. /\ {2, 7} \cap 1..k # {} <=> 2 <= k
      /\ 2 <= k => Max({2, 7} \cap 1..k) = IF 7 <= k THEN 7 ELSE 2
  BY LastOfTwo
<1>4. /\ {2, 6} \cap 1..k # {} <=> 2 <= k
      /\ 2 <= k => Max({2, 6} \cap 1..k) = IF 6 <= k THEN 6 ELSE 2
  BY LastOfTwo
<1>5. /\ {3, 4} \cap 1..k # {} <=> 3 <= k
      /\ 3 <= k => Max({3, 4} \cap 1..k) = IF 4 <= k THEN 4 ELSE 3
  BY LastOfTwo
<1>6. /\ {5, 6} \cap 1..k # {} <=> 5 <= k
      /\ 5 <= k => Max({5, 6} \cap 1..k) = IF 6 <= k THEN 6 ELSE 5
  BY LastOfTwo
<1>7. /\ "documents" \in TablesBy(k) <=> 2 <= k
      /\ "embedding_models" \in TablesBy(k) <=> 2 <= k
      /\ "document_embeddings" \in TablesBy(k) <=> 2 <= k
      /\ "job_queue" \in TablesBy(k) <=> 3 <= k
      /\ "embedding_search_state" \in TablesBy(k) <=> 5 <= k
  BY <1>1, <1>3, <1>4, <1>5, <1>6 DEF TablesBy, TableNames
<1>8. /\ Present("documents", k + 1, 1) <=> 2 <= k
      /\ Present("embedding_models", k + 1, 1) <=> 2 <= k
      /\ Present("document_embeddings", k + 1, 1) <=> 2 <= k
      /\ Present("job_queue", k + 1, 1) <=> 3 <= k
      /\ Present("embedding_search_state", k + 1, 1) <=> 5 <= k
  BY DEF Present, Between, Done
<1>9. \A t \in OldNames : ~Present(t, k + 1, 1)
  <2>1. /\ ~Present("job_queue_old", k + 1, 1) /\ ~Present("embedding_models_old", k + 1, 1)
        /\ ~Present("document_embeddings_old", k + 1, 1)
        /\ ~Present("embedding_search_state_old", k + 1, 1)
    BY DEF Present, Between, Done
  <2> QED
    BY <2>1 DEF OldNames
<1>10. TablesBy(k) \subseteq TableNames
  BY <1>1 DEF TablesBy
<1>11. TablesBy(k) = {t \in AllTables : Present(t, k + 1, 1)}
  BY <1>7, <1>8, <1>9, <1>10 DEF AllTables, TableNames
<1>12. ASSUME NEW t \in TablesBy(k)
       PROVE  /\ Max(DefinedBy[t] \cap 1..k) = ShapeAt(t, k + 1, 1)
              /\ References(t) = ParentsAt(t, k + 1, 1)
              /\ RowsAt(t, k + 1, 1) = Kept(t)
  <2>1. Max(DefinedBy[t] \cap 1..k) = ShapeAt(t, k + 1, 1)
    <3>0. /\ ShapeAt("documents", k + 1, 1) = IF 7 <= k THEN 7 ELSE 2
          /\ ShapeAt("embedding_models", k + 1, 1) = IF 6 <= k THEN 6 ELSE 2
          /\ ShapeAt("document_embeddings", k + 1, 1) = IF 6 <= k THEN 6 ELSE 2
          /\ ShapeAt("job_queue", k + 1, 1) = IF 4 <= k THEN 4 ELSE 3
          /\ ShapeAt("embedding_search_state", k + 1, 1) = IF 6 <= k THEN 6 ELSE 5
      BY DEF ShapeAt, Done
    <3>1. CASE t = "documents"
      BY <1>1, <1>3, <1>7, <1>12, <3>0, <3>1
    <3>2. CASE t = "embedding_models"
      BY <1>1, <1>4, <1>7, <1>12, <3>0, <3>2
    <3>3. CASE t = "document_embeddings"
      BY <1>1, <1>4, <1>7, <1>12, <3>0, <3>3
    <3>4. CASE t = "job_queue"
      BY <1>1, <1>5, <1>7, <1>12, <3>0, <3>4
    <3>5. CASE t = "embedding_search_state"
      BY <1>1, <1>6, <1>7, <1>12, <3>0, <3>5
    <3> QED
      BY <1>10, <1>12, <3>1, <3>2, <3>3, <3>4, <3>5 DEF TableNames
  <2>2. ParentsAt(t, k + 1, 1) = References(t)
    <3>1. ~Between(k + 1, 1, 6, 1, 9) /\ ~Between(k + 1, 1, 6, 1, 13)
      BY DEF Between, Done
    <3>2. t \notin OldNames
      BY <1>9, <1>11, <1>12
    <3> QED
      BY <3>1, <3>2 DEF ParentsAt, RefersToOld
  <2>3. RowsAt(t, k + 1, 1) = Kept(t)
    <3>1. /\ ~Between(k + 1, 1, 6, 7, 14) /\ ~Between(k + 1, 1, 6, 9, 15)
          /\ ~Between(k + 1, 1, 6, 13, 16) /\ ~Between(k + 1, 1, 4, 2, 3)
      BY DEF Between, Done
    <3> QED
      BY <1>10, <1>12, <3>1 DEF RowsAt, TableNames
  <2> QED
    BY <2>1, <2>2, <2>3
<1> QED
  BY <1>10, <1>11, <1>12

\* and its indexes.
LEMMA InstalledIndexes ==
  ASSUME NEW k \in 0..7
  PROVE  /\ IndexesBy(k) = {i \in AllIndexes : IndexPresent(i, k + 1, 1)}
         /\ \A i \in AllIndexes : IndexOn[i] = IndexTable(i, k + 1, 1)
<1>1. /\ DOMAIN IndexOn = AllIndexes
      /\ IndexOn["idx_embeddings_unique"] = "document_embeddings"
      /\ IndexOn["idx_embeddings_document"] = "document_embeddings"
      /\ IndexOn["idx_embeddings_model_state"] = "document_embeddings"
      /\ IndexOn["idx_job_queue_unique"] = "job_queue"
      /\ IndexOn["idx_embedding_models_identity_unique"] = "embedding_models"
  BY DEF IndexOn, AllIndexes
<1>2. /\ "document_embeddings" \in TablesBy(k) <=> 2 <= k
      /\ "job_queue" \in TablesBy(k) <=> 3 <= k
  <2>1. /\ Present("document_embeddings", k + 1, 1) <=> 2 <= k
        /\ Present("job_queue", k + 1, 1) <=> 3 <= k
    BY DEF Present, Between, Done
  <2> QED
    BY <2>1, InstalledTables DEF AllTables, TableNames
<1>3. IndexesBy(k) = {i \in AllIndexes : IndexPresent(i, k + 1, 1)}
  <2>1. /\ "idx_embeddings_unique" \in IndexesBy(k) <=> 2 <= k
        /\ "idx_embeddings_document" \in IndexesBy(k) <=> 2 <= k
        /\ "idx_embeddings_model_state" \in IndexesBy(k) <=> 2 <= k
        /\ "idx_job_queue_unique" \in IndexesBy(k) <=> 3 <= k
        /\ "idx_embedding_models_identity_unique" \in IndexesBy(k) <=> 6 <= k
    BY <1>1, <1>2 DEF IndexesBy, AllIndexes
  <2>2. /\ IndexPresent("idx_embeddings_unique", k + 1, 1) <=> 2 <= k
        /\ IndexPresent("idx_embeddings_document", k + 1, 1) <=> 2 <= k
        /\ IndexPresent("idx_embeddings_model_state", k + 1, 1) <=> 2 <= k
        /\ IndexPresent("idx_job_queue_unique", k + 1, 1) <=> 3 <= k
        /\ IndexPresent("idx_embedding_models_identity_unique", k + 1, 1) <=> 6 <= k
    BY DEF IndexPresent, Between, Done
  <2>3. IndexesBy(k) \subseteq AllIndexes
    BY <1>1 DEF IndexesBy
  <2> QED
    BY <2>1, <2>2, <2>3 DEF AllIndexes
<1>4. ASSUME NEW i \in AllIndexes
      PROVE  IndexOn[i] = IndexTable(i, k + 1, 1)
  <2>1. ~Between(k + 1, 1, 6, 2, 7) /\ ~Between(k + 1, 1, 4, 1, 5)
    BY DEF Between, Done
  <2> QED
    BY <1>1, <2>1 DEF IndexTable, AllIndexes
<1> QED
  BY <1>3, <1>4

\* With the rows that are kept it is that database.
LEMMA InstalledIs ==
  ASSUME NEW k \in 0..7, NEW rowsOf, \A t \in TablesBy(k) : rowsOf[t] = Kept(t)
  PROVE  Installed(k, rowsOf) = DbAt(k + 1, 1, 1..k)
<1> DEFINE T == [t \in TablesBy(k) |->
                   [shape |-> Max(DefinedBy[t] \cap 1..k), parents |-> References(t),
                    rows |-> rowsOf[t]]]
           I == [i \in IndexesBy(k) |-> IndexOn[i]]
<1>1. IsFunction(T) /\ IsFunction(I)
  BY DEF IsFunction
<1>2. DOMAIN T = {t \in AllTables : Present(t, k + 1, 1)}
  BY InstalledTables
<1>3. ASSUME NEW t \in DOMAIN T
      PROVE  T[t] = TableAt(t, k + 1, 1)
  BY InstalledTables DEF TableAt
<1>4. DOMAIN I = {i \in AllIndexes : IndexPresent(i, k + 1, 1)}
  BY InstalledIndexes
<1>5. \A i \in DOMAIN I : I[i] = IndexTable(i, k + 1, 1)
  BY <1>4, InstalledIndexes
<1>6. Installed(k, rowsOf) = [tables |-> T, indexes |-> I, versions |-> 1..k]
  BY DEF Installed
<1> HIDE DEF T, I
<1> QED
  BY <1>1, <1>2, <1>3, <1>4, <1>5, <1>6, DbKnown

\* How many statements script v has.
Length(v) == Len(Migration[v])

\* After its last statement a script has made what the next one starts with.
LEMMA ScriptEnds ==
  ASSUME NEW v \in 1..7, NEW vs
  PROVE  DbAt(v, Length(v) + 1, vs) = DbAt(v + 1, 1, vs)
<1> DEFINE n == Length(v) + 1
<1>1. /\ Length(1) = 0 /\ Length(2) = 6 /\ Length(3) = 2 /\ Length(4) = 5 /\ Length(5) = 1
      /\ Length(6) = 19 /\ Length(7) = 1
  BY ScriptLengths DEF Length
<1>2. \A w \in 1..7, m \in Nat \ {0} : m <= Length(w) => (Done(v, n, w, m) <=> Done(v + 1, 1, w, m))
  <2> SUFFICES ASSUME NEW w \in 1..7, NEW m \in Nat \ {0}, m <= Length(w)
               PROVE  Done(v, n, w, m) <=> Done(v + 1, 1, w, m)
    OBVIOUS
  <2>1. Length(v) \in Nat /\ Length(w) \in Nat
    BY <1>1
  <2>2. CASE w < v
    BY <2>1, <2>2 DEF Done
  <2>3. CASE w = v
    BY <2>1, <2>3 DEF Done
  <2>4. CASE w > v
    BY <2>1, <2>4 DEF Done
  <2> QED
    BY <2>2, <2>3, <2>4
<1> HIDE DEF n
<1>3. /\ Done(v, n, 2, 1) <=> Done(v + 1, 1, 2, 1)
      /\ Done(v, n, 2, 2) <=> Done(v + 1, 1, 2, 2)
      /\ Done(v, n, 2, 3) <=> Done(v + 1, 1, 2, 3)
      /\ Done(v, n, 2, 4) <=> Done(v + 1, 1, 2, 4)
      /\ Done(v, n, 2, 5) <=> Done(v + 1, 1, 2, 5)
      /\ Done(v, n, 2, 6) <=> Done(v + 1, 1, 2, 6)
      /\ Done(v, n, 3, 1) <=> Done(v + 1, 1, 3, 1)
      /\ Done(v, n, 3, 2) <=> Done(v + 1, 1, 3, 2)
      /\ Done(v, n, 5, 1) <=> Done(v + 1, 1, 5, 1)
      /\ Done(v, n, 7, 1) <=> Done(v + 1, 1, 7, 1)
  BY <1>1, <1>2
<1>4. \A m \in Nat \ {0} : m <= 5 => (Done(v, n, 4, m) <=> Done(v + 1, 1, 4, m))
  BY <1>1, <1>2
<1>5. \A m \in Nat \ {0} : m <= 19 => (Done(v, n, 6, m) <=> Done(v + 1, 1, 6, m))
  BY <1>1, <1>2
<1>6. \A m, l \in Nat \ {0} : m <= 5 /\ l <= 5 => (Between(v, n, 4, m, l) <=> Between(v + 1, 1, 4, m, l))
  BY <1>4 DEF Between
<1>7. \A m, l \in Nat \ {0} : m <= 19 /\ l <= 19 => (Between(v, n, 6, m, l) <=> Between(v + 1, 1, 6, m, l))
  BY <1>5 DEF Between
<1>8. ASSUME NEW t \in AllTables
      PROVE  /\ Present(t, v, n) <=> Present(t, v + 1, 1)
             /\ TableAt(t, v, n) = TableAt(t, v + 1, 1)
  <2>1. Present(t, v, n) <=> Present(t, v + 1, 1)
    <3>1. CASE t \in TableNames
      BY <1>3, <1>6, <1>7, <3>1 DEF Present, TableNames
    <3>2. CASE t \in OldNames
      <4>1. Between(v, n, 4, 1, 4) <=> Between(v + 1, 1, 4, 1, 4)
        BY <1>6
      <4>2. /\ Between(v, n, 6, 1, 19) <=> Between(v + 1, 1, 6, 1, 19)
            /\ Between(v, n, 6, 2, 18) <=> Between(v + 1, 1, 6, 2, 18)
            /\ Between(v, n, 6, 3, 17) <=> Between(v + 1, 1, 6, 3, 17)
        BY <1>7
      <4> QED
        BY <3>2, <4>1, <4>2 DEF Present, OldNames
    <3> QED
      BY <3>1, <3>2 DEF AllTables
  <2>2. ShapeAt(t, v, n) = ShapeAt(t, v + 1, 1)
    BY <1>3, <1>4, <1>5 DEF ShapeAt
  <2>3. ParentsAt(t, v, n) = ParentsAt(t, v + 1, 1)
    BY <1>7 DEF ParentsAt, RefersToOld
  <2>4. RowsAt(t, v, n) = RowsAt(t, v + 1, 1)
    BY <1>6, <1>7 DEF RowsAt, AllTables, TableNames, OldNames
  <2> QED
    BY <2>1, <2>2, <2>3, <2>4 DEF TableAt
<1>9. ASSUME NEW i \in AllIndexes
      PROVE  /\ IndexPresent(i, v, n) <=> IndexPresent(i, v + 1, 1)
             /\ IndexTable(i, v, n) = IndexTable(i, v + 1, 1)
  <2>1. IndexPresent(i, v, n) <=> IndexPresent(i, v + 1, 1)
    <3>1. Between(v, n, 4, 4, 5) <=> Between(v + 1, 1, 4, 4, 5)
      BY <1>6
    <3>2. /\ Between(v, n, 6, 4, 10) <=> Between(v + 1, 1, 6, 4, 10)
          /\ Between(v, n, 6, 5, 11) <=> Between(v + 1, 1, 6, 5, 11)
          /\ Between(v, n, 6, 6, 12) <=> Between(v + 1, 1, 6, 6, 12)
      BY <1>7
    <3>3. Done(v, n, 6, 8) <=> Done(v + 1, 1, 6, 8)
      BY <1>5
    <3> QED
      BY <1>3, <3>1, <3>2, <3>3 DEF IndexPresent, AllIndexes
  <2>2. IndexTable(i, v, n) = IndexTable(i, v + 1, 1)
    BY <1>6, <1>7 DEF IndexTable
  <2> QED
    BY <2>1, <2>2
<1>10. DbAt(v, n, vs) = DbAt(v + 1, 1, vs)
  <2> DEFINE d == DbAt(v, n, vs)
  <2>1. d = [tables |-> d.tables, indexes |-> d.indexes, versions |-> vs]
    BY DbParts
  <2>2. IsFunction(d.tables) /\ IsFunction(d.indexes)
    BY DEF IsFunction, DbAt
  <2>3. /\ DOMAIN d.tables = {t \in AllTables : Present(t, v, n)}
        /\ \A t \in DOMAIN d.tables : d.tables[t] = TableAt(t, v, n)
        /\ DOMAIN d.indexes = {i \in AllIndexes : IndexPresent(i, v, n)}
        /\ \A i \in DOMAIN d.indexes : d.indexes[i] = IndexTable(i, v, n)
    BY DbParts
  <2> DEFINE T == d.tables
             I == d.indexes
  <2> HIDE DEF d, T, I
  <2>4. DOMAIN T = {t \in AllTables : Present(t, v + 1, 1)}
    BY <1>8, <2>3 DEF T
  <2>5. \A t \in DOMAIN T : T[t] = TableAt(t, v + 1, 1)
    BY <1>8, <2>3 DEF T
  <2>6. DOMAIN I = {i \in AllIndexes : IndexPresent(i, v + 1, 1)}
    BY <1>9, <2>3 DEF I
  <2>7. \A i \in DOMAIN I : I[i] = IndexTable(i, v + 1, 1)
    BY <1>9, <2>3 DEF I
  <2>8. IsFunction(T) /\ IsFunction(I)
    BY <2>2 DEF T, I
  <2>9. [tables |-> T, indexes |-> I, versions |-> vs] = DbAt(v + 1, 1, vs)
    BY <2>4, <2>5, <2>6, <2>7, <2>8, DbKnown
  <2> QED
    BY <2>1, <2>9, Zenon DEF d, T, I
<1> QED
  BY <1>10 DEF n

\* The tables between two scripts stay with the next one.
LEMMA PresentLater ==
  ASSUME NEW v \in 1..7, HeldBefore(v)
  PROVE  HeldBefore(v + 1)
<1> SUFFICES ASSUME NEW t \in DOMAIN held
             PROVE  Present(t, v + 1, 1)
  BY DEF HeldBefore
<1>1. t \in TableNames /\ Present(t, v, 1)
  BY DEF HeldBefore
<1>2. /\ Done(v, 1, 2, 1) => Done(v + 1, 1, 2, 1)
      /\ Done(v, 1, 2, 2) => Done(v + 1, 1, 2, 2)
      /\ Done(v, 1, 2, 3) => Done(v + 1, 1, 2, 3)
      /\ Done(v, 1, 3, 1) => Done(v + 1, 1, 3, 1)
      /\ Done(v, 1, 5, 1) => Done(v + 1, 1, 5, 1)
  BY DEF Done
<1>3. /\ ~Between(v + 1, 1, 6, 1, 7)
      /\ ~Between(v + 1, 1, 6, 2, 9)
      /\ ~Between(v + 1, 1, 4, 1, 2)
      /\ ~Between(v + 1, 1, 6, 3, 13)
  BY DEF Between, Done
<1>4. CASE t = "documents"
  BY <1>1, <1>2, <1>4 DEF Present
<1>5. CASE t = "embedding_models"
  BY <1>1, <1>2, <1>3, <1>5 DEF Present
<1>6. CASE t = "document_embeddings"
  BY <1>1, <1>2, <1>3, <1>6 DEF Present
<1>7. CASE t = "job_queue"
  BY <1>1, <1>2, <1>3, <1>7 DEF Present
<1>8. CASE t = "embedding_search_state"
  BY <1>1, <1>2, <1>3, <1>8 DEF Present
<1> QED
  BY <1>1, <1>4, <1>5, <1>6, <1>7, <1>8 DEF TableNames

\* A version recorded.
LEMMA RecordedAt ==
  ASSUME NEW v, NEW n, NEW vs, NEW w
  PROVE  Recorded(DbAt(v, n, vs), w) = DbAt(v, n, vs \cup {w})
<1> DEFINE A == [t \in {x \in AllTables : Present(x, v, n)} |-> TableAt(t, v, n)]
           B == [i \in {x \in AllIndexes : IndexPresent(x, v, n)} |-> IndexTable(i, v, n)]
<1>1. \A xs : DbAt(v, n, xs) = [tables |-> A, indexes |-> B, versions |-> xs]
  BY DEF DbAt
<1> HIDE DEF A, B
<1> DEFINE e == [tables |-> A, indexes |-> B, versions |-> vs]
<1>2. [e EXCEPT !.versions = @ \cup {w}] = [tables |-> A, indexes |-> B, versions |-> vs \cup {w}]
  OBVIOUS
<1>3. Recorded(e, w) = [tables |-> A, indexes |-> B, versions |-> vs \cup {w}]
  BY <1>2 DEF Recorded
<1> HIDE DEF e
<1>4. e = DbAt(v, n, vs)
  BY <1>1 DEF e
<1>5. DbAt(v, n, vs \cup {w}) = [tables |-> A, indexes |-> B, versions |-> vs \cup {w}]
  BY <1>1
<1> QED
  BY <1>3, <1>4, <1>5

\* Every statement of every script.
LEMMA ScriptsRun ==
  ASSUME NEW v \in 1..7, HeldBefore(v), NEW n \in 1..Length(v)
  PROVE  RunsAt(Migration[v][n], v, n)
<1>1. CASE v = 1
  BY <1>1, ScriptLengths DEF Length
<1>2. CASE v = 2
  BY <1>2, ScriptLengths, Script2 DEF Length
<1>3. CASE v = 3
  BY <1>3, ScriptLengths, Script3 DEF Length
<1>4. CASE v = 4
  BY <1>4, ScriptLengths, Script4 DEF Length
<1>5. CASE v = 5
  BY <1>5, ScriptLengths, Script5 DEF Length
<1>6. CASE v = 6
  BY <1>6, ScriptLengths, Script6 DEF Length
<1>7. CASE v = 7
  BY <1>7, ScriptLengths, Script7 DEF Length
<1> QED
  BY <1>1, <1>2, <1>3, <1>4, <1>5, <1>6, <1>7

-----------------------------------------------------------------------------
(* The invariant.                                                           *)

\* k migrations are committed, and the caller is about to do the next one.
Committed(k) == db = DbAt(k + 1, 1, 1..k) /\ HeldBefore(k + 1)

\* What is not applied is what comes after k.
Choosing(k) ==
  /\ mig.pc = "choose" =>
       /\ mig.version <= k /\ mig.applied \subseteq 1..k
       /\ 1..k \subseteq mig.applied \cup 1..mig.version
  /\ mig.pc = "done" => k = 7

Scripting(k) ==
  /\ mig.pc \in {"script", "commit"} =>
       k < 7 /\ mig.version = k + 1 /\ mig.applied \subseteq 1..k
  /\ mig.pc = "script" =>
       mig.next \in 1..(Length(k + 1) + 1) /\ tx = DbAt(k + 1, mig.next, 1..k)
  /\ mig.pc = "commit" => tx = DbAt(k + 2, 1, 1..(k + 1))

Callers ==
  [pc : {"off", "choose", "script", "commit", "done"}, applied : SUBSET Nat, version : Nat, next : Nat]

MigTypeOK == mig \in Callers

MigrationsInv ==
  MigTypeOK /\ \E k \in 0..7 : Committed(k) /\ Choosing(k) /\ Scripting(k)

\* A caller's record is made of its fields.
LEMMA CallerIs ==
  ASSUME NEW p \in {"off", "choose", "script", "commit", "done"}, NEW A \in SUBSET Nat,
         NEW v \in Nat, NEW n \in Nat, NEW m, m = Caller(p, A, v, n)
  PROVE  m \in Callers /\ m.pc = p /\ m.applied = A /\ m.version = v /\ m.next = n
BY DEF Callers, Caller

\* The types of its fields.
LEMMA CallerFields ==
  ASSUME NEW m \in Callers
  PROVE  m.applied \in SUBSET Nat /\ m.version \in Nat /\ m.next \in Nat
BY DEF Callers

\* The record of a process that has not started or has died.
LEMMA CallerOff == Off \in Callers /\ Off.pc = "off"
<1>1. {} \in SUBSET Nat
  OBVIOUS
<1>2. 0 \in Nat /\ 1 \in Nat
  OBVIOUS
<1> QED
  BY <1>1, <1>2, CallerIs DEF Off

\* The first start finds the database of an old build.
LEMMA MigrationsBegin == ServerInit => MigrationsInv
<1> SUFFICES ASSUME MigrationsInit
             PROVE  MigrationsInv
  BY DEF ServerInit
<1>1. PICK k \in 0..7, corpora \in Corpora : db = Installed(k, corpora)
  BY ScriptLengths DEF MigrationsInit
<1>2. DOMAIN db.tables = TablesBy(k) /\ \A t \in TablesBy(k) : db.tables[t].rows = corpora[t]
  BY <1>1 DEF Installed
<1>3. DOMAIN held = TablesBy(k) /\ \A t \in TablesBy(k) : held[t] = corpora[t]
  BY <1>2 DEF MigrationsInit
<1>4. \A t \in TablesBy(k) : corpora[t] = Kept(t)
  BY <1>3 DEF Kept
<1>5. db = DbAt(k + 1, 1, 1..k)
  BY <1>1, <1>4, InstalledIs
<1>6. HeldBefore(k + 1)
  BY <1>3, InstalledTables DEF HeldBefore
<1>7. mig = Off
  BY DEF MigrationsInit
<1>8. MigTypeOK /\ mig.pc = "off"
  BY <1>7, CallerOff DEF MigTypeOK
<1> QED
  BY <1>5, <1>6, <1>8 DEF MigrationsInv, Committed, Choosing, Scripting

\* held is a constant of every behaviour, and so is what is read off it.
LEMMA HeldFrame ==
  ASSUME held' = held
  PROVE  /\ \A v, n, vs : DbAt(v, n, vs)' = DbAt(v, n, vs)
         /\ \A v : HeldBefore(v)' <=> HeldBefore(v)
<1>1. \A t : Kept(t)' = Kept(t)
  BY DEF Kept
<1>2. \A t, v, n : RowsAt(t, v, n)' = RowsAt(t, v, n)
  BY <1>1 DEF RowsAt
<1>3. \A t, v, n : TableAt(t, v, n)' = TableAt(t, v, n)
  BY <1>2 DEF TableAt, ShapeAt, ParentsAt, RefersToOld
<1>4. \A v, n, vs : DbAt(v, n, vs)' = DbAt(v, n, vs)
  <2> SUFFICES ASSUME NEW v, NEW n, NEW vs
               PROVE  DbAt(v, n, vs)' = DbAt(v, n, vs)
    OBVIOUS
  <2>1. \A t : Present(t, v, n)' <=> Present(t, v, n)
    BY DEF Present, Between, Done
  <2>2. \A i : IndexPresent(i, v, n)' <=> IndexPresent(i, v, n)
    BY DEF IndexPresent, Between, Done
  <2>3. \A i : IndexTable(i, v, n)' = IndexTable(i, v, n)
    BY DEF IndexTable, Between, Done
  <2> QED
    BY <1>3, <2>1, <2>2, <2>3 DEF DbAt, AllTables, AllIndexes, TableNames, OldNames
<1>5. \A v : HeldBefore(v)' <=> HeldBefore(v)
  <2>1. \A t, v, n : Present(t, v, n)' <=> Present(t, v, n)
    BY DEF Present, Between, Done
  <2> QED
    BY <2>1 DEF HeldBefore, TableNames
<1> QED
  BY <1>4, <1>5

\* A caller that is about to do statement n of script k + 1 sees the database there.
LEMMA TxNext ==
  ASSUME held' = held, NEW k \in 0..6, NEW n \in 1..(Length(k + 1) + 1),
         mig'.pc = "script", mig'.version = k + 1, mig'.applied \subseteq 1..k,
         mig'.next = n, tx' = DbAt(k + 1, n, 1..k)
  PROVE  Scripting(k)'
<1>1. tx' = DbAt(k + 1, n, 1..k)'
  BY HeldFrame
<1>2. \A p : p = n => (DbAt(k + 1, mig.next, 1..k)' = DbAt(k + 1, p, 1..k)')
  <2>1. \A p : p = mig'.next => (DbAt(k + 1, mig.next, 1..k)' = DbAt(k + 1, p, 1..k)')
    BY DEF DbAt
  <2> QED
    BY <2>1
<1> QED
  BY <1>1, <1>2 DEF Scripting, Length

\* Whatever happens to the caller, the committed database is one of a whole number
\* of migrations; a process that dies leaves it.
LEMMA DyingKeeps ==
  ASSUME MigrationsInv, mig' = Off, UNCHANGED <<db, held>>
  PROVE  MigrationsInv'
<1>1. PICK k \in 0..7 : Committed(k)
  BY DEF MigrationsInv
<1>2. Committed(k)'
  BY <1>1, HeldFrame DEF Committed
<1>3. MigTypeOK' /\ mig'.pc = "off"
  BY CallerOff DEF MigTypeOK
<1> QED
  BY <1>2, <1>3 DEF MigrationsInv, Choosing, Scripting

\* What is recorded as applied is the versions up to k.
LEMMA LoadAppliedStep ==
  ASSUME MigrationsInv, LoadApplied
  PROVE  MigrationsInv'
<1>1. PICK k \in 0..7 : Committed(k)
  BY DEF MigrationsInv
<1>2. Committed(k)'
  BY <1>1, HeldFrame DEF Committed, LoadApplied
<1>3. db.versions = 1..k
  BY <1>1, DbParts DEF Committed
<1>4. mig' = Caller("choose", 1..k, 0, 1)
  BY <1>3 DEF LoadApplied
<1>5. MigTypeOK'
  <2>1. 1..k \in SUBSET Nat
    OBVIOUS
  <2> QED
    BY <1>4, <2>1, CallerIs DEF MigTypeOK
<1>6. mig'.pc = "choose" /\ mig'.applied = 1..k /\ mig'.version = 0
  BY <1>4 DEF Caller
<1>7. Choosing(k)' /\ Scripting(k)'
  BY <1>6 DEF Choosing, Scripting
<1> QED
  BY <1>2, <1>5, <1>7 DEF MigrationsInv

\* The loop takes version k + 1, or is done after the last.
LEMMA BeginStep ==
  ASSUME MigrationsInv, BeginMigration
  PROVE  MigrationsInv'
<1>1. PICK k \in 0..7 : Committed(k) /\ Choosing(k) /\ Scripting(k)
  BY DEF MigrationsInv
<1>2. Committed(k)'
  BY <1>1, HeldFrame DEF Committed, BeginMigration
<1>3. /\ mig \in Callers
      /\ mig.version <= k /\ mig.applied \subseteq 1..k
      /\ 1..k \subseteq mig.applied \cup 1..mig.version
  BY <1>1 DEF BeginMigration, Choosing, MigrationsInv, MigTypeOK
<1>4. Unapplied = (k + 1)..7
  <2>1. mig.version \in Nat
    BY <1>3 DEF Callers
  <2>2. Unapplied = {v \in 1..7 : v > mig.version /\ v \notin mig.applied}
    BY ScriptLengths DEF Unapplied, Versions
  <2> QED
    BY <1>3, <2>1, <2>2
<1>5. CASE Unapplied = {}
  <2>1. mig' = Caller("done", mig.applied, mig.version, mig.next)
    BY <1>5 DEF BeginMigration
  <2>2. MigTypeOK' /\ mig'.pc = "done"
    BY <1>3, <2>1, CallerFields, CallerIs DEF MigTypeOK
  <2>3. k = 7
    <3>1. ~(k + 1 \in (k + 1)..7)
      BY <1>4, <1>5
    <3> QED
      BY <3>1
  <2> QED
    BY <1>2, <2>2, <2>3 DEF MigrationsInv, Choosing, Scripting
<1>6. CASE Unapplied # {}
  <2>1. PICK v \in Unapplied : /\ \A w \in Unapplied : v <= w
                               /\ mig' = Caller("script", mig.applied, v, 1)
    BY <1>6 DEF BeginMigration
  <2>2. k < 7 /\ v = k + 1
    <3>1. v \in (k + 1)..7
      BY <1>4, <2>1
    <3>2. k < 7 /\ k + 1 \in (k + 1)..7
      BY <3>1
    <3>3. v <= k + 1
      BY <1>4, <2>1, <3>2
    <3> QED
      BY <3>1, <3>2, <3>3
  <2>3. /\ mig'.pc = "script" /\ mig'.version = k + 1 /\ mig'.next = 1
        /\ mig'.applied \subseteq 1..k /\ MigTypeOK'
    <3>1. k + 1 \in Nat
      OBVIOUS
    <3>2. /\ mig' \in Callers /\ mig'.pc = "script" /\ mig'.applied = mig.applied
          /\ mig'.version = k + 1 /\ mig'.next = 1
      BY <1>3, <2>1, <2>2, <3>1, CallerFields, CallerIs
    <3> QED
      BY <1>3, <3>2 DEF MigTypeOK
  <2>4. tx' = DbAt(k + 1, 1, 1..k)
    BY <1>1 DEF Committed, BeginMigration
  <2>5. 1 \in 1..(Length(k + 1) + 1)
    BY <2>2, ScriptLengths DEF Length
  <2>6. Scripting(k)'
    <3>1. held' = held
      BY DEF BeginMigration
    <3>2. k \in 0..6
      BY <2>2
    <3> QED
      BY <2>3, <2>4, <2>5, <3>1, <3>2, TxNext
  <2> QED
    BY <1>2, <2>3, <2>6 DEF MigrationsInv, Choosing
<1> QED
  BY <1>5, <1>6

\* A statement that is accepted takes the transaction to the next point of the script;
\* one that is refused ends the process.
LEMMA StatementStep ==
  ASSUME MigrationsInv, RunStatement
  PROVE  MigrationsInv'
<1>1. PICK k \in 0..7 : Committed(k) /\ Choosing(k) /\ Scripting(k)
  BY DEF MigrationsInv
<1>2. Committed(k)'
  BY <1>1, HeldFrame DEF Committed, RunStatement
<1>3. CASE ~Accepts(tx, Statement, mig.version)
  BY <1>3, DyingKeeps DEF RunStatement
<1>4. CASE Accepts(tx, Statement, mig.version)
  <2> DEFINE n == mig.next
  <2>1. /\ k < 7 /\ mig.version = k + 1 /\ mig.applied \subseteq 1..k
        /\ n \in 1..(Length(k + 1) + 1) /\ tx = DbAt(k + 1, n, 1..k)
    BY <1>1 DEF RunStatement, Scripting
  <2>2. Length(k + 1) \in Nat
    BY <2>1, ScriptLengths DEF Length
  <2>3. n <= Length(k + 1)
    BY <2>1 DEF RunStatement, Length
  <2>4. n \in 1..Length(k + 1) /\ n + 1 \in 1..(Length(k + 1) + 1) /\ k + 1 \in 1..7
    BY <2>1, <2>2, <2>3
  <2>5. RunsAt(Migration[k + 1][n], k + 1, n)
    BY <1>1, <2>4, ScriptsRun DEF Committed
  <2>6. tx' = Effect(DbAt(k + 1, n, 1..k), Migration[k + 1][n], k + 1)
    BY <1>4, <2>1 DEF RunStatement, Statement
  <2>7. tx' = DbAt(k + 1, n + 1, 1..k)
    BY <2>5, <2>6 DEF RunsAt
  <2>9. mig' = Caller("script", mig.applied, mig.version, n + 1)
    BY <1>4 DEF RunStatement
  <2>10. /\ MigTypeOK' /\ mig'.pc = "script" /\ mig'.version = k + 1
         /\ mig'.applied \subseteq 1..k /\ mig'.next = n + 1
    <3>1. n + 1 \in Nat /\ mig \in Callers /\ mig.pc = "script"
      BY <2>4 DEF MigrationsInv, MigTypeOK, RunStatement
    <3> HIDE DEF n
    <3>2. /\ mig' \in Callers /\ mig'.pc = "script" /\ mig'.applied = mig.applied
          /\ mig'.version = mig.version /\ mig'.next = n + 1
      BY <2>9, <3>1, CallerFields, CallerIs
    <3> QED
      BY <2>1, <3>1, <3>2 DEF MigTypeOK
  <2>11. Scripting(k)'
    <3>1. n + 1 \in 1..(Length(k + 1) + 1)
      BY <2>4
    <3>2. held' = held
      BY DEF RunStatement
    <3>3. k \in 0..6
      BY <2>1
    <3> HIDE DEF n
    <3> QED
      BY <2>7, <2>10, <3>1, <3>2, <3>3, TxNext
  <2> QED
    BY <1>2, <2>10, <2>11 DEF MigrationsInv, Choosing
<1> QED
  BY <1>3, <1>4

\* The version is recorded in the transaction of its script.
LEMMA RecordStep ==
  ASSUME MigrationsInv, RecordVersion
  PROVE  MigrationsInv'
<1>1. PICK k \in 0..7 : Committed(k) /\ Choosing(k) /\ Scripting(k)
  BY DEF MigrationsInv
<1>2. Committed(k)'
  BY <1>1, HeldFrame DEF Committed, RecordVersion
<1>3. /\ k < 7 /\ mig.version = k + 1 /\ mig.applied \subseteq 1..k
      /\ mig.next \in 1..(Length(k + 1) + 1) /\ tx = DbAt(k + 1, mig.next, 1..k)
  BY <1>1 DEF RecordVersion, Scripting
<1>4. Length(k + 1) \in Nat /\ k + 1 \in 1..7
  BY <1>3, ScriptLengths DEF Length
<1>5. mig.next = Length(k + 1) + 1
  BY <1>3, <1>4 DEF RecordVersion, Length
<1>6. tx = DbAt(k + 2, 1, 1..k)
  <2>1. DbAt(k + 1, Length(k + 1) + 1, 1..k) = DbAt(k + 1 + 1, 1, 1..k)
    BY <1>4, ScriptEnds
  <2>2. k + 1 + 1 = k + 2
    OBVIOUS
  <2> QED
    BY <1>3, <1>5, <2>1, <2>2
<1>7. tx' = DbAt(k + 2, 1, 1..(k + 1))
  <2>1. tx' = Recorded(tx, k + 1)
    BY <1>3 DEF RecordVersion
  <2>2. Recorded(DbAt(k + 2, 1, 1..k), k + 1) = DbAt(k + 2, 1, 1..k \cup {k + 1})
    BY RecordedAt
  <2>3. 1..k \cup {k + 1} = 1..(k + 1)
    OBVIOUS
  <2> QED
    BY <1>6, <2>1, <2>2, <2>3
<1>8. tx' = DbAt(k + 2, 1, 1..(k + 1))'
  BY <1>7, HeldFrame DEF RecordVersion
<1>9. /\ MigTypeOK' /\ mig'.pc = "commit" /\ mig'.version = k + 1
      /\ mig'.applied \subseteq 1..k
  BY <1>3, CallerFields, CallerIs DEF MigrationsInv, MigTypeOK, RecordVersion
<1>10. Scripting(k)'
  BY <1>3, <1>8, <1>9 DEF Scripting
<1> QED
  BY <1>2, <1>9, <1>10 DEF MigrationsInv, Choosing

\* The commit makes one more migration and its record the database's.
LEMMA CommitStep ==
  ASSUME MigrationsInv, CommitMigration
  PROVE  MigrationsInv'
<1>1. PICK k \in 0..7 : Committed(k) /\ Choosing(k) /\ Scripting(k)
  BY DEF MigrationsInv
<1>2. /\ k < 7 /\ mig.version = k + 1 /\ mig.applied \subseteq 1..k
      /\ tx = DbAt(k + 2, 1, 1..(k + 1))
  BY <1>1 DEF CommitMigration, Scripting
<1>3. k + 1 \in 0..7 /\ k + 1 \in 1..7 /\ k + 1 + 1 = k + 2
  BY <1>2
<1>4. HeldBefore(k + 2)
  BY <1>1, <1>3, PresentLater DEF Committed
<1>5. Committed(k + 1)'
  <2>1. db' = DbAt(k + 2, 1, 1..(k + 1))'
    BY <1>2, HeldFrame DEF CommitMigration
  <2>2. HeldBefore(k + 2)'
    BY <1>4, HeldFrame DEF CommitMigration
  <2> QED
    BY <1>3, <2>1, <2>2 DEF Committed
<1>6. /\ MigTypeOK' /\ mig'.pc = "choose" /\ mig'.version = k + 1
      /\ mig'.applied \subseteq 1..k
  BY <1>2, CallerFields, CallerIs DEF MigrationsInv, MigTypeOK, CommitMigration
<1>7. Choosing(k + 1)' /\ Scripting(k + 1)'
  BY <1>3, <1>6 DEF Choosing, Scripting
<1> QED
  BY <1>3, <1>5, <1>6, <1>7 DEF MigrationsInv

\* Every step of the server keeps the invariant of the migrations.
LEMMA MigrationsNextKeeps ==
  ASSUME MigrationsInv, [ServerNext]_serverVars
  PROVE  MigrationsInv'
<1>1. CASE MigrationStep
  BY <1>1, LoadAppliedStep, BeginStep, StatementStep, RecordStep, CommitStep DEF MigrationStep
<1>2. CASE DieMigrating
  BY <1>2, DyingKeeps DEF DieMigrating
<1>3. CASE UNCHANGED migVars
  <2>1. PICK k \in 0..7 : Committed(k) /\ Choosing(k) /\ Scripting(k)
    BY DEF MigrationsInv
  <2>2. Committed(k)' /\ Choosing(k)' /\ Scripting(k)' /\ MigTypeOK'
    BY <1>3, <2>1, HeldFrame
       DEF migVars, Committed, Choosing, Scripting, MigrationsInv, MigTypeOK, Length
  <2> QED
    BY <2>2 DEF MigrationsInv
<1> QED
  BY <1>1, <1>2, <1>3
     DEF ServerNext, ServerStartStep, FirstBoot, LaterBoot, CrashInMigration, serverVars

\* It holds in every behaviour.
LEMMA MigrationsAlways == ServerSpec => []MigrationsInv
BY MigrationsBegin, MigrationsNextKeeps, PTL DEF ServerSpec

\* The recorded versions are the first k and the committed tables and indexes are
\* those of an installation of these k, whichever build left the database and at
\* whichever statements processes died.
THEOREM RecordedAlwaysApplied == ServerSpec => []RecordedMeansApplied
<1>1. MigrationsInv => RecordedMeansApplied
  <2> SUFFICES ASSUME MigrationsInv
               PROVE  RecordedMeansApplied
    OBVIOUS
  <2>1. PICK k \in 0..7 : db = DbAt(k + 1, 1, 1..k)
    BY DEF MigrationsInv, Committed
  <2> DEFINE rowsOf == [t \in DOMAIN db.tables |-> db.tables[t].rows]
  <2>2. ASSUME NEW t \in TablesBy(k)
        PROVE  rowsOf[t] = Kept(t)
    <3>1. t \in DOMAIN db.tables /\ db.tables[t] = TableAt(t, k + 1, 1)
      BY <2>1, InstalledTables, DbParts
    <3>2. TableAt(t, k + 1, 1).rows = RowsAt(t, k + 1, 1)
      BY DEF TableAt
    <3> QED
      BY <3>1, <3>2, InstalledTables
  <2> HIDE DEF rowsOf
  <2>3. db = Installed(k, rowsOf)
    BY <2>1, <2>2, InstalledIs
  <2>4. DOMAIN db.tables = TablesBy(k)
    BY <2>3 DEF Installed
  <2> QED
    BY <2>3, <2>4, ScriptLengths DEF RecordedMeansApplied, rowsOf
<1> QED
  BY <1>1, MigrationsAlways, PTL

\* A committed table holds what it held before the first start.
THEOREM MigratingNeverLoses == ServerSpec => []MigratingLosesNothing
<1>1. MigrationsInv => MigratingLosesNothing
  <2> SUFFICES ASSUME MigrationsInv, NEW t \in DOMAIN db.tables
               PROVE  db.tables[t].rows = Kept(t)
    BY DEF MigratingLosesNothing, Kept
  <2>1. PICK k \in 0..7 : db = DbAt(k + 1, 1, 1..k)
    BY DEF MigrationsInv, Committed
  <2>2. db.tables[t] = TableAt(t, k + 1, 1) /\ t \in TablesBy(k)
    BY <2>1, InstalledTables, DbParts
  <2>3. TableAt(t, k + 1, 1).rows = RowsAt(t, k + 1, 1)
    BY DEF TableAt
  <2> QED
    BY <2>2, <2>3, InstalledTables
<1> QED
  BY <1>1, MigrationsAlways, PTL

-----------------------------------------------------------------------------
(* The server: what the migrations leave is what the reconciliation starts  *)
(* from.                                                                    *)

\* What the database held came from a build that knew the first k migrations.
HeldIsOld ==
  \E old \in Corpora, k \in 0..7 :
    DOMAIN held = TablesBy(k) /\ \A t \in TablesBy(k) : held[t] = old[t]

ServerInv == MigrationsInv /\ HeldIsOld /\ StartInv

\* The kept rows are of the shapes the old builds wrote, and the rows they refer
\* to were kept with them.
LEMMA OldRows ==
  ASSUME HeldIsOld
  PROVE  /\ \A r \in Kept("documents") : r[1] \in Docs
         /\ \A r \in Kept("embedding_models") : r[1] \in Models
         /\ \A r \in Kept("document_embeddings") :
              /\ \E q \in Kept("documents") : q[1] = r[1]
              /\ \E q \in Kept("embedding_models") : q[1] = r[2]
              /\ r[3] \in Chunks /\ r[4] \in {"pending", "embedded"}
              /\ \A q \in Kept("document_embeddings") : Key(q) = Key(r) => q[4] = r[4]
         /\ \A r \in Kept("job_queue") : r[1] \in Docs /\ r[2] \in Models
         /\ \A r \in Kept("embedding_search_state") :
              \E q \in Kept("embedding_models") : q[1] = r[2]
<1>1. PICK old \in Corpora, k \in 0..7 :
        DOMAIN held = TablesBy(k) /\ \A t \in TablesBy(k) : held[t] = old[t]
  BY DEF HeldIsOld
<1>2. \A t : Kept(t) = IF t \in TablesBy(k) THEN old[t] ELSE {}
  BY <1>1 DEF Kept
<1>3. /\ "documents" \in TablesBy(k) <=> k >= 2
      /\ "embedding_models" \in TablesBy(k) <=> k >= 2
      /\ "document_embeddings" \in TablesBy(k) <=> k >= 2
      /\ "embedding_search_state" \in TablesBy(k) <=> k >= 5
  BY DEF TablesBy, DefinedBy
<1>4. /\ Kept("documents") = IF k >= 2 THEN old.documents ELSE {}
      /\ Kept("embedding_models") = IF k >= 2 THEN old.embedding_models ELSE {}
      /\ Kept("document_embeddings") = IF k >= 2 THEN old.document_embeddings ELSE {}
      /\ Kept("embedding_search_state") = IF k >= 5 THEN old.embedding_search_state ELSE {}
      /\ Kept("job_queue") \subseteq old.job_queue
  BY <1>2, <1>3
<1>5. CASE k < 2
  BY <1>1, <1>4, <1>5, CorporaAssumption
<1>6. CASE k >= 2
  <2>1. /\ Kept("documents") = old.documents
        /\ Kept("embedding_models") = old.embedding_models
        /\ Kept("document_embeddings") = old.document_embeddings
        /\ Kept("embedding_search_state") \subseteq old.embedding_search_state
    BY <1>4, <1>6
  <2> QED
    BY <1>4, <2>1, CorporaAssumption
<1> QED
  BY <1>5, <1>6

\* After the last migration the tables hold what was kept.
LEMMA MigratedRows ==
  ASSUME MigrationsInv, mig.pc = "done", NEW t \in TableNames
  PROVE  TableRows(t) = Kept(t)
<1>1. db = DbAt(8, 1, 1..7)
  BY DEF MigrationsInv, Committed, Choosing
<1>2. TablesBy(7) = TableNames
  BY DEF TablesBy, DefinedBy, TableNames
<1>3. 7 \in 0..7 /\ 7 + 1 = 8
  OBVIOUS
<1>4. t \in AllTables /\ Present(t, 8, 1) /\ RowsAt(t, 8, 1) = Kept(t)
  BY <1>2, <1>3, InstalledTables
<1>5. db.tables[t] = TableAt(t, 8, 1)
  BY <1>1, <1>4, DbParts
<1> QED
  BY <1>4, <1>5 DEF TableRows, TableAt

\* The first start of the reconciliation finds tables its invariant holds of.
LEMMA FirstBootStep ==
  ASSUME ServerInv, NEW m \in Models, FirstBoot(m)
  PROVE  StartInv'
<1> DEFINE D == Kept("documents")
           M == Kept("embedding_models")
           E == Kept("document_embeddings")
           S == Kept("embedding_search_state")
           J == Kept("job_queue")
<1>1. /\ TableRows("documents") = D /\ TableRows("embedding_models") = M
      /\ TableRows("document_embeddings") = E /\ TableRows("embedding_search_state") = S
      /\ TableRows("job_queue") = J
  BY MigratedRows DEF ServerInv, FirstBoot, TableNames
<1>2. /\ docs' = {r[1] : r \in D} /\ models' = {r[1] : r \in M}
      /\ jobs' = {<<r[1], r[2]>> : r \in J}
      /\ rows' = [k \in {Key(r) : r \in E} |-> (CHOOSE r \in E : Key(r) = k)[4]]
      /\ corpus' = docs'
      /\ cut' = {n \in models' : ~(RowsOf(docs', n) \subseteq DOMAIN rows')}
      /\ proc' = [pc |-> "find", model |-> m, todo |-> {}]
      /\ torn' = torn
  <2>1. docs' = {r[1] : r \in D} /\ models' = {r[1] : r \in M}
    BY <1>1 DEF FirstBoot
  <2>2. jobs' = {<<r[1], r[2]>> : r \in J}
    BY <1>1 DEF FirstBoot
  <2>3. rows' = States(TableRows("document_embeddings"))
    BY DEF FirstBoot
  <2> HIDE DEF E
  <2>4. rows' = [k \in {Key(r) : r \in E} |-> (CHOOSE r \in E : Key(r) = k)[4]]
    BY <1>1, <2>3 DEF States
  <2>5. /\ corpus' = docs'
        /\ cut' = {n \in models' : ~(RowsOf(docs', n) \subseteq DOMAIN rows')}
        /\ proc' = [pc |-> "find", model |-> m, todo |-> {}]
        /\ torn' = torn
    BY DEF FirstBoot
  <2> QED
    BY <2>1, <2>2, <2>4, <2>5
<1>3. /\ \A r \in D : r[1] \in Docs
      /\ \A r \in M : r[1] \in Models
      /\ \A r \in E :
           /\ \E q \in D : q[1] = r[1]
           /\ \E q \in M : q[1] = r[2]
           /\ r[3] \in Chunks /\ r[4] \in {"pending", "embedded"}
           /\ \A q \in E : Key(q) = Key(r) => q[4] = r[4]
      /\ \A r \in J : r[1] \in Docs /\ r[2] \in Models
      /\ \A r \in S : \E q \in M : q[1] = r[2]
  BY OldRows DEF ServerInv
<1> DEFINE Left(s) == {Key(r) : r \in {q \in E : q[2] = s /\ q[4] = "embedded"}}
<1>4. \/ S = {} /\ state' = 0 /\ table' = [exists |-> FALSE, dims |-> 0, rows |-> {}]
      \/ \E s \in S : /\ state' = s[2]
                      /\ table' = [exists |-> TRUE, dims |-> Dims[s[2]], rows |-> Left(s[2])]
  BY <1>1 DEF FirstBoot, IndexAsLeft, EmbeddedKeys
<1> HIDE DEF D, M, E, S, J
<1>5. ASSUME NEW r \in E
      PROVE  Key(r) \in DOMAIN rows' /\ rows'[Key(r)] = r[4]
  <2>1. Key(r) \in DOMAIN rows' /\ rows'[Key(r)] = (CHOOSE q \in E : Key(q) = Key(r))[4]
    BY <1>2
  <2>2. (CHOOSE q \in E : Key(q) = Key(r)) \in E
        /\ Key(CHOOSE q \in E : Key(q) = Key(r)) = Key(r)
    OBVIOUS
  <2> QED
    BY <1>3, <2>1, <2>2
<1>6. \A k \in DOMAIN rows' : \E r \in E : k = Key(r) /\ rows'[k] = r[4]
  <2>1. \A k \in DOMAIN rows' : \E r \in E : k = Key(r)
    BY <1>2
  <2> QED
    BY <1>5, <2>1
<1>7. \A s : Left(s) = {k \in DOMAIN rows' : rows'[k] = "embedded" /\ k[2] = s}
  BY <1>5, <1>6 DEF Key
<1> HIDE DEF Left
<1>8. DOMAIN rows' \subseteq UNION {RowsOf(docs', n) : n \in models'}
  <2> SUFFICES ASSUME NEW k \in DOMAIN rows'
               PROVE  \E n \in models' : k \in RowsOf(docs', n)
    OBVIOUS
  <2>1. PICK r \in E : k = Key(r)
    BY <1>6
  <2>2. r[1] \in docs' /\ r[2] \in models' /\ r[3] \in Chunks
    BY <1>2, <1>3
  <2> QED
    BY <2>1, <2>2 DEF RowsOf, Key
<1>9. rows' \in [DOMAIN rows' -> {"pending", "embedded"}]
  <2>1. \A k \in DOMAIN rows' : rows'[k] \in {"pending", "embedded"}
    BY <1>3, <1>6
  <2>2. rows' = [k \in DOMAIN rows' |-> rows'[k]]
    BY <1>2
  <2> QED
    BY <2>1, <2>2
<1>10. docs' \subseteq Docs /\ models' \subseteq Models /\ jobs' \subseteq Docs \X Models
  BY <1>2, <1>3
<1>11. /\ state' \in models' \cup {0}
       /\ table' \in [exists : BOOLEAN, dims : Nat, rows : SUBSET DOMAIN rows']
       /\ table'.rows \subseteq {k \in DOMAIN rows' : rows'[k] = "embedded"}
       /\ table'.exists =>
            /\ table'.dims = Dims[state']
            /\ {k \in DOMAIN rows' : rows'[k] = "embedded" /\ k[2] = state'} \subseteq table'.rows
  <2>1. CASE S = {} /\ state' = 0 /\ table' = [exists |-> FALSE, dims |-> 0, rows |-> {}]
    BY <2>1
  <2>2. ASSUME NEW s \in S, state' = s[2],
               table' = [exists |-> TRUE, dims |-> Dims[s[2]], rows |-> Left(s[2])]
        PROVE  <1>11!:
    <3>1. s[2] \in models' /\ s[2] \in Models
      BY <1>2, <1>3
    <3>2. Dims[s[2]] \in Nat
      BY <3>1, StartupAssumption
    <3>3. Left(s[2]) = {k \in DOMAIN rows' : rows'[k] = "embedded" /\ k[2] = s[2]}
      BY <1>7
    <3>4. Left(s[2]) \in SUBSET DOMAIN rows'
      BY <3>3
    <3>5. table' \in [exists : BOOLEAN, dims : Nat, rows : SUBSET DOMAIN rows']
      BY <2>2, <3>2, <3>4
    <3>6. table'.dims = Dims[s[2]] /\ table'.rows = Left(s[2])
      BY <2>2
    <3> QED
      BY <2>2, <3>1, <3>3, <3>5, <3>6
  <2> QED
    BY <1>4, <2>1, <2>2
<1>12. TypeOK'
  <2>1. proc' \in [pc : Pcs, model : Models, todo : SUBSET RowsOf(docs', proc'.model)]
    BY <1>2 DEF Pcs
  <2>2. torn' \in BOOLEAN /\ cut' \subseteq models'
    BY <1>2 DEF ServerInv, StartInv, TypeOK
  <2>3. docs' \cup corpus' \subseteq used' /\ used' \subseteq Docs
    <3>1. used' = docs' \cup {r[1] : r \in J}
      BY <1>1 DEF FirstBoot, J
    <3> QED  BY <1>2, <1>3, <1>10, <3>1
  <2>4. ending' \subseteq Docs \X Models /\ replans' \subseteq Docs \X models'
    BY DEF FirstBoot, ServerInv, StartInv, TypeOK
  <2> QED
    BY <1>8, <1>9, <1>10, <1>11, <2>1, <2>2, <2>3, <2>4 DEF TypeOK
<1>13. IndexSound' /\ TableMatchesState'
  BY <1>11 DEF IndexSound, TableMatchesState, EmbeddedOf, RowsWith
<1>14. FreshModel' /\ QueuedSinceSeeding' /\ RebuildStages'
  BY <1>2, <1>11 DEF FreshModel, QueuedSinceSeeding, AfterSeeding, RebuildStages
<1>15. BackfillOnItsWay'
  <2>1. corpus' \cap docs' = docs'
    BY <1>2
  <2> QED  BY <1>2, <2>1 DEF BackfillOnItsWay
<1> QED
  BY <1>12, <1>13, <1>14, <1>15 DEF StartInv

\* Before the first start the tables of the reconciliation are empty.
LEMMA ServerBegin == ServerInit => ServerInv
<1> SUFFICES ASSUME ServerInit
             PROVE  ServerInv
  OBVIOUS
<1>1. HeldIsOld
  <2>1. PICK k \in 0..7, old \in Corpora : db = Installed(k, old)
    BY ScriptLengths DEF ServerInit, MigrationsInit
  <2>2. DOMAIN db.tables = TablesBy(k) /\ \A t \in TablesBy(k) : db.tables[t].rows = old[t]
    BY <2>1 DEF Installed
  <2>3. DOMAIN held = TablesBy(k) /\ \A t \in TablesBy(k) : held[t] = old[t]
    BY <2>2 DEF ServerInit, MigrationsInit
  <2> QED
    BY <2>3 DEF HeldIsOld
<1>2. /\ docs = {} /\ models = {} /\ DOMAIN rows = {} /\ jobs = {} /\ state = 0
      /\ table = [exists |-> FALSE, dims |-> 0, rows |-> {}]
      /\ proc = [pc |-> "down", model |-> OldModel, todo |-> {}]
      /\ used = {} /\ ending = {} /\ replans = {}
      /\ torn = FALSE /\ cut = {} /\ corpus = {}
  BY DEF ServerInit
<1>3. rows \in [DOMAIN rows -> {"pending", "embedded"}]
  <2>1. rows = [k \in DOMAIN rows |-> rows[k]]
    BY DEF ServerInit
  <2> QED
    BY <1>2, <2>1
<1>4. TypeOK
  <2>1. proc \in [pc : Pcs, model : Models, todo : SUBSET RowsOf(docs, proc.model)]
    BY <1>2, StartupAssumption DEF Pcs
  <2>2. table \in [exists : BOOLEAN, dims : Nat, rows : SUBSET DOMAIN rows]
    BY <1>2
  <2> QED
    BY <1>2, <1>3, <2>1, <2>2 DEF TypeOK
<1>5. StartInv
  BY <1>2, <1>4
     DEF StartInv, IndexSound, FreshModel, QueuedSinceSeeding, AfterSeeding, RebuildStages,
         TableMatchesState, BackfillOnItsWay
<1> QED
  BY <1>1, <1>5, MigrationsBegin DEF ServerInv

\* Every step of the server.
LEMMA ServerKeeps ==
  ASSUME ServerInv, [ServerNext]_serverVars
  PROVE  ServerInv'
<1>1. MigrationsInv'
  BY MigrationsNextKeeps DEF ServerInv
<1>2. held' = held
  BY DEF ServerNext, ServerStartStep, MigrationStep, LoadApplied, BeginMigration, RunStatement,
         RecordVersion, CommitMigration, FirstBoot, LaterBoot, CrashInMigration, DieMigrating,
         serverVars, migVars
<1>3. HeldIsOld'
  BY <1>2 DEF ServerInv, HeldIsOld
<1>4. StartInv'
  <2>1. ASSUME NEW m \in Models, FirstBoot(m)
        PROVE  StartInv'
    BY <2>1, FirstBootStep
  <2>2. ASSUME NEW m \in Models, LaterBoot(m)
        PROVE  StartInv'
    BY <2>2, StartNext DEF ServerInv, LaterBoot, Next, StartupStep
  <2>3. CASE Reconcile \/ Serve \/ Crash
    BY <2>3, StartNext DEF ServerInv, Next, StartupStep
  <2>4. CASE UNCHANGED vars \/ CrashInMigration
    BY <2>4, StartFrame DEF ServerInv, vars, store, work, CrashInMigration
  <2> QED
    BY <2>1, <2>2, <2>3, <2>4 DEF ServerNext, ServerStartStep, serverVars
<1> QED
  BY <1>1, <1>3, <1>4 DEF ServerInv

LEMMA ServerAlways == ServerSpec => []ServerInv
BY ServerBegin, ServerKeeps, PTL DEF ServerSpec

-----------------------------------------------------------------------------
(* The theorems: of the reconciliation from a database at rest, and of the  *)
(* server from any old database.                                            *)

\* Types of the tables and the process.
THEOREM StartupTypeCorrect == Spec \/ ServerSpec => []TypeOK
<1>1. StartInv => TypeOK
  BY DEF StartInv
<1>2. ServerInv => StartInv
  BY DEF ServerInv
<1> QED  BY <1>1, <1>2, StartInvariant, ServerAlways, PTL

\* Only two steps of the reconciliation begin to serve, and neither touches rows
\* or jobs, which the seeding pass before them left matched.
LEMMA ServingBegins ==
  ASSUME StartInv, Next, ~Serving, Serving'
  PROVE  Recoverable' \subseteq jobs'
<1>1. proc \in [pc : Pcs, model : Models, todo : SUBSET RowsOf(docs, proc.model)]
  BY DEF StartInv, TypeOK
<1>2. \A pc : [proc EXCEPT !.pc = pc].pc = pc
  BY <1>1
<1>3. ~(\E m \in Models : Boot(m)) /\ ~Crash
  <2>1. (\E m \in Models : Boot(m)) => proc'.pc = "find"
    BY DEF Boot
  <2>2. Crash => proc'.pc = "down"
    BY <1>1 DEF Crash
  <2> QED  BY <2>1, <2>2 DEF Serving
<1>4. ~Serve
  <2>1. Serve => proc.pc = "serving"
    BY DEF Serve, Handle, OrphanJob, DropDocument, ReleaseJob, SkipPair, EmbedPair, Loads,
           Handles, CompleteJob, FinishReplan, IngestDocument, MarkStale
  <2> QED  BY <2>1 DEF Serving
<1>5. ~FindModel /\ ~InsertModel /\ ~BackfillRow /\ ~SeedJob /\ ~DropTable /\ ~CreateTable
      /\ ~RecordState
  BY <1>1, <1>2
     DEF FindModel, InsertModel, BackfillRow, SeedJob, DropTable, CreateTable, RecordState,
         Goto, Serving
<1>6. CheckIndex \/ FillIndex
  BY <1>3, <1>4, <1>5 DEF Next, StartupStep, Reconcile
<1>7. proc.pc \in AfterSeeding /\ UNCHANGED <<rows, jobs>>
  BY <1>6 DEF CheckIndex, FillIndex, AfterSeeding, store
<1> QED  BY <1>7, RowsDecide DEF StartInv, QueuedSinceSeeding

\* When the workers start, every recoverable row has its job, wherever earlier
\* runs and starts were cut, and whichever build left the database.
THEOREM WorkQueuedWhenServing == Spec \/ ServerSpec => QueuedWhenServingStarts
<1>1. StartInv /\ [Next]_vars => [~Serving /\ Serving' => Recoverable' \subseteq jobs']_vars
  BY ServingBegins DEF vars
<1>2. ServerInv /\ [ServerNext]_serverVars =>
        [~Serving /\ Serving' => Recoverable' \subseteq jobs']_vars
  <2> SUFFICES ASSUME ServerInv, [ServerNext]_serverVars, ~UNCHANGED vars, ~Serving, Serving'
               PROVE  Recoverable' \subseteq jobs'
    OBVIOUS
  <2>1. ~(\E m \in Models : FirstBoot(m))
    BY DEF FirstBoot, Serving
  <2>2. ~CrashInMigration
    BY DEF CrashInMigration, Serving
  <2>3. ServerNext
    BY DEF serverVars
  <2>4. Next
    BY <2>1, <2>2, <2>3 DEF ServerNext, ServerStartStep, LaterBoot, Next, StartupStep
  <2> QED  BY <2>4, ServingBegins DEF ServerInv
<1>3. QueuedWhenServingStarts <=> [][~Serving /\ Serving' => Recoverable' \subseteq jobs']_vars
  BY DEF QueuedWhenServingStarts
<1>4. Spec => QueuedWhenServingStarts
  BY <1>1, <1>3, StartInvariant, PTL DEF Spec
<1>5. ServerSpec => QueuedWhenServingStarts
  BY <1>2, <1>3, ServerAlways, PTL DEF ServerSpec
<1> QED  BY <1>4, <1>5

\* The vector table never offers a row that is not embedded.
THEOREM IndexAlwaysSound == Spec \/ ServerSpec => []IndexSound
<1>1. StartInv => IndexSound
  BY DEF StartInv
<1>2. ServerInv => StartInv
  BY DEF ServerInv
<1> QED  BY <1>1, <1>2, StartInvariant, ServerAlways, PTL

\* A serving process searches a complete table of its own model, unless a crash
\* tore the last rebuild.
THEOREM IndexCompleteUnlessTorn == Spec \/ ServerSpec => []CleanIndexComplete
<1>1. StartInv => CleanIndexComplete
  BY DEF StartInv, RebuildStages, TableMatchesState, EmbeddedOf, CleanIndexComplete, Serving
<1>2. ServerInv => StartInv
  BY DEF ServerInv
<1> QED  BY <1>1, <1>2, StartInvariant, ServerAlways, PTL

\* A registered model has the whole old corpus, unless a crash cut its backfill.
THEOREM CorpusCoveredUnlessCut == Spec \/ ServerSpec => []BackfillCoversCorpus
<1>1. StartInv => BackfillCoversCorpus
  BY DEF StartInv, BackfillOnItsWay, BackfillCoversCorpus
<1>2. ServerInv => StartInv
  BY DEF ServerInv
<1> QED  BY <1>1, <1>2, StartInvariant, ServerAlways, PTL

=============================================================================
