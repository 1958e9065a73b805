--------------------------- MODULE MCServerStart ----------------------------
(* Model-checking instance of ServerStart: two models of different          *)
(* dimensions; an old corpus that is embedded, or waiting with its job, or  *)
(* embedded except for a second model whose backfill was cut.               *)
EXTENDS ServerStart

MCDims == [m \in Models |-> m]

Rows(m, C, s) == {<<d, m, c, s>> : d \in OldDocs, c \in C}

OldDatabase(models_, embeddings, queued) ==
  [documents |-> {<<d>> : d \in OldDocs},
   embedding_models |-> {<<m>> : m \in models_},
   document_embeddings |-> embeddings,
   job_queue |-> {<<d, m>> : d \in OldDocs, m \in queued},
   embedding_search_state |-> {<<1, OldModel>>}]

MCCorpora ==
  {OldDatabase({OldModel}, Rows(OldModel, Chunks, "pending"), {OldModel}),
   OldDatabase({OldModel}, Rows(OldModel, Chunks, "embedded"), {}),
   OldDatabase(Models, Rows(OldModel, Chunks, "embedded") \cup Rows(2, {0}, "pending"), {})}
=============================================================================
