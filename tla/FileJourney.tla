---------------------------- MODULE FileJourney ------------------------------
(***************************************************************************)
(* A file on its way into the database: an ingest job selects it (GitPlan), *)
(* reads it and plans its chunks, the embed job rereads and slices it      *)
(* (ContentPlan), and its chunks are sent to the provider and stored       *)
(* (EmbeddingClient).  Between the stages only what the code hands on is   *)
(* kept: that there is a file, and the number of its prepared chunks.      *)
(***************************************************************************)
EXTENDS ContentPlan, EmbeddingClient, GitPlan

journeyVars == <<vars, embedVars, gitVars>>

\* The job is claimed; no file is being read yet.
JourneyInit ==
  /\ GitInit
  /\ file = <<>> /\ budget = 0 /\ chunking = [size |-> 1, overlap |-> 0] /\ pc = "waiting"
  /\ len = 0 /\ line = 0 /\ inFence = FALSE /\ breaks = {} /\ start = 0 /\ spans = <<>>
  /\ EmbedInit

\* The plan is carried out; its locals are dropped.
PlanDone ==
  /\ gpc = "done"
  /\ gpc' = "idle"
  /\ marker' = [d \in Dirs |-> "none"] /\ above' = FALSE /\ failing' = {}
  /\ jobRuns' = 0 /\ work' = {} /\ repoRoots' = {} /\ fallback' = FALSE
  /\ skipped' = {} /\ ingested' = {} /\ misjudged' = FALSE
  /\ UNCHANGED <<vars, embedVars>>

\* ingest_candidate_file: some selected file is read.
ReadCandidate ==
  /\ gpc = "idle" /\ pc = "waiting"
  /\ file' \in Files /\ budget' \in Budgets /\ chunking' \in Chunkings
  /\ pc' = "read"
  /\ UNCHANGED <<len, line, inFence, breaks, start, spans, embedVars, gitVars>>

\* EmbedDocumentHandler: one input for the filename chunk and one per range.
HandOff ==
  /\ pc = "prepared"
  /\ BeginCall(Len(spans) + 1)
  /\ file' = <<>> /\ budget' = 0 /\ chunking' = [size |-> 1, overlap |-> 0]
  /\ len' = 0 /\ line' = 0 /\ inFence' = FALSE /\ breaks' = {} /\ start' = 0 /\ spans' = <<>>
  /\ pc' = "embedding"
  /\ UNCHANGED gitVars

JourneyNext ==
  \/ GitNext /\ UNCHANGED <<vars, embedVars>>
  \/ PlanDone
  \/ ReadCandidate
  \/ Next /\ UNCHANGED <<embedVars, gitVars>>
  \/ HandOff
  \/ EmbedNext /\ UNCHANGED <<vars, gitVars>>

JourneySpec == JourneyInit /\ [][JourneyNext]_journeyVars

=============================================================================
