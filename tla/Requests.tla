------------------------------ MODULE Requests -------------------------------
(***************************************************************************)
(* Requests as a client sends them: a search, whose results are translated *)
(* to the user's paths, and then the statistics, polled while the workers  *)
(* keep committing.  The search reads the index in one statement, so the   *)
(* writers matter to the statistics only.                                  *)
(***************************************************************************)
EXTENDS Search, ResponsePaths, Progress

requestVars == <<searchVars, pathVars, vars>>

RequestsInit ==
  /\ SearchInit
  /\ PathsInit
  /\ Init

\* The page goes to the translation; of the search only that it found something
\* is kept.
RenderPage ==
  /\ pc = "done" /\ results # <<>> /\ rpc = "waiting"
  /\ rpc' = "translate"
  /\ index' = <<>> /\ limit' = 0 /\ includeLocation' = FALSE
  /\ pc' = "rendered" /\ hits' = <<>> /\ next' = 1 /\ results' = <<>>
  /\ UNCHANGED <<resourceRoot, dataRoot, storedPath, shownPath, vars>>

\* The page is sent; the client turns to the statistics.
SendPage ==
  /\ rpc = "translate" /\ storedPath = <<>>
  /\ rpc' = "sent"
  /\ UNCHANGED <<searchVars, resourceRoot, dataRoot, storedPath, shownPath, vars>>

RequestsNext ==
  \/ SearchNext /\ UNCHANGED <<pathVars, vars>>
  \/ RenderPage
  \/ PathsNext /\ UNCHANGED <<searchVars, vars>>
  \/ SendPage
  \/ rpc = "sent" /\ Next /\ UNCHANGED <<searchVars, pathVars>>
  \/ rpc = "shown" /\ UNCHANGED requestVars

RequestsSpec == RequestsInit /\ [][RequestsNext]_requestVars

=============================================================================
