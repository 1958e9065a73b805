------------------------------- MODULE Search -------------------------------
(***************************************************************************)
(* POST /search: validate the request, embed the query, take the nearest   *)
(* vectors of the index, and collapse the hits (one per chunk) to a page   *)
(* of documents (http/search.rs, repository::search_documents_by_embedding).*)
(*                                                                         *)
(* A chunk stands for its byte range: chunk 0 is the filename row, any     *)
(* other chunk a content range.  The score of a result falls strictly with *)
(* its distance, so the distance is kept in its place.                     *)
(***************************************************************************)
EXTENDS Naturals, Sequences, FiniteSets, FiniteSetsExt

CONSTANTS
  Indexes,        \* contents of document_embedding_vec joined with its tables:
                  \* functions from embedding ids to [doc, model, chunk, distance]
  Active,         \* embedding_search_state.active_model_id
  Limits,         \* the limit of a request
  MaxLimit,       \* MAX_SEARCH_LIMIT
  RawMultiplier,  \* SEARCH_RAW_LIMIT_MULTIPLIER
  RawCap,         \* SEARCH_RAW_LIMIT_CAP
  NoLocation      \* byte_start and byte_end are left out

ASSUME LimitAssumption ==
  /\ Limits \subseteq Nat /\ MaxLimit \in Nat
  /\ RawMultiplier \in Nat \ {0} /\ RawCap \in Nat
  /\ MaxLimit <= RawCap

ASSUME LocationAssumption == NoLocation \notin Nat

\* Only the order of the distances matters.
ASSUME IndexAssumption ==
  \A x \in Indexes : /\ DOMAIN x \subseteq Nat /\ IsFiniteSet(DOMAIN x)
                     /\ \A i \in DOMAIN x : x[i].distance \in Nat

VARIABLES
  index, limit, includeLocation,   \* the index and the request
  pc,                              \* validate, embed, query, collapse, done or an error
  hits,                            \* the hits, nearest first
  next,                            \* position of the next hit to collapse
  results                          \* the page: [doc, distance, location, fromFilename]

searchVars == <<index, limit, includeLocation, pc, hits, next, results>>
request == <<index, limit, includeLocation>>

Ids == DOMAIN index

-----------------------------------------------------------------------------
\* expanded_raw_limit.
RawLimit == Min({limit * RawMultiplier, RawCap})

\* The rows the vector table may return for LIMIT n: the n nearest of all its
\* rows, whatever their model; ties are broken in any way.
Nearest(n) ==
  {N \in SUBSET Ids :
     /\ Cardinality(N) = Min({n, Cardinality(Ids)})
     /\ \A i \in N, j \in Ids \ N : index[i].distance <= index[j].distance}

\* The comparison of ORDER BY distance, id.
Nearer(i, j) ==
  \/ index[i].distance < index[j].distance
  \/ index[i].distance = index[j].distance /\ i < j

\* ORDER BY distance, id: the k-th row is the one that k - 1 rows come before.
InOrder(H) ==
  [k \in 1..Cardinality(H) |->
     CHOOSE i \in H : Cardinality({j \in H : Nearer(j, i)}) = k - 1]

\* Mutant of HitsOf: rows of other models are not filtered out.
HitsOfAnyModel(N) == InOrder(N)

\* WHERE model_id AND state, ORDER BY.
HitsOf(N) == InOrder({i \in N : index[i].model = Active})

-----------------------------------------------------------------------------
SearchInit ==
  /\ index \in Indexes /\ limit \in Limits /\ includeLocation \in BOOLEAN
  /\ pc = "validate" /\ hits = <<>> /\ next = 1 /\ results = <<>>

\* The handler rejects a limit of 0 or above the maximum (and an empty query).
Validate ==
  /\ pc = "validate"
  /\ pc' = IF limit = 0 \/ limit > MaxLimit THEN "bad_request" ELSE "embed"
  /\ UNCHANGED <<request, hits, next, results>>

\* The active model is loaded and the provider asked.  No connection or no
\* model is a 500; a provider that fails or answers with no vector is a 502.
EmbedQuery ==
  /\ pc = "embed"
  /\ pc' \in {"query", "bad_gateway", "internal_error"}
  /\ UNCHANGED <<request, hits, next, results>>

\* No connection for the vector query, or the query fails.
QueryFails ==
  /\ pc = "query"
  /\ pc' = "internal_error"
  /\ UNCHANGED <<request, hits, next, results>>

\* Mutant of RunQuery: no more vectors are fetched than documents wanted.
RunQueryUnexpanded ==
  /\ pc = "query"
  /\ \E N \in Nearest(limit) : hits' = HitsOf(N)
  /\ pc' = "collapse"
  /\ UNCHANGED <<request, next, results>>

\* search_documents_by_embedding.
RunQuery ==
  /\ pc = "query"
  /\ \E N \in Nearest(RawLimit) : hits' = HitsOf(N)
  /\ pc' = "collapse"
  /\ UNCHANGED <<request, next, results>>

\* Mutant of SeenHit: once the page is full no location is improved any more.
SeenHitUntilFull ==
  /\ pc = "collapse" /\ next <= Len(hits)
  /\ LET hit == index[hits[next]] IN
     \E r \in DOMAIN results :
       /\ results[r].doc = hit.doc
       /\ results' = IF /\ includeLocation /\ results[r].fromFilename
                        /\ hit.chunk # 0 /\ Len(results) < limit
                     THEN [results EXCEPT ![r].location = hit.chunk,
                                          ![r].fromFilename = FALSE]
                     ELSE results
  /\ next' = next + 1
  /\ UNCHANGED <<request, pc, hits>>

\* collapse_to_documents, a hit of a document that is on the page already: its
\* first content range replaces a location that came from the filename.
SeenHit ==
  /\ pc = "collapse" /\ next <= Len(hits)
  /\ LET hit == index[hits[next]] IN
     \E r \in DOMAIN results :
       /\ results[r].doc = hit.doc
       /\ results' = IF includeLocation /\ results[r].fromFilename /\ hit.chunk # 0
                     THEN [results EXCEPT ![r].location = hit.chunk,
                                          ![r].fromFilename = FALSE]
                     ELSE results
  /\ next' = next + 1
  /\ UNCHANGED <<request, pc, hits>>

\* A new document, dropped when the page is full.
NewHit ==
  /\ pc = "collapse" /\ next <= Len(hits)
  /\ LET hit == index[hits[next]] IN
     /\ \A r \in DOMAIN results : results[r].doc # hit.doc
     /\ results' = IF Len(results) = limit THEN results
                   ELSE Append(results,
                          [doc |-> hit.doc, distance |-> hit.distance,
                           location |-> IF includeLocation THEN hit.chunk ELSE NoLocation,
                           fromFilename |-> includeLocation /\ hit.chunk = 0])
  /\ next' = next + 1
  /\ UNCHANGED <<request, pc, hits>>

Respond ==
  /\ pc = "collapse" /\ next > Len(hits)
  /\ pc' = "done"
  /\ UNCHANGED <<request, hits, next, results>>

Answered ==
  /\ pc \in {"done", "bad_request", "bad_gateway", "internal_error"}
  /\ UNCHANGED searchVars

SearchNext ==
  \/ Validate \/ EmbedQuery \/ QueryFails \/ RunQuery \/ SeenHit \/ NewHit
  \/ Respond \/ Answered

-----------------------------------------------------------------------------
(* Properties.                                                              *)

DocsOf(S) == {index[i].doc : i \in S}
ActiveIds == {i \in Ids : index[i].model = Active}
HitIds == {hits[k] : k \in DOMAIN hits}

\* The page lists documents once, nearest first, each with its best distance
\* over all of its chunks under the active model, and no document that is left
\* out has a chunk nearer than one that is listed.
PageIsBest ==
  pc = "done" =>
    /\ Len(results) <= limit
    /\ \A r \in DOMAIN results :
         LET mine == {i \in ActiveIds : index[i].doc = results[r].doc} IN
         /\ mine # {}
         /\ results[r].distance = Min({index[i].distance : i \in mine})
         /\ \A s \in DOMAIN results : r < s =>
              /\ results[r].doc # results[s].doc
              /\ results[r].distance <= results[s].distance
         /\ \A i \in ActiveIds :
              index[i].distance < results[r].distance =>
                \E s \in DOMAIN results : results[s].doc = index[i].doc

\* The vector table applies LIMIT before the model filter and before chunks are
\* collapsed.  A page shorter than asked for therefore omits a document only if
\* the raw page was used up by other models or by further chunks.
ShortPageExhaustsRawLimit ==
  pc = "done" /\ Len(results) < limit =>
    \/ DocsOf(ActiveIds) = {results[r].doc : r \in DOMAIN results}
    \/ Cardinality(Ids) > limit * RawMultiplier \/ Cardinality(Ids) > RawCap

\* A location, when asked for, is the nearest content range among the hits of
\* the document, and the filename's (0..0) only if there is no such hit, even
\* when the page was full before that hit came.
LocationIsNearestContent ==
  pc = "done" =>
    \A r \in DOMAIN results :
      LET content == {k \in DOMAIN hits : /\ index[hits[k]].doc = results[r].doc
                                          /\ index[hits[k]].chunk # 0}
      IN results[r].location =
           IF ~includeLocation THEN NoLocation
           ELSE IF content = {} THEN 0 ELSE index[hits[Min(content)]].chunk
=============================================================================
