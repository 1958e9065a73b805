--------------------------- MODULE RequestsProofs ---------------------------
(***************************************************************************)
(* Proofs about Requests, for any corpus and any contents of the index.    *)
(* Statistics: what eight SELECTs without a transaction may add up to, with*)
(* any number of commits between them and any of the time constants.       *)
(* Search: which documents a page shows, in which order and with which     *)
(* location, for any limit and any raw limit.                              *)
(* Paths: what a stored path is shown as, for any roots and displays.      *)
(***************************************************************************)
EXTENDS Requests, OrderLemmas, SequenceTheorems, FiniteSetTheorems, TLAPS

States == {"none", "pending", "stale", "embedded"}

\* Control points at which a statement has run.
AfterRecent   == {"types", "counts", "done", "failed"}
AfterClaimed  == {"recent"} \cup AfterRecent
AfterEmbedded == {"claimed"} \cup AfterClaimed
AfterStale    == {"embedded"} \cup AfterEmbedded
AfterPending  == {"stale"} \cup AfterStale
AfterTotal    == {"pending"} \cup AfterPending
AfterTypes    == {"counts", "done", "failed"}

Request ==
  [pc : {"idle", "total"} \cup AfterTotal, now : Int, total : Int,
   pending : SUBSET Docs, stale : SUBSET Docs, embedded : SUBSET Docs,
   claimed : SUBSET Docs, recent : SUBSET Docs, byType : Int]

-----------------------------------------------------------------------------
(* The inductive invariant.                                                 *)

StatsTypeOK ==
  /\ now \in Int
  /\ documents \subseteq Docs
  /\ pair \in [Docs -> States]
  /\ DOMAIN job = Docs
  /\ \A d \in Docs : IsClaimed(d) => job[d][2] \in Int
  /\ req \in Request
  /\ commits \in Nat /\ inserted \in Nat

\* Rows belong to a document, so what is read is among the documents.
RowsOfDocuments == \A d \in Docs : pair[d] # "none" => d \in documents

\* What has been seen, and what may still be.
Seen == req.pending \cup req.stale \cup req.embedded \cup documents

\* Only an insertion lets a document appear that was not counted in the total.
SeenBound ==
  IF req.pc \in AfterTotal
  THEN Cardinality(Seen) <= req.total + inserted
  ELSE req.pending = {} /\ req.stale = {} /\ req.embedded = {}

\* Without a commit, what was read is what the tables hold.
ReadsAreCurrent ==
  /\ inserted <= commits
  /\ commits = 0 =>
       /\ req.pc \in AfterTotal => req.total = Cardinality(documents)
       /\ req.pc \in AfterPending => req.pending = InState("pending")
       /\ req.pc \in AfterStale => req.stale = InState("stale")
       /\ req.pc \in AfterEmbedded => req.embedded = InState("embedded")
       /\ req.pc \in AfterClaimed =>
            req.claimed = {d \in Docs : IsClaimed(d) /\ job[d][2] >= req.now - FailedLockout}
       /\ req.pc \in AfterRecent => req.recent \subseteq InState("embedded")
       /\ req.pc \in AfterTypes => req.byType = Cardinality(documents)

StatsInv == StatsTypeOK /\ RowsOfDocuments /\ SeenBound /\ ReadsAreCurrent

-----------------------------------------------------------------------------
(* Counting.                                                                *)

\* Sets of documents are finite.
LEMMA DocSetFacts ==
  ASSUME NEW A, A \subseteq Docs
  PROVE  IsFiniteSet(A) /\ Cardinality(A) \in Nat
BY FS_Subset, FS_CardinalityType, ProgressAssumption

\* Parts of a set without common members count at most as much as the set.
LEMMA DisjointParts ==
  ASSUME NEW A, NEW B, NEW C, C \subseteq Docs, A \subseteq C, B \subseteq C, A \cap B = {}
  PROVE  Cardinality(A) + Cardinality(B) <= Cardinality(C)
<1>1. IsFiniteSet(A) /\ IsFiniteSet(B) /\ IsFiniteSet(C)
  BY DocSetFacts
<1>2. Cardinality(A \cup B) = Cardinality(A) + Cardinality(B) - Cardinality(A \cap B)
  BY <1>1, FS_Union
<1>3. Cardinality(A \cap B) = 0
  BY FS_EmptySet
<1>4. Cardinality(A \cup B) <= Cardinality(C)
  BY <1>1, FS_Subset
<1>5. Cardinality(A) \in Nat /\ Cardinality(B) \in Nat
  BY <1>1, FS_CardinalityType
<1> QED
  BY <1>2, <1>3, <1>4, <1>5

\* One more member counts at most one more.
LEMMA OneMore ==
  ASSUME NEW A, NEW B, NEW x, A \subseteq Docs, x \in Docs, B \subseteq A \cup {x}
  PROVE  Cardinality(B) <= Cardinality(A) + 1
<1>1. IsFiniteSet(A) /\ IsFiniteSet(A \cup {x})
  BY DocSetFacts
<1>2. Cardinality(B) <= Cardinality(A \cup {x})
  BY <1>1, FS_Subset
<1>3. Cardinality(A \cup {x}) <= Cardinality(A) + 1
  BY <1>1, FS_AddElement, FS_CardinalityType
<1>4. Cardinality(B) \in Nat /\ Cardinality(A \cup {x}) \in Nat /\ Cardinality(A) \in Nat
  <2>1. B \subseteq Docs /\ A \cup {x} \subseteq Docs
    OBVIOUS
  <2> QED
    BY <2>1, DocSetFacts
<1> QED
  BY <1>2, <1>3, <1>4

\* A subset counts at most as much.
LEMMA FewerOrEqual ==
  ASSUME NEW A, NEW B, A \subseteq Docs, B \subseteq A
  PROVE  Cardinality(B) <= Cardinality(A)
BY DocSetFacts, FS_Subset

-----------------------------------------------------------------------------
(* Steps.                                                                   *)

\* A server without rows, and no request.
LEMMA InitStats == Init => StatsInv
BY ProgressAssumption
   DEF Init, StatsInv, StatsTypeOK, Request, States, IsClaimed, NoJob, Queued, NoStats,
       RowsOfDocuments, SeenBound, ReadsAreCurrent, AfterTotal, AfterPending, AfterStale,
       AfterEmbedded, AfterClaimed, AfterRecent, AfterTypes

\* What every commit does: it keeps the tables in order, counts itself, and brings
\* no document but an inserted one.
LEMMA CommitStep ==
  ASSUME StatsInv, NEW n \in {0, 1}, Commits(n),
         documents' \subseteq Docs, pair' \in [Docs -> States], DOMAIN job' = Docs,
         \A d \in Docs : IsClaimed(d)' => job'[d][2] \in Int,
         RowsOfDocuments',
         n = 0 => documents' \subseteq documents,
         n = 1 => \E x \in Docs : documents' = documents \cup {x}
  PROVE  StatsInv'
<1>1. UNCHANGED <<now, req>>
  BY DEF Commits
<1>2. \/ req.pc = "idle" /\ UNCHANGED <<commits, inserted>>
      \/ req.pc # "idle" /\ commits' = commits + 1 /\ inserted' = inserted + n
  BY DEF Commits, At
<1>3. StatsTypeOK'
  BY <1>1, <1>2 DEF StatsInv, StatsTypeOK
<1>4. ReadsAreCurrent'
  BY <1>1, <1>2 DEF StatsInv, StatsTypeOK, Request, ReadsAreCurrent, AfterTotal, AfterPending,
                    AfterStale, AfterEmbedded, AfterClaimed, AfterRecent, AfterTypes
<1>5. SeenBound'
  <2>1. CASE req.pc \notin AfterTotal
    BY <1>1, <2>1 DEF StatsInv, SeenBound
  <2>2. CASE req.pc \in AfterTotal
    <3>1. inserted' = inserted + n /\ inserted \in Nat
      BY <1>2, <2>2 DEF StatsInv, StatsTypeOK, Request, AfterTotal, AfterPending, AfterStale,
                        AfterEmbedded, AfterClaimed, AfterRecent
    <3>2. Seen \subseteq Docs /\ Seen' \subseteq Docs
      BY <1>1, <1>3 DEF StatsInv, StatsTypeOK, Request, Seen
    <3>3. Cardinality(Seen) \in Nat /\ Cardinality(Seen') \in Nat
      BY <3>2, DocSetFacts
    <3>4. Cardinality(Seen') <= Cardinality(Seen) + n
      <4>1. CASE n = 0
        <5>1. Seen' \subseteq Seen
          BY <1>1, <4>1 DEF Seen
        <5> QED
          BY <3>2, <3>3, <4>1, <5>1, FewerOrEqual
      <4>2. CASE n = 1
        <5>1. PICK x \in Docs : documents' = documents \cup {x}
          BY <4>2
        <5>2. Seen' \subseteq Seen \cup {x}
          BY <1>1, <5>1 DEF Seen
        <5> QED
          BY <3>2, <4>2, <5>2, OneMore
      <4> QED
        BY <4>1, <4>2
    <3>5. Cardinality(Seen) <= req.total + inserted
      BY <2>2 DEF StatsInv, SeenBound
    <3>6. req.total \in Int
      BY DEF StatsInv, StatsTypeOK, Request
    <3>7. Cardinality(Seen') <= req.total + inserted'
      BY <3>1, <3>3, <3>4, <3>5, <3>6
    <3> QED
      BY <1>1, <2>2, <3>7 DEF SeenBound
  <2> QED
    BY <2>1, <2>2
<1> QED
  BY <1>3, <1>4, <1>5 DEF StatsInv

\* Seeding queues jobs and claims none.
LEMMA SeededFacts ==
  ASSUME StatsTypeOK, NEW D, job' = Seeded(D)
  PROVE  DOMAIN job' = Docs /\ \A d \in Docs : IsClaimed(d)' => job'[d][2] \in Int
BY DEF Seeded, StatsTypeOK, IsClaimed, Queued, NoJob

\* The transactions of ingest, workers and requests.
LEMMA WriterStep ==
  ASSUME StatsInv, Writer
  PROVE  StatsInv'
<1> USE DEF States
<1>t. StatsTypeOK /\ RowsOfDocuments
  BY DEF StatsInv
<1>1. CASE InsertDocument
  <2>1. PICK x \in Docs : /\ documents' = documents \cup {x}
                          /\ pair' = [pair EXCEPT ![x] = "pending"]
                          /\ job' = Seeded(Recoverable \cup {x})
    BY <1>1 DEF InsertDocument
  <2>2. Commits(1)
    BY <1>1 DEF InsertDocument
  <2>3. pair' \in [Docs -> States] /\ RowsOfDocuments' /\ documents' \subseteq Docs
    BY <1>t, <2>1 DEF StatsTypeOK, RowsOfDocuments
  <2>4. DOMAIN job' = Docs /\ \A d \in Docs : IsClaimed(d)' => job'[d][2] \in Int
    BY <1>t, <2>1, SeededFacts
  <2> QED
    BY <2>1, <2>2, <2>3, <2>4, CommitStep
<1>2. ASSUME NEW d \in Docs, ReplanDocument(d) \/ MarkStale(d) PROVE StatsInv'
  <2>1. /\ Commits(0) /\ documents' = documents /\ d \in documents
        /\ job' = Seeded(Recoverable \cup {d})
        /\ \E s \in {"pending", "stale"} : pair' = [pair EXCEPT ![d] = s]
    BY <1>2 DEF ReplanDocument, MarkStale, Commit
  <2>2. pair' \in [Docs -> States] /\ RowsOfDocuments'
    BY <1>t, <2>1 DEF StatsTypeOK, RowsOfDocuments
  <2>3. documents' \subseteq Docs
    BY <1>t, <2>1 DEF StatsTypeOK
  <2>4. DOMAIN job' = Docs /\ \A x \in Docs : IsClaimed(x)' => job'[x][2] \in Int
    BY <1>t, <2>1, SeededFacts
  <2> QED
    BY <2>1, <2>2, <2>3, <2>4, CommitStep
<1>3. ASSUME NEW d \in Docs, DeleteDocument(d) PROVE StatsInv'
  <2>1. /\ Commits(0) /\ documents' = documents \ {d}
        /\ pair' = [pair EXCEPT ![d] = "none"] /\ job' = job
    BY <1>3 DEF DeleteDocument, Commit
  <2>2. pair' \in [Docs -> States] /\ RowsOfDocuments' /\ documents' \subseteq Docs
    BY <1>t, <2>1 DEF StatsTypeOK, RowsOfDocuments
  <2>3. DOMAIN job' = Docs /\ \A x \in Docs : IsClaimed(x)' => job'[x][2] \in Int
    BY <1>t, <2>1 DEF StatsTypeOK, IsClaimed
  <2> QED
    BY <2>1, <2>2, <2>3, CommitStep
<1>4. ASSUME NEW d \in Docs,
             \/ ClaimJob(d) \/ CompleteJob(d) \/ StoreEmbeddings(d)
             \/ \E r \in RetryDelays : DeferJob(d, r)
      PROVE  StatsInv'
  <2>1. Commits(0) /\ documents' = documents
    BY <1>4 DEF ClaimJob, CompleteJob, StoreEmbeddings, DeferJob, Commit
  <2>2. pair' \in [Docs -> States] /\ RowsOfDocuments'
    <3>1. \/ pair' = pair
          \/ d \in Recoverable /\ pair' = [pair EXCEPT ![d] = "embedded"]
      BY <1>4 DEF ClaimJob, CompleteJob, StoreEmbeddings, DeferJob
    <3> QED
      BY <1>t, <2>1, <3>1 DEF StatsTypeOK, RowsOfDocuments, Recoverable
  <2>3. DOMAIN job' = Docs /\ \A x \in Docs : IsClaimed(x)' => job'[x][2] \in Int
    <3>1. \/ job' = job
          \/ job' = [job EXCEPT ![d] = NoJob]
          \/ \E t \in Int : job' = [job EXCEPT ![d] = Claimed(t)]
      BY <1>4, <1>t, ProgressAssumption
         DEF ClaimJob, CompleteJob, StoreEmbeddings, DeferJob, StatsTypeOK
    <3> QED
      BY <1>t, <3>1 DEF StatsTypeOK, IsClaimed, NoJob, Queued, Claimed
  <2>4. documents' \subseteq Docs
    BY <1>t, <2>1 DEF StatsTypeOK
  <2> QED
    BY <2>1, <2>2, <2>3, <2>4, CommitStep
<1>5. CASE Tick
  <2>1. now' = now + 1 /\ UNCHANGED <<documents, pair, job, req, commits, inserted>>
    BY <1>5 DEF Tick, tables
  <2> QED
    BY <2>1 DEF StatsInv, StatsTypeOK, IsClaimed, RowsOfDocuments, SeenBound, Seen,
                ReadsAreCurrent, InState
<1> QED
  BY <1>1, <1>2, <1>3, <1>4, <1>5 DEF Writer

\* A statement of the request changes nothing but the request.
LEMMA ReadFrame ==
  ASSUME StatsInv, req' \in Request,
         UNCHANGED <<now, documents, pair, job, commits, inserted>>
  PROVE  StatsTypeOK' /\ RowsOfDocuments'
BY DEF StatsInv, StatsTypeOK, IsClaimed, RowsOfDocuments

\* The statements of the request.
LEMMA StatsStepPreserves ==
  ASSUME StatsInv, StatsStep
  PROVE  StatsInv'
<1> USE DEF At, Reading, tables, AfterTotal, AfterPending, AfterStale, AfterEmbedded,
            AfterClaimed, AfterRecent, AfterTypes
<1>t. StatsTypeOK /\ RowsOfDocuments
  BY DEF StatsInv
<1>s. \A s : InState(s) \subseteq Docs
  BY DEF InState
<1>d. \A s : s # "none" => InState(s) \subseteq documents
  BY <1>t DEF InState, RowsOfDocuments
<1>r. req \in Request
  BY <1>t DEF StatsTypeOK
<1>c. Cardinality(documents) \in Nat
  BY <1>t, DocSetFacts DEF StatsTypeOK
<1>1. CASE StartRequest \/ EndRequest
  <2>1. /\ \/ /\ req.pc = "idle" /\ req' = [NoStats EXCEPT !.pc = "total", !.now = now]
              /\ UNCHANGED <<commits, inserted>>
           \/ req' = NoStats /\ commits' = 0 /\ inserted' = 0
        /\ UNCHANGED <<now, documents, pair, job>>
    BY <1>1 DEF StartRequest, EndRequest
  <2>n. /\ NoStats \in Request /\ NoStats.pc = "idle"
        /\ NoStats.pending = {} /\ NoStats.stale = {} /\ NoStats.embedded = {}
    BY DEF NoStats, Request
  <2>2. /\ req' \in Request /\ req'.pc \in {"idle", "total"}
        /\ req'.pending = {} /\ req'.stale = {} /\ req'.embedded = {}
    <3>1. CASE req' = [NoStats EXCEPT !.pc = "total", !.now = now]
      BY <1>t, <2>n, <3>1 DEF Request, StatsTypeOK
    <3>2. CASE req' = NoStats
      BY <2>n, <3>2
    <3> QED
      BY <2>1, <3>1, <3>2
  <2>3. StatsTypeOK' /\ RowsOfDocuments'
    BY <1>t, <2>1, <2>2 DEF StatsTypeOK, RowsOfDocuments, IsClaimed
  <2>5. inserted' <= commits'
    BY <2>1 DEF StatsInv, ReadsAreCurrent
  <2>6. SeenBound' /\ ReadsAreCurrent'
    BY <2>2, <2>5 DEF SeenBound, ReadsAreCurrent
  <2> QED
    BY <2>3, <2>6 DEF StatsInv
<1>2. CASE ReadTotal
  <2>1. /\ req.pc = "total" /\ req' = [req EXCEPT !.pc = "pending", !.total = Cardinality(documents)]
        /\ UNCHANGED <<now, documents, pair, job, commits, inserted>>
    BY <1>2 DEF ReadTotal
  <2>2. /\ req' \in Request /\ req'.pc = "pending" /\ req'.total = Cardinality(documents)
        /\ req'.pending = req.pending /\ req'.stale = req.stale
        /\ req'.embedded = req.embedded
    <3> HIDE DEF AfterTotal
    <3>1. "pending" \in AfterTotal
      BY DEF AfterTotal
    <3> QED
      <4>1. \A n \in Int : n = Cardinality(documents) =>
              /\ req' \in Request /\ req'.pc = "pending" /\ req'.total = n
              /\ req'.pending = req.pending /\ req'.stale = req.stale
              /\ req'.embedded = req.embedded
        BY <1>r, <2>1, <3>1 DEF Request
      <4> QED
        BY <1>c, <4>1
  <2>3. Seen' = documents
    BY <2>1, <2>2 DEF StatsInv, SeenBound, Seen
  <2>4. SeenBound'
    BY <1>t, <1>c, <2>1, <2>2, <2>3 DEF SeenBound, StatsTypeOK
  <2>5. ReadsAreCurrent'
    BY <2>1, <2>2 DEF StatsInv, ReadsAreCurrent
  <2> QED
    BY <2>1, <2>2, <2>4, <2>5, ReadFrame DEF StatsInv
<1>3. CASE ReadPending \/ ReadStale \/ ReadEmbedded
  <2>1. /\ \/ req.pc = "pending" /\ req' = [req EXCEPT !.pc = "stale", !.pending = InState("pending")]
           \/ req.pc = "stale" /\ req' = [req EXCEPT !.pc = "embedded", !.stale = InState("stale")]
           \/ req.pc = "embedded" /\ req' = [req EXCEPT !.pc = "claimed", !.embedded = InState("embedded")]
        /\ UNCHANGED <<now, documents, pair, job, commits, inserted>>
    BY <1>3 DEF ReadPending, ReadStale, ReadEmbedded
  <2>2. /\ req.pc \in {"pending", "stale", "embedded"}
        /\ req'.pc \in {"stale", "embedded", "claimed"}
        /\ req'.total = req.total
        /\ req'.pending \in {req.pending, InState("pending")}
        /\ req'.stale \in {req.stale, InState("stale")}
        /\ req'.embedded \in {req.embedded, InState("embedded")}
        /\ req'.now = req.now /\ req'.claimed = req.claimed
        /\ req'.recent = req.recent /\ req'.byType = req.byType
        /\ DOMAIN req' = DOMAIN req
    BY <1>r, <2>1 DEF Request
  <2>3. req' \in Request
    <3>1. InState("pending") \in SUBSET Docs /\ InState("stale") \in SUBSET Docs
          /\ InState("embedded") \in SUBSET Docs
      BY <1>s
    <3> HIDE DEF AfterTotal
    <3>2. {"stale", "embedded", "claimed"} \subseteq AfterTotal
      BY DEF AfterTotal
    <3> QED
      BY <1>r, <2>1, <3>1, <3>2 DEF Request
  <2>4. SeenBound'
    <3>1. Seen' \subseteq Seen
      BY <1>d, <2>1, <2>2 DEF Seen
    <3>2. Seen \subseteq Docs
      BY <1>t DEF StatsTypeOK, Request, Seen
    <3>3. Cardinality(Seen') <= Cardinality(Seen)
      BY <3>1, <3>2, FewerOrEqual
    <3>4. Cardinality(Seen) \in Nat /\ Cardinality(Seen') \in Nat
      BY <3>1, <3>2, DocSetFacts
    <3>5. Cardinality(Seen) <= req.total + inserted
      BY <2>1 DEF StatsInv, SeenBound
    <3>6. Cardinality(Seen') <= req.total + inserted
      BY <1>t, <3>3, <3>4, <3>5 DEF StatsTypeOK, Request
    <3> QED
      BY <2>1, <2>2, <3>6 DEF SeenBound
  <2>5. ReadsAreCurrent'
    BY <1>r, <2>1 DEF StatsInv, Request, ReadsAreCurrent, InState, IsClaimed
  <2> QED
    BY <2>1, <2>3, <2>4, <2>5, ReadFrame DEF StatsInv
<1>4. CASE ReadClaimed \/ ReadRecent
  <2> DEFINE C == {d \in Docs : IsClaimed(d) /\ job[d][2] >= req.now - FailedLockout}
             N == {d \in InState("embedded") : embeddedAt[d] >= req.now - RecentWindow}
  <2>1. /\ \/ req.pc = "claimed" /\ req' = [req EXCEPT !.pc = "recent", !.claimed = C]
           \/ req.pc = "recent" /\ req' = [req EXCEPT !.pc = "types", !.recent = N]
        /\ UNCHANGED <<now, documents, pair, job, commits, inserted>>
    BY <1>4 DEF ReadClaimed, ReadRecent
  <2>2. C \subseteq Docs /\ N \subseteq InState("embedded") /\ N \subseteq Docs
    BY <1>s
  <2>3. C' = {d \in Docs : IsClaimed(d) /\ job[d][2] >= req'.now - FailedLockout}
    BY <2>1 DEF IsClaimed
  <2>4. req'.now = req.now
    BY <1>r, <2>1 DEF Request
  <2>5. C' = C
    BY <2>3, <2>4
  <2>6. InState("embedded")' = InState("embedded")
    BY <2>1 DEF InState
  <2> HIDE DEF N
  <2>7. req' \in Request
    BY <1>r, <2>1, <2>2 DEF Request
  <2>8. SeenBound'
    BY <1>r, <2>1 DEF StatsInv, Request, SeenBound, Seen
  <2>9. ReadsAreCurrent'
    BY <1>r, <2>1, <2>2, <2>5, <2>6 DEF StatsInv, Request, ReadsAreCurrent, InState
  <2> QED
    BY <2>1, <2>7, <2>8, <2>9, ReadFrame DEF StatsInv
<1>5. CASE ReadFileTypes \/ ReadCounts
  <2>1. /\ \/ req.pc = "types"
              /\ req' = [req EXCEPT !.pc = "counts", !.byType = Cardinality(documents)]
           \/ req.pc = "counts" /\ \E p \in {"done", "failed"} : req' = [req EXCEPT !.pc = p]
        /\ UNCHANGED <<now, documents, pair, job, commits, inserted>>
    BY <1>5 DEF ReadFileTypes, ReadCounts
  <2>2. req' \in Request
    <3> HIDE DEF AfterTotal
    <3>1. {"counts", "done", "failed"} \subseteq AfterTotal
      BY DEF AfterTotal
    <3> QED
      <4>1. \A n \in Int : n = Cardinality(documents) => req' \in Request
        BY <1>r, <2>1, <3>1 DEF Request
      <4> QED
        BY <1>c, <4>1
  <2>3. SeenBound'
    BY <1>r, <2>1 DEF StatsInv, Request, SeenBound, Seen
  <2>4. ReadsAreCurrent'
    BY <1>r, <2>1 DEF StatsInv, Request, ReadsAreCurrent, InState, IsClaimed
  <2> QED
    BY <2>1, <2>2, <2>3, <2>4, ReadFrame DEF StatsInv
<1> QED
  BY <1>1, <1>2, <1>3, <1>4, <1>5 DEF StatsStep

\* Searching and rendering leave the statistics alone.
LEMMA NextStats == StatsInv /\ [RequestsNext]_requestVars => StatsInv'
<1> SUFFICES ASSUME StatsInv, [RequestsNext]_requestVars PROVE StatsInv'
  OBVIOUS
<1>1. CASE Next
  BY <1>1, WriterStep, StatsStepPreserves DEF Next
<1>2. CASE UNCHANGED vars
  BY <1>2 DEF vars, tables, StatsInv, StatsTypeOK, IsClaimed, RowsOfDocuments, SeenBound,
              Seen, ReadsAreCurrent, InState
<1> QED
  BY <1>1, <1>2 DEF RequestsNext, RenderPage, SendPage, requestVars

-----------------------------------------------------------------------------
(* Theorems.                                                                *)

\* The invariant holds whatever the client does before and in between.
THEOREM StatsInvariant == RequestsSpec => []StatsInv
<1>1. RequestsInit => StatsInv
  BY InitStats DEF RequestsInit
<1> QED
  BY <1>1, NextStats, PTL DEF RequestsSpec

\* What the response subtracts, in a state that has read everything.
LEMMA CountedParts ==
  ASSUME StatsInv, At("done")
  PROVE  /\ EmbeddedDocuments \in Nat /\ FailedLocked \in Nat
         /\ EmbeddedDocuments + FailedLocked <= req.total + inserted
<1> DEFINE R == req.pending \cup req.stale
           E == req.embedded \ R
           L == R \cap req.claimed
<1>1. Seen \subseteq Docs /\ E \subseteq Seen /\ L \subseteq Seen /\ E \cap L = {}
  BY DEF StatsInv, StatsTypeOK, Request, Seen
<1>2. Cardinality(E) \in Nat /\ Cardinality(L) \in Nat /\ Cardinality(Seen) \in Nat
  BY <1>1, DocSetFacts
<1>3. Cardinality(E) + Cardinality(L) <= Cardinality(Seen)
  BY <1>1, DisjointParts
<1>4. Cardinality(Seen) <= req.total + inserted
  BY DEF StatsInv, SeenBound, At, AfterTotal, AfterPending, AfterStale, AfterEmbedded,
         AfterClaimed, AfterRecent
<1>5. req.total \in Int /\ inserted \in Nat
  BY DEF StatsInv, StatsTypeOK, Request
<1>6. EmbeddedDocuments = Cardinality(E) /\ FailedLocked = Cardinality(L)
  BY DEF EmbeddedDocuments, FailedLocked, RecoverableDocuments
<1> HIDE DEF E, L
<1> QED
  BY <1>2, <1>3, <1>4, <1>5, <1>6

\* No document is subtracted twice from the total, however the commits of others
\* fall between the eight statements.
THEOREM NothingCountedTwice == RequestsSpec => []RemainingNotDoubleCounted
<1>1. StatsInv => RemainingNotDoubleCounted
  <2> SUFFICES ASSUME StatsInv, At("done")
               PROVE  Remaining >= -inserted /\ Remaining <= req.total
    BY DEF RemainingNotDoubleCounted
  <2>1. req.total \in Int /\ inserted \in Nat
    BY DEF StatsInv, StatsTypeOK, Request
  <2> QED
    BY <2>1, CountedParts DEF Remaining
<1> QED
  BY <1>1, StatsInvariant, PTL

\* A request that saw one state of the tables gives figures that agree.
THEOREM QuietStatisticsAgree == RequestsSpec => []QuietStatsAgree
<1>1. StatsInv => QuietStatsAgree
  <2> SUFFICES ASSUME StatsInv, At("done"), Quiet
               PROVE  /\ Remaining >= 0
                      /\ EmbeddedRecently <= EmbeddedDocuments
                      /\ req.byType = req.total
    BY DEF QuietStatsAgree
  <2> USE DEF At, Quiet, AfterTotal, AfterPending, AfterStale, AfterEmbedded, AfterClaimed,
              AfterRecent, AfterTypes
  <2>1. inserted = 0 /\ req.total \in Int
    BY DEF StatsInv, StatsTypeOK, Request, ReadsAreCurrent
  <2>2. Remaining >= 0
    BY <2>1, CountedParts DEF Remaining
  <2>3. req.recent \subseteq req.embedded /\ req.embedded \subseteq Docs
    BY DEF StatsInv, StatsTypeOK, Request, ReadsAreCurrent
  <2>4. EmbeddedRecently <= EmbeddedDocuments
    <3> DEFINE A == req.embedded \ RecoverableDocuments
               B == req.recent \ RecoverableDocuments
    <3>1. A \subseteq Docs /\ B \subseteq A
      BY <2>3
    <3>2. Cardinality(B) <= Cardinality(A)
      BY <3>1, FewerOrEqual
    <3> QED
      BY <3>2 DEF EmbeddedRecently, EmbeddedDocuments
  <2>5. req.byType = req.total
    BY DEF StatsInv, ReadsAreCurrent
  <2> QED
    BY <2>2, <2>4, <2>5
<1> QED
  BY <1>1, StatsInvariant, PTL

\* If the two crates' constants are the same number, so are their cutoffs: what the
\* statistics call locked is what claim_job refuses.
THEOREM LockedMeansUnclaimable ==
  ASSUME FailedLockout = StaleJobAge
  PROVE  RequestsSpec => []LockedIsUnclaimable
<1>1. StatsInv => LockedIsUnclaimable
  <2> SUFFICES ASSUME StatsInv, At("done"), Quiet
               PROVE  RecoverableDocuments \cap req.claimed =
                        {d \in Recoverable :
                           IsClaimed(d) /\ ~(job[d][2] < req.now - StaleJobAge)}
    BY DEF LockedIsUnclaimable, FailedLocked
  <2> USE DEF At, Quiet, AfterTotal, AfterPending, AfterStale, AfterEmbedded, AfterClaimed,
              AfterRecent
  <2>1. RecoverableDocuments = Recoverable
    BY DEF StatsInv, ReadsAreCurrent, RecoverableDocuments, Recoverable, InState
  <2>2. req.claimed = {d \in Docs : IsClaimed(d) /\ job[d][2] >= req.now - FailedLockout}
    BY DEF StatsInv, ReadsAreCurrent
  <2>3. req.now \in Int /\ StaleJobAge \in Nat
        /\ \A d \in Docs : IsClaimed(d) => job[d][2] \in Int
    BY ProgressAssumption DEF StatsInv, StatsTypeOK, Request
  <2>4. Recoverable \subseteq Docs
    BY DEF Recoverable
  <2> QED
    BY <2>1, <2>2, <2>3, <2>4
<1> QED
  BY <1>1, StatsInvariant, PTL

-----------------------------------------------------------------------------
(***************************************************************************)
(* Search.                                                                 *)
(***************************************************************************)

-----------------------------------------------------------------------------
(* The inductive invariant of the search.                                   *)

\* What an index of any contents may put on a page.
Chunks == {index[i].chunk : i \in Ids}
Entry == [doc : DocsOf(Ids), distance : Nat,
          location : Chunks \cup {NoLocation}, fromFilename : BOOLEAN]

SearchTypeOK ==
  /\ Ids \subseteq Nat /\ IsFiniteSet(Ids)
  /\ \A i \in Ids : index[i].distance \in Nat
  /\ limit \in Nat /\ includeLocation \in BOOLEAN
  /\ hits \in Seq(Ids) /\ next \in Nat \ {0} /\ results \in Seq(Entry)

Collapsing == pc \in {"collapse", "done"}

\* Nothing has been found yet.
NothingFound == ~Collapsing => hits = <<>> /\ next = 1 /\ results = <<>>

\* The request passed the validation.
LimitIsValid == pc \notin {"validate", "bad_request", "rendered"} => limit \in 1..MaxLimit

\* The hits are what the query made of one choice of nearest rows.
HitsOfQuery == Collapsing => \E N \in Nearest(RawLimit) : hits = HitsOf(N)

\* All hits are collapsed before the answer.
NextHit == next <= Len(hits) + 1 /\ (pc = "done" => next = Len(hits) + 1)

\* The hits collapsed so far.
Collapsed == 1..(next - 1)
DocOf(k) == index[hits[k]].doc
DistanceOf(k) == index[hits[k]].distance

\* A result stands for the nearest of its document's hits so far.
ResultsAreNearest ==
  \A r \in 1..Len(results) :
    /\ \E k \in Collapsed : DocOf(k) = results[r].doc /\ DistanceOf(k) = results[r].distance
    /\ \A k \in Collapsed : DocOf(k) = results[r].doc => results[r].distance <= DistanceOf(k)

ResultsInOrder ==
  \A r, s \in 1..Len(results) : r < s =>
    results[r].doc # results[s].doc /\ results[r].distance <= results[s].distance

\* A document is dropped only when the page is full, and then nothing on the
\* page is farther away.
DroppedAreFarther ==
  \A k \in Collapsed :
    \/ \E r \in 1..Len(results) : results[r].doc = DocOf(k)
    \/ /\ Len(results) = limit
       /\ \A r \in 1..Len(results) : results[r].distance <= DistanceOf(k)

\* The content ranges among a document's hits so far.
ContentHits(d) == {k \in Collapsed : DocOf(k) = d /\ index[hits[k]].chunk # 0}

LocationsSoFar ==
  \A r \in 1..Len(results) :
    /\ results[r].fromFilename = (includeLocation /\ ContentHits(results[r].doc) = {})
    /\ ~includeLocation => results[r].location = NoLocation
    /\ includeLocation /\ ContentHits(results[r].doc) = {} => results[r].location = 0
    /\ includeLocation /\ ContentHits(results[r].doc) # {} =>
         \E k \in ContentHits(results[r].doc) :
           /\ results[r].location = index[hits[k]].chunk
           /\ \A l \in ContentHits(results[r].doc) : k <= l

PageSoFar ==
  /\ Len(results) <= limit
  /\ ResultsAreNearest /\ ResultsInOrder /\ DroppedAreFarther /\ LocationsSoFar

SearchInv ==
  /\ SearchTypeOK /\ NothingFound /\ LimitIsValid /\ HitsOfQuery /\ NextHit /\ PageSoFar

-----------------------------------------------------------------------------
(* The hits of a query.                                                     *)

\* ORDER BY distance, id lists the rows once each, by distance.
LEMMA InOrderFacts ==
  ASSUME NEW H \in SUBSET Ids, SearchTypeOK
  PROVE  /\ InOrder(H) \in Seq(H)
         /\ Len(InOrder(H)) = Cardinality(H)
         /\ \A i \in H : \E k \in 1..Len(InOrder(H)) : InOrder(H)[k] = i
         /\ \A k, l \in 1..Len(InOrder(H)) : k < l =>
              index[InOrder(H)[k]].distance <= index[InOrder(H)[l]].distance
<1> DEFINE R == {p \in H \X H : Nearer(p[1], p[2])}
           n == Cardinality(H)
           s == InOrder(H)
<1>1. IsFiniteSet(H) /\ n \in Nat
  BY FS_Subset, FS_CardinalityType DEF SearchTypeOK
<1>2. \A i, j \in H : <<i, j>> \in R <=> Nearer(i, j)
  OBVIOUS
<1>3. \A i \in H : i \in Nat /\ index[i].distance \in Nat
  BY DEF SearchTypeOK
<1> HIDE DEF R, n, s
<1>4. StrictOrder(R, H)
  BY <1>2, <1>3 DEF StrictOrder, Nearer
<1>5. s = ByRank(R, H, n)
  <2>1. \A i \in H : Rank(R, H, i) = Cardinality({j \in H : Nearer(j, i)})
    <3> TAKE i \in H
    <3>1. {j \in H : <<j, i>> \in R} = {j \in H : Nearer(j, i)}
      BY <1>2
    <3> QED
      BY <3>1 DEF Rank
  <2>2. \A k \in 1..n : (CHOOSE i \in H : Rank(R, H, i) = k - 1)
                        = CHOOSE i \in H : Cardinality({j \in H : Nearer(j, i)}) = k - 1
    BY <2>1
  <2> QED
    BY <2>2 DEF s, n, ByRank, InOrder
<1>6. Lists(s, R, H, n)
  BY <1>1, <1>4, <1>5, SortedByRank DEF n
<1>7. \A k \in 1..n : s[k] \in H
  BY <1>1, <1>6 DEF Lists
<1>8. \A k, l \in 1..n : k < l => index[s[k]].distance <= index[s[l]].distance
  <2> SUFFICES ASSUME NEW k \in 1..n, NEW l \in 1..n, k < l
               PROVE  index[s[k]].distance <= index[s[l]].distance
    OBVIOUS
  <2>1. s[k] \in H /\ s[l] \in H /\ Nearer(s[k], s[l])
    BY <1>2, <1>6, <1>7 DEF Lists
  <2> QED
    BY <1>3, <2>1 DEF Nearer
<1> QED
  BY <1>1, <1>6, <1>8 DEF Lists, s, n

\* The hits depend on nothing but the index.
LEMMA SameIndexSameHits ==
  ASSUME index' = index
  PROVE  \A N : HitsOf(N)' = HitsOf(N)
<1>1. \A H : InOrder(H)' = InOrder(H)
  <2> TAKE H
  <2>1. \A i, j : Nearer(i, j)' <=> Nearer(i, j)
    BY DEF Nearer
  <2>2. \A i : {j \in H : Nearer(j, i)'} = {j \in H : Nearer(j, i)}
    BY <2>1
  <2> DEFINE Before(k) == CHOOSE i \in H : Cardinality({j \in H : Nearer(j, i)}) = k - 1
             After(k) == CHOOSE i \in H : Cardinality({j \in H : Nearer(j, i)'}) = k - 1
  <2>3. \A k \in 1..Cardinality(H) : After(k) = Before(k)
    BY <2>2
  <2>4. /\ InOrder(H) = [k \in 1..Cardinality(H) |-> Before(k)]
        /\ InOrder(H)' = [k \in 1..Cardinality(H) |-> After(k)]
    BY DEF InOrder
  <2> HIDE DEF Before, After
  <2> QED
    BY <2>3, <2>4
<1>2. \A N : {i \in N : index'[i].model = Active} = {i \in N : index[i].model = Active}
  OBVIOUS
<1> QED
  BY <1>1, <1>2 DEF HitsOf

\* RawLimit is the smaller of the two.
LEMMA RawLimitFacts ==
  ASSUME SearchTypeOK
  PROVE  /\ RawLimit \in Nat
         /\ RawLimit \in {limit * RawMultiplier, RawCap}
         /\ RawLimit <= limit * RawMultiplier /\ RawLimit <= RawCap
<1>1. limit * RawMultiplier \in Nat /\ RawCap \in Nat
  BY LimitAssumption DEF SearchTypeOK
<1> QED
  BY <1>1, MinOfNaturals DEF RawLimit

\* The hits of a choice of nearest rows are its rows of the active model, by
\* distance, and no row left out is nearer than one of them.
LEMMA HitsFacts ==
  ASSUME SearchTypeOK, NEW N \in Nearest(RawLimit), hits = HitsOf(N)
  PROVE  /\ \A k \in 1..Len(hits) : hits[k] \in ActiveIds
         /\ \A k, l \in 1..Len(hits) : k < l => DistanceOf(k) <= DistanceOf(l)
         /\ \A i \in ActiveIds : \/ \E k \in 1..Len(hits) : hits[k] = i
                                 \/ \A k \in 1..Len(hits) : DistanceOf(k) <= index[i].distance
         /\ Cardinality(Ids) <= RawLimit =>
              \A i \in ActiveIds : \E k \in 1..Len(hits) : hits[k] = i
<1> DEFINE H == {i \in N : index[i].model = Active}
<1>1. N \in SUBSET Ids /\ \A i \in N, j \in Ids \ N : index[i].distance <= index[j].distance
  BY DEF Nearest
<1>2. H \in SUBSET Ids
  BY <1>1
<1>3. hits = InOrder(H)
  BY DEF HitsOf
<1>4. \A i \in ActiveIds : i \in N <=> i \in H
  BY DEF ActiveIds
<1>5. \A i \in H : i \in ActiveIds /\ i \in N
  BY <1>1 DEF ActiveIds
<1>6. ActiveIds \subseteq Ids
  BY DEF ActiveIds
<1> HIDE DEF H
<1>7. /\ hits \in Seq(H)
      /\ \A i \in H : \E k \in 1..Len(hits) : hits[k] = i
      /\ \A k, l \in 1..Len(hits) : k < l => DistanceOf(k) <= DistanceOf(l)
  BY <1>2, <1>3, InOrderFacts DEF DistanceOf
<1>8. \A k \in 1..Len(hits) : hits[k] \in H
  BY <1>7, ElementOfSeq
<1>9. \A i \in ActiveIds : i \notin N =>
        \A k \in 1..Len(hits) : DistanceOf(k) <= index[i].distance
  BY <1>1, <1>5, <1>6, <1>8 DEF DistanceOf
<1>10. ASSUME Cardinality(Ids) <= RawLimit
       PROVE  N = Ids
  <2>1. Cardinality(N) = Min({RawLimit, Cardinality(Ids)})
    BY DEF Nearest
  <2>2. IsFiniteSet(Ids) /\ Cardinality(Ids) \in Nat /\ RawLimit \in Nat
    BY RawLimitFacts, FS_CardinalityType DEF SearchTypeOK
  <2>3. Min({RawLimit, Cardinality(Ids)}) = Cardinality(Ids)
    BY <1>10, <2>2, MinOfNaturals
  <2> QED
    BY <1>1, <2>1, <2>2, <2>3, FS_Subset
<1> QED
  BY <1>4, <1>5, <1>6, <1>7, <1>8, <1>9, <1>10

-----------------------------------------------------------------------------
(* Collapsing.                                                              *)

\* While hits are collapsed, each one is a row of the index.
LEMMA CollapsedHits ==
  ASSUME SearchInv
  PROVE  /\ Len(hits) \in Nat /\ Len(results) \in Nat /\ next \in Nat /\ next >= 1
         /\ \A k \in 1..Len(hits) : hits[k] \in Ids /\ DistanceOf(k) \in Nat
                                    /\ DocOf(k) \in DocsOf(Ids)
                                    /\ index[hits[k]].chunk \in Chunks
         /\ \A r \in 1..Len(results) : results[r] \in Entry
         /\ \A r \in 1..Len(results) : results[r].distance \in Nat
         /\ Collapsed \subseteq 1..Len(hits)
<1>1. SearchTypeOK /\ NextHit
  BY DEF SearchInv
<1>2. hits \in Seq(Ids) /\ results \in Seq(Entry)
  BY <1>1 DEF SearchTypeOK
<1>3. \A r \in 1..Len(results) : results[r] \in Entry
  <2> HIDE DEF Entry
  <2> QED
    BY <1>2, ElementOfSeq
<1>4. \A k \in 1..Len(hits) : hits[k] \in Ids
  BY <1>2, ElementOfSeq
<1>5. \A r \in 1..Len(results) : results[r].distance \in Nat
  BY <1>3 DEF Entry
<1>6. Len(hits) \in Nat /\ Len(results) \in Nat
  BY <1>2, LenProperties
<1>7. Collapsed \subseteq 1..Len(hits)
  BY <1>1, <1>6 DEF SearchTypeOK, NextHit, Collapsed
<1>8. \A i \in Ids : /\ index[i].distance \in Nat
                     /\ index[i].doc \in DocsOf(Ids) /\ index[i].chunk \in Chunks
  BY <1>1 DEF SearchTypeOK, DocsOf, Chunks
<1>9. next \in Nat /\ next >= 1
  BY <1>1 DEF SearchTypeOK
<1>10. \A k \in 1..Len(hits) : /\ DistanceOf(k) \in Nat /\ DocOf(k) \in DocsOf(Ids)
                                /\ index[hits[k]].chunk \in Chunks
  BY <1>4, <1>8 DEF DistanceOf, DocOf
<1> QED
  BY <1>3, <1>4, <1>5, <1>6, <1>7, <1>9, <1>10

\* The parts of the invariant that only read the request and the hits outlive a
\* step that collapses a hit.
LEMMA CollapseFrame ==
  ASSUME SearchInv, pc = "collapse", next <= Len(hits), next' = next + 1,
         UNCHANGED <<request, pc, hits>>, results' \in Seq(Entry)
  PROVE  /\ SearchTypeOK' /\ NothingFound' /\ LimitIsValid' /\ HitsOfQuery' /\ NextHit'
         /\ Entry' = Entry /\ Chunks' = Chunks
         /\ Collapsed' = Collapsed \cup {next}
         /\ \A k : DocOf(k)' = DocOf(k) /\ DistanceOf(k)' = DistanceOf(k)
<1>1. /\ index' = index /\ limit' = limit /\ includeLocation' = includeLocation
      /\ pc' = pc /\ hits' = hits
  BY DEF request
<1>2. Entry' = Entry /\ Chunks' = Chunks /\ Ids' = Ids
  BY <1>1 DEF Entry, Chunks, Ids, DocsOf
<1>3. SearchTypeOK'
  BY <1>1, <1>2 DEF SearchInv, SearchTypeOK
<1>4. NothingFound' /\ LimitIsValid'
  BY <1>1 DEF SearchInv, NothingFound, Collapsing, LimitIsValid
<1>5. HitsOfQuery'
  <2>2. \A N : HitsOf(N)' = HitsOf(N)
    BY <1>1, SameIndexSameHits
  <2>3. Nearest(RawLimit)' = Nearest(RawLimit)
    BY <1>1, <1>2 DEF Nearest, RawLimit
  <2> QED
    BY <1>1, <2>2, <2>3 DEF SearchInv, HitsOfQuery, Collapsing
<1>6. NextHit'
  BY <1>1, CollapsedHits DEF SearchInv, NextHit
<1>7. Collapsed' = Collapsed \cup {next}
  BY CollapsedHits DEF Collapsed
<1> QED
  BY <1>1, <1>2, <1>3, <1>4, <1>5, <1>6, <1>7 DEF DocOf, DistanceOf

\* The hit to collapse is at least as far away as those before it.
LEMMA NextIsFarther ==
  ASSUME SearchInv, pc = "collapse", next <= Len(hits)
  PROVE  /\ next \in 1..Len(hits)
         /\ \A k \in Collapsed : DistanceOf(k) <= DistanceOf(next) /\ k < next
         /\ \A r \in 1..Len(results) : results[r].distance <= DistanceOf(next)
<1>1. next \in 1..Len(hits) /\ \A k \in Collapsed : k < next /\ k \in 1..Len(hits)
  BY CollapsedHits DEF Collapsed
<1>2. PICK N \in Nearest(RawLimit) : hits = HitsOf(N)
  BY DEF SearchInv, HitsOfQuery, Collapsing
<1>3. \A k, l \in 1..Len(hits) : k < l => DistanceOf(k) <= DistanceOf(l)
  BY <1>2, HitsFacts DEF SearchInv
<1>4. \A k \in Collapsed : DistanceOf(k) <= DistanceOf(next)
  BY <1>1, <1>3
<1>5. \A r \in 1..Len(results) : \E k \in Collapsed : results[r].distance = DistanceOf(k)
  BY DEF SearchInv, PageSoFar, ResultsAreNearest
<1> QED
  BY <1>1, <1>4, <1>5

\* A further hit of a document on the page.
LEMMA SeenHitStep ==
  ASSUME SearchInv, SeenHit
  PROVE  SearchInv'
<1>1. pc = "collapse" /\ next <= Len(hits) /\ next' = next + 1 /\ UNCHANGED <<request, pc, hits>>
  BY DEF SeenHit
<1>2. PICK q \in DOMAIN results :
        /\ results[q].doc = DocOf(next)
        /\ results' = IF includeLocation /\ results[q].fromFilename /\ index[hits[next]].chunk # 0
                      THEN [results EXCEPT ![q].location = index[hits[next]].chunk,
                                           ![q].fromFilename = FALSE]
                      ELSE results
  BY DEF SeenHit, DocOf
<1>3. /\ results \in Seq(Entry) /\ q \in 1..Len(results) /\ results[q] \in Entry
      /\ next \in 1..Len(hits) /\ index[hits[next]].chunk \in Chunks
  BY <1>1, <1>2, NextIsFarther, CollapsedHits, LenProperties DEF SearchInv, SearchTypeOK
<1> DEFINE moves == includeLocation /\ results[q].fromFilename /\ index[hits[next]].chunk # 0
           e == [results[q] EXCEPT !.location = index[hits[next]].chunk, !.fromFilename = FALSE]
<1>4. e \in Entry /\ e.doc = results[q].doc /\ e.distance = results[q].distance
      /\ e.location = index[hits[next]].chunk /\ e.fromFilename = FALSE
  BY <1>3 DEF Entry
<1>5. results' = IF moves THEN [results EXCEPT ![q] = e] ELSE results
  BY <1>2
<1> HIDE DEF e
<1>6. /\ results' \in Seq(Entry) /\ Len(results') = Len(results)
      /\ \A r \in 1..Len(results) :
           results'[r] = IF moves /\ r = q THEN e ELSE results[r]
  <2> HIDE DEF moves, Entry
  <2> QED
    BY <1>3, <1>4, <1>5, ExceptSeq
<1>7. /\ SearchTypeOK' /\ NothingFound' /\ LimitIsValid' /\ HitsOfQuery' /\ NextHit'
      /\ Collapsed' = Collapsed \cup {next}
      /\ \A k : DocOf(k)' = DocOf(k) /\ DistanceOf(k)' = DistanceOf(k)
  BY <1>1, <1>6, CollapseFrame
<1>8. \A r \in 1..Len(results) :
        results'[r].doc = results[r].doc /\ results'[r].distance = results[r].distance
  BY <1>4, <1>6
<1>9. limit' = limit /\ includeLocation' = includeLocation /\ index' = index /\ hits' = hits
  BY <1>1 DEF request
<1>10. Len(results') <= limit' /\ ResultsInOrder'
  BY <1>6, <1>8, <1>9 DEF SearchInv, PageSoFar, ResultsInOrder
<1>11. ResultsAreNearest'
  <2>1. \A r \in 1..Len(results) : results[r].distance <= DistanceOf(next)
    BY <1>1, NextIsFarther
  <2> QED
    BY <1>6, <1>7, <1>8, <2>1 DEF SearchInv, PageSoFar, ResultsAreNearest
<1>12. DroppedAreFarther'
  <2> SUFFICES ASSUME NEW k \in Collapsed \cup {next}
               PROVE  \/ \E r \in 1..Len(results) : results[r].doc = DocOf(k)
                      \/ /\ Len(results) = limit
                         /\ \A r \in 1..Len(results) : results[r].distance <= DistanceOf(k)
    BY <1>6, <1>7, <1>8, <1>9 DEF DroppedAreFarther
  <2> QED
    BY <1>2, <1>3 DEF SearchInv, PageSoFar, DroppedAreFarther
<1>13. LocationsSoFar'
  <2>1. \A d : ContentHits(d)' = IF d = DocOf(next) /\ index[hits[next]].chunk # 0
                                 THEN ContentHits(d) \cup {next} ELSE ContentHits(d)
    BY <1>7, <1>9 DEF ContentHits
  <2>2. \A k \in Collapsed : k < next
    BY <1>1, NextIsFarther
  <2>3. \A r \in 1..Len(results) : r # q => results[r].doc # DocOf(next)
    BY <1>2, <1>3, CollapsedHits DEF SearchInv, PageSoFar, ResultsInOrder
  <2> DEFINE Located(entry, C) ==
        /\ entry.fromFilename = (includeLocation /\ C = {})
        /\ ~includeLocation => entry.location = NoLocation
        /\ includeLocation /\ C = {} => entry.location = 0
        /\ includeLocation /\ C # {} =>
             \E k \in C : /\ entry.location = index[hits[k]].chunk
                          /\ \A l \in C : k <= l
  <2>4. \A r \in 1..Len(results) : Located(results[r], ContentHits(results[r].doc))
    BY DEF SearchInv, PageSoFar, LocationsSoFar
  <2>5. SUFFICES ASSUME NEW r \in 1..Len(results)
                 PROVE  Located(results'[r], ContentHits(results[r].doc)')
    BY <1>6, <1>8, <1>9 DEF LocationsSoFar
  <2>6. CASE r # q \/ index[hits[next]].chunk = 0
    BY <1>6, <2>1, <2>3, <2>4, <2>6
  <2>7. CASE r = q /\ index[hits[next]].chunk # 0
    <3>1. ContentHits(results[q].doc)' = ContentHits(results[q].doc) \cup {next}
      BY <1>2, <2>1, <2>7
    <3>2. ContentHits(results[q].doc) \subseteq Collapsed
      BY DEF ContentHits
    <3> DEFINE C == ContentHits(results[q].doc)
    <3>3. Located(results[q], C)
      BY <2>4, <2>7
    <3>4. next \in Nat /\ \A l \in C : l <= next /\ l \in Nat
      BY <2>2, <3>2, CollapsedHits
    <3> HIDE DEF C
    <3>5. CASE moves
      <4>1. includeLocation /\ C = {}
        BY <3>3, <3>5
      <4>2. ContentHits(results[q].doc)' = {next}
        BY <3>1, <4>1 DEF C
      <4>3. results'[r] = e
        BY <1>6, <2>7, <3>5
      <4> QED
        BY <1>4, <2>7, <3>4, <4>1, <4>2, <4>3, e.fromFilename = FALSE, next \in {next}, next <= next
    <3>6. CASE ~moves
      BY <1>6, <2>7, <3>1, <3>3, <3>4, <3>6 DEF C
    <3> QED
      BY <3>5, <3>6
  <2> QED
    BY <2>6, <2>7
<1> QED
  BY <1>7, <1>10, <1>11, <1>12, <1>13 DEF SearchInv, PageSoFar

\* A hit of a document that is not on the page.
LEMMA NewHitStep ==
  ASSUME SearchInv, NewHit
  PROVE  SearchInv'
<1> DEFINE hit == index[hits[next]]
           e == [doc |-> hit.doc, distance |-> hit.distance,
                 location |-> IF includeLocation THEN hit.chunk ELSE NoLocation,
                 fromFilename |-> includeLocation /\ hit.chunk = 0]
<1>1. pc = "collapse" /\ next <= Len(hits) /\ next' = next + 1 /\ UNCHANGED <<request, pc, hits>>
  BY DEF NewHit
<1>2. /\ results \in Seq(Entry) /\ DOMAIN results = 1..Len(results) /\ Len(results) \in Nat
      /\ next \in 1..Len(hits) /\ hit.doc \in DocsOf(Ids) /\ hit.distance \in Nat
      /\ hit.chunk \in Chunks /\ includeLocation \in BOOLEAN
  BY <1>1, NextIsFarther, CollapsedHits, LenProperties
     DEF SearchInv, SearchTypeOK, DocOf, DistanceOf
<1>3. /\ \A r \in 1..Len(results) : results[r].doc # DocOf(next)
      /\ results' = IF Len(results) = limit THEN results ELSE Append(results, e)
  BY <1>2 DEF NewHit, DocOf
<1>4. /\ e \in Entry /\ e.doc = DocOf(next) /\ e.distance = DistanceOf(next)
      /\ e.location = IF includeLocation THEN hit.chunk ELSE NoLocation
      /\ e.fromFilename = (includeLocation /\ hit.chunk = 0)
  BY <1>2 DEF Entry, DocOf, DistanceOf
<1>5. limit \in Nat /\ Len(results) <= limit
  BY DEF SearchInv, SearchTypeOK, PageSoFar
<1> HIDE DEF e
<1>6. CASE Len(results) = limit
  <2>1. results' = results
    BY <1>3, <1>6
  <2>2. /\ SearchTypeOK' /\ NothingFound' /\ LimitIsValid' /\ HitsOfQuery' /\ NextHit'
        /\ Collapsed' = Collapsed \cup {next}
        /\ \A k : DocOf(k)' = DocOf(k) /\ DistanceOf(k)' = DistanceOf(k)
    BY <1>1, <1>2, <2>1, CollapseFrame
  <2>3. limit' = limit /\ includeLocation' = includeLocation /\ index' = index /\ hits' = hits
    BY <1>1 DEF request
  <2>4. Len(results') <= limit' /\ ResultsInOrder'
    BY <1>5, <2>1, <2>3 DEF SearchInv, PageSoFar, ResultsInOrder
  <2>5. ResultsAreNearest'
    BY <1>3, <2>1, <2>2 DEF SearchInv, PageSoFar, ResultsAreNearest
  <2>6. DroppedAreFarther'
    <3>1. \A r \in 1..Len(results) : results[r].distance <= DistanceOf(next)
      BY <1>1, NextIsFarther
    <3> QED
      BY <1>6, <2>1, <2>2, <2>3, <3>1 DEF SearchInv, PageSoFar, DroppedAreFarther
  <2>7. LocationsSoFar'
    <3>1. \A d : d # DocOf(next) => ContentHits(d)' = ContentHits(d)
      BY <2>2, <2>3 DEF ContentHits
    <3> QED
      BY <1>3, <2>1, <2>3, <3>1 DEF SearchInv, PageSoFar, LocationsSoFar
  <2> QED
    BY <2>2, <2>4, <2>5, <2>6, <2>7 DEF SearchInv, PageSoFar
<1>7. CASE Len(results) # limit
  <2> DEFINE m == Len(results) + 1
  <2>1. /\ results' \in Seq(Entry) /\ Len(results') = m /\ m \in Nat
        /\ \A r \in 1..Len(results) : results'[r] = results[r]
        /\ results'[m] = e
    <3>1. results' = Append(results, e)
      BY <1>3, <1>7
    <3> HIDE DEF Entry
    <3> QED
      BY <1>2, <1>4, <3>1, AppendProperties
  <2>2. /\ SearchTypeOK' /\ NothingFound' /\ LimitIsValid' /\ HitsOfQuery' /\ NextHit'
        /\ Collapsed' = Collapsed \cup {next}
        /\ \A k : DocOf(k)' = DocOf(k) /\ DistanceOf(k)' = DistanceOf(k)
    BY <1>1, <2>1, CollapseFrame
  <2>3. limit' = limit /\ includeLocation' = includeLocation /\ index' = index /\ hits' = hits
    BY <1>1 DEF request
  <2>4. \A r \in 1..m : r \in 1..Len(results) \/ r = m
    BY <1>2
  <2>5. m \in 1..m /\ \A r \in 1..Len(results) : r \in 1..m
    BY <1>2
  \* None of the hits so far was of this document: the page has had room for it.
  <2>6. \A k \in Collapsed : DocOf(k) # DocOf(next)
    <3>1. \A k \in Collapsed : \E r \in 1..Len(results) : results[r].doc = DocOf(k)
      BY <1>7 DEF SearchInv, PageSoFar, DroppedAreFarther
    <3> QED
      BY <1>3, <3>1
  <2>7. \A r \in 1..Len(results) : results[r].distance <= DistanceOf(next)
    BY <1>1, NextIsFarther
  <2>8. m <= limit
    <3>1. \A a, b \in Nat : a <= b /\ a # b => a + 1 <= b
      OBVIOUS
    <3>2. Len(results) \in Nat
      BY <1>2
    <3> QED
      BY <1>5, <1>7, <3>1, <3>2
  <2> HIDE DEF m
  <2>9. ResultsInOrder'
    <3> SUFFICES ASSUME NEW r \in 1..m, NEW s \in 1..m, r < s
                 PROVE  /\ results'[r].doc # results'[s].doc
                        /\ results'[r].distance <= results'[s].distance
      BY <2>1 DEF ResultsInOrder
    <3>1. r \in 1..Len(results)
      BY <1>2 DEF m
    <3>2. CASE s \in 1..Len(results)
      BY <2>1, <3>1, <3>2 DEF SearchInv, PageSoFar, ResultsInOrder
    <3>3. CASE s = m
      BY <1>3, <1>4, <2>1, <2>7, <3>1, <3>3
    <3> QED
      BY <2>4, <3>2, <3>3
  <2>10. ResultsAreNearest'
    <3> SUFFICES ASSUME NEW r \in 1..m
                 PROVE  /\ \E k \in Collapsed \cup {next} :
                             DocOf(k) = results'[r].doc /\ DistanceOf(k) = results'[r].distance
                        /\ \A k \in Collapsed \cup {next} :
                             DocOf(k) = results'[r].doc => results'[r].distance <= DistanceOf(k)
      BY <2>1, <2>2 DEF ResultsAreNearest
    <3>1. CASE r \in 1..Len(results)
      BY <1>3, <2>1, <3>1 DEF SearchInv, PageSoFar, ResultsAreNearest
    <3>2. CASE r = m
      <4>1. results'[r].doc = DocOf(next) /\ results'[r].distance = DistanceOf(next)
        BY <1>4, <2>1, <3>2
      <4>2. DistanceOf(next) <= DistanceOf(next)
        BY <1>2 DEF DistanceOf
      <4> QED
        BY <2>6, <4>1, <4>2
    <3> QED
      BY <2>4, <3>1, <3>2
  <2>11. DroppedAreFarther'
    <3>1. \A k \in Collapsed : \E r \in 1..Len(results) : results[r].doc = DocOf(k)
      BY <1>7 DEF SearchInv, PageSoFar, DroppedAreFarther
    <3>2. \A k \in Collapsed \cup {next} : \E r \in 1..m : results'[r].doc = DocOf(k)
      BY <1>4, <2>1, <2>5, <3>1
    <3> QED
      BY <2>1, <2>2, <3>2 DEF DroppedAreFarther
  <2>12. LocationsSoFar'
    <3>1. \A d : d # DocOf(next) => ContentHits(d)' = ContentHits(d)
      BY <2>2, <2>3 DEF ContentHits
    <3>2. \A d : d = DocOf(next) =>
                   ContentHits(d)' = IF hit.chunk # 0 THEN {next} ELSE {}
      BY <2>2, <2>3, <2>6 DEF ContentHits
    <3> DEFINE Located(entry, C) ==
          /\ entry.fromFilename = (includeLocation /\ C = {})
          /\ ~includeLocation => entry.location = NoLocation
          /\ includeLocation /\ C = {} => entry.location = 0
          /\ includeLocation /\ C # {} =>
               \E k \in C : /\ entry.location = index[hits[k]].chunk
                            /\ \A l \in C : k <= l
    <3>3. \A r \in 1..Len(results) : Located(results[r], ContentHits(results[r].doc))
      BY DEF SearchInv, PageSoFar, LocationsSoFar
    <3>4. Located(e, IF hit.chunk # 0 THEN {next} ELSE {})
      <4>1. next <= next
        BY <1>2
      <4> HIDE DEF hit
      <4>2. CASE hit.chunk = 0
        BY <1>4, <4>2
      <4>3. CASE hit.chunk # 0
        BY <1>4, <4>1, <4>3 DEF hit
      <4> QED
        BY <4>2, <4>3
    <3>5. SUFFICES ASSUME NEW r \in 1..m
                   PROVE  \A d : d = results'[r].doc => Located(results'[r], ContentHits(d)')
      <4>1. \A r \in 1..m : Located(results'[r], ContentHits(results[r].doc)')
        BY <3>5
      <4> QED
        BY <2>1, <2>3, <4>1 DEF LocationsSoFar
    <3> HIDE DEF Located
    <3>6. CASE r \in 1..Len(results)
      BY <1>3, <2>1, <3>1, <3>3, <3>6
    <3>7. CASE r = m
      BY <1>4, <2>1, <3>2, <3>4, <3>7
    <3> QED
      BY <2>4, <3>6, <3>7
  <2> QED
    BY <2>1, <2>2, <2>3, <2>8, <2>9, <2>10, <2>11, <2>12 DEF SearchInv, PageSoFar
<1> QED
  BY <1>6, <1>7

-----------------------------------------------------------------------------
(* The other steps.                                                         *)

\* A search that has just arrived.
LEMMA SearchStarts ==
  ASSUME SearchInit
  PROVE  SearchInv
<1>1. /\ index \in Indexes /\ limit \in Limits /\ includeLocation \in BOOLEAN
      /\ pc = "validate" /\ hits = <<>> /\ next = 1 /\ results = <<>>
  BY DEF SearchInit
<1>2. Len(<<>>) = 0 /\ <<>> \in Seq(Ids) /\ <<>> \in Seq(Entry)
  <2> HIDE DEF Entry
  <2> QED
    BY EmptySeq
<1>3. SearchTypeOK
  BY <1>1, <1>2, IndexAssumption, LimitAssumption DEF SearchTypeOK, Ids
<1>4. PageSoFar
  BY <1>1, <1>2, LimitAssumption
     DEF PageSoFar, ResultsAreNearest, ResultsInOrder, DroppedAreFarther, LocationsSoFar, Collapsed
<1> QED
  BY <1>1, <1>2, <1>3, <1>4
     DEF SearchInv, NothingFound, Collapsing, LimitIsValid, HitsOfQuery, NextHit

\* With nothing found there is nothing to be wrong about.
LEMMA EmptyPage ==
  ASSUME SearchTypeOK, results = <<>>, next = 1
  PROVE  PageSoFar
<1>1. Len(<<>>) = 0
  OBVIOUS
<1> QED
  BY <1>1 DEF SearchTypeOK, PageSoFar, ResultsAreNearest, ResultsInOrder, DroppedAreFarther,
              LocationsSoFar, Collapsed

\* A step that keeps the request and finds nothing.
LEMMA BeforeQueryStep ==
  ASSUME SearchInv, ~Collapsing, Validate \/ EmbedQuery \/ QueryFails
  PROVE  SearchInv'
<1>1. hits = <<>> /\ next = 1 /\ results = <<>> /\ SearchTypeOK /\ LimitIsValid
  BY DEF SearchInv, NothingFound
<1>2. /\ index' = index /\ limit' = limit /\ includeLocation' = includeLocation
      /\ hits' = hits /\ next' = next /\ results' = results
  BY DEF Validate, EmbedQuery, QueryFails, request
<1>3. SearchTypeOK'
  BY <1>1, <1>2 DEF SearchTypeOK, Entry, Chunks, DocsOf, Ids
<1>4. PageSoFar'
  BY <1>1, <1>2 DEF SearchInv, PageSoFar, ResultsAreNearest, ResultsInOrder, DroppedAreFarther,
                    LocationsSoFar, Collapsed, DocOf, DistanceOf, ContentHits
<1>5. ~Collapsing' /\ pc' # "done"
  BY DEF Validate, EmbedQuery, QueryFails, Collapsing
<1>6. LimitIsValid'
  BY <1>1, <1>2, LimitAssumption DEF LimitIsValid, Validate, EmbedQuery, QueryFails, SearchTypeOK
<1> QED
  BY <1>1, <1>2, <1>3, <1>4, <1>5, <1>6
     DEF SearchInv, NothingFound, HitsOfQuery, NextHit

\* The query.
LEMMA RunQueryStep ==
  ASSUME SearchInv, RunQuery
  PROVE  SearchInv'
<1>1. /\ index' = index /\ limit' = limit /\ includeLocation' = includeLocation
      /\ next' = next /\ results' = results /\ pc' = "collapse" /\ pc = "query"
  BY DEF RunQuery, request
<1>2. next = 1 /\ results = <<>> /\ SearchTypeOK
  BY <1>1 DEF SearchInv, NothingFound, Collapsing
<1>3. PICK N \in Nearest(RawLimit) : hits' = HitsOf(N)
  BY DEF RunQuery
<1>4. hits' \in Seq(Ids) /\ Len(hits') \in Nat
  <2> DEFINE H == {i \in N : index[i].model = Active}
  <2>1. H \in SUBSET Ids /\ hits' = InOrder(H)
    BY <1>3 DEF Nearest, HitsOf
  <2> HIDE DEF H
  <2>2. hits' \in Seq(H)
    BY <1>2, <2>1, InOrderFacts
  <2>3. H \subseteq Ids
    BY <2>1
  <2> QED
    BY <2>2, <2>3, SeqMonotonic, LenProperties
<1>5. SearchTypeOK'
  BY <1>1, <1>2, <1>4 DEF SearchTypeOK, Entry, Chunks, DocsOf, Ids
<1>6. HitsOfQuery'
  <2>1. HitsOf(N)' = HitsOf(N)
    BY <1>1, SameIndexSameHits
  <2>2. Nearest(RawLimit)' = Nearest(RawLimit)
    BY <1>1 DEF Nearest, RawLimit, Ids
  <2> QED
    BY <1>3, <2>1, <2>2 DEF HitsOfQuery
<1>7. PageSoFar'
  BY <1>1, <1>2 DEF SearchInv, SearchTypeOK, PageSoFar, ResultsAreNearest, ResultsInOrder,
                    DroppedAreFarther, LocationsSoFar, Collapsed
<1>8. LimitIsValid'
  BY <1>1 DEF SearchInv, LimitIsValid
<1> QED
  BY <1>1, <1>2, <1>4, <1>5, <1>6, <1>7, <1>8 DEF SearchInv, NothingFound, Collapsing, NextHit

\* The answer and what leaves the search alone.
LEMMA SearchFrame ==
  ASSUME SearchInv, UNCHANGED <<request, hits, next, results>>,
         pc' = pc \/ Respond
  PROVE  SearchInv'
<1>1. /\ index' = index /\ limit' = limit /\ includeLocation' = includeLocation
      /\ hits' = hits /\ next' = next /\ results' = results
  BY DEF request
<1>2. SearchTypeOK'
  <2>1. Ids' = Ids
    BY <1>1 DEF Ids
  <2>2. Entry' = Entry
    BY <1>1, <2>1 DEF Entry, Chunks, DocsOf
  <2>3. SearchTypeOK
    BY DEF SearchInv
  <2> QED
    BY <1>1, <2>1, <2>2, <2>3 DEF SearchTypeOK
<1>3. PageSoFar'
  BY <1>1 DEF SearchInv, PageSoFar, ResultsAreNearest, ResultsInOrder, DroppedAreFarther,
              LocationsSoFar, Collapsed, DocOf, DistanceOf, ContentHits
<1>4. Collapsing' <=> Collapsing
  BY DEF Respond, Collapsing
<1>5. HitsOfQuery'
  <2>1. \A N : HitsOf(N)' = HitsOf(N)
    BY <1>1, SameIndexSameHits
  <2>2. Nearest(RawLimit)' = Nearest(RawLimit)
    BY <1>1 DEF Nearest, RawLimit, Ids
  <2> QED
    BY <1>1, <1>4, <2>1, <2>2 DEF SearchInv, HitsOfQuery
<1>6. LimitIsValid' /\ NothingFound'
  BY <1>1, <1>4 DEF SearchInv, LimitIsValid, NothingFound, Respond
<1>7. NextHit'
  BY <1>1, CollapsedHits DEF SearchInv, NextHit, Respond
<1> QED
  BY <1>2, <1>3, <1>5, <1>6, <1>7 DEF SearchInv

\* The page goes to the translation and the search is over.
LEMMA RenderPageStep ==
  ASSUME SearchInv, RenderPage
  PROVE  SearchInv'
<1>1. /\ index' = <<>> /\ limit' = 0 /\ includeLocation' = FALSE
      /\ pc' = "rendered" /\ hits' = <<>> /\ next' = 1 /\ results' = <<>>
  BY DEF RenderPage
<1>2. Len(<<>>) = 0 /\ <<>> \in Seq(Ids') /\ <<>> \in Seq(Entry')
  <2> HIDE DEF Entry
  <2> QED
    BY EmptySeq
<1>3. Ids' = {}
  BY <1>1 DEF Ids
<1>4. SearchTypeOK'
  <2>1. Ids' \subseteq Nat /\ IsFiniteSet(Ids') /\ \A i \in Ids' : index'[i].distance \in Nat
    BY <1>3, FS_EmptySet
  <2>2. limit' \in Nat /\ includeLocation' \in BOOLEAN /\ next' \in Nat \ {0}
    <3>1. includeLocation' \in BOOLEAN
      BY <1>1, Zenon
    <3>2. limit' \in Nat /\ 0 \in Nat
      BY <1>1, Zenon
    <3>3. 1 \in Nat \ {0}
      OBVIOUS
    <3> QED
      BY <1>1, <3>1, <3>2, <3>3, Zenon
  <2> QED
    BY <1>1, <1>2, <2>1, <2>2 DEF SearchTypeOK
<1>5. PageSoFar'
  BY <1>1, <1>2 DEF PageSoFar, ResultsAreNearest, ResultsInOrder, DroppedAreFarther,
                    LocationsSoFar, Collapsed
<1> QED
  BY <1>1, <1>2, <1>4, <1>5
     DEF SearchInv, NothingFound, Collapsing, LimitIsValid, HitsOfQuery, NextHit

\* Every step of the search keeps its invariant.
LEMMA SearchNextKeeps ==
  ASSUME SearchInv, [RequestsNext]_requestVars
  PROVE  SearchInv'
<1>1. CASE Validate \/ EmbedQuery \/ QueryFails
  BY <1>1, BeforeQueryStep DEF Collapsing, Validate, EmbedQuery, QueryFails
<1>2. CASE RunQuery
  BY <1>2, RunQueryStep
<1>3. CASE SeenHit
  BY <1>3, SeenHitStep
<1>4. CASE NewHit
  BY <1>4, NewHitStep
<1>5. CASE Respond
  BY <1>5, SearchFrame DEF Respond
<1>6. CASE UNCHANGED searchVars
  BY <1>6, SearchFrame DEF searchVars, request
<1>7. CASE RenderPage
  BY <1>7, RenderPageStep
<1> QED
  BY <1>1, <1>2, <1>3, <1>4, <1>5, <1>6, <1>7
     DEF RequestsNext, SearchNext, Answered, SendPage, requestVars

-----------------------------------------------------------------------------
(* The theorems.                                                            *)

\* What holds of the page while the hits are collapsed
\* (search_documents_by_embedding, collapse_to_documents).
THEOREM SearchAlways == RequestsSpec => []SearchInv
<1>1. RequestsInit => SearchInv
  BY SearchStarts DEF RequestsInit
<1>2. SearchInv /\ [RequestsNext]_requestVars => SearchInv'
  BY SearchNextKeeps
<1> QED
  BY <1>1, <1>2, PTL DEF RequestsSpec

\* At the answer every hit is collapsed, and the hits are those of one choice of
\* nearest rows.
LEMMA AnsweredFacts ==
  ASSUME SearchInv, pc = "done"
  PROVE  /\ Collapsed = 1..Len(hits)
         /\ DOMAIN results = 1..Len(results) /\ DOMAIN hits = 1..Len(hits)
         /\ limit \in 1..MaxLimit
         /\ \E N \in Nearest(RawLimit) : hits = HitsOf(N)
<1>1. Collapsed = 1..Len(hits)
  BY CollapsedHits DEF SearchInv, NextHit, Collapsed
<1>2. DOMAIN results = 1..Len(results) /\ DOMAIN hits = 1..Len(hits)
  <2> HIDE DEF Entry
  <2> QED
    BY LenProperties DEF SearchInv, SearchTypeOK
<1> QED
  BY <1>1, <1>2 DEF SearchInv, HitsOfQuery, Collapsing, LimitIsValid

\* When all hits are collapsed, the page is the nearest documents.
LEMMA PageFromInv ==
  ASSUME SearchInv
  PROVE  PageIsBest
<1> SUFFICES ASSUME pc = "done"
             PROVE  PageIsBest
  BY DEF PageIsBest
<1>1. PICK N \in Nearest(RawLimit) : hits = HitsOf(N)
  BY AnsweredFacts
<1>2. /\ \A k \in 1..Len(hits) : hits[k] \in ActiveIds
      /\ \A i \in ActiveIds : \/ \E k \in 1..Len(hits) : hits[k] = i
                              \/ \A k \in 1..Len(hits) : DistanceOf(k) <= index[i].distance
  BY <1>1, HitsFacts DEF SearchInv
<1>3. ResultsAreNearest /\ ResultsInOrder /\ DroppedAreFarther /\ Len(results) <= limit
      /\ Collapsed = 1..Len(hits) /\ DOMAIN results = 1..Len(results)
  BY AnsweredFacts DEF SearchInv, PageSoFar
<1>4. \A i \in ActiveIds : i \in Ids /\ index[i].distance \in Nat
  BY DEF ActiveIds, SearchInv, SearchTypeOK
<1> SUFFICES ASSUME NEW r \in 1..Len(results)
             PROVE  LET mine == {i \in ActiveIds : index[i].doc = results[r].doc} IN
                    /\ mine # {}
                    /\ results[r].distance = Min({index[i].distance : i \in mine})
                    /\ \A i \in ActiveIds :
                         index[i].distance < results[r].distance =>
                           \E s \in 1..Len(results) : results[s].doc = index[i].doc
  BY <1>3 DEF PageIsBest, ResultsInOrder
<1> DEFINE mine == {i \in ActiveIds : index[i].doc = results[r].doc}
<1>5. PICK k \in 1..Len(hits) : DocOf(k) = results[r].doc /\ DistanceOf(k) = results[r].distance
  BY <1>3 DEF ResultsAreNearest
<1>6. hits[k] \in mine /\ results[r].distance = index[hits[k]].distance
  BY <1>2, <1>5 DEF DocOf, DistanceOf
<1>7. \A i \in mine : results[r].distance <= index[i].distance
  <2> SUFFICES ASSUME NEW i \in mine
               PROVE  results[r].distance <= index[i].distance
    OBVIOUS
  <2>1. CASE \E l \in 1..Len(hits) : hits[l] = i
    BY <1>3, <2>1 DEF ResultsAreNearest, DocOf, DistanceOf
  <2>2. CASE \A l \in 1..Len(hits) : DistanceOf(l) <= index[i].distance
    BY <1>5, <2>2
  <2> QED
    BY <1>2, <2>1, <2>2
<1>8. results[r].distance = Min({index[i].distance : i \in mine})
  <2> DEFINE D == {index[i].distance : i \in mine}
  <2>1. D \in SUBSET Nat /\ D # {}
    BY <1>4, <1>6
  <2>2. results[r].distance \in D /\ \A d \in D : results[r].distance <= d
    BY <1>6, <1>7
  <2> HIDE DEF D
  <2>3. Min(D) \in D /\ \A d \in D : Min(D) <= d
    BY <2>1, MinOfNaturals
  <2>4. Min(D) \in Nat /\ results[r].distance \in Nat
    BY <2>1, <2>2, <2>3
  <2>5. Min(D) = results[r].distance
    BY <2>2, <2>3, <2>4
  <2> QED
    BY <2>5 DEF D
<1>9. ASSUME NEW i \in ActiveIds, index[i].distance < results[r].distance
      PROVE  \E s \in 1..Len(results) : results[s].doc = index[i].doc
  <2>1. results[r].distance \in Nat /\ index[i].distance \in Nat
    BY <1>4, <1>6
  <2>2. ~(results[r].distance <= index[i].distance)
    BY <1>9, <2>1
  <2>3. PICK l \in 1..Len(hits) : hits[l] = i
    BY <1>2, <1>5, <2>2
  <2>4. ~(\A s \in 1..Len(results) : results[s].distance <= DistanceOf(l))
    BY <2>2, <2>3 DEF DistanceOf
  <2> QED
    BY <1>3, <2>3, <2>4 DEF DroppedAreFarther, DocOf
<1> QED
  BY <1>6, <1>8, <1>9

\* A document that is missing from a page with room left has only hits beyond the
\* raw limit: every document among the hits is on the page or was cut by it.
LEMMA ShortPageFromInv ==
  ASSUME SearchInv
  PROVE  ShortPageExhaustsRawLimit
<1> SUFFICES ASSUME pc = "done", Len(results) < limit,
                    ~(Cardinality(Ids) > limit * RawMultiplier), ~(Cardinality(Ids) > RawCap)
             PROVE  DocsOf(ActiveIds) = {results[r].doc : r \in DOMAIN results}
  BY DEF ShortPageExhaustsRawLimit
<1>1. PICK N \in Nearest(RawLimit) : hits = HitsOf(N)
  BY AnsweredFacts
<1>2. Cardinality(Ids) <= RawLimit
  <2>1. Cardinality(Ids) \in Nat
    BY FS_CardinalityType DEF SearchInv, SearchTypeOK
  <2>2. limit * RawMultiplier \in Nat /\ RawCap \in Nat
    BY LimitAssumption DEF SearchInv, SearchTypeOK
  <2>3. RawLimit \in {limit * RawMultiplier, RawCap}
    BY RawLimitFacts DEF SearchInv
  <2> QED
    BY <2>1, <2>2, <2>3
<1>3. /\ \A k \in 1..Len(hits) : hits[k] \in ActiveIds
      /\ \A i \in ActiveIds : \E k \in 1..Len(hits) : hits[k] = i
  BY <1>1, <1>2, HitsFacts DEF SearchInv
<1>4. ResultsAreNearest /\ DroppedAreFarther
      /\ Collapsed = 1..Len(hits) /\ DOMAIN results = 1..Len(results)
  BY AnsweredFacts DEF SearchInv, PageSoFar
<1>5. Len(results) # limit
  BY CollapsedHits DEF SearchInv, SearchTypeOK
<1>6. \A i \in ActiveIds : \E r \in 1..Len(results) : results[r].doc = index[i].doc
  BY <1>3, <1>4, <1>5 DEF DroppedAreFarther, DocOf
<1>7. \A r \in 1..Len(results) : \E i \in ActiveIds : results[r].doc = index[i].doc
  BY <1>3, <1>4 DEF ResultsAreNearest, DocOf
<1>8. DocsOf(ActiveIds) \subseteq {results[r].doc : r \in 1..Len(results)}
  BY <1>6 DEF DocsOf
<1>9. {results[r].doc : r \in 1..Len(results)} \subseteq DocsOf(ActiveIds)
  BY <1>7 DEF DocsOf
<1> QED
  BY <1>4, <1>8, <1>9

\* A location on the page is that of the first content hit of its document, and the
\* hits are in order, so it is the nearest.
LEMMA LocationFromInv ==
  ASSUME SearchInv
  PROVE  LocationIsNearestContent
<1> SUFFICES ASSUME pc = "done"
             PROVE  LocationIsNearestContent
  BY DEF LocationIsNearestContent
<1>1. /\ LocationsSoFar
      /\ Collapsed = 1..Len(hits) /\ DOMAIN results = 1..Len(results) /\ DOMAIN hits = 1..Len(hits)
  BY AnsweredFacts DEF SearchInv, PageSoFar
<1> SUFFICES ASSUME NEW r \in 1..Len(results)
             PROVE  LET content == {k \in DOMAIN hits : /\ index[hits[k]].doc = results[r].doc
                                                        /\ index[hits[k]].chunk # 0}
                    IN results[r].location =
                         IF ~includeLocation THEN NoLocation
                         ELSE IF content = {} THEN 0 ELSE index[hits[Min(content)]].chunk
  BY <1>1 DEF LocationIsNearestContent
<1> DEFINE content == {k \in DOMAIN hits : /\ index[hits[k]].doc = results[r].doc
                                           /\ index[hits[k]].chunk # 0}
<1>2. content = ContentHits(results[r].doc)
  BY <1>1 DEF ContentHits, DocOf
<1>3. content \in SUBSET Nat
  BY <1>1, CollapsedHits
<1> HIDE DEF content
<1>4. CASE includeLocation /\ content # {}
  <2>1. PICK k \in content : results[r].location = index[hits[k]].chunk /\ \A l \in content : k <= l
    BY <1>1, <1>2, <1>4 DEF LocationsSoFar
  <2>2. Min(content) \in content /\ \A l \in content : Min(content) <= l
    BY <1>3, <1>4, MinOfNaturals
  <2>3. Min(content) = k
    <3>1. k \in Nat /\ Min(content) \in Nat
      BY <1>3, <2>1, <2>2
    <3>2. k <= Min(content) /\ Min(content) <= k
      BY <2>1, <2>2
    <3> QED
      BY <3>1, <3>2
  <2> QED
    BY <1>4, <2>1, <2>3 DEF content
<1>5. CASE ~includeLocation \/ content = {}
  BY <1>1, <1>2, <1>5 DEF LocationsSoFar, content, SearchInv, SearchTypeOK
<1> QED
  BY <1>4, <1>5

\* POST /search answers with the nearest documents under the active model, each
\* once and with its best distance, whatever rows the vector table picks among
\* equally near ones.
THEOREM PageAlwaysBest == RequestsSpec => []PageIsBest
BY SearchAlways, PageFromInv, PTL

\* A page shorter than asked for leaves a document out only if the raw LIMIT was
\* used up (expanded_raw_limit).
THEOREM ShortPageAlwaysJustified == RequestsSpec => []ShortPageExhaustsRawLimit
BY SearchAlways, ShortPageFromInv, PTL

\* The location of a result is its nearest content range, also when a later hit
\* than the one that listed it brings that range (collapse_to_documents).
THEOREM LocationAlwaysNearest == RequestsSpec => []LocationIsNearestContent
BY SearchAlways, LocationFromInv, PTL

-----------------------------------------------------------------------------
(***************************************************************************)
(* The paths of a response.                                                *)
(***************************************************************************)

-----------------------------------------------------------------------------
(* The names on a path.                                                     *)

Piece == STRING \cup Signs
Text  == Seq(Piece)

\* The names of a text, from left to right.
Earlier == {p \in Nat \X Nat : p[1] < p[2]}
Spells(text, names) ==
  \E q : /\ Lists(q, Earlier, NamePlaces(text), Len(names))
         /\ \A k \in 1..Len(names) : names[k] = text[q[k]]

\* The places of names are numbers, ordered as such.
LEMMA PlacesInOrder ==
  ASSUME NEW text \in Text
  PROVE  /\ NamePlaces(text) \subseteq 1..Len(text) /\ Len(text) \in Nat
         /\ IsFiniteSet(NamePlaces(text)) /\ Cardinality(NamePlaces(text)) \in Nat
         /\ StrictOrder(Earlier, NamePlaces(text))
         /\ \A i \in NamePlaces(text) :
              Rank(Earlier, NamePlaces(text), i) =
                Cardinality({j \in NamePlaces(text) : j < i})
<1>1. Len(text) \in Nat /\ NamePlaces(text) \subseteq 1..Len(text)
  BY LenProperties DEF NamePlaces, Text
<1>2. IsFiniteSet(NamePlaces(text)) /\ Cardinality(NamePlaces(text)) \in Nat
  BY <1>1, CountTo, FS_Subset, FS_CardinalityType
<1>3. \A i, j \in NamePlaces(text) : i \in Nat /\ (<<i, j>> \in Earlier <=> i < j)
  BY <1>1 DEF Earlier
<1>4. StrictOrder(Earlier, NamePlaces(text))
  <2> DEFINE P == NamePlaces(text)
  <2>1. /\ \A i, j \in P : <<i, j>> \in Earlier <=> i < j
        /\ \A i \in P : i \in Nat
    BY <1>3
  <2> HIDE DEF P
  <2>2. \A i \in P : <<i, i>> \notin Earlier
    BY <2>1
  <2>3. \A i, j \in P : i # j => <<i, j>> \in Earlier \/ <<j, i>> \in Earlier
    BY <2>1
  <2>4. \A i, j, k \in P : <<i, j>> \in Earlier /\ <<j, k>> \in Earlier => <<i, k>> \in Earlier
    BY <2>1
  <2>5. StrictOrder(Earlier, P)
    BY <2>2, <2>3, <2>4 DEF StrictOrder
  <2> QED
    BY <2>5 DEF P
<1>5. ASSUME NEW i \in NamePlaces(text)
      PROVE  Rank(Earlier, NamePlaces(text), i) = Cardinality({j \in NamePlaces(text) : j < i})
  <2>1. {j \in NamePlaces(text) : <<j, i>> \in Earlier} = {j \in NamePlaces(text) : j < i}
    BY <1>3
  <2> QED
    BY <2>1 DEF Rank
<1> QED
  BY <1>1, <1>2, <1>4, <1>5

\* Names spells the text.
LEMMA NamesSpell ==
  ASSUME NEW text \in Text
  PROVE  Names(text) \in Seq(Piece) /\ Spells(text, Names(text))
<1> DEFINE P == NamePlaces(text)
           n == Cardinality(P)
           q == ByRank(Earlier, P, n)
           Named(k) == CHOOSE i \in P : Cardinality({j \in P : j < i}) = k - 1
<1>1. /\ n \in Nat /\ IsFiniteSet(P) /\ StrictOrder(Earlier, P) /\ P \subseteq 1..Len(text)
      /\ \A i \in P : Rank(Earlier, P, i) = Cardinality({j \in P : j < i})
  BY PlacesInOrder
<1>2. Names(text) = [k \in 1..n |-> text[Named(k)]]
  BY DEF Names
<1>3. \A k \in 1..n : q[k] = Named(k)
  <2> TAKE k \in 1..n
  <2>1. q[k] = CHOOSE i \in P : Rank(Earlier, P, i) = k - 1
    BY DEF ByRank
  <2>2. \A i \in P : Rank(Earlier, P, i) = k - 1 <=> Cardinality({j \in P : j < i}) = k - 1
    BY <1>1
  <2>3. {i \in P : Rank(Earlier, P, i) = k - 1} = {i \in P : Cardinality({j \in P : j < i}) = k - 1}
    BY <2>2
  <2>4. \A A, B : A = B => (CHOOSE i : i \in A) = (CHOOSE i : i \in B)
    OBVIOUS
  <2> QED
    BY <2>1, <2>2
<1> HIDE DEF P, n, q, Named
<1>4. Lists(q, Earlier, P, n)
  BY <1>1, SortedByRank DEF n, q
<1>5. \A k \in 1..n : q[k] \in P
  <2>1. q \in Seq(P) /\ Len(q) = n
    BY <1>4 DEF Lists
  <2> QED
    BY <2>1, ElementOfSeq
<1>6. \A k \in 1..n : text[Named(k)] \in Piece
  <2> TAKE k \in 1..n
  <2>1. Named(k) \in 1..Len(text)
    BY <1>1, <1>3, <1>5
  <2> QED
    BY <2>1, ElementOfSeq DEF Text
<1>7. /\ Names(text) \in Seq(Piece) /\ Len(Names(text)) = n
      /\ \A k \in 1..n : Names(text)[k] = text[q[k]]
  <2>1. Names(text) \in [1..n -> Piece]
    BY <1>2, <1>6
  <2> QED
    BY <1>1, <1>2, <1>3, <2>1
<1> QED
  BY <1>4, <1>7 DEF Spells, P

\* There is only one way to spell a text.
LEMMA SpelledOnce ==
  ASSUME NEW text \in Text, NEW names \in Seq(Piece), Spells(text, names)
  PROVE  Names(text) = names
<1> DEFINE P == NamePlaces(text)
           n == Len(names)
           Named(k) == CHOOSE i \in P : Cardinality({j \in P : j < i}) = k - 1
<1>1. PICK q : Lists(q, Earlier, P, n) /\ \A k \in 1..n : names[k] = text[q[k]]
  BY DEF Spells
<1>2. /\ StrictOrder(Earlier, P) /\ IsFiniteSet(P)
      /\ \A i \in P : Rank(Earlier, P, i) = Cardinality({j \in P : j < i})
  BY PlacesInOrder
<1>3. n \in Nat /\ names = [k \in 1..n |-> names[k]]
  BY LenProperties
<1>4. Names(text) = [k \in 1..Cardinality(P) |-> text[Named(k)]]
  BY DEF Names
<1> HIDE DEF P, n
<1>5. Cardinality(P) = n /\ \A k \in 1..n : q[k] \in P /\ Rank(Earlier, P, q[k]) = k - 1
  BY <1>1, <1>2, <1>3, ListRank
<1>6. \A k \in 1..n : Named(k) = q[k]
  <2> TAKE k \in 1..n
  <2>1. Named(k) \in P /\ Rank(Earlier, P, Named(k)) = k - 1
    BY <1>2, <1>5
  <2> HIDE DEF Named
  <2> DEFINE rank == [i \in P |-> Rank(Earlier, P, i)]
  <2>2. rank[Named(k)] = k - 1 /\ rank[q[k]] = k - 1
    BY <1>5, <2>1
  <2>3. rank = [i \in P |-> Rank(Earlier, P, i)]
    OBVIOUS
  <2> HIDE DEF rank
  <2>4. Numbering(rank, Earlier, P, Cardinality(P))
    BY <1>2, <2>3, RankIsPosition
  <2> QED
    BY <1>5, <2>1, <2>2, <2>4 DEF Numbering
<1> HIDE DEF Named
<1> QED
  BY <1>1, <1>3, <1>4, <1>5, <1>6

\* Only the places and the names at them count.
LEMMA SameNames ==
  ASSUME NEW a, NEW b, NEW names, NamePlaces(a) = NamePlaces(b),
         \A i \in NamePlaces(a) : a[i] = b[i], Spells(a, names), Len(names) \in Nat
  PROVE  Spells(b, names)
<1>1. PICK q : /\ Lists(q, Earlier, NamePlaces(a), Len(names))
               /\ \A k \in 1..Len(names) : names[k] = a[q[k]]
  BY DEF Spells
<1>2. \A k \in 1..Len(names) : q[k] \in NamePlaces(a)
  <2>1. q \in Seq(NamePlaces(a)) /\ Len(q) = Len(names)
    BY <1>1 DEF Lists
  <2> QED
    BY <2>1, ElementOfSeq
<1> QED
  BY <1>1, <1>2 DEF Spells

\* A text without names.
LEMMA NoNames ==
  ASSUME NEW text, NamePlaces(text) = {}
  PROVE  Spells(text, <<>>)
<1>1. Len(<<>>) = 0
  OBVIOUS
<1>2. Lists(<<>>, Earlier, {}, 0)
  BY <1>1 DEF Lists
<1> QED
  BY <1>1, <1>2 DEF Spells

\* A text after a text.
LEMMA SpellConcat ==
  ASSUME NEW a \in Text, NEW b \in Text, NEW m \in Seq(Piece), NEW n \in Seq(Piece),
         Spells(a, m), Spells(b, n)
  PROVE  Spells(a \o b, m \o n)
<1> DEFINE A == NamePlaces(a)
           B == NamePlaces(b)
           C == NamePlaces(a \o b)
           la == Len(a)
           lb == Len(b)
           lm == Len(m)
           ln == Len(n)
<1>1. PICK p : Lists(p, Earlier, A, lm) /\ \A k \in 1..lm : m[k] = a[p[k]]
  BY DEF Spells
<1>2. PICK r : Lists(r, Earlier, B, ln) /\ \A k \in 1..ln : n[k] = b[r[k]]
  BY DEF Spells
<1>3. /\ la \in Nat /\ lb \in Nat /\ lm \in Nat /\ ln \in Nat
      /\ A \subseteq 1..la /\ B \subseteq 1..lb
  BY PlacesInOrder, LenProperties
<1>4. /\ a \o b \in Text /\ Len(a \o b) = la + lb
      /\ \A i \in 1..(la + lb) : (a \o b)[i] = IF i <= la THEN a[i] ELSE b[i - la]
      /\ m \o n \in Seq(Piece) /\ Len(m \o n) = lm + ln
      /\ \A k \in 1..(lm + ln) : (m \o n)[k] = IF k <= lm THEN m[k] ELSE n[k - lm]
  BY ConcatProperties DEF Text
<1>5. DOMAIN (a \o b) = 1..(la + lb) /\ DOMAIN a = 1..la /\ DOMAIN b = 1..lb
  BY <1>4, LenProperties DEF Text
<1>6. \A i : i \in C <=> i \in A \/ (i \in 1..(la + lb) /\ i > la /\ i - la \in B)
  <2>1. \A i \in 1..la : i \in C <=> i \in A
    BY <1>3, <1>4, <1>5 DEF NamePlaces
  <2>2. \A i \in 1..(la + lb) : i > la => (i \in C <=> i - la \in B)
    BY <1>3, <1>4, <1>5 DEF NamePlaces
  <2>3. C \subseteq 1..(la + lb)
    BY <1>5 DEF NamePlaces
  <2> QED
    BY <1>3, <2>1, <2>2, <2>3
<1> DEFINE q == [k \in 1..(lm + ln) |-> IF k <= lm THEN p[k] ELSE la + r[k - lm]]
<1>7. /\ p \in [1..lm -> A] /\ r \in [1..ln -> B]
      /\ \A k, l \in 1..lm : k < l => p[k] < p[l]
      /\ \A k, l \in 1..ln : k < l => r[k] < r[l]
      /\ \A i \in A : \E k \in 1..lm : p[k] = i
      /\ \A i \in B : \E k \in 1..ln : r[k] = i
  <2>1. p \in Seq(A) /\ Len(p) = lm /\ r \in Seq(B) /\ Len(r) = ln
    BY <1>1, <1>2 DEF Lists
  <2>2. p \in [1..lm -> A] /\ r \in [1..ln -> B]
    BY <2>1, LenProperties
  <2> QED
    BY <1>1, <1>2, <2>2 DEF Lists, Earlier
<1> HIDE DEF A, B, C, la, lb, lm, ln
<1>8. \A k \in 1..(lm + ln) : k \in Nat /\ (k <= lm => k \in 1..lm) /\ (k > lm => k - lm \in 1..ln)
                              /\ (k <= lm \/ k > lm)
  BY <1>3
<1>9. \A k \in 1..lm : k \in 1..(lm + ln) /\ k <= lm
  BY <1>3
<1>10. \A k \in 1..lm : p[k] \in A /\ p[k] \in 1..la /\ q[k] = p[k]
  <2> TAKE k \in 1..lm
  <2>1. p[k] \in A
    BY <1>7
  <2>2. q[k] = p[k]
    BY <1>9
  <2> QED
    BY <1>3, <2>1, <2>2
<1>11. \A k \in 1..(lm + ln) : k > lm =>
        /\ k - lm \in 1..ln /\ r[k - lm] \in B /\ r[k - lm] \in 1..lb
        /\ q[k] = la + r[k - lm]
  <2> SUFFICES ASSUME NEW k \in 1..(lm + ln), k > lm
               PROVE  /\ k - lm \in 1..ln /\ r[k - lm] \in B /\ r[k - lm] \in 1..lb
                      /\ q[k] = la + r[k - lm]
    OBVIOUS
  <2>1. k - lm \in 1..ln /\ ~(k <= lm)
    BY <1>3
  <2>2. r[k - lm] \in B
    BY <1>7, <2>1
  <2>3. q[k] = la + r[k - lm]
    BY <2>1
  <2> QED
    BY <1>3, <2>1, <2>2, <2>3
<1>12. \A k \in 1..(lm + ln) : k > lm =>
         q[k] \in 1..(la + lb) /\ q[k] > la /\ ~(q[k] <= la) /\ q[k] - la = r[k - lm]
  <2> SUFFICES ASSUME NEW k \in 1..(lm + ln), k > lm
               PROVE  q[k] \in 1..(la + lb) /\ q[k] > la /\ ~(q[k] <= la) /\ q[k] - la = r[k - lm]
    OBVIOUS
  <2> DEFINE x == r[k - lm]
             y == q[k]
  <2>1. x \in 1..lb /\ y = la + x
    BY <1>11
  <2> HIDE DEF x, y, q
  <2>2. y \in 1..(la + lb) /\ y > la /\ ~(y <= la) /\ y - la = x
    BY <1>3, <2>1
  <2> QED
    BY <2>2 DEF x, y
<1>13. Len(q) = lm + ln /\ q \in Seq(C)
  <2>1. \A k \in 1..(lm + ln) : q[k] \in C
    <3> TAKE k \in 1..(lm + ln)
    <3>1. CASE k <= lm
      BY <1>6, <1>10, <1>8, <3>1
    <3>2. CASE k > lm
      BY <1>6, <1>11, <1>12, <3>2
    <3> QED
      BY <1>8, <3>1, <3>2
  <2>2. q \in [1..(lm + ln) -> C]
    BY <2>1
  <2> HIDE DEF q
  <2> QED
    BY <1>3, <2>2
<1> HIDE DEF q
<1>14. ASSUME NEW k \in 1..(lm + ln), NEW l \in 1..(lm + ln), k < l
       PROVE  <<q[k], q[l]>> \in Earlier
  <2>1. q[k] \in Nat /\ q[l] \in Nat /\ q[k] < q[l]
    <3>1. CASE l <= lm
      <4>1. k \in 1..lm /\ l \in 1..lm
        BY <1>3, <1>14, <3>1
      <4> QED
        BY <1>3, <1>7, <1>10, <1>14, <4>1
    <3>2. CASE k <= lm /\ l > lm
      <4>1. q[k] \in 1..la /\ q[l] > la /\ q[l] \in 1..(la + lb)
        BY <1>10, <1>12, <1>8, <3>2
      <4> QED
        BY <1>3, <4>1
    <3>3. CASE k > lm
      <4>1. /\ k - lm \in 1..ln /\ l - lm \in 1..ln /\ k - lm < l - lm
            /\ l > lm
        BY <1>3, <1>14, <3>3
      <4>2. r[k - lm] < r[l - lm]
        BY <1>7, <4>1
      <4> QED
        <5>1. /\ q[k] = la + r[k - lm] /\ r[k - lm] \in 1..lb
              /\ q[l] = la + r[l - lm] /\ r[l - lm] \in 1..lb
          BY <1>11, <3>3, <4>1
        <5> QED
          BY <1>3, <4>2, <5>1
    <3> QED
      BY <1>8, <3>1, <3>2, <3>3
  <2> QED
    BY <2>1 DEF Earlier
<1>15. \A i \in C : \E k \in 1..(lm + ln) : q[k] = i
  <2> TAKE i \in C
  <2>1. CASE i \in A
    <3>1. PICK k \in 1..lm : p[k] = i
      BY <1>7, <2>1
    <3> QED
      BY <1>10, <1>9, <3>1
  <2>2. CASE i \notin A
    <3>1. i \in 1..(la + lb) /\ i > la /\ i - la \in B
      BY <1>6, <2>2
    <3>2. PICK k \in 1..ln : r[k] = i - la
      BY <1>7, <3>1
    <3>3. lm + k \in 1..(lm + ln) /\ lm + k > lm /\ (lm + k) - lm = k
      BY <1>3
    <3>4. q[lm + k] = la + r[(lm + k) - lm]
      BY <1>11, <3>3
    <3>5. q[lm + k] = i
      BY <1>3, <3>1, <3>2, <3>3, <3>4
    <3> QED
      BY <3>3, <3>5
  <2> QED
    BY <2>1, <2>2
<1>16. Lists(q, Earlier, C, lm + ln)
  BY <1>13, <1>14, <1>15 DEF Lists
<1>17. \A k \in 1..(lm + ln) : (m \o n)[k] = (a \o b)[q[k]]
  <2> TAKE k \in 1..(lm + ln)
  <2>1. CASE k <= lm
    <3>1. k \in 1..lm
      BY <1>8, <2>1
    <3>2. q[k] = p[k] /\ q[k] \in 1..la
      BY <1>10, <3>1
    <3>3. q[k] \in 1..(la + lb) /\ q[k] <= la
      BY <1>3, <3>2
    <3>4. (m \o n)[k] = m[k] /\ (a \o b)[q[k]] = a[q[k]]
      BY <1>4, <2>1, <3>3
    <3> QED
      BY <1>1, <3>1, <3>2, <3>4
  <2>2. CASE k > lm
    <3>1. /\ q[k] \in 1..(la + lb) /\ ~(q[k] <= la) /\ q[k] - la = r[k - lm]
          /\ k - lm \in 1..ln
      BY <1>11, <1>12, <2>2
    <3>2. ~(k <= lm)
      BY <1>3, <2>2
    <3>3. (m \o n)[k] = n[k - lm] /\ (a \o b)[q[k]] = b[q[k] - la]
      BY <1>4, <3>1, <3>2
    <3> QED
      BY <1>2, <3>1, <3>3
  <2> QED
    BY <1>8, <2>1, <2>2
<1>18. Len(m \o n) = lm + ln
  BY <1>4
<1>19. Lists(q, Earlier, NamePlaces(a \o b), Len(m \o n))
  BY <1>16, <1>18 DEF C
<1>20. \A k \in 1..Len(m \o n) : (m \o n)[k] = (a \o b)[q[k]]
  BY <1>17, <1>18
<1> QED
  BY <1>19, <1>20 DEF Spells
-----------------------------------------------------------------------------
(* Joining.                                                                 *)

\* No two names next to each other and no two separators.
Alternates(text) == \A i \in 1..(Len(text) - 1) : AlternatesAt(text, i)

\* The components of a path.
IsPath(names) == names \in Seq(STRING) /\ \A i \in DOMAIN names : names[i] \notin Signs

\* The signs, one by one.
LEMMA SignsArePieces ==
  /\ {"/", "\\", ".", "C:"} = Signs /\ Separators = {"/", "\\"}
  /\ "/" \in Piece /\ "." \in Piece /\ "C:" \in Piece
  /\ "." \notin Separators /\ "C:" \notin Separators
BY DEF Piece, Signs, Separators

\* A joined path has the names at the odd places and slashes between them.
LEMMA JoinedNames ==
  ASSUME NEW names, IsPath(names), names # <<>>
  PROVE  /\ JoinComponents(names) \in Text /\ Spells(JoinComponents(names), names)
         /\ Alternates(JoinComponents(names)) /\ JoinComponents(names)[1] \notin Signs
         /\ Len(JoinComponents(names)) \in Nat \ {0} /\ names \in Seq(Piece)
<1> DEFINE n == Len(names)
           t == JoinComponents(names)
           P == NamePlaces(t)
<1>1. /\ names \in Seq(STRING) /\ n \in Nat \ {0} /\ DOMAIN names = 1..n
      /\ \A i \in 1..n : names[i] \in STRING /\ names[i] \notin Signs
  BY LenProperties, EmptySeq, ElementOfSeq DEF IsPath
<1>2. t = [i \in 1..(2 * n - 1) |-> IF i % 2 = 1 THEN names[(i + 1) \div 2] ELSE "/"]
  BY DEF JoinComponents
<1>3. names \in Seq(Piece)
  <2>1. STRING \subseteq Piece
    BY DEF Piece
  <2> QED
    BY <1>1, <2>1, SeqMonotonic
<1> HIDE DEF n, t
<1>4. \A k \in 1..n : /\ 2 * k - 1 \in 1..(2 * n - 1) /\ (2 * k - 1) % 2 = 1
                      /\ (2 * k - 1 + 1) \div 2 = k
  BY <1>1
<1>5. \A i \in 1..(2 * n - 1) :
         \/ i % 2 = 1 /\ (i + 1) \div 2 \in 1..n /\ i = 2 * ((i + 1) \div 2) - 1
         \/ i % 2 = 0 /\ i % 2 # 1
  BY <1>1
<1>6. \A k \in 1..n : 2 * k - 1 \in 1..(2 * n - 1) /\ t[2 * k - 1] = names[k]
  BY <1>2, <1>4
<1>7. \A i \in 1..(2 * n - 1) : i % 2 # 1 => t[i] = "/"
  BY <1>2
<1>8. \A i \in 1..(2 * n - 1) : t[i] \in Piece
  <2> TAKE i \in 1..(2 * n - 1)
  <2>1. CASE i % 2 = 1
    <3>1. t[i] = names[(i + 1) \div 2] /\ (i + 1) \div 2 \in 1..n
      BY <1>2, <1>5, <2>1
    <3> QED
      BY <1>1, <3>1 DEF Piece
  <2> QED
    BY <1>7, <2>1, SignsArePieces
<1>9. 2 * n - 1 \in Nat \ {0}
  BY <1>1
<1>10. t \in Text /\ Len(t) = 2 * n - 1 /\ DOMAIN t = 1..(2 * n - 1)
  <2>1. t \in [1..(2 * n - 1) -> Piece]
    BY <1>2, <1>8
  <2> QED
    BY <1>9, <2>1 DEF Text
<1>11. \A i \in 1..(2 * n - 1) : (t[i] \notin Signs <=> i % 2 = 1) /\ (t[i] \in Separators <=> i % 2 # 1)
  <2> TAKE i \in 1..(2 * n - 1)
  <2>1. CASE i % 2 = 1
    <3>1. t[i] = names[(i + 1) \div 2] /\ (i + 1) \div 2 \in 1..n
      BY <1>2, <1>5, <2>1
    <3> QED
      BY <1>1, <2>1, <3>1, SignsArePieces
  <2> QED
    BY <1>7, <2>1, SignsArePieces
<1>12. P = {i \in 1..(2 * n - 1) : i % 2 = 1}
  BY <1>10, <1>11 DEF NamePlaces
<1> DEFINE q == [k \in 1..n |-> 2 * k - 1]
<1>13. Lists(q, Earlier, P, n)
  <2>1. \A k \in 1..n : q[k] \in P /\ q[k] = 2 * k - 1
    BY <1>4, <1>12
  <2>2. q \in [1..n -> P]
    BY <2>1
  <2>3. q \in Seq(P) /\ Len(q) = n
    BY <1>1, <2>2
  <2>4. \A k, l \in 1..n : k < l => <<q[k], q[l]>> \in Earlier
    BY <1>1 DEF Earlier
  <2>5. \A i \in P : \E k \in 1..n : q[k] = i
    <3> TAKE i \in P
    <3>1. (i + 1) \div 2 \in 1..n /\ i = 2 * ((i + 1) \div 2) - 1
      BY <1>5, <1>12
    <3> QED
      BY <3>1
  <2> QED
    BY <2>3, <2>4, <2>5 DEF Lists
<1>14. \A k \in 1..n : names[k] = t[q[k]]
  BY <1>6
<1> HIDE DEF q
<1>15. Spells(t, names)
  BY <1>13, <1>14 DEF Spells, n
<1>16. Alternates(t)
  <2>1. \A i \in 1..(2 * n - 1 - 1) : /\ i \in 1..(2 * n - 1) /\ i + 1 \in 1..(2 * n - 1)
                                      /\ (i % 2 = 1 <=> (i + 1) % 2 # 1)
    BY <1>1
  <2>2. \A i \in 1..(2 * n - 1 - 1) : AlternatesAt(t, i)
    BY <1>11, <2>1 DEF AlternatesAt
  <2> QED
    BY <1>10, <2>2 DEF Alternates
<1>17. t[1] \notin Signs
  BY <1>1, <1>11
<1> QED
  BY <1>3, <1>9, <1>10, <1>15, <1>16, <1>17 DEF t

\* A text put behind what was configured.
LEMMA JoinedConcat ==
  ASSUME NEW a \in Text, NEW b \in Text, NEW x, Joined(a, x), Alternates(b),
         a = <<>> \/ b = <<>> \/ (a[Len(a)] \in Separators) # (b[1] \in Separators)
  PROVE  Joined(a \o b, x)
<1> DEFINE la == Len(a)
           lb == Len(b)
<1>1. la \in Nat /\ lb \in Nat /\ (a = <<>> => la = 0) /\ (b = <<>> => lb = 0)
  BY LenProperties DEF Text
<1>2. /\ Len(a \o b) = la + lb
      /\ \A i \in 1..(la + lb) : (a \o b)[i] = IF i <= la THEN a[i] ELSE b[i - la]
  BY ConcatProperties DEF Text
<1> DEFINE Doubled(i) == i < Len(x) /\ ~AlternatesAt(x, i)
<1>3. /\ \A i \in 1..(la - 1) : AlternatesAt(a, i) \/ Doubled(i)
      /\ \A i \in 1..(lb - 1) : AlternatesAt(b, i)
  BY DEF Alternates, Joined
<1>4. la = 0 \/ lb = 0 \/ (a[la] \in Separators) # (b[1] \in Separators)
  BY <1>1
<1> HIDE DEF la, lb, Doubled
<1>5. ASSUME NEW i \in 1..(la + lb - 1)
      PROVE  AlternatesAt(a \o b, i) \/ Doubled(i)
  <2>1. i \in 1..(la + lb) /\ i + 1 \in 1..(la + lb)
    BY <1>1
  <2>2. CASE i + 1 <= la
    <3>1. (a \o b)[i] = a[i] /\ (a \o b)[i + 1] = a[i + 1] /\ i \in 1..(la - 1)
      BY <1>1, <1>2, <2>1, <2>2
    <3> QED
      BY <1>3, <3>1 DEF AlternatesAt
  <2>3. CASE i > la
    <3>1. /\ (a \o b)[i] = b[i - la] /\ (a \o b)[i + 1] = b[i + 1 - la]
          /\ i - la \in 1..(lb - 1) /\ i + 1 - la = i - la + 1
      BY <1>1, <1>2, <2>1, <2>3
    <3> QED
      BY <1>3, <3>1 DEF AlternatesAt
  <2>4. CASE i = la
    <3>1. (a \o b)[i] = a[la] /\ (a \o b)[i + 1] = b[1] /\ la # 0 /\ lb # 0
      BY <1>1, <1>2, <2>1, <2>4
    <3> QED
      BY <1>4, <3>1 DEF AlternatesAt
  <2> QED
    BY <1>1, <2>2, <2>3, <2>4
<1>6. \A i \in 1..(Len(a \o b) - 1) : i \in 1..(la + lb - 1)
  <2> DEFINE n == Len(a \o b)
  <2>1. n = la + lb
    BY <1>2, Zenon
  <2> HIDE DEF n
  <2>2. \A i \in 1..(n - 1) : i \in 1..(la + lb - 1)
    BY <1>1, <2>1
  <2> QED
    BY <2>2 DEF n
<1> QED
  BY <1>5, <1>6 DEF Joined, Doubled
-----------------------------------------------------------------------------
(* The displayed path.                                                      *)

\* A display directory as it is used: it names what was configured, and ends in
\* a slash only if that is its root.
Displays(d, x) ==
  /\ d \in Text /\ Len(d) \in Nat \ {0} /\ DOMAIN d = 1..Len(d)
  /\ Joined(d, x) /\ Spells(d, Names(x)) /\ Anchor(d) = Anchor(x)
  /\ d[Len(d)] # "\\"

\* display_path_root keeps the names and the beginning of what was configured; what
\* it trims are slashes at the end.
LEMMA DisplayRootNames ==
  ASSUME NEW x \in DisplayDirs
  PROVE  Displays(DisplayPathRoot(x), x) /\ Names(x) \in Seq(Piece)
<1>1. x \in Text
  BY PathsAssumption DEF Text, Piece
<1>2. Names(x) \in Seq(Piece) /\ Spells(x, Names(x)) /\ Len(Names(x)) \in Nat
  BY <1>1, NamesSpell, LenProperties
<1>3. CASE x = <<>>
  <2>1. DisplayPathRoot(x) = <<".">>
    BY <1>3 DEF DisplayPathRoot
  <2>2. /\ <<".">> \in Text /\ Len(<<".">>) = 1 /\ DOMAIN <<".">> = 1..1
        /\ <<".">>[1] = "."
    BY SignsArePieces DEF Text
  <2>3. NamePlaces(<<".">>) = {} /\ NamePlaces(x) = {}
    BY <1>3, <2>2, SignsArePieces DEF NamePlaces
  <2>4. Spells(<<".">>, Names(x))
    BY <1>2, <2>3, SameNames
  <2>5. Joined(<<".">>, x)
    BY <2>2 DEF Joined
  <2>6. Anchor(<<".">>) = "." /\ Anchor(x) = "."
    BY <1>3, <2>2, SignsArePieces DEF Anchor
  <2> QED
    BY <1>2, <2>1, <2>2, <2>4, <2>5, <2>6 DEF Displays
<1>4. CASE x # <<>>
  <2> DEFINE s == [i \in DOMAIN x |-> IF x[i] = "\\" THEN "/" ELSE x[i]]
             S == {k \in DOMAIN s : \/ k = 1 \/ s[k] # "/" \/ IsDriveRoot(SubSeq(s, 1, k))}
             n == Max(S)
             d == SubSeq(s, 1, n)
             lx == Len(x)
  <2>1. DisplayPathRoot(x) = d
    BY <1>4 DEF DisplayPathRoot, TrimDisplayRoot
  <2>2. lx \in Nat \ {0} /\ DOMAIN x = 1..lx /\ \A i \in 1..lx : x[i] \in Piece
    BY <1>1, <1>4, LenProperties, EmptySeq, ElementOfSeq DEF Text
  <2>3. /\ DOMAIN s = 1..lx
        /\ \A i \in 1..lx : /\ s[i] \in Piece
                            /\ s[i] # "\\"
                            /\ (x[i] # "\\" => s[i] = x[i])
                            /\ (x[i] = "\\" => s[i] = "/")
    BY <2>2, SignsArePieces
  <2>4. S \in SUBSET Nat /\ 1 \in S /\ \A k \in S : k <= lx
    BY <2>2, <2>3
  <2> HIDE DEF lx, s
  <2>5. n \in S /\ \A k \in S : k <= n
    <3> HIDE DEF S
    <3> QED
      BY <2>2, <2>4, MaxOfNaturals
  <2>6. n \in 1..lx /\ (n = 1 \/ s[n] # "/" \/ IsDriveRoot(SubSeq(s, 1, n)))
    BY <2>3, <2>5
  <2>7. \A k \in 1..lx : s[k] # "/" => k <= n
    BY <2>3, <2>5
  <2> HIDE DEF n, S
  <2>8. d \in Seq(Piece) /\ Len(d) = n /\ \A i \in 1..n : d[i] = s[i]
    <3>1. 1 \in Int /\ n \in Int /\ \A i \in 1..n : s[i] \in Piece
      BY <2>2, <2>3, <2>6
    <3>2. /\ d \in Seq(Piece) /\ Len(d) = IF 1 <= n THEN n - 1 + 1 ELSE 0
          /\ \A i \in 1..(n - 1 + 1) : d[i] = s[1 + i - 1]
      BY <3>1, SubSeqProperties
    <3>3. n - 1 + 1 = n /\ 1 <= n /\ \A i \in 1..n : 1 + i - 1 = i
      BY <2>2, <2>6
    <3> QED
      BY <3>2, <3>3
  <2>9. d \in Text /\ n \in Nat \ {0} /\ DOMAIN d = 1..n
    BY <2>2, <2>6, <2>8, LenProperties DEF Text
  <2>10. \A i \in 1..n : i \in 1..lx
    BY <2>2, <2>6
  <2> DEFINE last == d[n]
  <2>11. last = s[n] /\ (n = 1 \/ last # "/" \/ IsDriveRoot(d))
    BY <2>2, <2>6, <2>8
  <2> HIDE DEF d
  <2>12. \A i \in 1..lx : /\ x[i] \in Separators <=> s[i] \in Separators
                          /\ x[i] \in Separators => s[i] = "/"
                          /\ x[i] \in Signs <=> s[i] \in Signs
                          /\ x[i] \notin Signs => s[i] = x[i] /\ s[i] # "/"
                          /\ x[i] = "C:" <=> s[i] = "C:"
    BY <2>3, SignsArePieces
  <2>13. /\ NamePlaces(d) = NamePlaces(x)
         /\ \A i \in NamePlaces(x) : d[i] = x[i]
    <3>1. \A i \in 1..n : i \in NamePlaces(d) <=> i \in NamePlaces(x)
      BY <2>2, <2>8, <2>9, <2>10, <2>12 DEF NamePlaces
    <3>2. NamePlaces(d) \subseteq 1..n
      BY <2>9 DEF NamePlaces
    <3>3. ASSUME NEW i \in NamePlaces(x)
          PROVE  i \in 1..n /\ d[i] = x[i]
      <4>1. i \in 1..lx /\ x[i] \notin Signs
        BY <2>2 DEF NamePlaces
      <4>2. s[i] # "/" /\ s[i] = x[i]
        BY <2>12, <4>1
      <4>3. i <= n
        BY <2>7, <4>1, <4>2
      <4>4. i \in 1..n
        BY <2>2, <2>9, <4>1, <4>3
      <4> QED
        BY <2>8, <4>2, <4>4
    <3> QED
      BY <3>1, <3>2, <3>3
  <2>14. Spells(d, Names(x))
    BY <1>2, <2>13, SameNames
  <2>15. ASSUME NEW i \in 1..(n - 1)
         PROVE  AlternatesAt(d, i) \/ (i < lx /\ ~AlternatesAt(x, i))
    <3>1. i \in 1..n /\ i + 1 \in 1..n /\ i \in 1..lx /\ i + 1 \in 1..lx /\ i < lx
      BY <2>2, <2>6, <2>9
    <3> QED
      BY <2>8, <2>12, <3>1 DEF AlternatesAt
  <2>16. Joined(d, x)
    BY <2>8, <2>15 DEF Joined, lx
  <2>17. Anchor(d) = Anchor(x)
    <3>1. 1 \in 1..n /\ 1 \in 1..lx /\ d[1] = s[1] /\ d # <<>>
      BY <2>2, <2>8, <2>9
    <3> QED
      BY <1>4, <2>12, <3>1 DEF Anchor
  <2>18. last # "\\"
    BY <2>3, <2>6, <2>11
  <2> QED
    BY <1>2, <2>1, <2>8, <2>9, <2>14, <2>16, <2>17, <2>18 DEF Displays
<1> QED
  BY <1>3, <1>4

\* join_display_path puts the names of the file behind those of the directory.
LEMMA JoinedPath ==
  ASSUME NEW d, NEW x, Displays(d, x), Names(x) \in Seq(Piece), NEW names, IsPath(names)
  PROVE  LET t == JoinDisplayPath(d, names)
         IN  Joined(t, x) /\ Anchor(t) = Anchor(x) /\ Names(t) = Names(x) \o names
<1> DEFINE t == JoinDisplayPath(d, names)
           J == JoinComponents(names)
           m == Names(x)
<1>1. /\ d \in Text /\ Len(d) \in Nat \ {0} /\ DOMAIN d = 1..Len(d) /\ Joined(d, x)
      /\ Spells(d, m) /\ Anchor(d) = Anchor(x) /\ d[Len(d)] # "\\" /\ d # <<>>
      /\ m \in Seq(Piece)
  BY EmptySeq DEF Displays
<1>2. CASE names = <<>>
  <2>1. t = d
    BY <1>2 DEF JoinDisplayPath
  <2>2. m \o names = m
    BY <1>1, <1>2, ConcatEmptySeq
  <2>3. Names(d) = m
    BY <1>1, SpelledOnce
  <2> QED
    BY <1>1, <2>1, <2>2, <2>3
<1>3. CASE names # <<>>
  <2>1. /\ J \in Text /\ Spells(J, names) /\ Alternates(J) /\ J[1] \notin Signs
        /\ Len(J) \in Nat \ {0} /\ names \in Seq(Piece) /\ J[1] \notin Separators
    BY <1>3, JoinedNames DEF Signs
  <2> HIDE DEF J, m
  <2>2. m \o names \in Seq(Piece)
    BY <1>1, <2>1, ConcatProperties
  <2>3. CASE d[Len(d)] = "/"
    <3>1. t = d \o J
      BY <1>3, <2>3 DEF JoinDisplayPath, Last, J
    <3>2. Joined(t, x)
      BY <1>1, <2>1, <2>3, <3>1, JoinedConcat, SignsArePieces
    <3>3. t \in Text /\ Len(t) = Len(d) + Len(J) /\ t[1] = d[1]
      <4>1. 1 \in 1..(Len(d) + Len(J)) /\ 1 <= Len(d)
        BY <1>1, <2>1
      <4> QED
        BY <1>1, <2>1, <3>1, <4>1, ConcatProperties DEF Text
    <3>4. t # <<>>
      BY <1>1, <2>1, <3>3
    <3>5. Anchor(t) = Anchor(d)
      BY <1>1, <3>3, <3>4 DEF Anchor
    <3>6. Spells(t, m \o names)
      BY <1>1, <2>1, <3>1, SpellConcat
    <3>7. Names(t) = m \o names
      BY <2>2, <3>3, <3>6, SpelledOnce
    <3> QED
      BY <1>1, <3>2, <3>5, <3>7 DEF m
  <2>4. CASE d[Len(d)] # "/"
    <3> DEFINE u == d \o <<"/">>
    <3>1. t = u \o J
      BY <1>3, <2>4 DEF JoinDisplayPath, Last, J
    <3>2. <<"/">> \in Text /\ Len(<<"/">>) = 1 /\ DOMAIN <<"/">> = 1..1 /\ <<"/">>[1] = "/"
          /\ <<"/">> # <<>>
      BY SignsArePieces DEF Text
    <3>3. NamePlaces(<<"/">>) = {}
      BY <3>2, SignsArePieces DEF NamePlaces
    <3>4. Spells(<<"/">>, <<>>) /\ Alternates(<<"/">>)
      BY <3>2, <3>3, NoNames DEF Alternates
    <3>5. /\ u \in Text /\ Len(u) = Len(d) + 1 /\ u[1] = d[1] /\ u[Len(u)] = "/"
      <4>1. 1 \in 1..(Len(d) + 1) /\ 1 <= Len(d) /\ Len(d) + 1 \in 1..(Len(d) + 1)
            /\ ~(Len(d) + 1 <= Len(d)) /\ Len(d) + 1 - Len(d) = 1
        BY <1>1
      <4>2. /\ u \in Seq(Piece) /\ Len(u) = Len(d) + Len(<<"/">>)
            /\ \A i \in 1..(Len(d) + Len(<<"/">>)) :
                 u[i] = IF i <= Len(d) THEN d[i] ELSE <<"/">>[i - Len(d)]
        BY <1>1, <3>2, ConcatProperties DEF Text
      <4> QED
        BY <3>2, <4>1, <4>2 DEF Text
    <3>6. Joined(u, x)
      BY <1>1, <2>4, <3>2, <3>4, JoinedConcat, SignsArePieces
    <3>7. Spells(u, m)
      <4>1. <<>> \in Seq(Piece) /\ m \o <<>> = m
        BY <1>1, ConcatEmptySeq
      <4>2. Spells(d \o <<"/">>, m \o <<>>)
        BY <1>1, <3>2, <3>4, <4>1, SpellConcat
      <4> QED
        BY <4>1, <4>2
    <3> HIDE DEF u
    <3>8. Joined(t, x)
      BY <2>1, <3>1, <3>5, <3>6, JoinedConcat, SignsArePieces
    <3>9. t \in Text /\ t[1] = d[1] /\ t # <<>>
      <4>1. 1 \in 1..(Len(u) + Len(J)) /\ 1 <= Len(u) /\ Len(u) + Len(J) # 0
        BY <1>1, <2>1, <3>5
      <4>2. /\ t \in Seq(Piece) /\ Len(t) = Len(u) + Len(J)
            /\ \A i \in 1..(Len(u) + Len(J)) :
                 t[i] = IF i <= Len(u) THEN u[i] ELSE J[i - Len(u)]
        <5>1. J \in Seq(Piece) /\ u \in Seq(Piece)
          BY <2>1, <3>5 DEF Text
        <5>2. /\ u \o J \in Seq(Piece) /\ Len(u \o J) = Len(u) + Len(J)
              /\ \A i \in 1..(Len(u) + Len(J)) :
                   (u \o J)[i] = IF i <= Len(u) THEN u[i] ELSE J[i - Len(u)]
          BY <5>1, ConcatProperties
        <5> QED
          BY <3>1, <5>2, Zenon
      <4> QED
        BY <3>5, <4>1, <4>2 DEF Text
    <3>10. Anchor(t) = Anchor(d)
      BY <1>1, <3>9 DEF Anchor
    <3>11. Names(t) = m \o names
      <4>1. Spells(t, m \o names)
        BY <1>1, <2>1, <3>1, <3>5, <3>7, SpellConcat
      <4> QED
        BY <2>2, <3>9, <4>1, SpelledOnce
    <3> QED
      BY <1>1, <3>8, <3>10, <3>11 DEF m
  <2> QED
    BY <2>3, <2>4
<1> QED
  BY <1>2, <1>3
-----------------------------------------------------------------------------
(* The response.                                                            *)

\* A root as ServerState::new_with_display_dirs sets it up.
IsRoot(r) ==
  /\ r.root \in RootDirs /\ r.configured \in DisplayDirs
  /\ r.display = DisplayPathRoot(r.configured)

\* A path is stored once the roots are configured, and what is shown is its
\* translation.
PathsInv ==
  /\ storedPath # <<>> =>
       IsRoot(resourceRoot) /\ IsRoot(dataRoot) /\ storedPath \in StoredPaths
  /\ rpc = "shown" => storedPath # <<>> /\ shownPath = ResponseFilepath(storedPath)

\* The two roots, the longer first.
LEMMA RootsSorted ==
  ASSUME IsRoot(resourceRoot), IsRoot(dataRoot)
  PROVE  /\ {SortedRoots[1], SortedRoots[2]} = {resourceRoot, dataRoot}
         /\ Len(SortedRoots[1].root) \in Nat /\ Len(SortedRoots[2].root) \in Nat
         /\ Len(SortedRoots[2].root) <= Len(SortedRoots[1].root)
<1>1. Len(resourceRoot.root) \in Nat /\ Len(dataRoot.root) \in Nat
  BY PathsAssumption, LenProperties DEF IsRoot
<1> QED
  BY <1>1 DEF SortedRoots

\* The rest of a path below a root is a path.
LEMMA RestIsPath ==
  ASSUME NEW p, IsPath(p), NEW r, Len(r) \in Nat, IsPrefix(r, p)
  PROVE  IsPath(SubSeq(p, Len(r) + 1, Len(p)))
<1> DEFINE n == Len(r)
           l == Len(p)
           t == SubSeq(p, n + 1, l)
<1>1. /\ l \in Nat /\ n \in Nat /\ n <= l /\ DOMAIN p = 1..l
      /\ \A i \in 1..l : p[i] \in STRING /\ p[i] \notin Signs
  BY LenProperties, ElementOfSeq DEF IsPath, IsPrefix
<1> HIDE DEF n, l
<1>2. n + 1 \in Int /\ l \in Int /\ \A i \in (n + 1)..l : p[i] \in STRING
  BY <1>1
<1>3. /\ t \in Seq(STRING)
      /\ \A i \in 1..(l - (n + 1) + 1) : t[i] = p[n + 1 + i - 1]
      /\ Len(t) = IF n + 1 <= l THEN l - (n + 1) + 1 ELSE 0
  BY <1>2, SubSeqProperties
<1>4. DOMAIN t = 1..Len(t)
  BY <1>3, LenProperties
<1> HIDE DEF t
<1>5. \A i \in 1..Len(t) : i \in 1..(l - (n + 1) + 1) /\ n + 1 + i - 1 \in 1..l
  BY <1>1, <1>3
<1>6. \A i \in DOMAIN t : t[i] \notin Signs
  BY <1>1, <1>3, <1>4, <1>5
<1> QED
  BY <1>3, <1>6 DEF IsPath, t, n, l

\* A file below no root is shown under its own path.
LEMMA OwnPathShown ==
  ASSUME NEW p, IsPath(p), p # <<>>
  PROVE  LET t == <<"/">> \o JoinComponents(p)
         IN  Joined(t, <<>>) /\ Anchor(t) = "/" /\ Names(t) = p
<1> DEFINE d == <<"/">>
<1>1. d \in Text /\ Len(d) = 1 /\ DOMAIN d = 1..1 /\ d[1] = "/" /\ d # <<>>
  BY SignsArePieces DEF Text
<1>2. NamePlaces(d) = {}
  BY <1>1, SignsArePieces DEF NamePlaces
<1>3. <<>> \in Seq(Piece) /\ Names(d) = <<>> /\ Spells(d, <<>>)
  <2>1. <<>> \in Seq(Piece)
    BY EmptySeq
  <2>2. Spells(d, <<>>)
    BY <1>2, NoNames
  <2> HIDE DEF d
  <2> QED
    BY <1>1, <2>1, <2>2, SpelledOnce
<1>4. Anchor(d) = "/"
  BY <1>1, SignsArePieces DEF Anchor
<1>5. Displays(d, d)
  BY <1>1, <1>3, <1>4 DEF Displays, Joined
<1>6. JoinDisplayPath(d, p) = d \o JoinComponents(p)
  BY <1>1 DEF JoinDisplayPath, Last
<1>7. p \in Seq(STRING) /\ <<>> \o p = p
  BY ConcatEmptySeq DEF IsPath
<1> HIDE DEF d
<1>8. /\ Joined(JoinDisplayPath(d, p), d) /\ Anchor(JoinDisplayPath(d, p)) = Anchor(d)
      /\ Names(JoinDisplayPath(d, p)) = Names(d) \o p
  BY <1>3, <1>5, JoinedPath
<1>9. Joined(JoinDisplayPath(d, p), <<>>)
  <2>1. Len(d) = 1 /\ Len(<<>>) = 0
    BY <1>1
  <2> DEFINE t == JoinDisplayPath(d, p)
  <2>2. \A i \in 1..(Len(t) - 1) : i \in Nat \ {0}
    OBVIOUS
  <2> HIDE DEF t
  <2>3. \A i \in 1..(Len(t) - 1) : AlternatesAt(t, i)
    BY <1>8, <2>1, <2>2 DEF Joined, t
  <2> QED
    BY <2>3 DEF Joined, t
<1> QED
  BY <1>3, <1>4, <1>6, <1>7, <1>8, <1>9 DEF d

\* response_filepath, for every path and every pair of roots.
LEMMA ShownFromInv ==
  ASSUME PathsInv
  PROVE  ShownPathNamesFile
<1> SUFFICES ASSUME rpc = "shown"
             PROVE  ShownPathNamesFile
  BY DEF ShownPathNamesFile
<1> DEFINE p == storedPath
           holding == {r \in {resourceRoot, dataRoot} : IsPrefix(r.root, storedPath)}
           deepest == {r \in holding : \A q \in holding : Len(q.root) <= Len(r.root)}
           under == {i \in {1, 2} : IsPrefix(SortedRoots[i].root, storedPath)}
<1>1. /\ IsRoot(resourceRoot) /\ IsRoot(dataRoot) /\ storedPath \in StoredPaths
      /\ storedPath # <<>> /\ shownPath = ResponseFilepath(storedPath)
  BY DEF PathsInv
<1>2. IsPath(storedPath)
  BY <1>1, PathsAssumption DEF IsPath
<1>3. CASE under = {}
  <2>1. shownPath = <<"/">> \o JoinComponents(storedPath)
    BY <1>1, <1>3 DEF ResponseFilepath
  <2>2. holding = {}
    BY <1>1, <1>3, RootsSorted
  <2>3. Joined(shownPath, <<>>) /\ Anchor(shownPath) = "/" /\ Names(shownPath) = storedPath
    BY <1>1, <1>2, <2>1, OwnPathShown
  <2> QED
    BY <2>2, <2>3 DEF ShownPathNamesFile
<1>4. CASE under # {}
  <2> DEFINE r == SortedRoots[Min(under)]
             rest == SubSeq(storedPath, Len(r.root) + 1, Len(storedPath))
  <2>1. Min(under) \in under /\ \A i \in under : Min(under) <= i
    <3>1. under \in SUBSET Nat
      OBVIOUS
    <3> QED
      BY <1>4, <3>1, MinOfNaturals
  <2>2. shownPath = JoinDisplayPath(r.display, rest)
    BY <1>1, <1>4 DEF ResponseFilepath
  <2>3. r \in deepest
    <3>1. r \in holding
      BY <1>1, <2>1, RootsSorted
    <3>2. ASSUME NEW q \in holding
          PROVE  Len(q.root) <= Len(r.root)
      <4>1. PICK i \in {1, 2} : q = SortedRoots[i]
        BY <1>1, RootsSorted
      <4>2. i \in under
        BY <4>1
      <4>3. Min(under) = i \/ (Min(under) = 1 /\ i = 2)
        BY <2>1, <4>2
      <4> QED
        BY <1>1, <4>1, <4>3, RootsSorted
    <3> QED
      BY <3>1, <3>2
  <2>4. IsRoot(r) /\ IsPrefix(r.root, storedPath)
    BY <1>1, <2>3
  <2> HIDE DEF r
  <2>5. Len(r.root) \in Nat
    BY <2>4, PathsAssumption, LenProperties DEF IsRoot
  <2>6. IsPath(rest)
    BY <1>2, <2>4, <2>5, RestIsPath
  <2>7. Displays(r.display, r.configured) /\ Names(r.configured) \in Seq(Piece)
    BY <2>4, DisplayRootNames DEF IsRoot
  <2> HIDE DEF rest
  <2>8. /\ Joined(shownPath, r.configured) /\ Anchor(shownPath) = Anchor(r.configured)
        /\ Names(shownPath) = Names(r.configured) \o rest
    BY <2>2, <2>6, <2>7, JoinedPath
  <2>9. holding # {}
    BY <2>3
  <2> QED
    BY <2>3, <2>8, <2>9 DEF ShownPathNamesFile, rest
<1> QED
  BY <1>3, <1>4

\* The roots are configured once, before a path is stored, and a translation is
\* not changed after it is sent.
LEMMA PathsNextKeeps ==
  ASSUME PathsInv, [RequestsNext]_requestVars
  PROVE  PathsInv'
<1>1. CASE Configure
  <2>1. rpc' # "shown"
    BY <1>1 DEF Configure
  <2>2. IsRoot(resourceRoot)' /\ IsRoot(dataRoot)' /\ (storedPath \in StoredPaths)'
    BY <1>1 DEF Configure, IsRoot
  <2> QED
    BY <2>1, <2>2 DEF PathsInv
<1>2. CASE TranslateResult
  <2>1. resourceRoot' = resourceRoot /\ dataRoot' = dataRoot /\ storedPath' = storedPath
    BY <1>2 DEF TranslateResult
  <2>2. \A p : ResponseFilepath(p)' = ResponseFilepath(p)
    BY <2>1 DEF ResponseFilepath, SortedRoots
  <2>3. shownPath' = ResponseFilepath(storedPath) /\ storedPath # <<>>
    BY <1>2 DEF TranslateResult
  <2>4. \A p : p = storedPath => (ResponseFilepath(storedPath))' = ResponseFilepath(p)
    BY <2>1 DEF ResponseFilepath, SortedRoots
  <2> QED
    BY <2>1, <2>3, <2>4 DEF PathsInv, IsRoot
<1>3. CASE /\ UNCHANGED <<resourceRoot, dataRoot, storedPath, shownPath>>
           /\ rpc' = "shown" => rpc = "shown"
  <2>1. \A p : p = storedPath => (ResponseFilepath(storedPath))' = ResponseFilepath(p)
    BY <1>3 DEF ResponseFilepath, SortedRoots
  <2> QED
    BY <1>3, <2>1 DEF PathsInv, IsRoot
<1> QED
  BY <1>1, <1>2, <1>3
     DEF RequestsNext, PathsNext, RenderPage, SendPage, requestVars, pathVars

\* Whatever the roots and display directories, a response shows a stored path as
\* the path below the display directory of the deepest root that holds it:
\* response_filepath loses and doubles neither a name nor a separator.
THEOREM ShownPathAlwaysNamesFile == RequestsSpec => []ShownPathNamesFile
<1>1. RequestsInit => PathsInv
  BY DEF RequestsInit, PathsInit, PathsInv
<1>2. PathsInv /\ [RequestsNext]_requestVars => PathsInv'
  BY PathsNextKeeps
<1>3. PathsInv => ShownPathNamesFile
  BY ShownFromInv
<1> QED
  BY <1>1, <1>2, <1>3, PTL DEF RequestsSpec

=============================================================================
