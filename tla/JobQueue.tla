------------------------------ MODULE JobQueue ------------------------------
(***************************************************************************)
(* The SQLite-backed job queue of ask-core (repository.rs, "JobQueue") and *)
(* the polling workers of ask-server (worker/mod.rs) that claim, complete, *)
(* defer and abandon its rows.  A claim is a lease: a row whose claimed_at *)
(* is older than STALE_JOB_AGE_SECS may be claimed again, and complete and *)
(* defer address a row by id alone, without checking who holds it.         *)
(*                                                                         *)
(* Time is explicit.  A worker reads the clock before it waits for a       *)
(* connection and for the write lock, so the timestamp it passes to the    *)
(* repository may be older than the moment its transaction runs.           *)
(***************************************************************************)
EXTENDS Integers, FiniteSets

CONSTANTS
  Workers,       \* the worker tasks spawned by the server
  Payloads,      \* the (job_type, payload) pairs that can be queued
  NULL,          \* SQL NULL: a row that is not claimed
  Stale,         \* STALE_JOB_AGE_SECS
  MaxRun,        \* longest time between a worker's clock reading and the end of its tick
  ClockLag,      \* longest time between a caller's clock reading and its transaction
  RetryDelays,   \* the values retry_after_secs can take
  MaxTime,       \* bound: the clock stops here
  MaxId          \* bound: number of rows ever inserted

ASSUME TimeAssumption ==
  /\ Stale \in Nat /\ MaxRun \in Nat /\ ClockLag \in Nat
  /\ MaxTime \in Nat /\ MaxId \in Nat
  /\ RetryDelays \subseteq Nat

ASSUME NullAssumption == NULL \notin Int /\ NULL \notin Payloads

VARIABLES
  now,      \* the wall clock, in whole seconds (unix_now)
  jobs,     \* the job_queue table: id -> payload and claimed_at
  lastId,   \* the AUTOINCREMENT counter of job_queue
  worker,   \* what each worker is doing, and the queue entry it holds
  retryAt   \* history: earliest time a deferred row may run again, else NULL

vars == <<now, jobs, lastId, worker, retryAt>>

Ids == 1..MaxId
Idle == [pc |-> "idle", id |-> 0, payload |-> NULL, at |-> 0]

Busy(w)    == worker[w].pc # "idle"
Running(w) == worker[w].pc = "running"
Holds(w)   == worker[w].pc \in {"running", "released"}

-----------------------------------------------------------------------------
(* Repository operations.                                                   *)

\* Mutant of Claimable: `<=` instead of `<` against the cutoff.
ClaimableAtCutoff(t) ==
  {i \in DOMAIN jobs : \/ jobs[i].claimedAt = NULL
                       \/ jobs[i].claimedAt <= t - Stale}

\* `claimed_at IS NULL OR claimed_at < stale_cutoff`, the cutoff taken at time t.
Claimable(t) ==
  {i \in DOMAIN jobs : \/ jobs[i].claimedAt = NULL
                       \/ jobs[i].claimedAt < t - Stale}

\* The row the claim query picks: the smallest claimable id.
IsPicked(i, t) == i \in Claimable(t) /\ \A k \in Claimable(t) : i <= k

\* The synthetic claim time written by defer_job_for_retry.  saturating_sub
\* saturates at i64::MIN, so a delay of 0 really subtracts one.
Clamp(r) == IF r < Stale THEN r ELSE Stale

\* Mutant of DeferredClaimedAt: the strict comparison of the cutoff forgotten.
DeferredWithoutMinusOne(t, r) == t - Stale + Clamp(r)

DeferredClaimedAt(t, r) == t - Stale + Clamp(r) - 1

DeleteJob(i) ==
  jobs' = [k \in DOMAIN jobs \ {i} |-> jobs[k]]

-----------------------------------------------------------------------------
Init ==
  /\ now = 0
  /\ jobs = [i \in {} |-> [payload |-> NULL, claimedAt |-> NULL]]
  /\ lastId = 0
  /\ worker = [w \in Workers |-> Idle]
  /\ retryAt = [i \in Ids |-> NULL]

\* Mutant of EnqueueNew: a rowid table without AUTOINCREMENT reuses max(id)+1.
EnqueueReusingId(p) ==
  /\ \A i \in DOMAIN jobs : jobs[i].payload # p
  /\ \E n \in Ids :
       /\ \A i \in DOMAIN jobs : i < n
       /\ n = 1 \/ n - 1 \in DOMAIN jobs
       /\ lastId' = IF lastId < n THEN n ELSE lastId
       /\ jobs' = [i \in DOMAIN jobs \cup {n} |->
                     IF i = n THEN [payload |-> p, claimedAt |-> NULL] ELSE jobs[i]]
  /\ UNCHANGED <<now, worker, retryAt>>

\* enqueue_job: the INSERT takes the no-conflict path.  Callers are HTTP
\* handlers, ingest transactions and seeding, each with its own clock reading.
EnqueueNew(p) ==
  /\ \A i \in DOMAIN jobs : jobs[i].payload # p
  /\ lastId < MaxId
  /\ lastId' = lastId + 1
  /\ jobs' = [i \in DOMAIN jobs \cup {lastId + 1} |->
                IF i = lastId + 1 THEN [payload |-> p, claimedAt |-> NULL]
                                  ELSE jobs[i]]
  /\ UNCHANGED <<now, worker, retryAt>>

\* Mutant of EnqueueReset: any claim is reset, also a fresh one.
EnqueueResetFresh(p, t) ==
  /\ \E i \in DOMAIN jobs :
       /\ jobs[i].payload = p
       /\ jobs[i].claimedAt # NULL
       /\ jobs' = [jobs EXCEPT ![i].claimedAt = NULL]
  /\ UNCHANGED <<now, lastId, worker, retryAt>>

\* enqueue_job: ON CONFLICT DO UPDATE resets a row whose claim is stale.  A row
\* that is unclaimed (claimed_at NULL) or freshly claimed is left alone and the
\* call reports "already queued or in progress".
EnqueueReset(p, t) ==
  /\ \E i \in DOMAIN jobs :
       /\ jobs[i].payload = p
       /\ jobs[i].claimedAt # NULL
       /\ jobs[i].claimedAt < t - Stale
       /\ jobs' = [jobs EXCEPT ![i].claimedAt = NULL]
  /\ UNCHANGED <<now, lastId, worker, retryAt>>

Enqueue ==
  \E p \in Payloads :
    \/ EnqueueNew(p)
    \/ \E t \in (now - ClockLag)..now : EnqueueReset(p, t)

\* spawn/tick: a worker wakes up and reads the clock.
BeginTick(w) ==
  /\ worker[w].pc = "idle"
  /\ worker' = [worker EXCEPT ![w] = [pc |-> "polling", id |-> 0,
                                      payload |-> NULL, at |-> now]]
  /\ UNCHANGED <<now, jobs, lastId, retryAt>>

\* claim_job finds a row: one IMMEDIATE transaction picks and stamps it with
\* the reading taken at the start of the tick.
ClaimJob(w) ==
  /\ worker[w].pc = "polling"
  /\ \E i \in DOMAIN jobs :
       /\ IsPicked(i, worker[w].at)
       /\ jobs' = [jobs EXCEPT ![i].claimedAt = worker[w].at]
       /\ worker' = [worker EXCEPT ![w] = [pc |-> "running", id |-> i,
                       payload |-> jobs[i].payload, at |-> worker[w].at]]
       /\ retryAt' = [retryAt EXCEPT ![i] = NULL]
  /\ UNCHANGED <<now, lastId>>

\* claim_job finds no row, or the connection pool or SQLite reports an error.
NothingClaimed(w) ==
  /\ worker[w].pc = "polling"
  /\ worker' = [worker EXCEPT ![w] = Idle]
  /\ UNCHANGED <<now, jobs, lastId, retryAt>>

\* EmbedDocumentHandler deletes its own row before it replans a changed file
\* and keeps running; the same happens for a document that is already gone.
ReleaseJob(w) ==
  /\ Running(w)
  /\ DeleteJob(worker[w].id)
  /\ worker' = [worker EXCEPT ![w].pc = "released"]
  /\ UNCHANGED <<now, lastId, retryAt>>

\* dispatch_job: the handler returned Ok, the row is deleted by id.
CompleteJob(w) ==
  /\ Holds(w)
  /\ DeleteJob(worker[w].id)
  /\ worker' = [worker EXCEPT ![w] = Idle]
  /\ UNCHANGED <<now, lastId, retryAt>>

\* dispatch_job: the handler failed with a retryable embedding error.  The
\* UPDATE addresses the row by id; it changes nothing when the row is gone.
DeferJob(w, r, t) ==
  /\ Running(w)
  /\ worker[w].at <= t
  /\ LET i == worker[w].id IN
       IF i \in DOMAIN jobs
       THEN /\ jobs' = [jobs EXCEPT ![i].claimedAt = DeferredClaimedAt(t, r)]
            /\ retryAt' = [retryAt EXCEPT ![i] = t + Clamp(r)]
       ELSE UNCHANGED <<jobs, retryAt>>
  /\ worker' = [worker EXCEPT ![w] = Idle]
  /\ UNCHANGED <<now, lastId>>

\* dispatch_job: any other failure, a panic of the blocking task, or a failed
\* complete/defer: the claim stays until it is stale.
AbandonJob(w) ==
  /\ Holds(w)
  /\ worker' = [worker EXCEPT ![w] = Idle]
  /\ UNCHANGED <<now, jobs, lastId, retryAt>>

\* The process dies: every worker is lost, the table survives.
Crash ==
  /\ \E w \in Workers : Busy(w)
  /\ worker' = [w \in Workers |-> Idle]
  /\ UNCHANGED <<now, jobs, lastId, retryAt>>

\* One second passes.  No tick lasts longer than MaxRun.
Tick ==
  /\ now < MaxTime
  /\ \A w \in Workers : Busy(w) => now < worker[w].at + MaxRun
  /\ now' = now + 1
  /\ UNCHANGED <<jobs, lastId, worker, retryAt>>

WorkerStep(w) ==
  \/ BeginTick(w)
  \/ ClaimJob(w)
  \/ NothingClaimed(w)
  \/ ReleaseJob(w)
  \/ CompleteJob(w)
  \/ \E r \in RetryDelays, t \in (now - ClockLag)..now : DeferJob(w, r, t)
  \/ AbandonJob(w)

Next ==
  \/ Enqueue
  \/ \E w \in Workers : WorkerStep(w)
  \/ Crash
  \/ Tick

Spec == Init /\ [][Next]_vars

-----------------------------------------------------------------------------
(* Properties.                                                              *)

JobRow == [payload : Payloads, claimedAt : Int \cup {NULL}]
WorkerState == [pc : {"idle", "polling", "running", "released"}, id : Nat,
                payload : Payloads \cup {NULL}, at : Int]

\* Types of the table, the workers and the clock; ids come from the counter.
TypeOK ==
  /\ now \in Nat
  /\ lastId \in 0..MaxId
  /\ DOMAIN jobs \subseteq 1..lastId
  /\ jobs \in [DOMAIN jobs -> JobRow]
  /\ worker \in [Workers -> WorkerState]
  /\ retryAt \in [Ids -> Int \cup {NULL}]

\* models/job_queue.rs: the unique index and the claim keep parallel workers
\* from duplicating work.  While a worker runs a payload (and has not given its
\* row back), no other worker runs the same payload.
ExclusiveWork ==
  \A v, w \in Workers :
    v # w /\ Running(v) /\ Running(w) => worker[v].payload # worker[w].payload

\* complete_job deletes by id only.  Every row that disappears is one whose
\* current claim belongs to the worker that deletes it: no tick ever removes a
\* row that is waiting, deferred or claimed by somebody else.
OnlyOwnRowDeleted ==
  [][\A i \in DOMAIN jobs \ DOMAIN jobs' :
       \E w \in Workers : /\ worker[w].id = i /\ Running(w)
                          /\ worker'[w] # worker[w]
                          /\ jobs[i].claimedAt = worker[w].at]_vars

\* defer_job_for_retry: a deferred row is claimable exactly from
\* min(retry_after_secs, STALE) seconds after the failure on: never earlier,
\* never later, and a concurrent enqueue of the same payload does not shorten
\* or prolong the wait.
RetryWindow ==
  \A i \in DOMAIN jobs :
    retryAt[i] # NULL => (i \in Claimable(now) <=> now >= retryAt[i])

\* The queue implements WorkSet.  A worker does a payload from the claim until
\* it deletes, defers or abandons the row; every other row waits, whether it is
\* unclaimed, deferred, or still carries the claim of a worker that is gone.
Doing == [w \in Workers |-> IF Running(w) THEN worker[w].payload ELSE NULL]
Queued == {jobs[i].payload : i \in DOMAIN jobs}
Waiting == Queued \ {Doing[w] : w \in Workers}

Work == INSTANCE WorkSet WITH waiting <- Waiting, doing <- Doing

\* No payload is lost, duplicated or run twice at a time, whatever expires,
\* crashes, fails or is enqueued again: every step of the queue is one of
\* WorkSet's.
ImplementsWorkSet == Work!Spec

-----------------------------------------------------------------------------
(* The inductive invariant behind the properties above.                     *)

\* A tick is never older than MaxRun, and its clock reading is in the past.
LeaseTime ==
  \A w \in Workers :
    Busy(w) => worker[w].at <= now /\ now <= worker[w].at + MaxRun

\* A running worker's row is there, with the worker's own claim on it; a
\* released worker's row is gone, and its id is never given out again.
HeldRow ==
  \A w \in Workers :
    /\ Running(w) => /\ worker[w].id \in DOMAIN jobs
                     /\ jobs[worker[w].id].claimedAt = worker[w].at
                     /\ jobs[worker[w].id].payload = worker[w].payload
                     /\ retryAt[worker[w].id] = NULL
    /\ worker[w].pc = "released" => /\ worker[w].id \in 1..lastId
                                    /\ worker[w].id \notin DOMAIN jobs

\* No two workers hold the same id.
DistinctIds ==
  \A v, w \in Workers :
    v # w /\ Holds(v) /\ Holds(w) => worker[v].id # worker[w].id

\* The unique index on (job_type, payload).
UniquePayload ==
  \A i, k \in DOMAIN jobs : i # k => jobs[i].payload # jobs[k].payload

\* A deferred row carries the synthetic claim, or was reset after its delay.
DeferredRow ==
  /\ \A i \in Ids : i > lastId => retryAt[i] = NULL
  /\ \A i \in DOMAIN jobs :
       retryAt[i] # NULL =>
         \/ jobs[i].claimedAt = retryAt[i] - Stale - 1
         \/ jobs[i].claimedAt = NULL /\ now >= retryAt[i]

IInv ==
  /\ TypeOK
  /\ LeaseTime
  /\ HeldRow
  /\ DistinctIds
  /\ UniquePayload
  /\ DeferredRow

=============================================================================
