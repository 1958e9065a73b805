--------------------------- MODULE JobQueueProofs ---------------------------
(***************************************************************************)
(* Proofs about JobQueue, for every set of workers and payloads and every  *)
(* value of the time constants.  Exclusivity rests on one assumption the   *)
(* code does not enforce: a tick ends before its claim goes stale.         *)
(***************************************************************************)
EXTENDS JobQueue, TLAPS

\* The initial state: an empty table, idle workers.
LEMMA InitIInv == Init => IInv
<1> USE TimeAssumption, NullAssumption
<1> SUFFICES ASSUME Init PROVE IInv
  OBVIOUS
<1>1. TypeOK
  BY DEF Init, TypeOK, Ids, Idle, JobRow, WorkerState
<1>2. LeaseTime /\ HeldRow /\ DistinctIds /\ UniquePayload /\ DeferredRow
  BY DEF Init, LeaseTime, HeldRow, DistinctIds, UniquePayload, DeferredRow,
         Busy, Running, Holds, Idle, Ids
<1> QED
  BY <1>1, <1>2 DEF IInv

\* Every way to insert or reset a row keeps the invariant.
LEMMA EnqueueNewStep ==
  ASSUME IInv, NEW p \in Payloads, EnqueueNew(p)
  PROVE  IInv'
<1> USE TimeAssumption, NullAssumption
<1> DEFINE n == lastId + 1
<1>0. /\ n \in Ids /\ n \notin DOMAIN jobs
      /\ DOMAIN jobs' = DOMAIN jobs \cup {n}
      /\ jobs'[n] = [payload |-> p, claimedAt |-> NULL]
      /\ \A i \in DOMAIN jobs : jobs'[i] = jobs[i] /\ i # n
  BY DEF IInv, TypeOK, EnqueueNew, Ids
<1>1. TypeOK'
  <2>1. DOMAIN jobs' \subseteq 1..lastId'
    BY <1>0 DEF IInv, TypeOK, EnqueueNew
  <2>2. \A i \in DOMAIN jobs' : jobs'[i] \in JobRow
    BY <1>0 DEF IInv, TypeOK, JobRow
  <2>3. jobs' \in [DOMAIN jobs' -> JobRow]
    BY <2>2 DEF EnqueueNew
  <2> QED
    BY <1>0, <2>1, <2>3 DEF IInv, TypeOK, EnqueueNew, Ids
<1>2. LeaseTime'
  BY DEF IInv, LeaseTime, EnqueueNew, Busy
<1>3. HeldRow'
  BY <1>0 DEF IInv, TypeOK, HeldRow, EnqueueNew, Running
<1>4. DistinctIds'
  BY DEF IInv, DistinctIds, EnqueueNew, Holds
<1>5. UniquePayload'
  BY <1>0 DEF IInv, UniquePayload, EnqueueNew
<1>6. DeferredRow'
  BY <1>0 DEF IInv, TypeOK, DeferredRow, EnqueueNew, Ids
<1> QED
  BY <1>1, <1>2, <1>3, <1>4, <1>5, <1>6 DEF IInv

\* Resetting needs the lease assumption: a row some worker is running has a
\* claim that is not stale at any time up to now, so it is never reset.
LEMMA EnqueueResetStep ==
  ASSUME IInv, MaxRun <= Stale,
         NEW p \in Payloads, NEW t \in (now - ClockLag)..now, EnqueueReset(p, t)
  PROVE  IInv'
<1> USE TimeAssumption, NullAssumption
<1>0. PICK i \in DOMAIN jobs : /\ jobs[i].claimedAt # NULL
                               /\ jobs[i].claimedAt < t - Stale
                               /\ jobs' = [jobs EXCEPT ![i].claimedAt = NULL]
  BY DEF EnqueueReset
<1>u. UNCHANGED <<now, lastId, worker, retryAt>>
  BY DEF EnqueueReset
<1>t. t \in Int /\ t <= now /\ now \in Nat
  BY DEF IInv, TypeOK
<1>a. /\ DOMAIN jobs' = DOMAIN jobs
      /\ \A k \in DOMAIN jobs : jobs'[k].payload = jobs[k].payload
      /\ \A k \in DOMAIN jobs : k # i => jobs'[k] = jobs[k]
      /\ jobs'[i].claimedAt = NULL
      /\ jobs[i].claimedAt \in Int
  BY <1>0 DEF IInv, TypeOK, JobRow
<1>b. \A w \in Workers : Running(w) => worker[w].id # i
  BY <1>0, <1>t, <1>a DEF IInv, LeaseTime, HeldRow, Busy, Running, TypeOK, WorkerState
<1>1. TypeOK'
  BY <1>0, <1>u, <1>a DEF IInv, TypeOK, JobRow
<1>2. LeaseTime' /\ DistinctIds'
  BY <1>u DEF IInv, LeaseTime, DistinctIds, Busy, Holds
<1>3. HeldRow'
  BY <1>u, <1>a, <1>b DEF IInv, HeldRow, Running
<1>4. UniquePayload'
  BY <1>a DEF IInv, UniquePayload
<1>5. DeferredRow'
  BY <1>0, <1>u, <1>t, <1>a DEF IInv, TypeOK, DeferredRow, Ids
<1> QED
  BY <1>1, <1>2, <1>3, <1>4, <1>5 DEF IInv

\* Waking up and finding nothing.
LEMMA BeginTickStep ==
  ASSUME IInv, NEW w \in Workers, BeginTick(w)
  PROVE  IInv'
<1> USE TimeAssumption, NullAssumption
<1>1. TypeOK'
  BY DEF IInv, TypeOK, BeginTick, WorkerState
<1>2. LeaseTime'
  BY DEF IInv, TypeOK, LeaseTime, BeginTick, Busy, WorkerState
<1>3. HeldRow' /\ DistinctIds'
  BY DEF IInv, TypeOK, HeldRow, DistinctIds, BeginTick, Running, Holds, WorkerState
<1>4. UniquePayload' /\ DeferredRow'
  BY DEF IInv, UniquePayload, DeferredRow, BeginTick
<1> QED
  BY <1>1, <1>2, <1>3, <1>4 DEF IInv

\* Claiming.  The picked row is unclaimed or stale at the time the worker read
\* the clock; by the lease assumption no worker is running it.
LEMMA ClaimJobStep ==
  ASSUME IInv, MaxRun <= Stale, NEW w \in Workers, ClaimJob(w)
  PROVE  IInv'
<1> USE TimeAssumption, NullAssumption
<1>0. PICK i \in DOMAIN jobs :
        /\ IsPicked(i, worker[w].at)
        /\ jobs' = [jobs EXCEPT ![i].claimedAt = worker[w].at]
        /\ worker' = [worker EXCEPT ![w] = [pc |-> "running", id |-> i,
                        payload |-> jobs[i].payload, at |-> worker[w].at]]
        /\ retryAt' = [retryAt EXCEPT ![i] = NULL]
  BY DEF ClaimJob
<1>u. UNCHANGED <<now, lastId>> /\ worker[w].pc = "polling"
  BY DEF ClaimJob
<1>t. /\ worker[w].at \in Int /\ worker[w].at <= now /\ now \in Nat
      /\ now <= worker[w].at + MaxRun
  BY <1>u DEF IInv, TypeOK, LeaseTime, Busy, WorkerState
<1>c. i \in Ids /\ (jobs[i].claimedAt = NULL \/ jobs[i].claimedAt < worker[w].at - Stale)
  BY <1>0 DEF IsPicked, Claimable, IInv, TypeOK, Ids
<1>a. /\ DOMAIN jobs' = DOMAIN jobs
      /\ \A k \in DOMAIN jobs : jobs'[k].payload = jobs[k].payload
      /\ \A k \in DOMAIN jobs : k # i => jobs'[k] = jobs[k]
      /\ jobs'[i].claimedAt = worker[w].at
      /\ jobs[i].claimedAt \in Int \cup {NULL}
      /\ jobs[i].payload \in Payloads
  BY <1>0 DEF IInv, TypeOK, JobRow
<1>b. \A v \in Workers : Holds(v) => worker[v].id # i
  BY <1>c, <1>t, <1>a
     DEF IInv, LeaseTime, HeldRow, Busy, Running, Holds, TypeOK, WorkerState
<1>d. /\ worker'[w] = [pc |-> "running", id |-> i,
                       payload |-> jobs[i].payload, at |-> worker[w].at]
      /\ \A v \in Workers : v # w => worker'[v] = worker[v]
  BY <1>0 DEF IInv, TypeOK
<1>e. /\ retryAt'[i] = NULL
      /\ \A k \in Ids : k # i => retryAt'[k] = retryAt[k]
  BY <1>0, <1>c DEF IInv, TypeOK
<1>1. TypeOK'
  <2>1. jobs' \in [DOMAIN jobs' -> JobRow]
    BY <1>0, <1>a, <1>t DEF IInv, TypeOK, JobRow
  <2>2. worker' \in [Workers -> WorkerState]
    BY <1>0, <1>a, <1>t, <1>c DEF IInv, TypeOK, WorkerState, Ids
  <2> QED
    BY <1>0, <1>u, <1>a, <1>c, <2>1, <2>2 DEF IInv, TypeOK
<1>2. LeaseTime'
  BY <1>d, <1>u, <1>t DEF IInv, LeaseTime, Busy
<1>3. HeldRow'
  <2> SUFFICES ASSUME NEW v \in Workers
               PROVE  /\ Running(v)' => /\ worker'[v].id \in DOMAIN jobs'
                                        /\ jobs'[worker'[v].id].claimedAt = worker'[v].at
                                        /\ jobs'[worker'[v].id].payload = worker'[v].payload
                                        /\ retryAt'[worker'[v].id] = NULL
                      /\ worker'[v].pc = "released" =>
                           /\ worker'[v].id \in 1..lastId'
                           /\ worker'[v].id \notin DOMAIN jobs'
    BY DEF HeldRow
  <2>1. CASE v = w
    BY <2>1, <1>d, <1>a, <1>e DEF Running
  <2>2. CASE v # w
    BY <2>2, <1>d, <1>a, <1>b, <1>e, <1>u DEF IInv, HeldRow, Running, Holds, TypeOK, Ids
  <2> QED
    BY <2>1, <2>2
<1>4. DistinctIds'
  BY <1>d, <1>b DEF IInv, DistinctIds, Holds
<1>5. UniquePayload'
  BY <1>a DEF IInv, UniquePayload
<1>6. DeferredRow'
  BY <1>a, <1>c, <1>e, <1>u DEF IInv, TypeOK, DeferredRow, Ids
<1> QED
  BY <1>1, <1>2, <1>3, <1>4, <1>5, <1>6 DEF IInv

\* A worker that goes idle without touching the table.
LEMMA GoIdleStep ==
  ASSUME IInv, NEW w \in Workers,
         worker' = [worker EXCEPT ![w] = Idle],
         UNCHANGED <<now, jobs, lastId, retryAt>>
  PROVE  IInv'
<1> USE TimeAssumption, NullAssumption
<1>1. TypeOK'
  BY DEF IInv, TypeOK, WorkerState, Idle
<1>2. \A v \in Workers : worker'[v] = worker[v] \/ worker'[v] = Idle
  BY DEF IInv, TypeOK
<1>3. LeaseTime' /\ HeldRow' /\ DistinctIds'
  BY <1>2 DEF IInv, LeaseTime, HeldRow, DistinctIds, Busy, Running, Holds, Idle
<1>4. UniquePayload' /\ DeferredRow'
  BY DEF IInv, UniquePayload, DeferredRow
<1> QED
  BY <1>1, <1>3, <1>4 DEF IInv

\* Deleting the row of the worker's own id, with the worker released or idle
\* afterwards.  Nobody else holds that id.
LEMMA DeleteStep ==
  ASSUME IInv, NEW w \in Workers, Holds(w), DeleteJob(worker[w].id),
         UNCHANGED <<now, lastId, retryAt>>,
         \/ worker' = [worker EXCEPT ![w] = Idle]
         \/ worker' = [worker EXCEPT ![w].pc = "released"]
  PROVE  IInv'
<1> USE TimeAssumption, NullAssumption
<1> DEFINE i == worker[w].id
<1>a. /\ DOMAIN jobs' = DOMAIN jobs \ {i}
      /\ \A k \in DOMAIN jobs' : jobs'[k] = jobs[k]
      /\ jobs' = [k \in DOMAIN jobs' |-> jobs'[k]]
  BY DEF DeleteJob
<1>b. /\ \A v \in Workers : v # w => worker'[v] = worker[v]
      /\ worker'[w] = Idle \/ (/\ worker'[w].pc = "released"
                               /\ worker'[w].id = i
                               /\ worker'[w].at = worker[w].at)
      /\ i \in 1..lastId
  <2>1. i \in 1..lastId
    BY DEF IInv, TypeOK, HeldRow, Holds, Running
  <2> QED
    BY <2>1 DEF IInv, TypeOK, WorkerState
<1>c. worker' \in [Workers -> WorkerState]
  BY DEF IInv, TypeOK, WorkerState, Idle
<1>1. TypeOK'
  BY <1>a, <1>c DEF IInv, TypeOK
<1>2. LeaseTime'
  BY <1>b DEF IInv, LeaseTime, Busy, Holds, Idle
<1>3. HeldRow'
  BY <1>a, <1>b DEF IInv, HeldRow, DistinctIds, Running, Holds, Idle
<1>4. DistinctIds'
  BY <1>b DEF IInv, DistinctIds, Holds, Idle
<1>5. UniquePayload' /\ DeferredRow'
  BY <1>a DEF IInv, UniquePayload, DeferredRow
<1> QED
  BY <1>1, <1>2, <1>3, <1>4, <1>5 DEF IInv

\* Deferring: the row belongs to the worker, which lets go of it.
LEMMA DeferJobStep ==
  ASSUME IInv, NEW w \in Workers, NEW r \in RetryDelays,
         NEW t \in (now - ClockLag)..now, DeferJob(w, r, t)
  PROVE  IInv'
<1> USE TimeAssumption, NullAssumption
<1> DEFINE i == worker[w].id
<1>r. /\ r \in Nat /\ t \in Int /\ Clamp(r) \in Nat
      /\ t + Clamp(r) \in Int /\ DeferredClaimedAt(t, r) \in Int
      /\ DeferredClaimedAt(t, r) = (t + Clamp(r)) - Stale - 1
  BY DEF IInv, TypeOK, Clamp, DeferredClaimedAt
<1>0. i \in DOMAIN jobs /\ i \in Ids
  BY DEF DeferJob, IInv, TypeOK, HeldRow, Running, Ids
<1>1. /\ jobs' = [jobs EXCEPT ![i].claimedAt = DeferredClaimedAt(t, r)]
      /\ retryAt' = [retryAt EXCEPT ![i] = t + Clamp(r)]
      /\ worker' = [worker EXCEPT ![w] = Idle]
      /\ UNCHANGED <<now, lastId>>
      /\ Running(w)
  BY <1>0 DEF DeferJob
<1>a. /\ DOMAIN jobs' = DOMAIN jobs
      /\ \A k \in DOMAIN jobs : jobs'[k].payload = jobs[k].payload
      /\ \A k \in DOMAIN jobs : k # i => jobs'[k] = jobs[k]
      /\ jobs'[i].claimedAt = DeferredClaimedAt(t, r)
  BY <1>0, <1>1 DEF IInv, TypeOK, JobRow
<1>b. /\ \A v \in Workers : v # w => worker'[v] = worker[v]
      /\ worker'[w] = Idle
  BY <1>1 DEF IInv, TypeOK
<1>e. /\ retryAt'[i] = t + Clamp(r)
      /\ \A k \in Ids : k # i => retryAt'[k] = retryAt[k]
  BY <1>0, <1>1 DEF IInv, TypeOK
<1>2. TypeOK'
  <2>1. jobs' \in [DOMAIN jobs' -> JobRow]
    <3>1. jobs \in [DOMAIN jobs -> JobRow]
      BY DEF IInv, TypeOK
    <3>2. \A k \in DOMAIN jobs : jobs'[k] \in JobRow
      BY <1>0, <1>1, <1>r, <3>1 DEF JobRow
    <3> QED
      BY <1>1, <1>a, <3>1, <3>2
  <2>2. worker' \in [Workers -> WorkerState]
    BY <1>1 DEF IInv, TypeOK, WorkerState, Idle
  <2>3. retryAt' \in [Ids -> Int \cup {NULL}]
    BY <1>1, <1>r DEF IInv, TypeOK
  <2> QED
    BY <1>1, <1>a, <2>1, <2>2, <2>3 DEF IInv, TypeOK
<1>3. LeaseTime' /\ DistinctIds'
  BY <1>1, <1>b DEF IInv, LeaseTime, DistinctIds, Busy, Holds, Idle
<1>4. HeldRow'
  BY <1>1, <1>a, <1>b, <1>e
     DEF IInv, TypeOK, HeldRow, DistinctIds, Running, Holds, Idle, Ids
<1>5. UniquePayload'
  BY <1>a DEF IInv, UniquePayload
<1>6. DeferredRow'
  <2>1. jobs'[i].claimedAt = retryAt'[i] - Stale - 1
    BY <1>a, <1>e, <1>r
  <2>2. \A k \in Ids : k > lastId => k # i
    BY <1>0 DEF IInv, TypeOK, Ids
  <2>3. \A k \in DOMAIN jobs : k \in Ids
    BY DEF IInv, TypeOK, Ids
  <2> QED
    BY <1>1, <1>a, <1>e, <2>1, <2>2, <2>3 DEF IInv, DeferredRow
<1> QED
  BY <1>2, <1>3, <1>4, <1>5, <1>6 DEF IInv

\* The crash and the clock.
LEMMA CrashStep ==
  ASSUME IInv, Crash
  PROVE  IInv'
<1> USE TimeAssumption, NullAssumption
<1>1. TypeOK'
  BY DEF IInv, TypeOK, Crash, WorkerState, Idle
<1>2. LeaseTime' /\ HeldRow' /\ DistinctIds' /\ UniquePayload' /\ DeferredRow'
  BY DEF IInv, Crash, LeaseTime, HeldRow, DistinctIds, UniquePayload, DeferredRow,
         Busy, Running, Holds, Idle
<1> QED
  BY <1>1, <1>2 DEF IInv

\* Time passes.
LEMMA TickStep ==
  ASSUME IInv, Tick
  PROVE  IInv'
<1> USE TimeAssumption, NullAssumption
<1>1. TypeOK'
  BY DEF IInv, TypeOK, Tick
<1>2. LeaseTime'
  BY DEF IInv, TypeOK, Tick, LeaseTime, Busy, WorkerState
<1>3. HeldRow' /\ DistinctIds' /\ UniquePayload'
  BY DEF IInv, Tick, HeldRow, DistinctIds, UniquePayload, Running, Holds
<1>4. DeferredRow'
  BY DEF IInv, TypeOK, Tick, DeferredRow, Ids
<1> QED
  BY <1>1, <1>2, <1>3, <1>4 DEF IInv

\* Every step of the queue preserves the invariant, provided a tick ends
\* before its claim goes stale.
LEMMA NextIInv ==
  ASSUME IInv, MaxRun <= Stale, [Next]_vars
  PROVE  IInv'
<1>1. CASE Enqueue
  BY <1>1, EnqueueNewStep, EnqueueResetStep DEF Enqueue
<1>2. ASSUME NEW w \in Workers, WorkerStep(w) PROVE IInv'
  <2>1. CASE BeginTick(w)
    BY <2>1, BeginTickStep
  <2>2. CASE ClaimJob(w)
    BY <2>2, ClaimJobStep
  <2>3. CASE NothingClaimed(w) \/ AbandonJob(w)
    BY <2>3, GoIdleStep DEF NothingClaimed, AbandonJob
  <2>4. CASE ReleaseJob(w) \/ CompleteJob(w)
    BY <2>4, DeleteStep DEF ReleaseJob, CompleteJob, Holds, Running
  <2>5. CASE \E r \in RetryDelays, t \in (now - ClockLag)..now : DeferJob(w, r, t)
    BY <2>5, DeferJobStep
  <2> QED
    BY <1>2, <2>1, <2>2, <2>3, <2>4, <2>5 DEF WorkerStep
<1>3. CASE Crash
  BY <1>3, CrashStep
<1>4. CASE Tick
  BY <1>4, TickStep
<1>5. CASE UNCHANGED vars
  BY <1>5 DEF vars, IInv, TypeOK, LeaseTime, HeldRow, DistinctIds, UniquePayload,
              DeferredRow, Busy, Running, Holds
<1> QED
  BY <1>1, <1>2, <1>3, <1>4, <1>5 DEF Next

\* The invariant holds in every reachable state.
THEOREM QueueInvariant ==
  ASSUME MaxRun <= Stale
  PROVE  Spec => []IInv
<1>1. Init => IInv
  BY InitIInv
<1>2. IInv /\ [Next]_vars => IInv'
  BY NextIInv
<1> QED
  BY <1>1, <1>2, PTL DEF Spec

\* Type correctness of the queue and its workers.
THEOREM QueueTypeCorrect ==
  ASSUME MaxRun <= Stale
  PROVE  Spec => []TypeOK
<1>1. IInv => TypeOK
  BY DEF IInv
<1> QED
  BY <1>1, QueueInvariant, PTL

\* No two workers run the same payload: both rows would carry it, so by the
\* unique index they are one row, which only one worker can hold.
THEOREM QueueExclusive ==
  ASSUME MaxRun <= Stale
  PROVE  Spec => []ExclusiveWork
<1>1. IInv => ExclusiveWork
  BY DEF IInv, ExclusiveWork, HeldRow, DistinctIds, UniquePayload, Running, Holds
<1> QED
  BY <1>1, QueueInvariant, PTL

\* complete_job only ever deletes the caller's own, currently claimed row.
THEOREM QueueDeletesOwnRow ==
  ASSUME MaxRun <= Stale
  PROVE  Spec => OnlyOwnRowDeleted
<1> DEFINE A == \A i \in DOMAIN jobs \ DOMAIN jobs' :
                  \E w \in Workers : /\ worker[w].id = i /\ Running(w)
                                     /\ worker'[w] # worker[w]
                                     /\ jobs[i].claimedAt = worker[w].at
<1>1. IInv /\ [Next]_vars => [A]_vars
  <2> USE TimeAssumption, NullAssumption
  <2> SUFFICES ASSUME IInv, Next PROVE A
    OBVIOUS
  <2>1. CASE Enqueue \/ Crash \/ Tick
    BY <2>1 DEF Enqueue, EnqueueNew, EnqueueReset, Crash, Tick
  <2>2. ASSUME NEW w \in Workers, WorkerStep(w) PROVE A
    <3>1. CASE ReleaseJob(w) \/ CompleteJob(w)
      <4>1. DOMAIN jobs' = DOMAIN jobs \ {worker[w].id}
        BY <3>1 DEF ReleaseJob, CompleteJob, DeleteJob
      <4>2. worker[w].id \in DOMAIN jobs =>
              Running(w) /\ jobs[worker[w].id].claimedAt = worker[w].at
        BY <3>1 DEF ReleaseJob, CompleteJob, IInv, HeldRow, Holds, Running
      <4>3. worker'[w] # worker[w]
        <5>1. worker'[w].pc # worker[w].pc
          BY <3>1 DEF ReleaseJob, CompleteJob, IInv, TypeOK, WorkerState, Holds, Running, Idle
        <5> QED
          BY <5>1
      <4> QED
        BY <4>1, <4>2, <4>3
    <3>2. CASE ~(ReleaseJob(w) \/ CompleteJob(w))
      BY <2>2, <3>2 DEF WorkerStep, BeginTick, ClaimJob, NothingClaimed, DeferJob, AbandonJob
    <3> QED
      BY <3>1, <3>2
  <2> QED
    BY <2>1, <2>2 DEF Next
<1> QED
  BY <1>1, QueueInvariant, PTL DEF Spec, OnlyOwnRowDeleted

\* The retry arithmetic is exact for every delay, zero and beyond STALE included.
THEOREM QueueRetryWindow ==
  ASSUME MaxRun <= Stale
  PROVE  Spec => []RetryWindow
<1>1. IInv => RetryWindow
  <2> USE TimeAssumption, NullAssumption
  <2> SUFFICES ASSUME IInv, NEW i \in DOMAIN jobs, retryAt[i] # NULL
               PROVE  i \in Claimable(now) <=> now >= retryAt[i]
    BY DEF RetryWindow
  <2>1. i \in Ids /\ retryAt[i] \in Int /\ now \in Nat
    BY DEF IInv, TypeOK, Ids
  <2> QED
    BY <2>1 DEF IInv, DeferredRow, Claimable
<1> QED
  BY <1>1, QueueInvariant, PTL

-----------------------------------------------------------------------------
(* The refinement of WorkSet: what a step does to Queued and Doing decides   *)
(* which abstract step it is.                                                *)

\* What is being done is queued: HeldRow, read through the mapping.
LEMMA DoingIsQueued ==
  ASSUME IInv, NEW w \in Workers, Running(w)
  PROVE  /\ Doing[w] = worker[w].payload
         /\ worker[w].payload \in Queued
         /\ worker[w].payload \in Payloads
         /\ worker[w].payload # NULL
<1>1. /\ worker[w].id \in DOMAIN jobs
      /\ jobs[worker[w].id].payload = worker[w].payload
      /\ jobs[worker[w].id] \in JobRow
  BY DEF IInv, HeldRow, TypeOK
<1> QED
  BY <1>1, NullAssumption DEF Doing, Queued, JobRow

\* A step that leaves Queued and Doing alone is a stutter.
LEMMA QuietRefines ==
  ASSUME Queued' = Queued, Doing' = Doing
  PROVE  UNCHANGED Work!vars
BY DEF Waiting, Work!vars

\* A new row, and a claim reset by its owner's absence.
LEMMA EnqueueRefines ==
  ASSUME IInv, MaxRun <= Stale, Enqueue
  PROVE  Work!Next \/ UNCHANGED Work!vars
<1>1. PICK p \in Payloads : \/ EnqueueNew(p)
                            \/ \E t \in (now - ClockLag)..now : EnqueueReset(p, t)
  BY DEF Enqueue
<1>2. worker' = worker /\ Doing' = Doing
  BY <1>1 DEF EnqueueNew, EnqueueReset, Doing, Running
<1>3. CASE EnqueueNew(p)
  <2>1. p \notin Queued /\ p # NULL
    BY <1>3, NullAssumption DEF EnqueueNew, Queued
  <2>2. Queued' = Queued \cup {p}
    <3>1. /\ lastId + 1 \notin DOMAIN jobs
          /\ DOMAIN jobs' = DOMAIN jobs \cup {lastId + 1}
          /\ jobs'[lastId + 1].payload = p
          /\ \A i \in DOMAIN jobs : jobs'[i] = jobs[i]
      BY <1>3 DEF EnqueueNew, IInv, TypeOK
    <3> QED
      BY <3>1 DEF Queued
  <2>3. \A w \in Workers : Doing[w] # p
    BY <2>1, DoingIsQueued DEF Doing
  <2>4. Work!Submit(p)
    BY <1>2, <2>1, <2>2, <2>3 DEF Work!Submit, Work!Taken, Waiting
  <2> QED
    BY <2>4 DEF Work!Next
<1>4. CASE \E t \in (now - ClockLag)..now : EnqueueReset(p, t)
  <2>1. /\ DOMAIN jobs' = DOMAIN jobs
        /\ \A i \in DOMAIN jobs : jobs'[i].payload = jobs[i].payload
    BY <1>4 DEF EnqueueReset, IInv, TypeOK, JobRow
  <2> QED
    BY <1>2, <2>1, QuietRefines DEF Queued
<1> QED
  BY <1>1, <1>3, <1>4

\* Claiming takes a payload that waits: its row is nobody's, by the lease.
LEMMA ClaimRefines ==
  ASSUME IInv, MaxRun <= Stale, NEW w \in Workers, ClaimJob(w)
  PROVE  Work!Next
<1> USE TimeAssumption
<1>0. PICK i \in DOMAIN jobs :
        /\ IsPicked(i, worker[w].at)
        /\ jobs' = [jobs EXCEPT ![i].claimedAt = worker[w].at]
        /\ worker' = [worker EXCEPT ![w] = [pc |-> "running", id |-> i,
                        payload |-> jobs[i].payload, at |-> worker[w].at]]
  BY DEF ClaimJob
<1> DEFINE p == jobs[i].payload
<1>1. p \in Payloads /\ p \in Queued
  BY DEF IInv, TypeOK, JobRow, Queued
<1>2. /\ worker[w].at \in Int /\ worker[w].at <= now /\ now \in Nat
      /\ worker[w].pc = "polling"
  BY DEF ClaimJob, IInv, TypeOK, LeaseTime, Busy, WorkerState
<1>3. jobs[i].claimedAt = NULL \/ jobs[i].claimedAt < worker[w].at - Stale
  BY <1>0 DEF IsPicked, Claimable
<1>4. \A v \in Workers : Running(v) => worker[v].id # i
  BY <1>2, <1>3, NullAssumption DEF IInv, LeaseTime, HeldRow, Busy, Running, TypeOK, WorkerState
<1>5. \A v \in Workers : Doing[v] # p
  <2> TAKE v \in Workers
  <2>1. CASE Running(v)
    BY <2>1, <1>4 DEF IInv, HeldRow, UniquePayload, Doing
  <2>2. CASE ~Running(v)
    BY <2>2, <1>1, NullAssumption DEF Doing
  <2> QED
    BY <2>1, <2>2
<1>6. /\ worker'[w].pc = "running" /\ worker'[w].payload = p
      /\ \A v \in Workers : v # w => worker'[v] = worker[v]
  BY <1>0 DEF IInv, TypeOK
<1>7. Doing' = [Doing EXCEPT ![w] = p]
  BY <1>6 DEF Doing, Running
<1>8. Doing[w] = NULL
  BY <1>2 DEF Doing, Running
<1>9. Queued' = Queued
  <2>1. /\ DOMAIN jobs' = DOMAIN jobs
        /\ \A k \in DOMAIN jobs : jobs'[k].payload = jobs[k].payload
    BY <1>0 DEF IInv, TypeOK, JobRow
  <2> QED
    BY <2>1 DEF Queued
<1>10. Waiting' = Waiting \ {p}
  <2>1. {Doing[v] : v \in Workers}' \ {NULL} = ({Doing[v] : v \in Workers} \cup {p}) \ {NULL}
    BY <1>1, <1>7, <1>8, NullAssumption DEF Doing
  <2>2. NULL \notin Queued
    BY NullAssumption DEF Queued, IInv, TypeOK, JobRow
  <2> QED
    BY <1>9, <2>1, <2>2 DEF Waiting
<1>11. Work!Take(w, p)
  BY <1>1, <1>5, <1>7, <1>8, <1>10 DEF Work!Take, Waiting
<1> QED
  BY <1>1, <1>11 DEF Work!Next

\* Giving back: workers of W stop, the rows stay.
LEMMA StopRefines ==
  ASSUME IInv, NEW W \in SUBSET Workers, Queued' = Queued,
         Doing' = [w \in Workers |-> IF w \in W THEN NULL ELSE Doing[w]],
         \A v, w \in Workers : v # w /\ Running(v) /\ Running(w) => Doing[v] # Doing[w]
  PROVE  Work!Next
<1> DEFINE Back == {Doing[w] : w \in W} \ {NULL}
<1>1. Back \subseteq Queued
  BY DoingIsQueued DEF Doing
<1>2. NULL \notin Queued
  BY NullAssumption DEF Queued, IInv, TypeOK, JobRow
<1>3. \A w \in Workers \ W : Doing[w] \notin Back
  BY DEF Doing
<1>4. \A p \in Queued : (\E w \in Workers : Doing'[w] = p)
                        <=> (\E w \in Workers : Doing[w] = p) /\ p \notin Back
  BY <1>2, <1>3
<1>5. Waiting' = Waiting \cup Back
  BY <1>1, <1>4 DEF Waiting
<1>6. Work!GiveBack(W)
  BY <1>5 DEF Work!GiveBack
<1> QED
  BY <1>6 DEF Work!Next

\* Two running workers do different payloads (ExclusiveWork, through Doing).
LEMMA DoingDiffers ==
  ASSUME IInv
  PROVE  \A v, w \in Workers : v # w /\ Running(v) /\ Running(w) => Doing[v] # Doing[w]
BY DEF IInv, HeldRow, DistinctIds, UniquePayload, Running, Holds, Doing

\* Deleting the row of a running worker finishes its payload.
LEMMA DeleteRefines ==
  ASSUME IInv, NEW w \in Workers, ReleaseJob(w) \/ CompleteJob(w)
  PROVE  Work!Next \/ UNCHANGED Work!vars
<1> DEFINE i == worker[w].id
           p == worker[w].payload
<1>1. /\ DOMAIN jobs' = DOMAIN jobs \ {i}
      /\ \A k \in DOMAIN jobs' : jobs'[k] = jobs[k]
      /\ Holds(w)
  BY DEF ReleaseJob, CompleteJob, DeleteJob, Holds, Running
<1>2. /\ ~Running(w)'
      /\ \A v \in Workers : v # w => worker'[v] = worker[v]
  BY DEF ReleaseJob, CompleteJob, Running, Idle, IInv, TypeOK, WorkerState
<1>3. Doing' = [Doing EXCEPT ![w] = NULL]
  BY <1>2 DEF Doing, Running
<1>4. CASE Running(w)
  <2>1. i \in DOMAIN jobs /\ jobs[i].payload = p
    BY <1>4 DEF IInv, HeldRow
  <2>2. Queued' = Queued \ {p}
    <3>1. \A k \in DOMAIN jobs : k # i => jobs[k].payload # p
      BY <2>1 DEF IInv, UniquePayload
    <3> QED
      BY <1>1, <2>1, <3>1 DEF Queued
  <2>3. Doing[w] = p /\ p # NULL
    BY <1>4, DoingIsQueued
  <2>4. NULL \notin Queued
    BY NullAssumption DEF Queued, IInv, TypeOK, JobRow
  <2>5. \A v \in Workers : v # w => Doing'[v] = Doing[v]
    BY <1>3 DEF Doing
  <2>6. Doing'[w] = NULL
    BY <1>3 DEF Doing
  <2>7. Waiting' = Waiting
    BY <2>2, <2>3, <2>4, <2>5, <2>6 DEF Waiting
  <2>8. Work!Finish(w)
    BY <1>3, <2>3, <2>7 DEF Work!Finish
  <2> QED
    BY <2>8 DEF Work!Next
<1>5. CASE ~Running(w)
  <2>1. i \notin DOMAIN jobs
    BY <1>1, <1>5 DEF IInv, HeldRow, Holds, Running
  <2>2. Queued' = Queued
    BY <1>1, <2>1 DEF Queued
  <2>3. Doing' = Doing
    BY <1>3, <1>5 DEF Doing
  <2> QED
    BY <2>2, <2>3, QuietRefines
<1> QED
  BY <1>4, <1>5

\* Deferring and abandoning: the worker stops, its row stays.
LEMMA GiveUpRefines ==
  ASSUME IInv, NEW w \in Workers,
         \/ AbandonJob(w)
         \/ \E r \in RetryDelays, t \in (now - ClockLag)..now : DeferJob(w, r, t)
  PROVE  Work!Next
<1>1. /\ worker' = [worker EXCEPT ![w] = Idle]
      /\ DOMAIN jobs' = DOMAIN jobs
      /\ \A k \in DOMAIN jobs : jobs'[k].payload = jobs[k].payload
  <2>1. CASE AbandonJob(w)
    BY <2>1 DEF AbandonJob
  <2>2. ASSUME NEW r \in RetryDelays, NEW t \in (now - ClockLag)..now, DeferJob(w, r, t)
        PROVE  /\ worker' = [worker EXCEPT ![w] = Idle]
               /\ DOMAIN jobs' = DOMAIN jobs
               /\ \A k \in DOMAIN jobs : jobs'[k].payload = jobs[k].payload
    <3>1. /\ worker[w].id \in DOMAIN jobs
          /\ worker' = [worker EXCEPT ![w] = Idle]
      BY <2>2 DEF DeferJob, IInv, HeldRow
    <3>2. jobs' = [jobs EXCEPT ![worker[w].id].claimedAt = DeferredClaimedAt(t, r)]
      BY <2>2, <3>1 DEF DeferJob
    <3> QED
      BY <3>1, <3>2 DEF IInv, TypeOK, JobRow
  <2> QED
    BY <2>1, <2>2
<1>2. Queued' = Queued
  BY <1>1 DEF Queued
<1>3. Doing' = [v \in Workers |-> IF v \in {w} THEN NULL ELSE Doing[v]]
  BY <1>1 DEF Doing, Running, Idle, IInv, TypeOK
<1> QED
  BY <1>2, <1>3, StopRefines, DoingDiffers

\* Each step of the queue is a step of WorkSet, or none.
LEMMA StepRefines ==
  ASSUME IInv, MaxRun <= Stale, [Next]_vars
  PROVE  Work!Next \/ UNCHANGED Work!vars
<1>1. CASE Enqueue
  BY <1>1, EnqueueRefines
<1>2. ASSUME NEW w \in Workers, WorkerStep(w)
      PROVE  Work!Next \/ UNCHANGED Work!vars
  <2>1. CASE BeginTick(w) \/ NothingClaimed(w)
    <3>1. Doing' = Doing
      BY <2>1 DEF BeginTick, NothingClaimed, Doing, Running, Idle, IInv, TypeOK
    <3>2. Queued' = Queued
      BY <2>1 DEF BeginTick, NothingClaimed, Queued
    <3> QED
      BY <3>1, <3>2, QuietRefines
  <2>2. CASE ClaimJob(w)
    BY <2>2, ClaimRefines
  <2>3. CASE ReleaseJob(w) \/ CompleteJob(w)
    BY <2>3, DeleteRefines
  <2>4. CASE \/ AbandonJob(w)
             \/ \E r \in RetryDelays, t \in (now - ClockLag)..now : DeferJob(w, r, t)
    BY <2>4, GiveUpRefines
  <2> QED
    BY <1>2, <2>1, <2>2, <2>3, <2>4 DEF WorkerStep
<1>3. CASE Crash
  <2>1. Queued' = Queued
    BY <1>3 DEF Crash, Queued
  <2>2. Doing' = [v \in Workers |-> IF v \in Workers THEN NULL ELSE Doing[v]]
    BY <1>3 DEF Crash, Doing, Running, Idle
  <2> QED
    BY <2>1, <2>2, StopRefines, DoingDiffers
<1>4. CASE Tick \/ UNCHANGED vars
  <2>1. Queued' = Queued /\ Doing' = Doing
    BY <1>4 DEF Tick, vars, Queued, Doing, Running
  <2> QED
    BY <2>1, QuietRefines
<1> QED
  BY <1>1, <1>2, <1>3, <1>4 DEF Next

\* The queue implements WorkSet: payloads are neither lost nor duplicated, and
\* each is done by one worker at a time.
THEOREM QueueImplementsWorkSet ==
  ASSUME MaxRun <= Stale
  PROVE  Spec => ImplementsWorkSet
<1>1. Init => Work!Init
  BY DEF Init, Work!Init, Waiting, Queued, Doing, Running, Idle
<1>2. IInv /\ [Next]_vars => [Work!Next]_(Work!vars)
  BY StepRefines
<1> QED
  BY <1>1, <1>2, QueueInvariant, PTL DEF Spec, ImplementsWorkSet, Work!Spec

=============================================================================
