--------------------------- MODULE ConnectionPool ---------------------------
(***************************************************************************)
(* The server's SQLite access: worker ticks and HTTP requests share one    *)
(* bounded r2d2 pool, and writers share SQLite's single write lock.  The   *)
(* tables are left out; what is kept is which task holds a connection or   *)
(* the lock at which point of its code, what it waits for, and the         *)
(* timeouts that end a wait.                                               *)
(***************************************************************************)
EXTENDS Naturals, FiniteSets

CONSTANTS
  Workers,    \* the spawned worker tasks
  Requests,   \* HTTP requests being served at a time (a bound)
  PoolSize,   \* ASK_SERVER_DATABASE_POOL_SIZE
  Nobody

ASSUME PoolAssumption ==
  /\ IsFiniteSet(Workers) /\ PoolSize \in Nat \ {0}
  /\ Workers \cap Requests = {} /\ Nobody \notin Workers \cup Requests

VARIABLES
  phase,    \* where in its code each task is
  waiting,  \* tasks inside pool.get()
  holder,   \* connection -> the task that holds it
  writer    \* the task whose write transaction is open

poolVars == <<phase, waiting, holder, writer>>

Tasks == Workers \cup Requests
Conns == 1..PoolSize
Free == {c \in Conns : holder[c] = Nobody}
Held(t) == {c \in Conns : holder[c] = t}

\* What a phase does: with a connection, and under SQLite's write lock.
Reads == {"load_model", "load_document", "list_rows",
          "search_model", "vector_search", "stats"}
Writes == {"claim", "upsert", "orphan", "delete_document", "drop_job", "replan",
           "replace", "complete", "defer", "post"}
Database == Reads \cup Writes
Elsewhere == {"sleep", "walk", "hash", "reread", "embed", "idle", "query_embed"}
Entries == {"stats", "post", "search_model"}   \* post: ingest and mark-stale requests

\* The phase after p when p succeeds, or the files or the provider fail.
NextPhases(p) ==
  CASE p = "sleep"           -> {"claim"}
    [] p = "claim"           -> {"sleep", "load_model", "load_document"}
    [] p = "load_model"      -> {"walk", "sleep"}
    [] p = "walk"            -> {"upsert", "complete", "sleep"}
    [] p = "upsert"          -> {"walk"}
    [] p = "load_document"   -> {"hash", "orphan", "sleep"}
    [] p = "hash"            -> {"delete_document", "drop_job", "list_rows", "sleep"}
    [] p = "drop_job"        -> {"reread"}
    [] p = "reread"          -> {"replan", "sleep"}
    [] p = "list_rows"       -> {"embed", "complete", "sleep"}
    [] p = "embed"           -> {"replace", "defer", "sleep"}
    [] p \in {"orphan", "delete_document", "replan", "replace"} -> {"complete"}
    [] p \in {"complete", "defer"} -> {"sleep"}
    [] p = "search_model"    -> {"query_embed"}
    [] p = "query_embed"     -> {"vector_search", "idle"}
    [] p \in {"vector_search", "stats", "post"} -> {"idle"}
    [] p = "idle"            -> {}

\* Steps within one block, which go on with the connection they have.  A replan
\* drops the job, stats, hashes and reads the file, and upserts on one connection.
SameConnection ==
  {<<"load_document", "orphan">>, <<"drop_job", "reread">>, <<"reread", "replan">>}

-----------------------------------------------------------------------------
PoolInit ==
  /\ phase = [t \in Tasks |-> IF t \in Workers THEN "sleep" ELSE "idle"]
  /\ waiting = {}
  /\ holder = [c \in Conns |-> Nobody]
  /\ writer = Nobody

Without(t) == [c \in Conns |-> IF holder[c] = t THEN Nobody ELSE holder[c]]

\* Mutant of Enter: the connection of the claim lives as long as the tick.
EnterKeepsClaim(t, p) ==
  /\ phase' = [phase EXCEPT ![t] = p]
  /\ waiting' = IF p \in Database THEN waiting \cup {t} ELSE waiting \ {t}
  /\ holder' = IF p = "sleep" \/ t \in Requests THEN Without(t) ELSE holder
  /\ writer' = IF writer = t THEN Nobody ELSE writer

\* Mutant of Enter: a handler keeps its connection while the provider works.
EnterEmbedHolding(t, p) ==
  LET stays == <<phase[t], p>> \in SameConnection \/ p \in {"embed", "query_embed"} IN
  /\ phase' = [phase EXCEPT ![t] = p]
  /\ waiting' = IF p \in Database /\ ~stays THEN waiting \cup {t} ELSE waiting \ {t}
  /\ holder' = IF stays THEN holder ELSE Without(t)
  /\ writer' = IF writer = t THEN Nobody ELSE writer

\* Going on to phase p: the block of the old phase ends and drops its
\* connection, and the next database phase asks the pool again.
Enter(t, p) ==
  LET stays == <<phase[t], p>> \in SameConnection IN
  /\ phase' = [phase EXCEPT ![t] = p]
  /\ waiting' = IF p \in Database /\ ~stays THEN waiting \cup {t} ELSE waiting \ {t}
  /\ holder' = IF stays THEN holder ELSE Without(t)
  /\ writer' = IF writer = t THEN Nobody ELSE writer

\* The router hands a request to a blocking task.
StartRequest(r, p) ==
  /\ phase[r] = "idle"
  /\ p \in Entries
  /\ Enter(r, p)

\* Timer, files or provider; the pool and the lock are not asked.  The provider
\* call ends at the latest with the HTTP client's timeout.
StepElsewhere(t) ==
  /\ phase[t] \in Elsewhere
  /\ \E p \in NextPhases(phase[t]) : Enter(t, p)

\* r2d2's pool.get(): any idle connection, checked out by one task.
Acquire(t) ==
  /\ t \in waiting
  /\ Free # {}
  /\ holder' = [holder EXCEPT ![CHOOSE c \in Free : TRUE] = t]
  /\ waiting' = waiting \ {t}
  /\ UNCHANGED <<phase, writer>>

\* Past pool.get() of a database phase; and with a connection in any phase.
AtDatabase(t) == t \notin waiting /\ phase[t] \in Database
HasConnection(t) == AtDatabase(t) \/ phase[t] = "reread"

\* BEGIN IMMEDIATE, or the first write of an autocommit statement.
LockDatabase(t) ==
  /\ AtDatabase(t)
  /\ phase[t] \in Writes
  /\ writer = Nobody
  /\ writer' = t
  /\ UNCHANGED <<phase, waiting, holder>>

\* The phase's statements have run (readers do not need the lock: WAL).
FinishDatabase(t) ==
  /\ AtDatabase(t)
  /\ phase[t] \in Writes => writer = t
  /\ \E p \in NextPhases(phase[t]) : Enter(t, p)

\* Where an error takes a task: the end of the tick or of the request.
Home(t) == IF t \in Workers THEN "sleep" ELSE "idle"

\* A statement of the phase fails.
StatementFails(t) ==
  /\ AtDatabase(t)
  /\ phase[t] \in Writes => writer = t
  /\ Enter(t, Home(t))

\* pool.get() gives up after its connection timeout, a writer after
\* busy_timeout.
TimeOut(t) ==
  /\ \/ t \in waiting /\ Free = {}
     \/ AtDatabase(t) /\ phase[t] \in Writes /\ writer \notin {t, Nobody}
  /\ Enter(t, Home(t))

TaskStep(t) ==
  \/ StepElsewhere(t) \/ Acquire(t) \/ LockDatabase(t)
  \/ FinishDatabase(t) \/ StatementFails(t) \/ TimeOut(t)

PoolNext ==
  \/ \E t \in Tasks : TaskStep(t)
  \/ \E r \in Requests, p \in Entries : StartRequest(r, p)

PoolSpec == PoolInit /\ [][PoolNext]_poolVars

-----------------------------------------------------------------------------
(* Properties.                                                              *)

PoolTypeOK ==
  /\ phase \in [Tasks -> Database \cup Elsewhere]
  /\ waiting \subseteq {t \in Tasks : phase[t] \in Database}
  /\ holder \in [Conns -> Tasks \cup {Nobody}]
  /\ writer \in Tasks \cup {Nobody}

\* README.md:52: with a pool larger than the number of workers, a request never
\* finds every connection in the hands of background work.
NoRequestBehindWorkers ==
  PoolSize > Cardinality(Workers) =>
    \A r \in Requests \cap waiting : \E c \in Conns : holder[c] \notin Workers

\* t waits for no connection and for no lock: it runs statements, or rereads the
\* file it replans.
Running(t) ==
  \/ AtDatabase(t) /\ (phase[t] \in Writes => writer \in {t, Nobody})
  \/ phase[t] = "reread"

\* Nobody waits on everybody.  When the pool is exhausted, some holder of a
\* connection waits for nobody, and it is not at the provider, on a walk or asleep;
\* the holder of the write lock is at its statements, with a connection of its own,
\* and not even at the file it replans.
WaitersHaveRunner ==
  /\ waiting # {} /\ Free = {} => \E c \in Conns : Running(holder[c])
  /\ writer # Nobody => AtDatabase(writer) /\ Held(writer) # {}

=============================================================================
