------------------------------ MODULE Serving -------------------------------
(***************************************************************************)
(* A serving process with its page: workers and requests on the pool, the  *)
(* page polling through the proxy, the server going down and coming back.  *)
(* An answer the proxy no longer waits for still costs the server a task,  *)
(* so the page may have several of them running.                           *)
(***************************************************************************)
EXTENDS ConnectionPool, Frontend

CONSTANT
  PageTasks    \* the requests that serve the page's stats calls

VARIABLES
  up,          \* the server process runs
  serving      \* the task of the page's open stats call

servingVars == <<poolVars, page, up, serving>>

ServingInit ==
  /\ PoolInit /\ PageInit
  /\ up = TRUE /\ serving = Nobody

Others == <<poolVars, up, serving>>

\* The tasks other than the one whose answer the page waits for, and that one
\* until it ends.
TaskWorks(t) ==
  /\ up
  /\ IF t = serving THEN Acquire(t) ELSE TaskStep(t)
  /\ UNCHANGED <<page, up, serving>>

\* The page's task ends, with the statistics, a failed statement or a pool
\* timeout, and the answer goes back.
TaskAnswers(t) ==
  /\ up
  /\ t = serving
  /\ \/ FinishDatabase(t) /\ StatsReturn("ok")
     \/ (StatementFails(t) \/ TimeOut(t)) /\ StatsReturn("failed")
  /\ serving' = Nobody
  /\ UNCHANGED <<up>>

OtherRequest ==
  /\ up
  /\ \E r \in Requests \ PageTasks, p \in Entries : StartRequest(r, p)
  /\ UNCHANGED <<page, up, serving>>

\* /health needs no connection.
AnswerHealth ==
  /\ HealthReturns(IF up THEN "ok" ELSE "failed")
  /\ UNCHANGED Others

\* The stats call reaches a running server, or fails at once.
CallStats ==
  /\ PollStats
  /\ IF up
     THEN \E r \in PageTasks :
            /\ StartRequest(r, "stats")
            /\ serving' = r
     ELSE UNCHANGED <<poolVars, serving>>
  /\ UNCHANGED <<up>>

\* The server it was sent to is gone: the proxy answers with an error.
StatsLost ==
  /\ serving = Nobody
  /\ StatsReturn("failed")
  /\ UNCHANGED Others

\* proxy_read_timeout: the page gets an error, the server's task goes on.
ProxyGivesUp ==
  /\ serving # Nobody
  /\ StatsReturn("failed")
  /\ serving' = Nobody
  /\ UNCHANGED <<poolVars, up>>

ServerDown ==
  /\ up
  /\ up' = FALSE
  /\ phase' = [t \in Tasks |-> IF t \in Workers THEN "sleep" ELSE "idle"]
  /\ waiting' = {}
  /\ holder' = [c \in Conns |-> Nobody]
  /\ writer' = Nobody
  /\ serving' = Nobody
  /\ UNCHANGED page

ServerUp ==
  /\ ~up
  /\ up' = TRUE
  /\ UNCHANGED <<poolVars, page, serving>>

HealthTimer == PollHealth /\ UNCHANGED Others
StatsTimer == CallStats \/ (PollStatsOffline /\ UNCHANGED Others)
PageHandles == (HandleHealth \/ HandleStats) /\ UNCHANGED Others

ServingNext ==
  \/ \E t \in Tasks : TaskWorks(t) \/ TaskAnswers(t)
  \/ OtherRequest
  \/ HealthTimer \/ StatsTimer \/ PageHandles
  \/ AnswerHealth \/ StatsLost \/ ProxyGivesUp
  \/ ServerDown \/ ServerUp

\* Timers fire, the script runs its continuations, a call is answered or fails,
\* and every task goes on: each wait of a task is bounded by a timeout.  Nothing
\* says that the server goes down or comes back.
ServingSpec ==
  /\ ServingInit /\ [][ServingNext]_servingVars
  /\ WF_servingVars(HealthTimer) /\ WF_servingVars(StatsTimer)
  /\ WF_servingVars(HandleHealth /\ UNCHANGED Others)
  /\ WF_servingVars(HandleStats /\ UNCHANGED Others)
  /\ WF_servingVars(AnswerHealth)
  /\ WF_servingVars(StatsLost)
  /\ \A t \in Tasks : WF_servingVars(TaskWorks(t) \/ TaskAnswers(t))

-----------------------------------------------------------------------------
(* Properties.                                                              *)

\* The page comes to agree with a server that stays up, or stays down, whatever
\* answers were late or lost before.
PageFollowsServer ==
  /\ <>[]up => <>[]page.online
  /\ <>[]~up => <>[](~page.online /\ page.shown # "stats")

\* While the server stays up, the statistics are asked for again and again.
PollingGoesOn ==
  <>[]up => []<>(page.stats = "sent") /\ []<>~page.statsInFlight

=============================================================================
