------------------------------ MODULE Frontend ------------------------------
(***************************************************************************)
(* The page's two pollers (app.js): timers start them, a flag keeps each   *)
(* from overlapping itself, and the answer is handled whenever it comes,   *)
(* in any order with the other poller's.  Between page and server is the   *)
(* proxy, which may give up on an answer that the server still works on.   *)
(***************************************************************************)

VARIABLE page   \* state of the script: see PageInit

\* A call is "none", "sent", or back with outcome "ok" or "failed".
PageInit ==
  page = [online |-> FALSE,      \* state.apiOnline
          shown  |-> "waiting",  \* what renderStats put on the page last
          healthInFlight |-> FALSE, health |-> "none",
          statsInFlight  |-> FALSE, stats  |-> "none"]

\* pollHealth up to its await.
PollHealth ==
  /\ ~page.healthInFlight
  /\ page' = [page EXCEPT !.healthInFlight = TRUE, !.health = "sent"]

HealthReturns(outcome) ==
  /\ page.health = "sent"
  /\ page' = [page EXCEPT !.health = outcome]

\* Mutant of HandleHealth: the flag is reset after success only.
HandleHealthNoFinally ==
  /\ page.health \in {"ok", "failed"}
  /\ page' = [page EXCEPT !.health = "none", !.online = (page.health = "ok"),
                          !.healthInFlight = (page.health # "ok")]

\* pollHealth after its await: try, catch and finally.
HandleHealth ==
  /\ page.health \in {"ok", "failed"}
  /\ page' = [page EXCEPT !.health = "none", !.online = (page.health = "ok"),
                          !.healthInFlight = FALSE]

\* pollStats while the API is taken to be offline.
PollStatsOffline ==
  /\ ~page.online
  /\ page' = [page EXCEPT !.shown = "waiting"]

\* pollStats up to its await.
PollStats ==
  /\ page.online
  /\ ~page.statsInFlight
  /\ page' = [page EXCEPT !.statsInFlight = TRUE, !.stats = "sent"]

StatsReturn(outcome) ==
  /\ page.stats = "sent"
  /\ page' = [page EXCEPT !.stats = outcome]

\* Mutant of HandleStats: the flag is reset after success only.
HandleStatsNoFinally ==
  /\ page.stats \in {"ok", "failed"}
  /\ page' = [page EXCEPT !.stats = "none",
                          !.shown = IF page.stats = "ok" THEN "stats" ELSE "error",
                          !.statsInFlight = (page.stats # "ok")]

\* pollStats after its await; the API may have gone offline meanwhile.
HandleStats ==
  /\ page.stats \in {"ok", "failed"}
  /\ page' = [page EXCEPT !.stats = "none",
                          !.shown = IF page.stats = "ok" THEN "stats" ELSE "error",
                          !.statsInFlight = FALSE]

=============================================================================
