----------------------------- MODULE MCJobQueue -----------------------------
(* Model-checking instance of JobQueue: two interchangeable workers.        *)
EXTENDS JobQueue, TLC

\* Workers and payloads are never compared except for equality.
Symmetry == Permutations(Workers) \cup Permutations(Payloads)
=============================================================================
