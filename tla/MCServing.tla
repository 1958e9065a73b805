----------------------------- MODULE MCServing ------------------------------
(* Model-checking instance of Serving: named tasks.                         *)
EXTENDS Serving

CONSTANTS w1, r1, s1, s2
=============================================================================
