----------------------------- MODULE MCStartup ------------------------------
(* Model-checking instance of Startup: two models of different dimensions.  *)
EXTENDS Startup

MCDims == [m \in Models |-> m]
=============================================================================
