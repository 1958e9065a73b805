----------------------------- MODULE MCProgress -----------------------------
(* Model-checking instance of Progress.                                     *)
EXTENDS Progress
=============================================================================
