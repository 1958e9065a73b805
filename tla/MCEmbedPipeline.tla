-------------------------- MODULE MCEmbedPipeline ---------------------------
(* Model-checking instances of EmbedPipeline.                               *)
EXTENDS EmbedPipeline, TLC

\* Version 1 has one content chunk, version 2 two, version 3 none (binary or
\* empty file): growing, shrinking and filename-only plans.
MCContentChunks == (1 :> {1}) @@ (2 :> {1, 2}) @@ (3 :> {})

\* A file that shrinks: the stored ranges of version 1 do not fit version 2.
MCShrinkingChunks == (1 :> {1, 2}) @@ (2 :> {1})

\* Models of the same dimensions: the vec table accepts the vectors of each.
MCSameDims == [m \in Models |-> 1]

\* Models of different dimensions.
MCDims == [m \in Models |-> m]

Symmetry == Permutations(Workers)
=============================================================================
