------------------------------ MODULE MCRequests ----------------------------
(* Model-checking instance of Requests.                                     *)
EXTENDS Requests

\* Up to five vectors of two documents: filename rows and two content ranges of
\* the active model, or rows another model left in the table.
Vector == [doc : {1, 2}, model : {1}, chunk : {0, 1, 2}, distance : {0, 1}]
            \cup [doc : {1}, model : {2}, chunk : {0}, distance : {0, 1}]

\* The unique index of document_embeddings.
Distinct(f) ==
  \A i, j \in DOMAIN f :
    i # j => <<f[i].doc, f[i].model, f[i].chunk>> # <<f[j].doc, f[j].model, f[j].chunk>>

MCIndexes == {f \in UNION {[1..n -> Vector] : n \in 0..4} : Distinct(f)}

\* Nested, equal and separate roots; the root of the file system.
MCRootDirs == {<<>>, <<"r">>, <<"d">>, <<"r", "d">>}

\* Paths below one root, below two, and below none of the configured ones.
MCStoredPaths == UNION {[1..n -> {"r", "d", "f"}] : n \in 1..3}

\* Display directories on the host, with and without trailing separators.
MCDisplayDirs ==
  {<<>>, <<".">>, <<".", "/">>, <<"/">>, <<"/", "/">>, <<"/", "h">>, <<"/", "h", "/", "/">>,
   <<"h">>, <<".", "/", "h", "/">>, <<"C:", "\\">>, <<"C:", "/", "/">>,
   <<"C:", "\\", "h", "\\">>, <<"\\", "\\", "h">>}
=============================================================================
