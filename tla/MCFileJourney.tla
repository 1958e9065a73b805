-------------------------- MODULE MCFileJourney ----------------------------
(* Model-checking instance of FileJourney.                                  *)
EXTENDS FileJourney

\* All concatenations of up to n members of S.
Texts(S, n) == {FlattenSeq(s) : s \in UNION {[1..k -> S] : k \in 0..n}}

\* Arbitrary bytes, valid UTF-8 or not, up to the length MaxBytes.
MaxBytes == 5
ByteFiles == UNION {[1..n -> {"a", "0", "2", "3", "c"}] : n \in 0..MaxBytes}

\* Valid text: short ones from single scalars, longer ones from whole lines
\* (plain, heading, list item, empty, fence, wide), with and without a last newline.
MaxScalars == 4
MaxLines == 4
Scalars == {<<"a">>, <<"n">>, <<"#">>, <<"f">>, <<"2", "c">>, <<"3", "c", "c">>}
Lines == {<<"a", "a", "n">>, <<"#", "n">>, <<"-", "a", "n">>, <<"n">>, <<"f", "n">>,
          <<"2", "c", "3", "c", "c">>}

MCFiles == ByteFiles \cup Texts(Scalars, MaxScalars) \cup Texts(Lines, MaxLines)

\* The requested root, a directory in it, one in that, and a hidden one.
MCDirs == {<<>>, <<"a">>, <<"a", "b">>, <<".h">>}

SmallChunkings == {[size |-> 2, overlap |-> 1], [size |-> 3, overlap |-> 0],
                   [size |-> 5, overlap |-> 4]}
=============================================================================
