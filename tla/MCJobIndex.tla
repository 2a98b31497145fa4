---------------------------- MODULE MCJobIndex ----------------------------
(* Constants of the model-checking run of JobIndex.                        *)
EXTENDS JobIndex, TLC

CONSTANTS j1, j2, i1, i2, old, new, s1, s2

\* Postings, texts, seeds and investigations are interchangeable.
Symmetry == Permutations({j1, j2}) \cup Permutations({i1, i2})
                \cup Permutations({old, new})
                \cup Permutations({s1, s2})
=============================================================================
