-------------------------- MODULE MCInvestigation --------------------------
(* Constants of the model-checking run of Investigation.                   *)
EXTENDS Investigation, TLC

CONSTANTS wanted, saramin, d1, d2, s1, s2

\* Sites, postings and step ids are interchangeable.
Symmetry == Permutations({wanted, saramin}) \cup Permutations({d1, d2})
                \cup Permutations({s1, s2})
=============================================================================
