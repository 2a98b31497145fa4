-------------------------- MODULE MCPromotionQueue --------------------------
(* Constants of the model-checking runs of PromotionQueue.                  *)
EXTENDS PromotionQueue

CONSTANTS b1, b2, search

\* One backend hosts every collection.
OneHome == [r \in Runs |-> b1]
\* Run 1 is collected by the first backend, the others by the second.
TwoHomes == [r \in Runs |-> IF r = 1 THEN b1 ELSE b2]
\* All candidates compile to rules of one purpose: site and task category.
OnePurpose == [r \in Runs |-> search]
=============================================================================
