--------------------------- MODULE MCVisionWorker ---------------------------
(* Constants of the model-checking runs of VisionWorker.                    *)
EXTENDS VisionWorker

CONSTANTS c1, c2, j1, j2

\* Each card opens a posting of its own.
OwnPostings == [c \in Cards |-> IF c = c1 THEN j1 ELSE j2]
\* All cards open the same posting, as repeated advertisements do.
OnePosting == [c \in Cards |-> j1]
=============================================================================
