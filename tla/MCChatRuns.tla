----------------------------- MODULE MCChatRuns -----------------------------
(* Constants of the model-checking runs of ChatRuns.                        *)
EXTENDS ChatRuns

CONSTANTS r1, r2
=============================================================================
