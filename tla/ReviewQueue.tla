---------------------------- MODULE ReviewQueue ----------------------------
(***************************************************************************)
(* What the recipe promotion queue promises to the rest of L2C, without    *)
(* threads, processes or a database: every candidate is recorded at most   *)
(* once, is released for review, is in the hands of at most one reviewer   *)
(* at a time, may be put back, and once settled stays settled.             *)
(* PromotionQueue implements this specification when one backend process   *)
(* owns the database file.                                                 *)
(***************************************************************************)
CONSTANT Runs

VARIABLE stage

Stages == {"none", "recorded", "waiting", "inHand", "settled"}

Init == stage = [r \in Runs |-> "none"]

Move(r, from, to) ==
    /\ stage[r] = from
    /\ stage' = [stage EXCEPT ![r] = to]

Record(r) == Move(r, "none", "recorded")

Release(r) == Move(r, "recorded", "waiting")

\* A candidate is taken only while no candidate is in anybody's hands.
Take(r) ==
    /\ \A other \in Runs : stage[other] # "inHand"
    /\ Move(r, "waiting", "inHand")

PutBack(r) == Move(r, "inHand", "waiting")

Settle(r) == Move(r, "inHand", "settled")

Next ==
    \E r \in Runs :
        \/ Record(r) \/ Release(r) \/ Take(r) \/ PutBack(r) \/ Settle(r)

Spec == Init /\ [][Next]_stage
============================================================================
