----------------------------- MODULE CardLedger -----------------------------
(***************************************************************************)
(* What a collection run of the vision worker promises about the job cards *)
(* of a search result, without screens, models or retries: cards are taken *)
(* over into the ledger only when no earlier card is open, one card at a   *)
(* time is worked on, a card is settled once, and the worker may call the  *)
(* task finished only when no card is open.  A run may always stop early.  *)
(***************************************************************************)
CONSTANT Cards

VARIABLES
    card,    \* stage of every card
    closed   \* how the run was closed, or "open"

Stages == {"absent", "waiting", "taken", "settled"}
Closings == {"open", "completed", "finished", "stopped"}

NothingOpen == \A c \in Cards : card[c] \in {"absent", "settled"}

Init ==
    /\ card = [c \in Cards |-> "absent"]
    /\ closed = "open"

\* The run is complete as soon as the last change fulfilled the request.
MayComplete == closed' \in {"open", "completed"}

\* New cards enter the ledger; those already in the database enter it settled.
Offer ==
    /\ NothingOpen
    /\ \E new \in SUBSET {c \in Cards : card[c] = "absent"}, known \in SUBSET Cards :
           card' = [c \in Cards |-> CASE c \notin new -> card[c]
                                      [] c \in new \cap known -> "settled"
                                      [] OTHER -> "waiting"]
    /\ closed' = "completed" => NothingOpen'
    /\ MayComplete

Take(c) ==
    /\ \A other \in Cards : card[other] # "taken"
    /\ card[c] = "waiting"
    /\ card' = [card EXCEPT ![c] = "taken"]
    /\ UNCHANGED closed

Settle(c) ==
    /\ card[c] = "taken"
    /\ card' = [card EXCEPT ![c] = "settled"]
    /\ MayComplete

\* Work outside of the ledger, a posting opened by hand, may fulfil the request.
Fulfil ==
    /\ closed' = "completed"
    /\ UNCHANGED card

Finish ==
    /\ NothingOpen
    /\ closed' = "finished"
    /\ UNCHANGED card

Stop ==
    /\ closed' = "stopped"
    /\ UNCHANGED card

Next ==
    /\ closed = "open"
    /\ \/ Offer
       \/ \E c \in Cards : Take(c) \/ Settle(c)
       \/ Fulfil \/ Finish \/ Stop

Spec == Init /\ [][Next]_<<card, closed>>
=============================================================================
