------------------------- MODULE VisionWorkerProofs -------------------------
(***************************************************************************)
(* Theorems about a collection run, for every set of cards and postings,   *)
(* every count that may be requested and every limit: the queue of cards   *)
(* implements the ledger, a run that calls itself complete is, every       *)
(* decision has a route, and no step of a run is free.                     *)
(***************************************************************************)
EXTENDS VisionWorker, FiniteSetTheorems, TLAPS

(***************************************************************************)
(* The inductive invariant.  A decision is taken in one step of the graph  *)
(* and executed in a later one, and a review is asked for before it is     *)
(* done: what was checked when the decision was taken must still hold when *)
(* it is executed.                                                         *)
(***************************************************************************)

LedgerTyped == queue \in [Cards -> Statuses] /\ target \in Targets /\ IsFiniteSet(captures)

\* Only the last step of a run gives the reason for its end.
OpenWhileRunning == pc # "end" => reason = ""

OneActive == \A c, d \in Cards : queue[c] = "active" /\ queue[d] = "active" => c = d

\* A chosen card is still pending, and no other one is active.
CardInHand ==
    pc = "execute" /\ pending.card # Nothing =>
        pending.card \in Cards /\ queue[pending.card] = "pending" /\ Active = {}

\* New cards, or the end the model wants, were chosen with no card open.
OnlyWhenSettled ==
    \/ pending.action = "set_queue"
    \/ pending.action = "finish" /\ pending.source \notin {"reasoning_policy", "screen_policy"}
ToolIsAllowed == pc = "execute" /\ OnlyWhenSettled => ~Unresolved(queue)

\* A draft lives only from its request to its review, and the card that was
\* active when it was requested is still the active one.
DraftIsReviewed == pc \notin {"review", "end"} => draft = NoDraft
DraftOfActive == pc = "review" => \A c \in Cards : queue[c] = "active" => draft.key = c

LedgerInv ==
    /\ LedgerTyped /\ OpenWhileRunning /\ OneActive
    /\ CardInHand /\ ToolIsAllowed /\ DraftIsReviewed /\ DraftOfActive

LEMMA LedgerInit == Init => LedgerInv
  <1> USE DEF Init, LedgerInv
  <1>1. Init => LedgerTyped
    BY FS_EmptySet DEF LedgerTyped, Statuses
  <1> QED
    BY <1>1 DEF OpenWhileRunning, OneActive, CardInHand, ToolIsAllowed,
                DraftIsReviewed, DraftOfActive
-----------------------------------------------------------------------------
(***************************************************************************)
(* Three groups of steps that leave the cards alone.                       *)
(***************************************************************************)

book == <<queue, captures, draft, reason, target>>

\* Steps that neither start nor follow an execution.
Watching ==
    \/ Observe \/ FollowUp \/ SelectWait \/ SelectNothing \/ SkipReplay \/ Ocr \/ Complete

LEMMA WatchingStep ==
  ASSUME Watching
  PROVE  /\ UNCHANGED book
         /\ pc \notin {"execute", "review", "end"} /\ pc' \notin {"execute", "review", "end"}
  <1> USE DEF Watching, Observe, book, browser, observation, transition, progress,
              collection, Selecting, Onward
  <1>1. CASE Capture BY <1>1 DEF Capture
  <1>2. CASE InspectNothing BY <1>2 DEF InspectNothing
  <1>3. CASE InspectChange BY <1>3 DEF InspectChange
  <1>4. CASE InspectNoChange BY <1>4 DEF InspectNoChange
  <1>5. CASE FollowUp BY <1>5 DEF FollowUp
  <1>6. CASE SelectWait BY <1>6 DEF SelectWait
  <1>7. CASE SelectNothing BY <1>7 DEF SelectNothing
  <1>8. CASE SkipReplay BY <1>8 DEF SkipReplay
  <1>9. CASE Ocr BY <1>9 DEF Ocr
  <1>10. CASE Complete BY <1>10 DEF Complete
  <1> QED
    BY <1>1, <1>2, <1>3, <1>4, <1>5, <1>6, <1>7, <1>8, <1>9, <1>10

\* Steps that choose the next action.
Choosing ==
    \/ SelectStop \/ SelectNavigation \/ \E c \in Cards : SelectCard(c)
    \/ ReplayStep \/ Reason \/ ReasonStop

LEMMA ChoosingStep ==
  ASSUME Choosing
  PROVE  /\ UNCHANGED book
         /\ pc \notin {"execute", "review", "end"} /\ pc' = "execute"
         /\ pending'.card # Nothing =>
                pending'.card \in Cards /\ queue[pending'.card] = "pending" /\ Active = {}
         /\ OnlyWhenSettled' => ~Unresolved(queue)
  <1> USE DEF Choosing, book, browser, observation, transition, progress, collection,
              Selecting, Choose, OnlyWhenSettled
  <1>1. CASE SelectStop BY <1>1 DEF SelectStop
  <1>2. CASE SelectNavigation
    BY <1>2 DEF SelectNavigation, IsNavigation, NavigationStep
  <1>3. ASSUME NEW c \in Cards, SelectCard(c)
        PROVE  /\ UNCHANGED book
               /\ pc \notin {"execute", "review", "end"} /\ pc' = "execute"
               /\ pending' = [source |-> "job_card_queue", action |-> "interact", card |-> c]
               /\ queue[c] = "pending" /\ Active = {}
    BY <1>3 DEF SelectCard, CanSelectCard
  <1>4. CASE ReplayStep BY <1>4 DEF ReplayStep, MayReplay
  <1>5. CASE Reason BY <1>5 DEF Reason, Tools, Interactions
  <1>6. CASE ReasonStop BY <1>6 DEF ReasonStop
  <1> QED BY <1>1, <1>2, <1>3, <1>4, <1>5, <1>6

\* Executions that touch neither card nor draft.
Acting == FailScreenAction \/ HalfExecute \/ SkipSubmittedSearch \/ FailStateAction

LEMMA ActingStep ==
  ASSUME Acting, OpenWhileRunning
  PROVE  /\ UNCHANGED book
         /\ pc = "execute" /\ pc' # "execute"
         /\ pc' = "review" => draft # NoDraft
  <1> USE DEF Acting, OpenWhileRunning, book, browser, observation, collection,
              Executing, Route
  <1>1. CASE FailScreenAction BY <1>1 DEF FailScreenAction
  <1>2. CASE HalfExecute BY <1>2 DEF HalfExecute
  <1>3. CASE SkipSubmittedSearch BY <1>3 DEF SkipSubmittedSearch
  <1>4. CASE FailStateAction BY <1>4 DEF FailStateAction
  <1> QED BY <1>1, <1>2, <1>3, <1>4
-----------------------------------------------------------------------------
(***************************************************************************)
(* Steps that move cards.                                                  *)
(***************************************************************************)

\* Settling touches the active card and no other.
LEMMA SettleMoves ==
  ASSUME LedgerTyped, NEW status \in Statuses \ {"active", "pending"}
  PROVE  /\ SettleActive(queue, status) \in [Cards -> Statuses]
         /\ \A c \in Cards :
                SettleActive(queue, status)[c] =
                    IF queue[c] = "active" THEN status ELSE queue[c]
  BY DEF LedgerTyped, SettleActive

\* FinishIf gives a reason only when its condition holds.
LEMMA FinishReason ==
  ASSUME NEW done \in BOOLEAN, FinishIf(done), reason = ""
  PROVE  /\ reason' \in Completed \cup {""}
         /\ reason' # "" => done /\ reason' = Completion
  BY DEF FinishIf, Completion, Completed

\* What a step that settles the active card, or takes over cards, may change.
\* The facts the invariant needs of such a step are those a ledger step needs.
Settling(status) ==
    /\ queue' = SettleActive(queue, status)
    /\ status \in {"done", "known", "skipped", "rejected"}

LEMMA DuplicateStep ==
  ASSUME SelectDuplicate, OpenWhileRunning
  PROVE  /\ pc \in {"decide", "reselect"} /\ reason = ""
         /\ \E status \in {"known", "skipped"} : Settling(status)
         /\ FinishIf(ScopeComplete(queue')) /\ UNCHANGED <<captures, draft, target>>
         /\ pc' = IF reason' # "" THEN "end" ELSE Onward
         /\ Active # {}
  BY DEF SelectDuplicate, Selecting, OpenWhileRunning, Settling, IsDuplicate

LEMMA ReviewStep ==
  ASSUME CompleteReview \/ RejectReview, OpenWhileRunning
  PROVE  /\ pc = "review" /\ reason = ""
         /\ \E status \in {"done", "rejected"} :
                /\ Settling(status)
                /\ status = "done" =>
                       captures' = captures \cup {[url |-> draft.url, key |-> draft.key]}
                /\ status # "done" => captures' = captures
         /\ FinishIf(QueueFinished(queue', captures'))
         /\ draft' = NoDraft /\ UNCHANGED target
         /\ pc' = IF reason' # "" THEN "end" ELSE "decide"
  BY DEF CompleteReview, RejectReview, Reviewed, OpenWhileRunning, Settling

LEMMA TakeStep ==
  ASSUME ExecuteScreenAction, LedgerInv
  PROVE  /\ pc = "execute" /\ reason = "" /\ reason' = ""
         /\ UNCHANGED <<captures, draft, target>>
         /\ queue' = [c \in Cards |-> IF c = pending.card /\ queue[c] = "pending"
                                      THEN "active" ELSE queue[c]]
         /\ pc' \in {"end", "capture", "decide"}
  BY DEF ExecuteScreenAction, Executing, Route, LedgerInv, OpenWhileRunning, DraftIsReviewed

LEMMA OfferStep ==
  ASSUME SetQueue, LedgerInv
  PROVE  /\ pc = "execute" /\ reason = "" /\ ~Unresolved(queue)
         /\ UNCHANGED <<captures, draft, target>>
         /\ \E new \in SUBSET With(queue, {"absent"}) :
                queue' = [c \in Cards |-> IF c \notin new THEN queue[c]
                                          ELSE IF c \in Matched THEN "known" ELSE "pending"]
         /\ FinishIf(ScopeComplete(queue'))
         /\ pc' \in {"end", "capture", "decide"}
         /\ reason' # "" => pc' = "end"
  BY DEF SetQueue, Executing, Route, LedgerInv, OpenWhileRunning, DraftIsReviewed,
         ToolIsAllowed, OnlyWhenSettled

LEMMA FinishStep ==
  ASSUME FinishTask, LedgerInv
  PROVE  /\ pc = "execute" /\ reason = "" /\ pc' = "end"
         /\ UNCHANGED <<queue, captures, draft, target>>
         /\ \/ reason' = "agent_finished" /\ ~Unresolved(queue)
            \/ reason' \in {"reasoning_limit", "screen_unavailable"}
  BY DEF FinishTask, Executing, Route, collection, LedgerInv, OpenWhileRunning,
         ToolIsAllowed, OnlyWhenSettled

LEMMA RequestStep ==
  ASSUME RequestReview, LedgerInv
  PROVE  /\ pc = "execute" /\ reason = "" /\ pc' # "execute"
         /\ UNCHANGED <<queue, captures, reason, target>>
         /\ draft' = [key |-> Key, url |-> obs.url, tier |-> ReviewMode]
         /\ pc' \notin {"review", "end"} => draft' = NoDraft
  BY DEF RequestReview, Executing, Route, LedgerInv, OpenWhileRunning

\* A posting that needs more keeps its card.
LEMMA ContinueStep ==
  ASSUME ContinueReview, OpenWhileRunning
  PROVE  /\ pc = "review" /\ reason = "" /\ pc' = "decide" /\ draft' = NoDraft
         /\ UNCHANGED <<queue, captures, reason, target>>
  BY DEF ContinueReview, Reviewed, OpenWhileRunning

LEMMA NextSteps ==
  ASSUME Next
  PROVE  \/ Watching \/ Choosing \/ Acting
         \/ SelectDuplicate \/ CompleteReview \/ RejectReview \/ ContinueReview
         \/ ExecuteScreenAction \/ SetQueue \/ RequestReview \/ FinishTask \/ Ended
  BY DEF Next, Watching, Choosing, Acting, Decide, Select, Execute, Review
-----------------------------------------------------------------------------
(***************************************************************************)
(* The invariant is inductive.                                             *)
(***************************************************************************)

\* The facts of the invariant that only read the cards and the draft.
LEMMA CardsKept ==
  ASSUME LedgerInv, UNCHANGED <<queue, captures, target>>
  PROVE  LedgerTyped' /\ OneActive'
  BY DEF LedgerInv, LedgerTyped, OneActive

LEMMA AfterSettling ==
  ASSUME LedgerInv, NEW status, Settling(status), UNCHANGED target,
         IsFiniteSet(captures')
  PROVE  /\ LedgerTyped' /\ OneActive'
         /\ \A c \in Cards : queue'[c] = IF queue[c] = "active" THEN status ELSE queue[c]
  <1>1. status \in Statuses \ {"active", "pending"} /\ queue' = SettleActive(queue, status)
    BY DEF Settling, Statuses
  <1> QED BY <1>1, SettleMoves DEF LedgerInv, LedgerTyped, OneActive

\* Taking a card makes it the only active one.
LEMMA AfterTaking ==
  ASSUME LedgerInv, ExecuteScreenAction
  PROVE  LedgerTyped' /\ OneActive'
  <1> USE TakeStep DEF LedgerInv, LedgerTyped, OneActive
  <1>1. LedgerTyped' BY DEF Statuses
  <1>2. CASE pending.card \in Cards /\ pending.card # Nothing
    <2>1. \A c \in Cards : queue[c] # "active"
      BY <1>2 DEF CardInHand, Active, With
    <2> QED BY <1>1, <1>2, <2>1
  <1>3. CASE pending.card \notin Cards BY <1>1, <1>3
  <1>4. Nothing \notin Cards BY PagesDiffer
  <1> QED BY <1>1, <1>2, <1>3, <1>4

LEMMA AfterOffering ==
  ASSUME LedgerInv, SetQueue
  PROVE  LedgerTyped' /\ OneActive'
  <1> USE OfferStep DEF LedgerInv, LedgerTyped, OneActive
  <1>1. LedgerTyped' BY DEF Statuses
  <1>2. OneActive' OBVIOUS
  <1> QED BY <1>1, <1>2

LEMMA LedgerStep ==
  ASSUME LedgerInv, [Next]_vars
  PROVE  LedgerInv'
  <1> USE DEF LedgerInv
  <1>1. CASE Watching
    BY <1>1, WatchingStep, CardsKept
       DEF book, OpenWhileRunning, CardInHand, ToolIsAllowed, DraftIsReviewed, DraftOfActive
  <1>2. CASE Choosing
    <2>1. LedgerTyped' /\ OneActive' BY <1>2, ChoosingStep, CardsKept DEF book
    <2>2. CardInHand' BY <1>2, ChoosingStep DEF CardInHand, book, Active, With
    <2>3. ToolIsAllowed' BY <1>2, ChoosingStep DEF ToolIsAllowed, book, Unresolved, With
    <2>4. OpenWhileRunning' /\ DraftIsReviewed' /\ DraftOfActive'
      BY <1>2, ChoosingStep DEF book, OpenWhileRunning, DraftIsReviewed, DraftOfActive
    <2> QED BY <2>1, <2>2, <2>3, <2>4
  <1>3. CASE Acting
    BY <1>3, ActingStep, CardsKept
       DEF book, OpenWhileRunning, CardInHand, ToolIsAllowed, DraftIsReviewed, DraftOfActive
  <1>4. CASE SelectDuplicate
    <2>1. PICK status \in {"known", "skipped"} : Settling(status)
      BY <1>4, DuplicateStep
    <2>2. LedgerTyped' /\ OneActive'
      BY <1>4, <2>1, DuplicateStep, AfterSettling DEF LedgerTyped
    <2> QED
      BY <1>4, <2>2, DuplicateStep
         DEF OpenWhileRunning, CardInHand, ToolIsAllowed, DraftIsReviewed, DraftOfActive, Onward
  <1>5. CASE CompleteReview \/ RejectReview
    <2>1. PICK status \in {"done", "rejected"} :
              /\ Settling(status)
              /\ status = "done" =>
                     captures' = captures \cup {[url |-> draft.url, key |-> draft.key]}
              /\ status # "done" => captures' = captures
      BY <1>5, ReviewStep
    <2>2. IsFiniteSet(captures') BY <2>1, FS_AddElement DEF LedgerTyped
    <2>3. LedgerTyped' /\ OneActive' BY <1>5, <2>1, <2>2, ReviewStep, AfterSettling
    <2> QED
      BY <1>5, <2>3, ReviewStep
         DEF OpenWhileRunning, CardInHand, ToolIsAllowed, DraftIsReviewed, DraftOfActive
  <1>6. CASE ContinueReview
    BY <1>6, ContinueStep, CardsKept
       DEF OpenWhileRunning, CardInHand, ToolIsAllowed, DraftIsReviewed, DraftOfActive
  <1>7. CASE ExecuteScreenAction
    BY <1>7, TakeStep, AfterTaking
       DEF OpenWhileRunning, CardInHand, ToolIsAllowed, DraftIsReviewed, DraftOfActive
  <1>8. CASE SetQueue
    BY <1>8, OfferStep, AfterOffering
       DEF OpenWhileRunning, CardInHand, ToolIsAllowed, DraftIsReviewed, DraftOfActive
  <1>9. CASE RequestReview
    <2>1. LedgerTyped' /\ OneActive' BY <1>9, RequestStep, CardsKept
    <2>2. DraftOfActive'
      <3>1. \A c \in Cards : queue[c] = "active" => Key = c
        BY DEF OneActive, LedgerTyped, Key, Active, With
      <3>2. queue' = queue /\ draft' = [key |-> Key, url |-> obs.url, tier |-> ReviewMode]
        BY <1>9, RequestStep
      <3>3. draft'.key = Key BY <3>2, Zenon
      <3> QED BY <3>1, <3>2, <3>3 DEF DraftOfActive
    <2> QED
      BY <1>9, <2>1, <2>2, RequestStep
         DEF OpenWhileRunning, CardInHand, ToolIsAllowed, DraftIsReviewed
  <1>10. CASE FinishTask
    BY <1>10, FinishStep, CardsKept
       DEF OpenWhileRunning, CardInHand, ToolIsAllowed, DraftIsReviewed, DraftOfActive
  <1>11. CASE UNCHANGED vars
    BY <1>11, CardsKept
       DEF vars, collection, OpenWhileRunning, CardInHand, ToolIsAllowed, DraftIsReviewed,
           DraftOfActive, OnlyWhenSettled, Active, Unresolved, With
  <1> QED
    BY <1>1, <1>2, <1>3, <1>4, <1>5, <1>6, <1>7, <1>8, <1>9, <1>10, <1>11, NextSteps
       DEF Ended
-----------------------------------------------------------------------------
(***************************************************************************)
(* The queue implements the ledger.                                        *)
(***************************************************************************)

\* The stage of a card, status by status.
LEMMA StageOfCard ==
  ASSUME LedgerTyped, NEW c \in Cards
  PROVE  /\ Stage \in [Cards -> {"absent", "waiting", "taken", "settled"}]
         /\ queue[c] = "absent" <=> Stage[c] = "absent"
         /\ queue[c] = "pending" <=> Stage[c] = "waiting"
         /\ queue[c] = "active" <=> Stage[c] = "taken"
         /\ queue[c] \in {"done", "known", "skipped", "rejected"} <=> Stage[c] = "settled"
  BY DEF Stage, LedgerTyped, Statuses

\* No open card is no card that waits or is taken.
LEMMA NothingOpenStage ==
  ASSUME LedgerTyped, ~Unresolved(queue)
  PROVE  Ledger!NothingOpen
  BY StageOfCard DEF Ledger!NothingOpen, Unresolved, With, LedgerTyped, Statuses, Stage

\* Stages are equal when the statuses are.
LEMMA SameStage == queue' = queue => Stage' = Stage
  BY DEF Stage

\* Settling the active card, if there is one, settles it in the ledger.
LEMMA SettlingImplements ==
  ASSUME LedgerInv, NEW status, Settling(status), LedgerTyped',
         reason = "", reason' \in Completed \cup {""}
  PROVE  [Ledger!Next]_<<Stage, Closing>>
  <1>1. /\ Closing = "open" /\ Closing' \in {"open", "completed"}
        /\ reason' # "" => Closing' = "completed"
    BY DEF Completed, Closing
  <1>2. \A c \in Cards : queue'[c] = IF queue[c] = "active" THEN status ELSE queue[c]
    BY DEF Settling, SettleActive
  <1>3. CASE \A c \in Cards : queue[c] # "active"
    <2>1. Stage' = Stage BY <1>2, <1>3 DEF Stage
    <2>2. CASE Closing' = "open" BY <1>1, <2>1, <2>2
    <2>3. CASE Closing' = "completed"
      BY <1>1, <2>1, <2>3 DEF Ledger!Next, Ledger!Fulfil
    <2> QED BY <1>1, <2>2, <2>3
  <1>4. ASSUME NEW c \in Cards, queue[c] = "active"
        PROVE  Ledger!Settle(c)
    <2>1. \A d \in Cards : d # c => queue'[d] = queue[d]
      BY <1>2, <1>4 DEF LedgerInv, OneActive
    <2>2. queue'[c] \in {"done", "known", "skipped", "rejected"}
      BY <1>2, <1>4 DEF Settling
    <2>3. Stage' = [Stage EXCEPT ![c] = "settled"]
      BY <2>1, <2>2 DEF Stage
    <2>4. Stage[c] = "taken" BY <1>4 DEF Stage
    <2> QED BY <1>1, <2>3, <2>4 DEF Ledger!Settle, Ledger!MayComplete
  <1> QED BY <1>1, <1>3, <1>4 DEF Ledger!Next

LEMMA TakingImplements ==
  ASSUME LedgerInv, ExecuteScreenAction
  PROVE  [Ledger!Next]_<<Stage, Closing>>
  <1>1. /\ Closing = "open" /\ Closing' = "open" /\ pc = "execute"
        /\ queue' = [c \in Cards |-> IF c = pending.card /\ queue[c] = "pending"
                                     THEN "active" ELSE queue[c]]
    BY TakeStep DEF Closing, Completed
  <1>2. CASE pending.card \in Cards
    <2>1. queue[pending.card] = "pending" /\ \A c \in Cards : queue[c] # "active"
      BY <1>1, <1>2, PagesDiffer DEF LedgerInv, CardInHand, Active, With, LedgerTyped
    <2>2. \A c \in Cards : Stage[c] # "taken" BY <2>1, StageOfCard DEF LedgerInv
    <2>3. Stage[pending.card] = "waiting" BY <1>2, <2>1 DEF Stage
    <2>4. Stage' = [Stage EXCEPT ![pending.card] = "taken"]
      BY <1>1, <1>2, <2>1 DEF Stage
    <2> QED BY <1>1, <1>2, <2>2, <2>3, <2>4 DEF Ledger!Next, Ledger!Take
  <1>3. CASE pending.card \notin Cards
    <2>1. Stage' = Stage BY <1>1, <1>3 DEF Stage
    <2> QED BY <1>1, <2>1
  <1> QED BY <1>2, <1>3

LEMMA OfferingImplements ==
  ASSUME LedgerInv, SetQueue
  PROVE  [Ledger!Next]_<<Stage, Closing>>
  <1>1. Ledger!NothingOpen BY OfferStep, NothingOpenStage DEF LedgerInv
  <1>2. PICK new \in SUBSET With(queue, {"absent"}) :
            queue' = [c \in Cards |-> IF c \notin new THEN queue[c]
                                      ELSE IF c \in Matched THEN "known" ELSE "pending"]
    BY OfferStep
  <1>3. /\ reason' \in Completed \cup {""}
        /\ reason' # "" => ScopeComplete(queue')
    BY OfferStep, FinishReason DEF ScopeComplete
  <1>4. /\ Closing = "open" /\ Closing' \in {"open", "completed"}
        /\ Closing' = "completed" => reason' # ""
    BY <1>3, OfferStep DEF Completed, Closing
  <1>5. LedgerTyped' BY AfterOffering
  <1>6. Closing' = "completed" => Ledger!NothingOpen'
    <2>1. ASSUME ScopeComplete(queue') PROVE ~Unresolved(queue')
      BY <2>1 DEF ScopeComplete
    <2>2. ASSUME ~Unresolved(queue') PROVE Ledger!NothingOpen'
      BY <1>5, <2>2 DEF Ledger!NothingOpen, Unresolved, With, LedgerTyped, Statuses, Stage
    <2> QED BY <1>3, <1>4, <2>1, <2>2
  <1>7. /\ new \in SUBSET {c \in Cards : Stage[c] = "absent"}
        /\ new \cap Matched \in SUBSET Cards
    BY <1>2, StageOfCard DEF With, LedgerInv, LedgerTyped
  <1>8. Stage' = [c \in Cards |-> CASE c \notin new -> Stage[c]
                                    [] c \in new \cap (new \cap Matched) -> "settled"
                                    [] OTHER -> "waiting"]
    BY <1>2 DEF Stage
  <1>9. Ledger!Offer
    BY <1>1, <1>4, <1>6, <1>7, <1>8 DEF Ledger!Offer, Ledger!MayComplete
  <1> QED BY <1>4, <1>9 DEF Ledger!Next

LEMMA LedgerImplements ==
  ASSUME LedgerInv, LedgerInv', [Next]_vars
  PROVE  [Ledger!Next]_<<Stage, Closing>>
  <1>1. ASSUME UNCHANGED <<queue, reason>>
        PROVE  UNCHANGED <<Stage, Closing>>
    BY <1>1 DEF Stage, Closing
  <1>2. CASE Watching \/ Choosing \/ Acting
    BY <1>1, <1>2, WatchingStep, ChoosingStep, ActingStep DEF book, LedgerInv
  <1>3. CASE SelectDuplicate
    BY <1>3, DuplicateStep, FinishReason, SettlingImplements DEF LedgerInv, ScopeComplete
  <1>4. CASE CompleteReview \/ RejectReview
    BY <1>4, ReviewStep, FinishReason, SettlingImplements DEF LedgerInv, QueueFinished
  <1>5. CASE RequestReview \/ ContinueReview
    BY <1>1, <1>5, RequestStep, ContinueStep DEF LedgerInv
  <1>6. CASE ExecuteScreenAction BY <1>6, TakingImplements
  <1>7. CASE SetQueue BY <1>7, OfferingImplements
  <1>8. CASE FinishTask
    <2>1. Closing = "open" /\ Stage' = Stage
      BY <1>8, FinishStep, SameStage DEF Closing, Completed
    <2>2. CASE reason' = "agent_finished" /\ ~Unresolved(queue)
      <3>1. Closing' = "finished" BY <2>2 DEF Closing, Completed
      <3>2. Ledger!NothingOpen BY <2>2, NothingOpenStage DEF LedgerInv
      <3> QED BY <2>1, <3>1, <3>2 DEF Ledger!Next, Ledger!Finish
    <2>3. CASE reason' \in {"reasoning_limit", "screen_unavailable"}
      <3>1. Closing' = "stopped" BY <2>3 DEF Closing, Completed
      <3> QED BY <2>1, <3>1 DEF Ledger!Next, Ledger!Stop
    <2> QED BY <1>8, <2>2, <2>3, FinishStep
  <1>9. CASE UNCHANGED vars BY <1>1, <1>9 DEF vars, collection
  <1> QED
    BY <1>2, <1>3, <1>4, <1>5, <1>6, <1>7, <1>8, <1>9, NextSteps DEF Ended

\* The queue of cards implements the ledger of a collection run, for any cards:
\* at most one card is worked on, cards enter only when none is open, each is
\* settled once, and the model never finishes a run that has an open card.
THEOREM ImplementsCardLedger == Spec => IsCardLedger
  <1>1. Init => Ledger!Init
    <2>1. Init => Stage = [c \in Cards |-> "absent"] BY DEF Init, Stage
    <2>2. Init => Closing = "open" BY DEF Init, Closing, Completed
    <2> QED BY <2>1, <2>2 DEF Ledger!Init
  <1>2. LedgerInv /\ [Next]_vars => LedgerInv' /\ [Ledger!Next]_<<Stage, Closing>>
    BY LedgerStep, LedgerImplements
  <1> QED BY <1>1, <1>2, LedgerInit, PTL DEF Spec, IsCardLedger, Ledger!Spec
-----------------------------------------------------------------------------
(***************************************************************************)
(* A run that calls itself complete is, and a card that counts as          *)
(* collected was collected.                                                *)
(***************************************************************************)

\* Counts are numbers.
LEMMA CountsAreNumbers ==
  ASSUME LedgerTyped
  PROVE  Resolved(queue) \in Nat /\ Cardinality(captures) \in Nat /\ target \in Nat
  <1>1. IsFiniteSet(With(queue, {"done", "known"}))
    <2>1. With(queue, {"done", "known"}) \subseteq Cards BY DEF With, LedgerTyped
    <2> QED BY <2>1, CardsAreFinite, FS_Subset
  <1> QED BY <1>1, FS_CardinalityType, LimitsAreNumbers DEF Resolved, LedgerTyped

\* Both ways of finishing fulfil the request: enough is collected, or every
\* queued card is settled and enough of them count.
LEMMA FinishedIsEarned ==
  ASSUME LedgerTyped, reason = Completion,
         ScopeComplete(queue) \/ QueueFinished(queue, captures)
  PROVE  CompletionIsEarned
  <1> USE CountsAreNumbers
  <1>1. Collected(queue, captures) >= Resolved(queue) BY DEF Collected
  <1>2. Collected(queue, captures) \in Nat BY DEF Collected
  <1>3. CASE target = 0
    BY <1>3 DEF CompletionIsEarned, Completion, QueueFinished, ScopeComplete
  <1>4. CASE target > 0
    BY <1>1, <1>2, <1>4 DEF CompletionIsEarned, Completion, QueueFinished, ScopeComplete
  <1> QED BY <1>3, <1>4

LEMMA EarnedStep ==
  ASSUME LedgerInv, LedgerInv', CompletionIsEarned, [Next]_vars
  PROVE  CompletionIsEarned'
  <1>1. ASSUME UNCHANGED <<queue, captures, reason, target>>
        PROVE  CompletionIsEarned'
    BY <1>1 DEF CompletionIsEarned, Collected, Resolved, Unresolved, With
  <1>2. CASE reason' \notin Completed BY <1>2 DEF CompletionIsEarned, Completed
  <1>3. ASSUME reason' = Completion, target' = target,
               ScopeComplete(queue') \/ QueueFinished(queue', captures')
        PROVE  CompletionIsEarned'
    <2>1. /\ reason' = Completion'
          /\ ScopeComplete(queue)' \/ QueueFinished(queue, captures)'
      BY <1>3 DEF Completion, ScopeComplete, QueueFinished, Unresolved, Resolved,
                  Collected, With
    <2>2. (LedgerTyped /\ reason = Completion
             /\ (ScopeComplete(queue) \/ QueueFinished(queue, captures))
               => CompletionIsEarned)'
      BY FinishedIsEarned, PTL
    <2> QED BY <2>1, <2>2 DEF LedgerInv
  <1>4. CASE Watching \/ Choosing \/ Acting
    BY <1>1, <1>4, WatchingStep, ChoosingStep, ActingStep DEF book, LedgerInv
  <1>5. CASE SelectDuplicate
    BY <1>2, <1>3, <1>5, DuplicateStep, FinishReason
       DEF LedgerInv, ScopeComplete, Completed
  <1>6. CASE CompleteReview \/ RejectReview
    BY <1>2, <1>3, <1>6, ReviewStep, FinishReason DEF LedgerInv, QueueFinished, Completed
  <1>7. CASE RequestReview \/ ContinueReview
    BY <1>1, <1>7, RequestStep, ContinueStep DEF LedgerInv
  <1>8. CASE ExecuteScreenAction BY <1>2, <1>8, TakeStep DEF Completed
  <1>9. CASE SetQueue
    BY <1>2, <1>3, <1>9, OfferStep, FinishReason DEF ScopeComplete, Completed
  <1>10. CASE FinishTask BY <1>2, <1>10, FinishStep DEF Completed
  <1>11. CASE UNCHANGED vars BY <1>1, <1>11 DEF vars, collection
  <1> QED
    BY <1>4, <1>5, <1>6, <1>7, <1>8, <1>9, <1>10, <1>11, NextSteps DEF Ended

\* For any count and any cards: a run ends as complete only when the request
\* is fulfilled.
THEOREM CompleteRunsAreEarned == Spec => []CompletionIsEarned
  <1>1. Init => CompletionIsEarned BY DEF Init, CompletionIsEarned
  <1>2. LedgerInv /\ CompletionIsEarned /\ [Next]_vars => LedgerInv' /\ CompletionIsEarned'
    BY LedgerStep, EarnedStep
  <1> QED BY <1>1, <1>2, LedgerInit, PTL DEF Spec

LEMMA CapturedStep ==
  ASSUME LedgerInv, LedgerInv', DoneIsCaptured, [Next]_vars
  PROVE  DoneIsCaptured'
  <1> USE DEF DoneIsCaptured
  <1>1. ASSUME captures' = captures,
               \A c \in Cards : queue'[c] = "done" => queue[c] = "done"
        PROVE  DoneIsCaptured'
    BY <1>1
  <1>2. CASE Watching \/ Choosing \/ Acting
    BY <1>1, <1>2, WatchingStep, ChoosingStep, ActingStep DEF book, LedgerInv
  <1>3. CASE SelectDuplicate
    <2>1. PICK status \in {"known", "skipped"} : Settling(status)
      BY <1>3, DuplicateStep DEF LedgerInv
    <2>2. \A c \in Cards : queue'[c] = "done" => queue[c] = "done"
      BY <2>1 DEF Settling, SettleActive
    <2> QED BY <1>1, <1>3, <2>2, DuplicateStep DEF LedgerInv
  <1>4. CASE CompleteReview \/ RejectReview
    <2>1. PICK status \in {"done", "rejected"} :
              /\ Settling(status)
              /\ status = "done" =>
                     captures' = captures \cup {[url |-> draft.url, key |-> draft.key]}
              /\ status # "done" => captures' = captures
      BY <1>4, ReviewStep DEF LedgerInv
    <2>2. \A c \in Cards : queue'[c] = IF queue[c] = "active" THEN status ELSE queue[c]
      BY <2>1 DEF Settling, SettleActive
    <2>3. CASE status # "done" BY <1>1, <2>1, <2>2, <2>3
    <2>4. CASE status = "done"
      <3>1. ASSUME NEW c \in Cards, queue[c] = "active"
            PROVE  \E job \in captures' : job.key = c
        <4>1. draft.key = c BY <1>4, <3>1, ReviewStep DEF LedgerInv, DraftOfActive
        <4> DEFINE job == [url |-> draft.url, key |-> draft.key]
        <4>2. job \in captures' BY <2>1, <2>4
        <4>3. job.key = c BY <4>1
        <4> QED BY <4>2, <4>3
      <3>2. captures \subseteq captures' BY <2>1, <2>4
      <3> QED BY <2>2, <3>1, <3>2
    <2> QED BY <2>3, <2>4
  <1>5. CASE RequestReview \/ ContinueReview
    BY <1>1, <1>5, RequestStep, ContinueStep DEF LedgerInv
  <1>6. CASE ExecuteScreenAction BY <1>1, <1>6, TakeStep
  <1>7. CASE SetQueue BY <1>1, <1>7, OfferStep
  <1>8. CASE FinishTask BY <1>1, <1>8, FinishStep
  <1>9. CASE UNCHANGED vars BY <1>1, <1>9 DEF vars, collection
  <1> QED
    BY <1>2, <1>3, <1>4, <1>5, <1>6, <1>7, <1>8, <1>9, NextSteps DEF Ended

\* For any cards: a card counts as collected only by a posting whose review was
\* requested while it was the active card.
THEOREM DoneCardsAreCaptured == Spec => []DoneIsCaptured
  <1>1. Init => DoneIsCaptured BY DEF Init, DoneIsCaptured
  <1>2. LedgerInv /\ DoneIsCaptured /\ [Next]_vars => LedgerInv' /\ DoneIsCaptured'
    BY LedgerStep, CapturedStep
  <1> QED BY <1>1, <1>2, LedgerInit, PTL DEF Spec
-----------------------------------------------------------------------------
(***************************************************************************)
(* Type correctness, with the limits of a run: errors, blank captures,     *)
(* repeats.  A limit is tested in one step and counted in another, so the  *)
(* bounds need to know where in the graph a run may still add to a count.  *)
(***************************************************************************)

Observations == [shown : Pages \cup {Nothing}, url : Pages, stale : BOOLEAN, ocr : BOOLEAN,
                 low : BOOLEAN, lows : 0 .. LowLimit, role : Roles]
PendingActions == [source : Sources \cup {Nothing}, action : Actions \cup {Nothing},
                   card : Cards \cup {Nothing}]
Requests == [source : Sources \cup {Nothing}, action : Interactions \cup {Nothing},
             url : Pages \cup {Nothing}, ocr : BOOLEAN]
Verdicts == {"idle", "pending", "waiting", "needs_ocr", "unknown", "ready"}
Outcomes == [source : Sources \cup {Nothing}, action : Interactions \cup {Nothing},
             status : Verdicts, same : BOOLEAN, existing : BOOLEAN]
Drafts == [key : Cards \cup {Nothing}, url : Pages \cup {Nothing},
           tier : {"lightweight", "primary", Nothing}]
Verifications == {"none", "complete", "needs_more", "source_incomplete", "invalid_target"}
Reviews == [status : Verifications, key : Cards \cup {Nothing}, url : Pages \cup {Nothing},
            tier : {"lightweight", "primary", Nothing}, same : BOOLEAN]
Buffers == [key : Cards \cup {Nothing}, url : Pages \cup {Nothing}, read : BOOLEAN]
Replays == [session : BOOLEAN, missed : BOOLEAN, hits : 0 .. MaxReplays]

\* A run executes below the error limit, but for the one error that a model
\* call adds for repeating itself.
ErrorsLeft ==
    /\ pc \notin {"execute", "end"} => errors < MaxErrors
    /\ pc = "execute" => errors <= MaxErrors

\* A capture follows only while blank captures are below their limit.
BlanksLeft ==
    /\ ~obs.low => obs.lows = 0
    /\ pc = "capture" => obs.lows < LowLimit

\* A posting that needs more goes to the model before anything else happens.
FollowsUp == review.status = "needs_more" /\ last.action = "review"
FollowsUpFirst == FollowsUp => pc \in {"decide", "reason", "execute", "review", "end"}

\* A blank screen is captured again or ends the run.
BlankIsDecided ==
    obs.low => \/ pc \in {"capture", "inspect", "end"}
               \/ pc = "decide" /\ ~FollowsUp
               \/ pc = "execute" /\ pending.action = "finish"

\* What is chosen is an action, and a rule never chooses to leave a page.
ActionIsChosen ==
    pc = "execute" =>
        /\ pending.action \in Actions
        /\ pending.source = "reflex" => pending.action = "interact"

\* A request that is open while the run decides gets its verdict from the OCR of
\* this capture before the model is asked; none is open when a posting is
\* reviewed.
OpenIsJudged ==
    /\ pc = "inspect" => ~obs.ocr
    /\ request # NoRequest /\ pc \in {"decide", "prepare", "ocr"} =>
           ~obs.ocr /\ (obs.low \/ result.status = "needs_ocr")
    /\ pc \in {"reselect", "choose", "reason", "review"} => request = NoRequest
    /\ FollowsUp /\ pc # "end" => request = NoRequest
    /\ pc = "execute" /\ pending.action = "review" => request = NoRequest

\* A draft in review was taken from a page.
DraftIsReal == pc = "review" => draft.url \in Pages

Limits == /\ ErrorsLeft /\ BlanksLeft /\ FollowsUpFirst /\ BlankIsDecided
          /\ ActionIsChosen /\ DraftIsReal

LEMMA NumbersOfLimits ==
  /\ MaxErrors \in Nat \ {0} /\ LowLimit \in Nat \ {0} /\ LoopLength \in Nat \ {0}
  /\ MaxCalls \in Nat /\ MaxReplays \in Nat
  BY LimitsAreNumbers

\* The type invariant in four parts.
ViewTyped ==
    /\ screen \in Pages /\ arriving \in Pages \cup {Nothing}
    /\ obs \in Observations /\ prev \in [url : Pages \cup {Nothing}, role : Roles]
ActionTyped ==
    /\ pending \in PendingActions /\ request \in Requests /\ result \in Outcomes
    /\ noEffect \in Interactions \cup {Nothing}
ProgressTyped ==
    /\ last \in [action : Actions, streak : 1 .. LoopLength]
    /\ errors \in 0 .. MaxErrors + 1 /\ calls \in 0 .. MaxCalls
    /\ replay \in Replays
CardsTyped ==
    /\ queue \in [Cards -> Statuses]
    /\ captures \subseteq [url : Pages, key : Cards \cup {Nothing}]
    /\ buffer \in Buffers /\ draft \in Drafts /\ review \in Reviews
    /\ target \in Targets /\ reason \in Reasons

Typed == ViewTyped /\ ActionTyped /\ ProgressTyped /\ CardsTyped

LEMMA TypedIsTypeOK == Typed => TypeOK
  BY DEF Typed, ViewTyped, ActionTyped, ProgressTyped, CardsTyped, TypeOK, Observations,
         Outcomes, Verdicts, Reviews, Verifications, Replays, PendingActions, Requests,
         Buffers, Drafts

\* Records of well-typed parts are well-typed, and so are their updates.
LEMMA ObservationTyped ==
  ASSUME NEW shown \in Pages \cup {Nothing}, NEW url \in Pages, NEW stale \in BOOLEAN,
         NEW ocr \in BOOLEAN, NEW low \in BOOLEAN, NEW lows \in 0 .. LowLimit,
         NEW role \in Roles
  PROVE  [shown |-> shown, url |-> url, stale |-> stale, ocr |-> ocr, low |-> low,
          lows |-> lows, role |-> role] \in Observations
  BY DEF Observations

LEMMA ObservationUpdates ==
  ASSUME NEW o \in Observations, NEW url \in Pages, NEW stale \in BOOLEAN, NEW role \in Roles
  PROVE  /\ [o EXCEPT !.url = url, !.stale = stale] \in Observations
         /\ [o EXCEPT !.stale = stale] \in Observations
         /\ [o EXCEPT !.ocr = TRUE, !.role = role] \in Observations
         /\ [o EXCEPT !.url = url, !.stale = stale].low = o.low
         /\ [o EXCEPT !.stale = stale].low = o.low
         /\ [o EXCEPT !.ocr = TRUE, !.role = role].low = o.low
         /\ [o EXCEPT !.url = url, !.stale = stale].lows = o.lows
         /\ [o EXCEPT !.stale = stale].lows = o.lows
         /\ [o EXCEPT !.ocr = TRUE, !.role = role].lows = o.lows
  BY DEF Observations

LEMMA OutcomeTyped ==
  ASSUME NEW req \in Requests, NEW status \in Verdicts, NEW same \in BOOLEAN
  PROVE  Result(req, status, same) \in Outcomes
  BY DEF Requests, Outcomes, Result

LEMMA ReviewTyped ==
  ASSUME NEW status \in Verifications, NEW key \in Cards \cup {Nothing},
         NEW url \in Pages \cup {Nothing}, NEW tier \in {"lightweight", "primary", Nothing},
         NEW same \in BOOLEAN
  PROVE  [status |-> status, key |-> key, url |-> url, tier |-> tier, same |-> same] \in Reviews
  BY DEF Reviews

LEMMA NothingTyped ==
  /\ NoAction \in PendingActions /\ NoRequest \in Requests
  /\ NoBuffer \in Buffers /\ NoDraft \in Drafts
  BY DEF NoAction, PendingActions, NoRequest, Requests, NoBuffer, Buffers, NoDraft, Drafts

\* A run starts typed, with nothing counted.
LEMMA TypedInit == Init => Typed /\ Limits
  <1> SUFFICES ASSUME Init PROVE Typed /\ Limits
    OBVIOUS
  <1>0. 0 \in 0 .. LowLimit /\ 0 \in 0 .. MaxReplays /\ 0 \in 0 .. MaxCalls
        /\ 0 \in 0 .. MaxErrors + 1 /\ 1 \in 1 .. LoopLength /\ 0 < MaxErrors /\ 0 < LowLimit
    BY NumbersOfLimits
  <1>1. /\ obs = [shown |-> Nothing, url |-> Home, stale |-> TRUE, ocr |-> FALSE,
                  low |-> FALSE, lows |-> 0, role |-> ""]
        /\ review = [status |-> "none", key |-> Nothing, url |-> Nothing, tier |-> Nothing,
                     same |-> FALSE]
        /\ last = [action |-> "open", streak |-> 1]
    BY DEF Init
  <1>2. Home \in Pages /\ "" \in Roles BY DEF Pages, Roles
  <1>3. obs \in Observations BY <1>0, <1>1, <1>2, ObservationTyped
  <1>4. result \in Outcomes BY OutcomeTyped, NothingTyped DEF Init, Verdicts
  <1>5. review \in Reviews BY <1>1, ReviewTyped DEF Verifications
  <1>6. last \in [action : Actions, streak : 1 .. LoopLength]
    BY <1>0, <1>1 DEF Actions, Interactions
  <1>7. replay \in Replays BY <1>0 DEF Init, Replays
  <1>8. prev \in [url : Pages \cup {Nothing}, role : Roles] BY <1>2 DEF Init
  <1>9. Typed
    <2>1. /\ screen \in Pages /\ arriving \in Pages \cup {Nothing}
          /\ pending \in PendingActions /\ request \in Requests
          /\ noEffect \in Interactions \cup {Nothing}
          /\ errors \in 0 .. MaxErrors + 1 /\ calls \in 0 .. MaxCalls
      BY <1>0, <1>2, NothingTyped DEF Init
    <2>2. /\ queue \in [Cards -> Statuses]
          /\ captures \subseteq [url : Pages, key : Cards \cup {Nothing}]
          /\ buffer \in Buffers /\ draft \in Drafts
          /\ target \in Targets /\ reason \in Reasons
      BY NothingTyped DEF Init, Statuses, Reasons
    <2> QED BY <1>3, <1>4, <1>5, <1>6, <1>7, <1>8, <2>1, <2>2
           DEF Typed, ViewTyped, ActionTyped, ProgressTyped, CardsTyped
  <1>10. Limits
    <2>1. pc = "capture" /\ errors = 0 BY DEF Init
    <2>2. obs.low = FALSE /\ obs.lows = 0 /\ review.status = "none" BY <1>1
    <2> QED
      BY <1>0, <2>1, <2>2
         DEF Limits, ErrorsLeft, BlanksLeft, FollowsUpFirst, FollowsUp, BlankIsDecided,
             ActionIsChosen, DraftIsReal
  <1> QED BY <1>9, <1>10

\* Steps that leave the variables of a part alone keep its types.
LEMMA PartsKept ==
  ASSUME Typed
  PROVE  /\ UNCHANGED <<browser, observation>> => ViewTyped'
         /\ UNCHANGED <<pending, transition>> => ActionTyped'
         /\ UNCHANGED progress => ProgressTyped'
         /\ UNCHANGED <<collection, target, reason>> => CardsTyped'
  <1> USE DEF Typed
  <1>1. UNCHANGED <<browser, observation>> => ViewTyped'
    BY DEF ViewTyped, browser, observation
  <1>2. UNCHANGED <<pending, transition>> => ActionTyped' BY DEF ActionTyped, transition
  <1>3. UNCHANGED progress => ProgressTyped' BY DEF ProgressTyped, progress
  <1>4. UNCHANGED <<collection, target, reason>> => CardsTyped'
    BY DEF CardsTyped, collection
  <1> QED BY <1>1, <1>2, <1>3, <1>4

\* The active card, if there is one, is a card.
LEMMA KeyTyped ==
  ASSUME CardsTyped
  PROVE  Key \in Cards \cup {Nothing}
  BY DEF CardsTyped, Key, Active, With

\* The page in front and the one that is still loading are pages.
LEMMA FrontsTyped ==
  ASSUME ViewTyped
  PROVE  Fronts \subseteq Pages
  BY DEF ViewTyped, Fronts

\* A capture: what it shows is a page, and it counts as blank at most up to the
\* limit.
LEMMA CaptureStep ==
  ASSUME Typed, Limits, Capture
  PROVE  Typed' /\ Limits'
  <1>0. /\ ViewTyped /\ ActionTyped /\ ProgressTyped /\ CardsTyped
        /\ ~FollowsUp /\ errors < MaxErrors
    BY DEF Typed, Limits, FollowsUpFirst, ErrorsLeft, Capture
  <1>1. PICK shown \in Fronts, front \in Fronts, low \in BOOLEAN, read \in BOOLEAN :
          LET wanted == obs.stale \/ request # NoRequest
              url == IF read THEN front ELSE obs.url
              kept == IF obs.ocr THEN [url |-> obs.url, role |-> obs.role] ELSE prev
          IN  /\ shown # screen => front = shown
              /\ read => wanted
              /\ wanted /\ ~UrlMayFail => read
              /\ screen' = front
              /\ arriving' = IF front = screen THEN arriving ELSE Nothing
              /\ prev' = kept
              /\ obs' = [shown |-> shown, url |-> url, stale |-> wanted /\ ~read,
                         ocr |-> FALSE, low |-> low,
                         lows |-> IF low THEN obs.lows + 1 ELSE 0,
                         role |-> IF request.action = "scroll" /\ url = kept.url
                                  THEN kept.role ELSE ""]
    BY Zenon DEF Capture
  <1> DEFINE wanted == obs.stale \/ request # NoRequest
             url == IF read THEN front ELSE obs.url
             kept == IF obs.ocr THEN [url |-> obs.url, role |-> obs.role] ELSE prev
             lows == IF low THEN obs.lows + 1 ELSE 0
             role == IF request.action = "scroll" /\ url = kept.url THEN kept.role ELSE ""
  <1>2. shown \in Pages /\ front \in Pages BY <1>0, FrontsTyped
  <1>3. obs.url \in Pages /\ obs.role \in Roles /\ obs.lows \in 0 .. LowLimit
    BY <1>0 DEF ViewTyped, Observations
  <1>4. kept \in [url : Pages \cup {Nothing}, role : Roles]
    <2>1. [url |-> obs.url, role |-> obs.role] \in [url : Pages \cup {Nothing}, role : Roles]
      BY <1>3
    <2> QED BY <1>0, <2>1 DEF ViewTyped
  <1>5. obs.lows < LowLimit BY DEF Limits, BlanksLeft, Capture
  <1>6. lows \in 0 .. LowLimit BY <1>3, <1>5, NumbersOfLimits
  <1>7. role \in Roles
    <2> HIDE DEF kept
    <2>1. kept.role \in Roles /\ "" \in Roles BY <1>4 DEF Roles
    <2> QED BY <2>1
  <1>8. url \in Pages BY <1>2, <1>3
  <1>9. obs' = [shown |-> shown, url |-> url, stale |-> wanted /\ ~read, ocr |-> FALSE,
                low |-> low, lows |-> lows, role |-> role]
        /\ prev' = kept
    BY <1>1
  <1>10. obs'.low = low /\ obs'.lows = lows BY <1>9
  <1>11. ~obs'.low => obs'.lows = 0 BY <1>10
  <1> HIDE DEF url, kept, lows, role
  <1>12. (wanted /\ ~read) \in BOOLEAN OBVIOUS
  <1>13. obs' \in Observations BY <1>2, <1>6, <1>7, <1>8, <1>9, <1>12, ObservationTyped
  <1>14. ViewTyped' BY <1>0, <1>1, <1>2, <1>4, <1>9, <1>13 DEF ViewTyped
  <1>15. ActionTyped' BY <1>0 DEF ActionTyped, Capture
  <1>16. ProgressTyped' BY <1>0 DEF ProgressTyped, Replays, Capture
  <1>17. CardsTyped' BY PartsKept DEF Capture
  <1>18. Limits'
    BY <1>0, <1>11
       DEF Limits, ErrorsLeft, BlanksLeft, FollowsUpFirst, FollowsUp, BlankIsDecided,
           ActionIsChosen, DraftIsReal, collection, Capture
  <1> QED BY <1>14, <1>15, <1>16, <1>17, <1>18 DEF Typed

\* A verdict leaves a typed record behind.
LEMMA JudgeTyped ==
  ASSUME ActionTyped, ProgressTyped, UNCHANGED <<pending, last, errors, calls>>,
         NEW status \in Verdicts, NEW same \in BOOLEAN, Judge(status, same)
  PROVE  ActionTyped' /\ ProgressTyped'
  <1>1. result' \in Outcomes BY OutcomeTyped DEF ActionTyped, Judge
  <1>2. request' \in Requests BY NothingTyped DEF Judge
  <1>3. noEffect' \in Interactions \cup {Nothing} BY DEF ActionTyped, Judge, Requests
  <1>4. replay' \in Replays BY DEF ProgressTyped, Judge, Replays
  <1> QED BY <1>1, <1>2, <1>3, <1>4 DEF ActionTyped, ProgressTyped

\* A step of the observation or of the decision that reaches no execution and no
\* capture, on the screen that was captured.
LEMMA LimitsKept ==
  ASSUME Limits, UNCHANGED <<errors, last>>,
         obs'.low = obs.low, obs'.lows = obs.lows, review'.status = review.status,
         pc \notin {"execute", "review", "end"},
         pc' \notin {"execute", "review", "end", "capture"},
         pc' \in {"decide", "reason"} \/ (~obs.low /\ ~FollowsUp),
         obs.low => pc' = "decide" /\ ~FollowsUp
  PROVE  Limits'
  BY DEF Limits, ErrorsLeft, BlanksLeft, FollowsUpFirst, FollowsUp, BlankIsDecided,
         ActionIsChosen, DraftIsReal

\* The verdicts that need no OCR.
LEMMA InspectStep ==
  ASSUME Typed, Limits, InspectNothing \/ InspectChange \/ InspectNoChange
  PROVE  Typed' /\ Limits'
  <1>0. /\ ViewTyped /\ ActionTyped /\ ProgressTyped /\ CardsTyped
        /\ pc = "inspect" /\ pc' = "decide" /\ ~FollowsUp
        /\ UNCHANGED <<browser, pending, last, errors, calls, queue, captures, buffer,
                       draft, target, reason>>
    BY DEF Typed, Limits, FollowsUpFirst, InspectNothing, InspectChange, InspectNoChange,
           progress, collection
  <1>1. CASE InspectNothing \/ InspectChange
    <2>1. PICK status \in Verdicts, same \in BOOLEAN : result' = Result(request, status, same)
      BY <1>1 DEF InspectNothing, InspectChange, Verdicts
    <2>2. result' \in Outcomes BY <1>0, <2>1, OutcomeTyped DEF ActionTyped
    <2>3. ActionTyped'
      BY <1>0, <1>1, <2>2 DEF ActionTyped, InspectNothing, InspectChange
    <2>4. UNCHANGED <<browser, observation, progress, collection, target, reason>>
      BY <1>1 DEF InspectNothing, InspectChange
    <2>5. Limits'
      BY <1>0, <2>4, LimitsKept DEF observation, collection
    <2> QED BY <2>3, <2>4, <2>5, PartsKept DEF Typed
  <1>2. CASE InspectNoChange
    <2>1. Judge("unknown", TRUE) BY <1>2 DEF InspectNoChange
    <2>2. ActionTyped' /\ ProgressTyped' BY <1>0, <2>1, JudgeTyped DEF Verdicts
    <2>3. PICK same \in BOOLEAN : review' = [review EXCEPT !.same = same]
      BY <1>2 DEF InspectNoChange
    <2>4. review' \in Reviews /\ review'.status = review.status
      BY <1>0, <2>3 DEF CardsTyped, Reviews
    <2>5. CardsTyped' BY <1>0, <2>4 DEF CardsTyped
    <2>6. /\ ViewTyped' /\ obs'.low = obs.low /\ obs'.lows = obs.lows
      <3>1. CASE UNCHANGED observation BY <1>0, <3>1 DEF ViewTyped, observation, browser
      <3>2. CASE ReuseOcr
        <4>1. prev.role \in Roles /\ obs \in Observations /\ obs.url \in Pages
          BY <1>0 DEF ViewTyped, Observations
        <4>2. obs' = [obs EXCEPT !.ocr = TRUE, !.role = prev.role] BY <3>2 DEF ReuseOcr
        <4>3. obs' \in Observations /\ obs'.low = obs.low /\ obs'.lows = obs.lows
          BY <4>1, <4>2, ObservationUpdates DEF Observations
        <4>4. prev' \in [url : Pages \cup {Nothing}, role : Roles]
          BY <1>0, <3>2, <4>1 DEF ReuseOcr, ViewTyped
        <4> QED BY <1>0, <4>3, <4>4 DEF ViewTyped, browser
      <3> QED BY <1>2, <3>1, <3>2 DEF InspectNoChange
    <2>7. Limits' BY <1>0, <2>4, <2>6, LimitsKept
    <2> QED BY <2>2, <2>5, <2>6, <2>7 DEF Typed
  <1> QED BY <1>1, <1>2

\* Decisions that change at most where the graph goes on, and the replay.
LEMMA PassingStep ==
  ASSUME Typed, Limits, FollowUp \/ SelectWait \/ SelectNothing \/ SkipReplay
  PROVE  Typed' /\ Limits'
  <1>1. UNCHANGED <<browser, observation, pending, transition, last, errors, calls,
                    collection, target, reason>>
    BY DEF FollowUp, SelectWait, SelectNothing, SkipReplay, progress
  <1>2. ProgressTyped'
    BY <1>1 DEF Typed, ProgressTyped, FollowUp, SelectWait, SelectNothing, SkipReplay, progress,
           Replays
  <1>3. Limits'
    <2>1. CASE FollowUp
      <3>1. ~obs.low BY <2>1 DEF Limits, BlankIsDecided, FollowUp, FollowsUp
      <3> QED BY <1>1, <2>1, <3>1, LimitsKept DEF FollowUp, observation, collection
    <2>2. CASE SelectWait
      BY <1>1, <2>2
         DEF SelectWait, Selecting, Limits, ErrorsLeft, BlanksLeft, FollowsUpFirst, FollowsUp,
             BlankIsDecided, ActionIsChosen, DraftIsReal, observation, collection
    <2>3. CASE SelectNothing
      <3>1. ~obs.low /\ ~FollowsUp
        BY <2>3 DEF SelectNothing, Selecting, Limits, FollowsUpFirst, FollowsUp
      <3> QED BY <1>1, <2>3, <3>1, LimitsKept
              DEF SelectNothing, Selecting, Onward, observation, collection
    <2>4. CASE SkipReplay
      <3>1. ~obs.low /\ ~FollowsUp
        BY <2>4 DEF SkipReplay, Limits, FollowsUpFirst, BlankIsDecided
      <3> QED BY <1>1, <2>4, <3>1, LimitsKept DEF SkipReplay, observation, collection
    <2> QED BY <2>1, <2>2, <2>3, <2>4
  <1> QED BY <1>1, <1>2, <1>3, PartsKept DEF Typed

LEMMA OcrStep ==
  ASSUME Typed, Limits, Ocr
  PROVE  Typed' /\ Limits'
  <1>0. /\ ViewTyped /\ ActionTyped /\ ProgressTyped /\ CardsTyped
        /\ ~FollowsUp /\ ~obs.low
    BY DEF Typed, Limits, FollowsUpFirst, BlankIsDecided, Ocr
  <1>1. PICK same \in BOOLEAN : review' = [review EXCEPT !.same = same]
    BY DEF Ocr
  <1>2. review' \in Reviews /\ review'.status = review.status
    BY <1>0, <1>1 DEF CardsTyped, Reviews
  <1> DEFINE seen == [obs EXCEPT !.ocr = TRUE, !.role = RoleOf(obs.url)]
  <1>3. obs' = seen /\ buffer' = Accumulate(buffer, seen) BY DEF Ocr
  <1>4. /\ seen \in Observations /\ seen.low = obs.low /\ seen.lows = obs.lows
    <2>1. RoleOf(obs.url) \in Roles BY DEF RoleOf, Roles
    <2>2. obs \in Observations /\ obs.url \in Pages BY <1>0 DEF ViewTyped, Observations
    <2> QED BY <2>1, <2>2, ObservationUpdates DEF Observations
  <1> HIDE DEF seen
  <1>5. seen.url \in Pages /\ Key \in Cards \cup {Nothing}
    BY <1>0, <1>4, KeyTyped DEF Observations
  <1>6. buffer' \in Buffers
    BY <1>0, <1>3, <1>5 DEF Accumulate, CardsTyped, Buffers
  <1>7. CardsTyped' BY <1>0, <1>2, <1>6 DEF CardsTyped, Ocr
  <1>8. ViewTyped' BY <1>0, <1>3, <1>4 DEF ViewTyped, Ocr, browser
  <1>9. Limits' BY <1>0, <1>2, <1>3, <1>4, LimitsKept DEF Ocr, progress
  <1> QED BY <1>7, <1>8, <1>9, PartsKept DEF Typed, Ocr

LEMMA CompleteStep ==
  ASSUME Typed, Limits, Complete
  PROVE  Typed' /\ Limits'
  <1>0. /\ ViewTyped /\ ActionTyped /\ ProgressTyped /\ CardsTyped
        /\ ~FollowsUp /\ ~obs.low
    BY DEF Typed, Limits, FollowsUpFirst, BlankIsDecided, Complete
  <1>1. \E status \in {"ready", "unknown"}, same \in BOOLEAN : Judge(status, same)
    BY DEF Complete
  <1>2. ActionTyped' /\ ProgressTyped' BY <1>0, <1>1, JudgeTyped DEF Verdicts, Complete
  <1>3. Limits' BY <1>0, LimitsKept DEF Complete, observation, collection
  <1> QED BY <1>2, <1>3, PartsKept DEF Typed, Complete

\* A choice is an action of the source that makes it.
LEMMA ChosenTyped ==
  ASSUME NEW source \in Sources, NEW action \in Actions, NEW card \in Cards \cup {Nothing},
         Choose(source, action, card)
  PROVE  /\ pending' \in PendingActions /\ pending'.action = action
         /\ pending'.source = source /\ pc' = "execute"
  BY DEF Choose, PendingActions

LEMMA ChoosingTyped ==
  ASSUME Typed, Limits, Choosing
  PROVE  Typed' /\ Limits'
  <1>0. /\ ViewTyped /\ ActionTyped /\ ProgressTyped /\ CardsTyped
    BY DEF Typed
  <1>1. /\ pending' \in PendingActions /\ pc' = "execute" /\ pc \notin {"execute", "review", "end"}
        /\ pending'.action \in Actions
        /\ pending'.source = "reflex" => pending'.action = "interact"
        /\ obs.low => pending'.action = "finish"
    <2>1. CASE SelectStop \/ ReasonStop
      <3>1. /\ pending' \in PendingActions /\ pending'.action = "finish" /\ pc' = "execute"
            /\ pending'.source \in {"screen_policy", "reasoning_policy"}
        BY <2>1, ChosenTyped DEF SelectStop, ReasonStop, Sources, Actions
      <3> QED BY <2>1, <3>1 DEF SelectStop, ReasonStop, Selecting, Actions
    <2>2. CASE SelectNavigation
      <3>1. NavigationStep \in {"go_back", "close_tab"}
        BY <2>2 DEF SelectNavigation, IsNavigation, NavigationStep
      <3>2. /\ pending' \in PendingActions /\ pending'.action = NavigationStep /\ pc' = "execute"
            /\ pending'.source = "job_results_navigation"
        BY <2>2, <3>1, ChosenTyped DEF SelectNavigation, Sources, Actions, Interactions
      <3> QED BY <2>2, <3>1, <3>2 DEF SelectNavigation, Selecting, Actions, Interactions
    <2>3. CASE \E c \in Cards : SelectCard(c)
      <3>1. /\ pending' \in PendingActions /\ pending'.action = "interact" /\ pc' = "execute"
        BY <2>3, ChosenTyped DEF SelectCard, Sources, Actions, Interactions
      <3> QED BY <2>3, <3>1 DEF SelectCard, Selecting, Actions, Interactions
    <2>4. CASE ReplayStep
      <3>1. /\ pending' \in PendingActions /\ pending'.action = "interact" /\ pc' = "execute"
        BY <2>4, ChosenTyped DEF ReplayStep, Sources, Actions, Interactions
      <3>2. pc \in {"prepare", "choose"} BY <2>4 DEF ReplayStep, MayReplay
      <3> QED BY <3>1, <3>2 DEF Limits, BlankIsDecided, Actions, Interactions
    <2>5. CASE Reason
      <3>1. PICK tool \in Tools : Choose("llm", tool, Nothing) BY <2>5 DEF Reason
      <3>2. tool \in Actions BY DEF Tools, Actions
      <3>3. /\ pending' \in PendingActions /\ pending'.action = tool /\ pc' = "execute"
            /\ pending'.source = "llm"
        BY <3>1, <3>2, ChosenTyped DEF Sources
      <3> QED BY <2>5, <3>2, <3>3 DEF Reason, Limits, BlankIsDecided
    <2> QED BY <2>1, <2>2, <2>3, <2>4, <2>5 DEF Choosing
  <1>2. /\ UNCHANGED <<browser, observation, transition, last, collection, target, reason>>
        /\ errors' \in {errors, errors + 1}
    BY DEF Choosing, SelectStop, SelectNavigation, SelectCard, ReplayStep, Reason, ReasonStop,
           progress
  <1>3. errors < MaxErrors BY <1>1 DEF Limits, ErrorsLeft
  <1>4. errors' <= MaxErrors /\ errors' \in 0 .. MaxErrors + 1
    BY <1>0, <1>2, <1>3, NumbersOfLimits DEF ProgressTyped
  <1>5. calls' \in 0 .. MaxCalls
    BY <1>0, NumbersOfLimits
       DEF ProgressTyped, Choosing, SelectStop, SelectNavigation, SelectCard, ReplayStep, Reason,
           ReasonStop, progress
  <1>6. replay' \in Replays
    <2>1. replay.hits \in 0 .. MaxReplays BY <1>0 DEF ProgressTyped, Replays
    <2>2. replay.hits < MaxReplays => replay.hits + 1 \in 0 .. MaxReplays
      BY <2>1, NumbersOfLimits
    <2>3. \/ replay' = replay \/ replay' = [replay EXCEPT !.missed = FALSE]
          \/ /\ replay.hits < MaxReplays
             /\ replay' = [replay EXCEPT !.session = TRUE, !.hits = replay.hits + 1]
      BY DEF Choosing, SelectStop, SelectNavigation, SelectCard, ReplayStep, Reason, ReasonStop,
             progress
    <2> QED BY <1>0, <2>2, <2>3 DEF ProgressTyped, Replays
  <1>7. ProgressTyped' BY <1>0, <1>2, <1>4, <1>5, <1>6 DEF ProgressTyped
  <1>8. ActionTyped' BY <1>0, <1>1, <1>2 DEF ActionTyped, transition
  <1>9. Limits'
    BY <1>1, <1>2, <1>4
       DEF Limits, ErrorsLeft, BlanksLeft, FollowsUpFirst, FollowsUp, BlankIsDecided,
           ActionIsChosen, DraftIsReal, observation, collection
  <1> QED BY <1>2, <1>7, <1>8, <1>9, PartsKept DEF Typed

\* Settling a card gives it a status, and finishing gives a reason.
LEMMA SettledTyped ==
  ASSUME CardsTyped, NEW status \in Statuses
  PROVE  SettleActive(queue, status) \in [Cards -> Statuses]
  BY DEF CardsTyped, SettleActive

LEMMA FinishTyped ==
  ASSUME CardsTyped, NEW done, FinishIf(done)
  PROVE  reason' \in Reasons
  BY DEF CardsTyped, FinishIf, Completion, Reasons, Completed

LEMMA DuplicateTyped ==
  ASSUME Typed, Limits, SelectDuplicate
  PROVE  Typed' /\ Limits'
  <1>0. /\ ViewTyped /\ ActionTyped /\ ProgressTyped /\ CardsTyped
        /\ ~obs.low /\ ~FollowsUp
    BY DEF Typed, Limits, FollowsUpFirst, FollowsUp, SelectDuplicate, Selecting
  <1>1. PICK status \in {"skipped", "known"} : queue' = SettleActive(queue, status)
    BY DEF SelectDuplicate
  <1>2. queue' \in [Cards -> Statuses] BY <1>0, <1>1, SettledTyped DEF Statuses
  <1>3. reason' \in Reasons BY <1>0, FinishTyped DEF SelectDuplicate
  <1>4. CardsTyped' BY <1>0, <1>2, <1>3 DEF CardsTyped, SelectDuplicate
  <1>5. result' \in Outcomes
    BY <1>0 DEF ActionTyped, Outcomes, Verdicts, SelectDuplicate
  <1>6. ActionTyped' BY <1>0, <1>5, NothingTyped DEF ActionTyped, SelectDuplicate
  <1>7. /\ UNCHANGED <<browser, observation, progress, draft, review>>
        /\ pc \in {"decide", "reselect"} /\ pc' \in {"end", "prepare", "choose"}
    BY DEF SelectDuplicate, Selecting, Onward
  <1>8. Limits'
    <2>1. CASE pc' = "end"
      BY <1>0, <1>7, <2>1
         DEF Limits, ErrorsLeft, BlanksLeft, FollowsUpFirst, FollowsUp, BlankIsDecided,
             ActionIsChosen, DraftIsReal, observation, progress
    <2>2. CASE pc' # "end"
      BY <1>0, <1>7, <2>2, LimitsKept DEF observation, progress
    <2> QED BY <2>1, <2>2
  <1> QED BY <1>4, <1>6, <1>7, <1>8, PartsKept DEF Typed

\* What every execution does: it records its action and routes.
LEMMA RecordTyped ==
  ASSUME ProgressTyped, NEW action \in Actions, Record(action)
  PROVE  last' \in [action : Actions, streak : 1 .. LoopLength] /\ last'.action = action
  <1>1. last.streak \in 1 .. LoopLength BY DEF ProgressTyped
  <1>2. PICK equal \in BOOLEAN :
          last' = [action |-> action,
                   streak |-> IF ~equal THEN 1
                              ELSE IF last.streak < LoopLength THEN last.streak + 1
                              ELSE last.streak]
    BY DEF Record
  <1>3. last'.streak \in 1 .. LoopLength BY <1>1, <1>2, NumbersOfLimits
  <1> QED BY <1>2, <1>3

LEMMA RouteTyped ==
  ASSUME ActionTyped, request' \in Requests, noEffect' = noEffect, Route
  PROVE  ActionTyped'
  <1>1. result' \in Outcomes BY OutcomeTyped DEF ActionTyped, Route, Verdicts
  <1>2. pending' \in PendingActions BY NothingTyped DEF Route
  <1> QED BY <1>1, <1>2 DEF ActionTyped

\* A request names the screen before the action.
LEMMA RequestTyped ==
  ASSUME ViewTyped, ActionTyped, pending.action \in Interactions, NEW url \in Pages
  PROVE  RequestFor(url) \in Requests
  <1>1. /\ pending.source \in Sources \cup {Nothing}
        /\ obs.shown \in Pages \cup {Nothing} /\ obs.ocr \in BOOLEAN
    BY DEF ViewTyped, ActionTyped, PendingActions, Observations
  <1>2. (IF pending.source = "llm" THEN "autonomous" ELSE pending.source)
           \in Sources \cup {Nothing}
    BY <1>1 DEF Sources
  <1> QED BY <1>1, <1>2 DEF RequestFor, Requests

\* The browser shows a page after every action.
LEMMA LandTyped ==
  ASSUME ViewTyped, LedgerInv, pc = "execute", NEW now \in Fronts, NEW to \in Leads(now),
         pending.action \in Interactions
  PROVE  /\ to \in Pages
         /\ Land(now, to) => screen' \in Pages /\ arriving' \in Pages \cup {Nothing}
  <1>1. now \in Pages BY FrontsTyped
  <1>2. pending.card # Nothing => OpensTo[pending.card] \in Pages
    BY PostingsBehindCards DEF LedgerInv, CardInHand, Pages
  <1>3. Leads(now) \subseteq Pages
    BY <1>1, <1>2 DEF Leads, Pages, Interactions
  <1>4. to \in Pages BY <1>3
  <1> QED BY <1>1, <1>4 DEF Land

\* Finishing gives a reason.
FinishConcludes == pending.action = "finish" => reason' # ""

\* After an action other than a review, the run ends or goes on on the screen
\* that was captured, which was not blank.
LEMMA RouteLimits ==
  ASSUME Limits, LedgerInv, pc = "execute", Route, errors' \in 0 .. MaxErrors + 1,
         last'.action = pending.action, pending.action # "review",
         FinishConcludes,
         obs'.low = obs.low, obs'.lows = obs.lows, UNCHANGED <<draft, review>>
  PROVE  Limits'
  <1>1. draft' = NoDraft BY DEF LedgerInv, DraftIsReviewed
  <1>2. CASE pc' = "end"
    BY <1>2 DEF Limits, ErrorsLeft, BlanksLeft, FollowsUpFirst, FollowsUp, BlankIsDecided,
                ActionIsChosen, DraftIsReal
  <1>3. CASE pc' # "end"
    <2>1. pc' \in {"capture", "decide"} /\ reason' = ""
      BY <1>1, <1>3 DEF Route
    <2>2. ~obs.low
      <3>1. pending.action # "finish" BY <2>1 DEF FinishConcludes
      <3> QED BY <3>1 DEF Limits, BlankIsDecided
    <2>3. errors' < MaxErrors
      <3>1. errors' \in Nat /\ MaxErrors \in Nat BY NumbersOfLimits
      <3>2. ~(errors' >= MaxErrors) BY <1>3 DEF Route
      <3> QED BY ONLY <3>1, <3>2
    <2>4. obs.lows = 0 BY <2>2 DEF Limits, BlanksLeft
    <2>5. obs'.lows < LowLimit /\ obs'.lows = 0
      <3>1. 0 < LowLimit BY NumbersOfLimits
      <3>2. obs'.lows = 0 BY <2>4
      <3> QED BY <3>1, <3>2
    <2> QED BY <2>1, <2>2, <2>3, <2>5
            DEF Limits, ErrorsLeft, BlanksLeft, FollowsUpFirst, FollowsUp, BlankIsDecided,
                ActionIsChosen, DraftIsReal
  <1> QED BY <1>2, <1>3

\* An action on the screen that succeeds starts the error count again.
LEMMA ScreenActionTyped ==
  ASSUME Typed, Limits, LedgerInv, ExecuteScreenAction
  PROVE  Typed' /\ Limits'
  <1>0. /\ ViewTyped /\ ActionTyped /\ ProgressTyped /\ CardsTyped /\ pc = "execute"
        /\ pending.action \in Interactions /\ Route
        /\ UNCHANGED <<prev, noEffect, calls, replay, captures, buffer, draft, review,
                       target, reason>>
    BY DEF Typed, ExecuteScreenAction, Executing
  <1>1. pending.action \in Actions \ {"review", "finish"}
    BY <1>0 DEF Actions, Interactions
  <1>2. /\ last' \in [action : Actions, streak : 1 .. LoopLength]
        /\ last'.action = pending.action
    BY <1>0, <1>1, RecordTyped DEF ExecuteScreenAction, Executing
  <1>a. PICK now \in Fronts : \E to \in Leads(now) :
          LET url == IF pending.action = "open" THEN to ELSE obs.url
          IN  /\ Land(now, to)
              /\ obs' = [obs EXCEPT !.url = url, !.stale = UrlStale]
              /\ request' = RequestFor(url)
    BY Zenon DEF ExecuteScreenAction
  <1>3. PICK to \in Leads(now) :
          LET url == IF pending.action = "open" THEN to ELSE obs.url
          IN  /\ Land(now, to)
              /\ obs' = [obs EXCEPT !.url = url, !.stale = UrlStale]
              /\ request' = RequestFor(url)
    BY <1>a
  <1> DEFINE url == IF pending.action = "open" THEN to ELSE obs.url
  <1>4. /\ to \in Pages /\ screen' \in Pages /\ arriving' \in Pages \cup {Nothing}
    BY <1>0, <1>3, LandTyped
  <1>5. /\ obs \in Observations /\ url \in Pages /\ UrlStale \in BOOLEAN
    BY <1>0, <1>4 DEF ViewTyped, Observations, UrlStale
  <1>6. obs' = [obs EXCEPT !.url = url, !.stale = UrlStale] /\ request' = RequestFor(url)
    BY <1>3
  <1> HIDE DEF url
  <1>7. obs.role \in Roles BY <1>5 DEF Observations
  <1>8. obs' \in Observations /\ obs'.low = obs.low /\ obs'.lows = obs.lows
    BY <1>5, <1>6, <1>7, ObservationUpdates
  <1>9. request' \in Requests BY <1>0, <1>5, <1>6, RequestTyped
  <1>10. ViewTyped' BY <1>0, <1>4, <1>8 DEF ViewTyped
  <1>11. ActionTyped' BY <1>0, <1>9, RouteTyped
  <1>12. errors' \in 0 .. MaxErrors + 1 BY NumbersOfLimits DEF ExecuteScreenAction
  <1>13. ProgressTyped' BY <1>0, <1>2, <1>12 DEF ProgressTyped
  <1>14. queue' \in [Cards -> Statuses]
    BY <1>0 DEF CardsTyped, ExecuteScreenAction, Statuses
  <1>15. CardsTyped' BY <1>0, <1>14 DEF CardsTyped
  <1>16. FinishConcludes BY <1>1 DEF FinishConcludes
  <1>17. Limits' BY <1>0, <1>1, <1>2, <1>8, <1>12, <1>16, RouteLimits
  <1> QED BY <1>10, <1>11, <1>13, <1>15, <1>17 DEF Typed

\* A call on the state that fails adds one to the errors and keeps the screen.
LEMMA FailedCallTyped ==
  ASSUME Typed, Limits, OpenIsJudged, LedgerInv, FailStateAction
  PROVE  Typed' /\ Limits'
  <1>0. /\ ViewTyped /\ ActionTyped /\ ProgressTyped /\ CardsTyped /\ pc = "execute"
        /\ pending.action \in {"set_queue", "review"} /\ Route /\ Record(pending.action)
        /\ errors' = errors + 1
        /\ UNCHANGED <<browser, observation, request, noEffect, calls, replay, collection,
                       target, reason>>
    BY DEF Typed, FailStateAction, Executing
  <1>1. pending.action \in Actions BY <1>0 DEF Actions
  <1>2. /\ last' \in [action : Actions, streak : 1 .. LoopLength]
        /\ last'.action = pending.action
    BY <1>0, <1>1, RecordTyped
  <1>3. ViewTyped' /\ CardsTyped' BY <1>0, PartsKept
  <1>4. ActionTyped'
    <2>1. request' \in Requests BY <1>0 DEF ActionTyped
    <2> QED BY <1>0, <2>1, RouteTyped
  <1>5. errors' \in 0 .. MaxErrors + 1
    BY <1>0, NumbersOfLimits DEF Limits, ErrorsLeft, ProgressTyped
  <1>6. ProgressTyped' BY <1>0, <1>2, <1>5 DEF ProgressTyped
  <1>7. obs' = obs /\ UNCHANGED <<draft, review>> BY <1>0 DEF observation, collection
  <1>8. Limits'
    <2>1. CASE pending.action = "set_queue"
      <3>1. FinishConcludes BY <2>1 DEF FinishConcludes
      <3> QED BY <1>0, <1>2, <1>5, <1>7, <2>1, <3>1, RouteLimits
    <2>2. CASE pending.action = "review"
      <3>1. request' = NoRequest /\ draft' = NoDraft
        BY <1>0, <1>7, <2>2 DEF OpenIsJudged, LedgerInv, DraftIsReviewed
      <3>2. pc' \in {"decide", "end"} /\ (pc' = "decide" => ~(errors' >= MaxErrors))
        BY <1>0, <3>1 DEF Route
      <3>3. pc' = "decide" => errors' < MaxErrors BY <1>5, <3>2, NumbersOfLimits
      <3>4. ~obs.low BY <1>0, <2>2 DEF Limits, BlankIsDecided
      <3> QED BY <1>7, <3>2, <3>3, <3>4
              DEF Limits, ErrorsLeft, BlanksLeft, FollowsUpFirst, FollowsUp, BlankIsDecided,
                  ActionIsChosen, DraftIsReal
    <2> QED BY <1>0, <2>1, <2>2
  <1> QED BY <1>3, <1>4, <1>6, <1>8 DEF Typed

\* Failing adds one to the errors, and half a failure starts them at one.
LEMMA FailedActionTyped ==
  ASSUME Typed, Limits, LedgerInv,
         FailScreenAction \/ HalfExecute \/ SkipSubmittedSearch
  PROVE  Typed' /\ Limits'
  <1>0. /\ ViewTyped /\ ActionTyped /\ ProgressTyped /\ CardsTyped /\ pc = "execute"
        /\ pending.action \in Interactions /\ Route /\ Record(pending.action)
        /\ UNCHANGED <<prev, noEffect, calls, replay, collection, target, reason>>
    BY DEF Typed, FailScreenAction, HalfExecute, SkipSubmittedSearch, Executing,
           Interactions, observation
  <1>1. pending.action \in Actions \ {"review", "finish"}
    BY <1>0 DEF Actions, Interactions
  <1>2. /\ last' \in [action : Actions, streak : 1 .. LoopLength]
        /\ last'.action = pending.action
    BY <1>0, <1>1, RecordTyped
  <1>3. obs \in Observations /\ obs.url \in Pages BY <1>0 DEF ViewTyped, Observations
  <1>4. request' \in Requests
    <2>1. request' \in {request, RequestFor(obs.url)}
      BY DEF FailScreenAction, HalfExecute, SkipSubmittedSearch
    <2> QED BY <1>0, <1>3, <2>1, RequestTyped DEF ActionTyped
  <1>5. ActionTyped' BY <1>0, <1>4, RouteTyped
  <1>6. errors <= MaxErrors /\ errors \in Nat
    BY <1>0, NumbersOfLimits DEF Limits, ErrorsLeft, ProgressTyped
  <1>7. errors' \in {errors, errors + 1, 1}
    BY DEF FailScreenAction, HalfExecute, SkipSubmittedSearch
  <1>8. errors' \in 0 .. MaxErrors + 1 BY <1>6, <1>7, NumbersOfLimits
  <1>9. ProgressTyped' BY <1>0, <1>2, <1>8 DEF ProgressTyped
  <1>10. ViewTyped' /\ obs'.low = obs.low /\ obs'.lows = obs.lows
    <2>1. CASE HalfExecute
      <3>1. \E now \in Fronts : \E to \in Leads(now) : Land(now, to) BY <2>1 DEF HalfExecute
      <3>2. screen' \in Pages /\ arriving' \in Pages \cup {Nothing}
        BY <1>0, <3>1, LandTyped
      <3>3. obs' = [obs EXCEPT !.stale = TRUE] BY <2>1 DEF HalfExecute
      <3>4. obs' \in Observations /\ obs'.low = obs.low /\ obs'.lows = obs.lows
        BY <1>3, <3>3 DEF Observations
      <3> QED BY <1>0, <3>2, <3>4 DEF ViewTyped
    <2>2. CASE FailScreenAction \/ SkipSubmittedSearch
      BY <1>0, <2>2 DEF ViewTyped, FailScreenAction, SkipSubmittedSearch, browser, observation
    <2> QED BY <2>1, <2>2
  <1>11. CardsTyped' BY <1>0, PartsKept
  <1>12. FinishConcludes BY <1>1 DEF FinishConcludes
  <1>13. Limits' BY <1>0, <1>1, <1>2, <1>8, <1>10, <1>12, RouteLimits DEF collection
  <1> QED BY <1>5, <1>9, <1>10, <1>11, <1>13 DEF Typed

\* The steps that offer cards, finish, or ask for a review.
\* Tools that touch no screen leave the error count alone, or end the run.
LEMMA CommandTyped ==
  ASSUME Typed, Limits, LedgerInv, SetQueue \/ FinishTask \/ RequestReview
  PROVE  Typed' /\ Limits'
  <1>0. /\ ViewTyped /\ ActionTyped /\ ProgressTyped /\ CardsTyped /\ pc = "execute"
        /\ pending.action \in {"set_queue", "finish", "review"} /\ Route
        /\ Record(pending.action) /\ errors' \in {errors, 0}
        /\ UNCHANGED <<browser, observation, request, noEffect, calls, replay, review,
                       captures, buffer, target>>
    BY DEF Typed, SetQueue, FinishTask, RequestReview, Executing, collection
  <1>1. pending.action \in Actions BY <1>0 DEF Actions
  <1>2. /\ last' \in [action : Actions, streak : 1 .. LoopLength]
        /\ last'.action = pending.action
    BY <1>0, <1>1, RecordTyped
  <1>3. ViewTyped' BY <1>0, PartsKept DEF Typed
  <1>4. ActionTyped'
    <2>1. request' \in Requests BY <1>0 DEF ActionTyped
    <2> QED BY <1>0, <2>1, RouteTyped
  <1>5. errors' \in 0 .. MaxErrors + 1 BY <1>0, NumbersOfLimits DEF ProgressTyped
  <1>6. ProgressTyped' BY <1>0, <1>2, <1>5 DEF ProgressTyped
  <1>7. CASE SetQueue
    <2>1. queue' \in [Cards -> Statuses]
      BY <1>0, <1>7 DEF CardsTyped, SetQueue, Statuses
    <2>2. reason' \in Reasons BY <1>0, <1>7, FinishTyped DEF SetQueue
    <2>3. CardsTyped' BY <1>0, <1>7, <2>1, <2>2 DEF CardsTyped, SetQueue
    <2>4. pending.action = "set_queue" /\ FinishConcludes
      BY <1>7 DEF SetQueue, Executing, FinishConcludes
    <2>5. Limits'
      BY <1>0, <1>2, <1>5, <1>7, <2>4, RouteLimits DEF SetQueue, observation
    <2> QED BY <1>3, <1>4, <1>6, <2>3, <2>5 DEF Typed
  <1>8. CASE FinishTask
    <2>1. reason' \in {"reasoning_limit", "screen_unavailable", "agent_finished"}
      BY <1>8 DEF FinishTask
    <2>2. CardsTyped' BY <1>0, <1>8, <2>1 DEF CardsTyped, FinishTask, collection, Reasons
    <2>3. pending.action = "finish" /\ FinishConcludes
      BY <1>8, <2>1 DEF FinishTask, Executing, FinishConcludes
    <2>4. Limits'
      BY <1>0, <1>2, <1>5, <1>8, <2>3, RouteLimits DEF FinishTask, observation, collection
    <2> QED BY <1>3, <1>4, <1>6, <2>2, <2>4 DEF Typed
  <1>9. CASE RequestReview
    <2>1. obs.url \in Pages /\ Key \in Cards \cup {Nothing}
      BY <1>0, KeyTyped DEF ViewTyped, Observations
    <2>2. ReviewMode \in {"lightweight", "primary"} BY <1>9 DEF RequestReview, CanReview
    <2>3. draft' = [key |-> Key, url |-> obs.url, tier |-> ReviewMode]
      BY <1>9 DEF RequestReview
    <2>4. draft' \in Drafts BY <2>1, <2>2, <2>3 DEF Drafts
    <2>5. draft'.url = obs.url BY <2>3
    <2>6. draft' # NoDraft
      <3>1. obs.url # Nothing BY <2>1, PagesDiffer DEF Pages
      <3> QED BY <2>5, <3>1 DEF NoDraft
    <2>7. CardsTyped' BY <1>0, <1>9, <2>4 DEF CardsTyped, RequestReview
    <2>8. pc' \in {"review", "end"} /\ (pc' = "review" => ~(errors' >= MaxErrors))
      BY <1>0, <2>6 DEF Route
    <2>9. pc' = "review" => errors' < MaxErrors BY <1>5, <2>8, NumbersOfLimits
    <2>10. obs'.low = obs.low /\ obs'.lows = obs.lows BY <1>0 DEF observation
    <2>11. pc' = "review" => ~obs.low
      BY <1>9 DEF Limits, BlankIsDecided, RequestReview, Executing
    <2>12. BlankIsDecided'
      BY <2>8, <2>10, <2>11 DEF BlankIsDecided
    <2>13. Limits'
      BY <2>1, <2>5, <2>8, <2>9, <2>10, <2>12
         DEF Limits, ErrorsLeft, BlanksLeft, FollowsUpFirst, ActionIsChosen, DraftIsReal
    <2> QED BY <1>3, <1>4, <1>6, <2>7, <2>13 DEF Typed
  <1> QED BY <1>7, <1>8, <1>9

\* A review leaves the limits alone: its screen was not blank.
LEMMA ReviewedTyped ==
  ASSUME Typed, Limits, LedgerInv, CompleteReview \/ ContinueReview \/ RejectReview
  PROVE  Typed' /\ Limits'
  <1>0. /\ ViewTyped /\ ActionTyped /\ ProgressTyped /\ CardsTyped
        /\ pc = "review" /\ draft.url \in Pages /\ errors < MaxErrors /\ ~obs.low
    BY DEF Typed, Limits, DraftIsReal, ErrorsLeft, BlankIsDecided, CompleteReview,
           ContinueReview, RejectReview, Reviewed
  <1>1. PICK status \in {"complete", "needs_more", "source_incomplete", "invalid_target"} :
          Reviewed(status)
    BY DEF CompleteReview, ContinueReview, RejectReview
  <1>2. draft.key \in Cards \cup {Nothing} /\ draft.tier \in {"lightweight", "primary", Nothing}
    BY <1>0 DEF CardsTyped, Drafts
  <1>3. review' \in Reviews
    BY <1>0, <1>1, <1>2, ReviewTyped DEF Reviewed, Verifications
  <1>4. draft' \in Drafts BY <1>1, NothingTyped DEF Reviewed
  <1>5. /\ UNCHANGED <<browser, observation, pending, transition, progress, target>>
        /\ pc' \in {"end", "decide"}
    BY <1>1 DEF Reviewed
  <1>6. queue' \in [Cards -> Statuses]
    BY <1>0, SettledTyped DEF CompleteReview, ContinueReview, RejectReview, CardsTyped, Statuses
  <1>7. captures' \subseteq [url : Pages, key : Cards \cup {Nothing}]
    BY <1>0, <1>2 DEF CompleteReview, ContinueReview, RejectReview, CardsTyped
  <1>8. buffer' \in Buffers
    BY <1>0, NothingTyped DEF CompleteReview, ContinueReview, RejectReview, CardsTyped
  <1>9. reason' \in Reasons
    BY <1>0, FinishTyped DEF CompleteReview, ContinueReview, RejectReview, CardsTyped
  <1>10. CardsTyped' BY <1>0, <1>3, <1>4, <1>5, <1>6, <1>7, <1>8, <1>9 DEF CardsTyped
  <1>11. Limits'
    BY <1>0, <1>5
       DEF Limits, ErrorsLeft, BlanksLeft, FollowsUpFirst, BlankIsDecided, ActionIsChosen,
           DraftIsReal, observation, progress
  <1> QED BY <1>5, <1>10, <1>11, PartsKept DEF Typed

\* Every step keeps the types and the limits.
LEMMA TypedStep ==
  ASSUME Typed, Limits, OpenIsJudged, LedgerInv, [Next]_vars
  PROVE  Typed' /\ Limits'
  <1>1. CASE Watching
    BY <1>1, CaptureStep, InspectStep, PassingStep, OcrStep, CompleteStep DEF Watching, Observe
  <1>2. CASE UNCHANGED vars
    <2>1. Typed' BY <1>2, PartsKept DEF vars, Typed
    <2>2. Limits'
      BY <1>2 DEF vars, Limits, ErrorsLeft, BlanksLeft, FollowsUpFirst, FollowsUp,
                  BlankIsDecided, ActionIsChosen, DraftIsReal, observation, progress, collection
    <2> QED BY <2>1, <2>2
  <1> QED
    BY <1>1, <1>2, NextSteps, ChoosingTyped, DuplicateTyped, ScreenActionTyped,
       FailedActionTyped, FailedCallTyped, CommandTyped, ReviewedTyped DEF Ended, Acting

\* Observing, a verdict closes the request or leaves it to the OCR.
LEMMA OpenWatching ==
  ASSUME Typed, Limits, OpenIsJudged, Watching
  PROVE  OpenIsJudged'
  <1> USE DEF OpenIsJudged, FollowsUp, observation, transition, progress, collection
  <1>0. obs \in Observations /\ review \in Reviews BY DEF Typed, ViewTyped, CardsTyped
  <1>1. CASE Capture
    <2>1. PICK shown \in Fronts, front \in Fronts, low \in BOOLEAN, read \in BOOLEAN :
            LET wanted == obs.stale \/ request # NoRequest
                url == IF read THEN front ELSE obs.url
                kept == IF obs.ocr THEN [url |-> obs.url, role |-> obs.role] ELSE prev
            IN  /\ shown # screen => front = shown
                /\ read => wanted
                /\ wanted /\ ~UrlMayFail => read
                /\ screen' = front
                /\ arriving' = IF front = screen THEN arriving ELSE Nothing
                /\ prev' = kept
                /\ obs' = [shown |-> shown, url |-> url, stale |-> wanted /\ ~read,
                           ocr |-> FALSE, low |-> low,
                           lows |-> IF low THEN obs.lows + 1 ELSE 0,
                           role |-> IF request.action = "scroll" /\ url = kept.url
                                    THEN kept.role ELSE ""]
      BY <1>1, Zenon DEF Capture
    <2>2. ~obs'.ocr BY <2>1
    <2>3. pc = "capture" /\ pc' = "inspect" /\ UNCHANGED <<request, last, review>>
      BY <1>1, Zenon DEF Capture
    <2> QED BY <2>2, <2>3
  <1>2. CASE InspectNothing BY <1>2 DEF InspectNothing
  <1>3. CASE InspectChange
    <2>1. result'.status = "needs_ocr" BY <1>3 DEF InspectChange, Result
    <2> QED BY <1>3, <2>1 DEF InspectChange
  <1>4. CASE InspectNoChange BY <1>4 DEF InspectNoChange, Judge
  <1>5. CASE FollowUp BY <1>5 DEF FollowUp
  <1>6. CASE SelectWait BY <1>6 DEF SelectWait, Selecting
  <1>7. CASE SelectNothing BY <1>7 DEF SelectNothing, Selecting, Onward
  <1>8. CASE SkipReplay BY <1>8 DEF SkipReplay
  <1>9. CASE Ocr
    <2>1. ~obs.low BY <1>9 DEF Ocr, Limits, BlankIsDecided
    <2>2. pc = "ocr" /\ review'.status = review.status /\ UNCHANGED <<request, last, result>>
      BY <1>0, <1>9 DEF Ocr, Reviews
    <2>3. pc' = IF request # NoRequest /\ result.status = "needs_ocr"
                THEN "complete" ELSE "reselect"
      BY <1>9 DEF Ocr
    <2> QED BY <2>1, <2>2, <2>3
  <1>10. CASE Complete BY <1>10 DEF Complete, Judge
  <1> QED
    BY <1>1, <1>2, <1>3, <1>4, <1>5, <1>6, <1>7, <1>8, <1>9, <1>10 DEF Watching, Observe

LEMMA OpenStep ==
  ASSUME Typed, Limits, OpenIsJudged, LedgerInv, [Next]_vars
  PROVE  OpenIsJudged'
  <1> USE DEF OpenIsJudged, FollowsUp
  <1>1. CASE Watching BY <1>1, OpenWatching
  <1>2. CASE Choosing
    <2>1. /\ pc' = "execute" /\ pc # "end"
          /\ UNCHANGED <<request, last, review>>
      BY <1>2, ChoosingStep
         DEF Choosing, SelectStop, SelectNavigation, SelectCard, ReplayStep, Reason, ReasonStop,
             transition, progress, collection, Selecting, MayReplay
    <2>2. pending'.action = "review" => pc = "reason"
      BY <1>2 DEF Choosing, SelectStop, SelectNavigation, IsNavigation, NavigationStep,
                  SelectCard, ReplayStep, Reason, ReasonStop, Choose
    <2> QED BY <2>1, <2>2
  <1>3. CASE SelectDuplicate
    BY <1>3 DEF SelectDuplicate, Selecting, Onward, collection
  <1>4. CASE Execute
    <2>1. /\ pc = "execute" /\ Route /\ UNCHANGED review
          /\ Record(pending.action)
          /\ pending.action = "review" => request' = request
          /\ pending.action # "review" => draft' = draft
      BY <1>4 DEF Execute, ExecuteScreenAction, FailScreenAction, HalfExecute,
                  SkipSubmittedSearch, SetQueue, RequestReview, FailStateAction, FinishTask,
                  Executing, Interactions, collection
    <2>2. draft = NoDraft BY <2>1 DEF LedgerInv, DraftIsReviewed
    <2>3. last'.action = pending.action BY <2>1 DEF Record
    <2>4. /\ pc' \in {"end", "review", "capture", "decide"}
          /\ pc' = "review" => draft' # NoDraft
          /\ pc' = "decide" => request' = NoRequest
      BY <2>1 DEF Route
    <2>5. CASE pending.action = "review"
      <3>1. request' = NoRequest BY <2>1, <2>5
      <3> QED BY <2>4, <3>1
    <2>6. CASE pending.action # "review" BY <2>1, <2>2, <2>3, <2>4, <2>6
    <2> QED BY <2>5, <2>6
  <1>5. CASE Review
    BY <1>5 DEF Review, CompleteReview, ContinueReview, RejectReview, Reviewed, transition
  <1>6. CASE UNCHANGED vars
    BY <1>6 DEF vars, observation, transition, progress, collection
  <1> QED
    BY <1>1, <1>2, <1>3, <1>4, <1>5, <1>6, NextSteps DEF Acting, Execute, Review, Ended

\* For any cards, postings and limits, a run keeps its types and stays within
\* its limits: at most max_errors errors and one more, at most as many blank
\* captures in a row as configured (low_information_max_capture_cycles), and no
\* more replayed rule steps and model calls than it may make.
THEOREM WorkerTypeCorrect == Spec => []TypeOK
  <1>1. LedgerInv /\ Typed /\ Limits /\ OpenIsJudged /\ [Next]_vars =>
            LedgerInv' /\ Typed' /\ Limits' /\ OpenIsJudged'
    BY LedgerStep, TypedStep, OpenStep
  <1>2. Init => OpenIsJudged BY DEF Init, OpenIsJudged
  <1> QED BY <1>1, <1>2, LedgerInit, TypedInit, TypedIsTypeOK, PTL DEF Spec
-----------------------------------------------------------------------------
(***************************************************************************)
(* No decision is stranded, and no tab is closed without cause.  Both rest *)
(* on what the verdict on the last action says while the run decides.      *)
(***************************************************************************)

\* A verdict stays open only on a blank screen, which leaves for a new capture
\* or for the end of the run before any other decision.
PendingIsBlank ==
    result.status = "pending" => obs.low \/ pc \in {"capture", "inspect", "end"}

\* While the run decides, what is known to have had no effect is what the last
\* verdict was about, and no action waits for its verdict.
EffectIsJudged ==
    noEffect # Nothing /\ pc \notin {"capture", "end"} =>
        /\ pc # "inspect" /\ request = NoRequest
        /\ result.action = noEffect /\ (result.same \/ result.existing)

Judged == NeverStranded /\ PendingIsBlank /\ EffectIsJudged

\* At the start nothing was judged.
LEMMA JudgedInit == Init => Judged
  BY DEF Init, Judged, NeverStranded, PendingIsBlank, EffectIsJudged

\* A verdict closes the request and names its action if it had no effect.
LEMMA JudgeSays ==
  ASSUME NEW status \in {"ready", "unknown"}, NEW same \in BOOLEAN, Judge(status, same)
  PROVE  /\ result'.status # "pending" /\ request' = NoRequest
         /\ noEffect' # Nothing => result'.action = noEffect' /\ result'.same
  BY DEF Judge, Result

\* A new verdict is about the request it closes; without one, nothing changes.
LEMMA JudgedWatching ==
  ASSUME Typed, Judged, Watching
  PROVE  Judged'
  <1> USE DEF Judged, NeverStranded, PendingIsBlank, EffectIsJudged, browser, observation,
              transition, progress, collection, Selecting, Onward
  <1>1. CASE Capture BY <1>1 DEF Capture
  <1>2. CASE InspectNothing
    <2>1. /\ pc = "inspect" /\ pc' = "decide" /\ obs' = obs /\ noEffect' = noEffect
          /\ obs.low \/ request = NoRequest
          /\ result' = Result(request, IF request = NoRequest THEN "idle" ELSE "pending", FALSE)
      BY <1>2 DEF InspectNothing
    <2>2. result'.status = IF request = NoRequest THEN "idle" ELSE "pending"
      BY <2>1 DEF Result
    <2> QED BY <2>1, <2>2
  <1>3. CASE InspectChange
    <2>1. result'.status = "needs_ocr" BY <1>3 DEF InspectChange, Result
    <2> QED BY <1>3, <2>1 DEF InspectChange
  <1>4. CASE InspectNoChange
    BY <1>4, JudgeSays DEF InspectNoChange
  <1>5. CASE FollowUp BY <1>5 DEF FollowUp
  <1>6. CASE SelectWait BY <1>6 DEF SelectWait
  <1>7. CASE SelectNothing BY <1>7 DEF SelectNothing
  <1>8. CASE SkipReplay BY <1>8 DEF SkipReplay
  <1>9. CASE Ocr
    <2>1. obs' = [obs EXCEPT !.ocr = TRUE, !.role = RoleOf(obs.url)] BY <1>9 DEF Ocr
    <2>2. obs'.low = obs.low
      BY <2>1 DEF Typed, ViewTyped, Observations
    <2> QED BY <1>9, <2>2 DEF Ocr
  <1>10. CASE Complete
    <2>1. PICK status \in {"ready", "unknown"}, same \in BOOLEAN : Judge(status, same)
      BY <1>10 DEF Complete
    <2> QED BY <1>10, <2>1, JudgeSays DEF Complete
  <1> QED
    BY <1>1, <1>2, <1>3, <1>4, <1>5, <1>6, <1>7, <1>8, <1>9, <1>10 DEF Watching, Observe

\* Choosing an action leaves the verdict as it is.
LEMMA JudgedChoosing ==
  ASSUME Judged, Choosing
  PROVE  Judged'
  <1>1. /\ pc \notin {"capture", "inspect", "end"} /\ pc' = "execute"
        /\ UNCHANGED <<observation, transition>>
    <2> USE DEF Choosing, Selecting, Choose, observation, transition
    <2>1. CASE SelectStop BY <2>1 DEF SelectStop
    <2>2. CASE SelectNavigation BY <2>2 DEF SelectNavigation
    <2>3. CASE \E c \in Cards : SelectCard(c) BY <2>3 DEF SelectCard
    <2>4. CASE ReplayStep BY <2>4 DEF ReplayStep, MayReplay
    <2>5. CASE Reason BY <2>5 DEF Reason
    <2>6. CASE ReasonStop BY <2>6 DEF ReasonStop
    <2> QED BY <2>1, <2>2, <2>3, <2>4, <2>5, <2>6
  <1> QED
    BY <1>1 DEF Judged, NeverStranded, PendingIsBlank, EffectIsJudged, observation, transition

\* A known posting is a verdict of its own.
LEMMA JudgedDuplicate ==
  ASSUME Typed, Judged, SelectDuplicate
  PROVE  Judged'
  <1>1. /\ pc \notin {"capture", "inspect", "end"} /\ pc' \in {"end", "prepare", "choose"}
        /\ request' = NoRequest /\ noEffect' = noEffect
        /\ result' = [result EXCEPT !.status = "ready", !.same = FALSE, !.existing = TRUE]
    BY DEF SelectDuplicate, Selecting, Onward
  <1>2. result'.status = "ready" /\ result'.existing /\ result'.action = result.action
    BY <1>1 DEF Typed, ActionTyped, Outcomes
  <1> QED BY <1>1, <1>2 DEF Judged, NeverStranded, PendingIsBlank, EffectIsJudged

\* Every execution routes on, on the screen that was captured; a draft is
\* reviewed, a finished run ends, and only an action on the screen makes a
\* request.
LEMMA ExecuteRoutes ==
  ASSUME Typed, LedgerInv, Execute
  PROVE  /\ pc = "execute" /\ Route /\ noEffect' = noEffect /\ obs'.low = obs.low
         /\ pending.action # "review" => draft' = NoDraft
         /\ pending.action = "review" => request' = request
         /\ pending.action = "finish" => pc' = "end"
         /\ calls' = calls /\ replay' = replay
  <1>1. draft = NoDraft \/ pc # "execute" BY DEF LedgerInv, DraftIsReviewed
  <1>2. obs \in Observations BY DEF Typed, ViewTyped
  <1> USE <1>1 DEF Executing, observation, transition, collection, Interactions
  <1>3. CASE ExecuteScreenAction
    BY <1>2, <1>3 DEF ExecuteScreenAction, Observations
  <1>4. CASE FailScreenAction BY <1>4 DEF FailScreenAction
  <1>5. CASE HalfExecute BY <1>2, <1>5 DEF HalfExecute, Observations
  <1>6. CASE SkipSubmittedSearch \/ FailStateAction
    BY <1>6 DEF SkipSubmittedSearch, FailStateAction
  <1>7. CASE SetQueue BY <1>7 DEF SetQueue
  <1>8. CASE RequestReview BY <1>8 DEF RequestReview
  <1>9. CASE FinishTask
    <2>1. reason' # "" BY <1>9 DEF FinishTask
    <2> QED BY <1>9, <2>1 DEF FinishTask, Route
  <1> QED BY <1>3, <1>4, <1>5, <1>6, <1>7, <1>8, <1>9 DEF Execute

\* After an execution the run waits for a verdict, or the last one still holds.
LEMMA JudgedExecute ==
  ASSUME Typed, Limits, LedgerInv, Judged, Execute
  PROVE  Judged'
  <1>1. /\ pc = "execute" /\ Route /\ noEffect' = noEffect /\ obs'.low = obs.low
        /\ pending.action # "review" => draft' = NoDraft
        /\ pending.action = "review" => request' = request
        /\ pending.action = "finish" => pc' = "end"
    BY ExecuteRoutes
  <1>2. pc' \in {"end", "review", "capture", "decide"} BY <1>1 DEF Route
  <1>3. CASE request' = NoRequest
    <2>1. result' = result BY <1>1, <1>3 DEF Route
    <2>2. result.status = "pending" => pc' = "end"
      BY <1>1 DEF Judged, PendingIsBlank, Limits, BlankIsDecided
    <2> QED
      BY <1>1, <1>2, <1>3, <2>1, <2>2
         DEF Judged, NeverStranded, PendingIsBlank, EffectIsJudged
  <1>4. CASE request' # NoRequest
    <2>1. result'.status = "waiting" BY <1>1, <1>4 DEF Route, Result
    <2>2. CASE pending.action = "review"
      BY <1>1, <1>2, <1>4, <2>1, <2>2
         DEF Judged, NeverStranded, PendingIsBlank, EffectIsJudged
    <2>3. CASE pending.action # "review"
      <3>1. pc' \in {"end", "capture"} BY <1>1, <1>4, <2>3 DEF Route
      <3> QED
        BY <2>1, <3>1 DEF Judged, NeverStranded, PendingIsBlank, EffectIsJudged
    <2> QED BY <2>2, <2>3
  <1> QED BY <1>3, <1>4

\* A review leaves the verdict as it is.
LEMMA JudgedReview ==
  ASSUME Limits, Judged, Review
  PROVE  Judged'
  <1>1. /\ pc = "review" /\ pc' \in {"end", "decide"} /\ UNCHANGED <<observation, transition>>
    BY DEF Review, CompleteReview, ContinueReview, RejectReview, Reviewed
  <1> QED
    BY <1>1 DEF Judged, NeverStranded, PendingIsBlank, EffectIsJudged, observation, transition

WorkerInv == LedgerInv /\ Typed /\ Limits /\ OpenIsJudged /\ Judged

\* The invariants of a run are inductive together.
LEMMA WorkerStep ==
  ASSUME WorkerInv, [Next]_vars
  PROVE  WorkerInv'
  <1> USE DEF WorkerInv
  <1>1. LedgerInv' /\ Typed' /\ Limits' /\ OpenIsJudged' BY LedgerStep, TypedStep, OpenStep
  <1>2. CASE UNCHANGED vars
    BY <1>1, <1>2 DEF vars, Judged, NeverStranded, PendingIsBlank, EffectIsJudged, observation,
                transition
  <1>3. CASE Next
    <2>1. Judged'
      BY <1>3, NextSteps, JudgedWatching, JudgedChoosing, JudgedDuplicate,
         JudgedExecute, JudgedReview DEF Ended, Acting, Execute, Review,
         vars, Judged, NeverStranded, PendingIsBlank, EffectIsJudged
    <2> QED BY <1>1, <2>1
  <1> QED BY <1>1, <1>2, <1>3

LEMMA WorkerInvariant == Spec => []WorkerInv
  <1>1. Init => WorkerInv
    BY LedgerInit, TypedInit, JudgedInit DEF WorkerInv, Init, OpenIsJudged
  <1>2. WorkerInv /\ [Next]_vars => WorkerInv' BY WorkerStep
  <1> QED BY <1>1, <1>2, PTL DEF Spec

\* For any cards, postings and limits, a decision always has a route: the
\* RuntimeError at the end of route_after_decision is never raised.
THEOREM DecisionsHaveRoutes == Spec => []NeverStranded
  <1>1. WorkerInv => NeverStranded BY DEF WorkerInv, Judged
  <1> QED BY <1>1, WorkerInvariant, PTL

\* For any cards, postings and limits, a tab is closed only when going back was
\* judged to have changed nothing, or its page to be a known posting.
THEOREM TabsAreClosedLast == Spec => CloseOnlyAfterFailedBack
  <1>1. ASSUME WorkerInv, Next, ClosesTab
        PROVE  result.action = "go_back" /\ (result.same \/ result.existing)
    <2>1. pc = "execute" /\ pending.action = "close_tab" /\ request' # request
      BY <1>1 DEF ClosesTab
    <2>2. ExecuteScreenAction
      <3>1. ~FailScreenAction
        <4>1. pending.source # "reflex"
          BY <1>1, <2>1 DEF WorkerInv, Limits, ActionIsChosen
        <4> QED BY <2>1, <4>1 DEF FailScreenAction
      <3>2. ~HalfExecute BY <2>1 DEF HalfExecute, Executing
      <3>3. ~SkipSubmittedSearch BY <2>1 DEF SkipSubmittedSearch, Executing
      <3>4. ~(SetQueue \/ RequestReview \/ FailStateAction \/ FinishTask)
        BY <2>1 DEF SetQueue, RequestReview, FailStateAction, FinishTask, Executing
      <3>5. ~Watching BY <2>1, WatchingStep
      <3>6. ~Choosing BY <2>1, ChoosingStep
      <3>7. ~(SelectDuplicate \/ CompleteReview \/ RejectReview \/ ContinueReview \/ Ended)
        BY <2>1 DEF SelectDuplicate, Selecting, CompleteReview, RejectReview, ContinueReview,
                    Reviewed, Ended
      <3> QED BY <1>1, <3>1, <3>2, <3>3, <3>4, <3>5, <3>6, <3>7, NextSteps DEF Acting
    <2>3. noEffect = "go_back" BY <2>1, <2>2 DEF ExecuteScreenAction, Blocked
    <2>4. noEffect # Nothing BY <2>3, NothingIsChosen DEF Actions, Interactions
    <2> QED BY <1>1, <2>1, <2>3, <2>4 DEF WorkerInv, Judged, EffectIsJudged
  <1>2. WorkerInv /\ [Next]_vars =>
            [ClosesTab => result.action = "go_back" /\ (result.same \/ result.existing)]_vars
    BY <1>1
  <1> QED BY <1>2, WorkerInvariant, PTL DEF Spec, CloseOnlyAfterFailedBack
-----------------------------------------------------------------------------
(***************************************************************************)
(* No step is free.  A step that spends neither a call nor a rule step is  *)
(* one that fixed policies chose: it opens or settles a card, or goes back *)
(* once and closes the tab once, because the verdict it chose by is about  *)
(* the last action; or it fails, waits for a blank screen, or goes on.     *)
(***************************************************************************)

\* Who may have chosen what is executed; a way back is a new one.
PolicyMoves ==
    pc = "execute" =>
        \/ pending.source \in {"llm", "reflex"} \/ pending.action = "finish"
        \/ pending.action = "interact" /\ pending.card \in Cards
        \/ /\ pending.card = Nothing
           /\ \/ pending.action = "go_back" /\ result.action \notin {"go_back", "close_tab"}
              \/ pending.action = "close_tab" /\ result.action = "go_back"

\* The verdict is about the action that waits for it, or about none.
VerdictOnRequest ==
    /\ request # NoRequest => result.action = request.action
    /\ request = NoRequest /\ (pc \in {"capture", "inspect"} \/ (obs.low /\ pc # "end")) =>
           result.action = Nothing
    /\ pc = "complete" => request # NoRequest

AtNode == pc \in DOMAIN NodesLeft

Moves == PolicyMoves /\ VerdictOnRequest /\ AtNode

\* What is left, one by one, is a number.
Countable == /\ CallsLeft \in Nat /\ RulesLeft \in Nat /\ CardsLeft \in Nat
             /\ WaysLeft \in Nat /\ errors \in 0 .. MaxErrors + 1
             /\ CapturesLeft \in Nat /\ NodesLeft[pc] \in Nat

\* A step that spends something, and nothing scarcer grows.
SpendsNode == NodesLeft[pc'] < NodesLeft[pc] /\ CapturesLeft' <= CapturesLeft
SpendsCapture == CapturesLeft' < CapturesLeft \/ SpendsNode
SpendsError == errors' > errors \/ (errors' = errors /\ SpendsCapture)
SpendsWay == WaysLeft' < WaysLeft \/ (WaysLeft' = WaysLeft /\ SpendsError)
SpendsCard == CardsLeft' < CardsLeft \/ (CardsLeft' = CardsLeft /\ SpendsWay)
SpendsRule == RulesLeft' < RulesLeft \/ (RulesLeft' = RulesLeft /\ SpendsCard)
SpendsCall == CallsLeft' < CallsLeft \/ (CallsLeft' = CallsLeft /\ SpendsRule)
Spends == pc' = "end" \/ SpendsCall

\* Eight levels of the lexicographic order, written out.
LEMMA Lexical ==
  ASSUME NEW new, NEW old, DOMAIN old = 1 .. 8,
         \/ new[1] < old[1]
         \/ /\ new[1] = old[1]
            /\ \/ new[2] < old[2]
               \/ /\ new[2] = old[2]
                  /\ \/ new[3] < old[3]
                     \/ /\ new[3] = old[3]
                        /\ \/ new[4] < old[4]
                           \/ /\ new[4] = old[4]
                              /\ \/ new[5] < old[5]
                                 \/ /\ new[5] = old[5]
                                    /\ \/ new[6] < old[6]
                                       \/ /\ new[6] = old[6]
                                          /\ \/ new[7] < old[7]
                                             \/ /\ new[7] = old[7]
                                                /\ new[8] < old[8]
  PROVE  Less(new, old)
  <1>1. \E i \in 1 .. 8 : new[i] < old[i] /\ \A j \in 1 .. i - 1 : new[j] = old[j]
    <2>1. CASE new[1] < old[1]
      BY <2>1
    <2>2. CASE /\ new[1] = old[1] /\ new[2] < old[2]
      BY <2>2
    <2>3. CASE /\ new[1] = old[1] /\ new[2] = old[2] /\ new[3] < old[3]
      BY <2>3
    <2>4. CASE /\ new[1] = old[1] /\ new[2] = old[2] /\ new[3] = old[3] /\ new[4] < old[4]
      BY <2>4
    <2>5. CASE /\ new[1] = old[1] /\ new[2] = old[2] /\ new[3] = old[3] /\ new[4] = old[4]
              /\ new[5] < old[5]
      BY <2>5
    <2>6. CASE /\ new[1] = old[1] /\ new[2] = old[2] /\ new[3] = old[3] /\ new[4] = old[4]
              /\ new[5] = old[5] /\ new[6] < old[6]
      BY <2>6
    <2>7. CASE /\ new[1] = old[1] /\ new[2] = old[2] /\ new[3] = old[3] /\ new[4] = old[4]
              /\ new[5] = old[5] /\ new[6] = old[6] /\ new[7] < old[7]
      BY <2>7
    <2>8. CASE /\ new[1] = old[1] /\ new[2] = old[2] /\ new[3] = old[3] /\ new[4] = old[4]
              /\ new[5] = old[5] /\ new[6] = old[6] /\ new[7] = old[7] /\ new[8] < old[8]
      BY <2>8
    <2> QED BY <2>1, <2>2, <2>3, <2>4, <2>5, <2>6, <2>7, <2>8
  <1> QED BY <1>1 DEF Less

\* What is left of a limit.
LEMMA RestIs ==
  ASSUME NEW limit \in Nat, NEW count \in 0 .. limit, NEW more \in 0 .. limit
  PROVE  /\ Rest(limit, count) \in Nat
         /\ more > count => Rest(limit, more) < Rest(limit, count)
  BY DEF Rest

LEMMA SpentIsLess ==
  ASSUME Countable, Countable', pc # "end", Spends
  PROVE  Less(Left', Left)
  <1>1. EndLeft = 1 /\ EndLeft' \in {0, 1} /\ (pc' = "end" => EndLeft' = 0)
    BY DEF EndLeft
  <1>2. /\ FailuresLeft \in Nat /\ FailuresLeft' \in Nat
        /\ errors' > errors => FailuresLeft' < FailuresLeft
        /\ errors' = errors => FailuresLeft' = FailuresLeft
    <2>1. /\ MaxErrors + 1 \in Nat /\ errors \in 0 .. MaxErrors + 1
          /\ errors' \in 0 .. MaxErrors + 1
      BY NumbersOfLimits DEF Countable
    <2> QED BY <2>1, RestIs DEF FailuresLeft
  <1>3. SpendsError => \/ FailuresLeft' < FailuresLeft
                       \/ /\ FailuresLeft' = FailuresLeft
                          /\ \/ CapturesLeft' < CapturesLeft
                             \/ CapturesLeft' = CapturesLeft /\ NodesLeft[pc'] < NodesLeft[pc]
    BY <1>2 DEF SpendsError, SpendsCapture, SpendsNode, Countable
  <1>4. /\ EndLeft \in Nat /\ EndLeft' \in Nat
        /\ \/ EndLeft' < EndLeft
           \/ /\ EndLeft' = EndLeft
              /\ SpendsCall
    BY <1>1 DEF Spends
  <1>5. \/ EndLeft' < EndLeft
        \/ /\ EndLeft' = EndLeft
           /\ \/ CallsLeft' < CallsLeft
              \/ /\ CallsLeft' = CallsLeft
                 /\ \/ RulesLeft' < RulesLeft
                    \/ /\ RulesLeft' = RulesLeft
                       /\ \/ CardsLeft' < CardsLeft
                          \/ /\ CardsLeft' = CardsLeft
                             /\ \/ WaysLeft' < WaysLeft
                                \/ /\ WaysLeft' = WaysLeft
                                   /\ \/ FailuresLeft' < FailuresLeft
                                      \/ /\ FailuresLeft' = FailuresLeft
                                         /\ \/ CapturesLeft' < CapturesLeft
                                            \/ /\ CapturesLeft' = CapturesLeft
                                               /\ NodesLeft[pc'] < NodesLeft[pc]
    BY <1>3, <1>4, Zenon DEF SpendsCall, SpendsRule, SpendsCard, SpendsWay
  <1>6. /\ DOMAIN Left = 1 .. 8
        /\ Left[1] = EndLeft /\ Left[2] = CallsLeft /\ Left[3] = RulesLeft
        /\ Left[4] = CardsLeft /\ Left[5] = WaysLeft /\ Left[6] = FailuresLeft
        /\ Left[7] = CapturesLeft /\ Left[8] = NodesLeft[pc]
    BY DEF Left
  <1>7. /\ Left'[1] = EndLeft' /\ Left'[2] = CallsLeft' /\ Left'[3] = RulesLeft'
        /\ Left'[4] = CardsLeft' /\ Left'[5] = WaysLeft' /\ Left'[6] = FailuresLeft'
        /\ Left'[7] = CapturesLeft' /\ Left'[8] = NodesLeft[pc']
    BY DEF Left
  <1>8. \/ Left'[1] < Left[1]
        \/ /\ Left'[1] = Left[1]
           /\ \/ Left'[2] < Left[2]
              \/ /\ Left'[2] = Left[2]
                 /\ \/ Left'[3] < Left[3]
                    \/ /\ Left'[3] = Left[3]
                       /\ \/ Left'[4] < Left[4]
                          \/ /\ Left'[4] = Left[4]
                             /\ \/ Left'[5] < Left[5]
                                \/ /\ Left'[5] = Left[5]
                                   /\ \/ Left'[6] < Left[6]
                                      \/ /\ Left'[6] = Left[6]
                                         /\ \/ Left'[7] < Left[7]
                                            \/ /\ Left'[7] = Left[7]
                                               /\ Left'[8] < Left[8]
    BY <1>5, <1>6, <1>7
  <1> QED BY <1>6, <1>8, Lexical

\* The cards that are open can be counted.
LEMMA OpenCards ==
  ASSUME NEW statuses, LedgerTyped
  PROVE  /\ IsFiniteSet(With(queue, statuses)) /\ Cardinality(With(queue, statuses)) \in Nat
         /\ With(queue, statuses) = {} <=> Cardinality(With(queue, statuses)) = 0
  <1>1. With(queue, statuses) \subseteq Cards BY DEF LedgerTyped, With
  <1>2. IsFiniteSet(With(queue, statuses)) BY <1>1, CardsAreFinite, FS_Subset
  <1> QED BY <1>2, FS_CardinalityType, FS_EmptySet

LEMMA LeftCountable ==
  ASSUME Typed, LedgerTyped, AtNode
  PROVE  Countable
  <1>1. CallsLeft \in Nat
    <2>1. Rest(MaxCalls, calls) \in Nat
      BY RestIs, NumbersOfLimits DEF Typed, ProgressTyped
    <2> QED BY <2>1 DEF CallsLeft
  <1>2. RulesLeft \in Nat
    <2>1. Rest(MaxReplays, replay.hits) \in Nat
      BY RestIs, NumbersOfLimits DEF Typed, ProgressTyped, Replays
    <2> QED BY <2>1 DEF RulesLeft
  <1>3. CardsLeft \in Nat
    <2>1. Cardinality(With(queue, {"pending"})) \in Nat /\ Cardinality(Active) \in Nat
      BY OpenCards DEF Active
    <2> QED BY <2>1 DEF CardsLeft
  <1>4. WaysLeft \in Nat BY DEF WaysLeft
  <1>5. errors \in 0 .. MaxErrors + 1 BY DEF Typed, ProgressTyped
  <1>6. CapturesLeft \in Nat
    <2>1. Rest(LowLimit, obs.lows) \in Nat
      BY RestIs, NumbersOfLimits DEF Typed, ViewTyped, Observations
    <2> QED BY <2>1 DEF CapturesLeft
  <1>7. NodesLeft[pc] \in Nat BY DEF AtNode, NodesLeft
  <1> QED BY <1>1, <1>2, <1>3, <1>4, <1>5, <1>6, <1>7 DEF Countable

LEMMA MovesInit == Init => Moves
  <1> SUFFICES ASSUME Init PROVE Moves
    OBVIOUS
  <1>1. pc = "capture" /\ request = NoRequest /\ result = Result(NoRequest, "idle", FALSE)
    BY DEF Init
  <1>2. result.action = Nothing BY <1>1 DEF Result, NoRequest
  <1>3. "capture" \in DOMAIN NodesLeft BY DEF NodesLeft
  <1> QED BY <1>1, <1>2, <1>3 DEF Moves, PolicyMoves, VerdictOnRequest, AtNode

\* A step within the graph that spends no call, rule step or card, and whose
\* verdict, if it has one, is about the action that waited for it.
LEMMA WithinGraph ==
  ASSUME UNCHANGED <<calls, queue>>, replay'.hits = replay.hits,
         pc \notin {"execute", "review"}, pc' # "review",
         pc' = "execute" => pending'.source \notin {"llm", "reflex"}
  PROVE  CallsLeft' = CallsLeft /\ RulesLeft' = RulesLeft /\ CardsLeft' = CardsLeft
  BY DEF CallsLeft, RulesLeft, CardsLeft, Active

LEMMA SameWays == result'.action = result.action => WaysLeft' = WaysLeft
  BY DEF WaysLeft

\* The screen is the one that was captured.
LEMMA SameCaptures ==
  ASSUME obs'.low = obs.low, obs'.lows = obs.lows, pc # "capture", pc' # "capture",
         Countable
  PROVE  CapturesLeft' <= CapturesLeft
  <1>1. CapturesLeft' = CapturesLeft BY DEF CapturesLeft
  <1> QED BY <1>1 DEF Countable

LEMMA SpendsInGraph ==
  ASSUME CallsLeft' = CallsLeft /\ RulesLeft' = RulesLeft /\ CardsLeft' = CardsLeft,
         WaysLeft' = WaysLeft, errors' = errors, SpendsCapture
  PROVE  Spends
  BY DEF Spends, SpendsCall, SpendsRule, SpendsCard, SpendsWay, SpendsError

LEMMA CaptureSpends ==
  ASSUME Typed, Limits, Moves, Countable, Capture
  PROVE  Moves' /\ Spends
  <1>1. /\ pc = "capture" /\ pc' = "inspect" /\ UNCHANGED <<request, result, calls, queue, errors>>
        /\ replay'.hits = replay.hits
    BY DEF Capture, Typed, ProgressTyped, Replays, collection
  <1>2. obs.lows < LowLimit BY <1>1 DEF Limits, BlanksLeft
  <1>3. obs.lows \in 0 .. LowLimit BY DEF Typed, ViewTyped, Observations
  <1>4. \E low \in BOOLEAN : /\ obs'.low = low
                            /\ obs'.lows = (IF low THEN obs.lows + 1 ELSE 0)
    <2>1. PICK shown \in Fronts, front \in Fronts, low \in BOOLEAN, read \in BOOLEAN :
            LET wanted == obs.stale \/ request # NoRequest
                url == IF read THEN front ELSE obs.url
                kept == IF obs.ocr THEN [url |-> obs.url, role |-> obs.role] ELSE prev
            IN  /\ shown # screen => front = shown
                /\ read => wanted
                /\ wanted /\ ~UrlMayFail => read
                /\ screen' = front
                /\ arriving' = IF front = screen THEN arriving ELSE Nothing
                /\ prev' = kept
                /\ obs' = [shown |-> shown, url |-> url, stale |-> wanted /\ ~read,
                           ocr |-> FALSE, low |-> low,
                           lows |-> IF low THEN obs.lows + 1 ELSE 0,
                           role |-> IF request.action = "scroll" /\ url = kept.url
                                    THEN kept.role ELSE ""]
      BY Zenon DEF Capture
    <2>2. obs'.low = low /\ obs'.lows = (IF low THEN obs.lows + 1 ELSE 0) BY <2>1
    <2> QED BY <2>2
  <1>5. CapturesLeft' < CapturesLeft
    <2>1. /\ LowLimit \in Nat /\ obs.lows \in 0 .. LowLimit /\ obs.lows + 1 \in 0 .. LowLimit
          /\ obs.lows + 1 > obs.lows
      BY <1>2, <1>3, NumbersOfLimits
    <2>2. /\ Rest(LowLimit, obs.lows) \in Nat /\ Rest(LowLimit, obs.lows + 1) \in Nat
          /\ Rest(LowLimit, obs.lows + 1) < Rest(LowLimit, obs.lows)
      BY <2>1, RestIs
    <2>3. CapturesLeft = 2 * Rest(LowLimit, obs.lows) + 1 BY <1>1 DEF CapturesLeft
    <2>4. CapturesLeft' = IF obs'.low THEN 2 * Rest(LowLimit, obs'.lows) + 2 ELSE 0
      BY <1>1 DEF CapturesLeft
    <2>5. \/ CapturesLeft' = 2 * Rest(LowLimit, obs.lows + 1) + 2
          \/ CapturesLeft' = 0
      BY <1>4, <2>4
    <2> QED BY <2>2, <2>3, <2>5
  <1>6. CallsLeft' = CallsLeft /\ RulesLeft' = RulesLeft /\ CardsLeft' = CardsLeft
    BY <1>1, WithinGraph
  <1>7. WaysLeft' = WaysLeft BY <1>1, SameWays
  <1>8. Spends BY <1>1, <1>5, <1>6, <1>7, SpendsInGraph DEF SpendsCapture
  <1>9. AtNode' BY <1>1 DEF AtNode, NodesLeft
  <1>10. Moves' BY <1>1, <1>9 DEF Moves, PolicyMoves, VerdictOnRequest
  <1> QED BY <1>8, <1>10

\* A request that waits for its verdict is what the result speaks of already.
LEMMA VerdictIsSame ==
  ASSUME Moves, pc \in {"inspect", "complete"}
  PROVE  request.action = result.action
  BY DEF Moves, VerdictOnRequest, NoRequest

LEMMA JudgeKeeps ==
  ASSUME NEW status, NEW same, Judge(status, same)
  PROVE  request' = NoRequest /\ result'.action = request.action
  BY DEF Judge, Result

\* A step down the graph on the screen that was captured, with at most the
\* verdict that was waited for.
LEMMA OnwardSpends ==
  ASSUME Moves, Countable, UNCHANGED <<calls, queue, errors>>, replay'.hits = replay.hits,
         NodesLeft[pc'] < NodesLeft[pc], pc \notin {"capture", "execute", "review", "end"},
         pc' \in DOMAIN NodesLeft \ {"capture", "inspect", "execute", "review"},
         pc' = "complete" => request' # NoRequest,
         request' = request \/ (request' = NoRequest /\ ~obs.low),
         result'.action = result.action, obs'.low = obs.low, obs'.lows = obs.lows
  PROVE  Moves' /\ Spends
  <1>1. CallsLeft' = CallsLeft /\ RulesLeft' = RulesLeft /\ CardsLeft' = CardsLeft
    BY WithinGraph
  <1>2. WaysLeft' = WaysLeft BY SameWays
  <1>3. CapturesLeft' <= CapturesLeft BY SameCaptures
  <1>4. Spends BY <1>1, <1>2, <1>3, SpendsInGraph DEF SpendsCapture, SpendsNode
  <1>5. PolicyMoves' BY DEF PolicyMoves
  <1>6. AtNode' BY DEF AtNode
  <1>7. VerdictOnRequest' BY DEF Moves, VerdictOnRequest
  <1> QED BY <1>4, <1>5, <1>6, <1>7 DEF Moves

\* The verdicts that need no OCR, the decisions in between, OCR and its verdict.
LEMMA PassingSpends ==
  ASSUME Typed, Limits, Moves, Countable, Watching, ~Capture, ~SelectWait,
         NeverStranded'
  PROVE  Moves' /\ Spends
  <1> DEFINE Down == NodesLeft[pc'] < NodesLeft[pc]
             Goes == /\ pc \notin {"capture", "execute", "review", "end"}
                     /\ pc' \in DOMAIN NodesLeft \ {"capture", "inspect", "execute", "review"}
                     /\ pc' = "complete" => request' # NoRequest
             Keeps == /\ UNCHANGED <<calls, queue, errors>> /\ replay'.hits = replay.hits
                      /\ obs'.low = obs.low /\ obs'.lows = obs.lows
             Judges == /\ request' = request \/ (request' = NoRequest /\ ~obs.low)
                       /\ result'.action = result.action
  <1> SUFFICES Down /\ Goes /\ Keeps /\ Judges
    BY OnwardSpends
  <1>0. replay \in Replays /\ obs \in Observations BY DEF Typed, ProgressTyped, ViewTyped
  <1>1. CASE InspectNothing \/ InspectChange
    <2>1. /\ pc = "inspect" /\ pc' = "decide"
          /\ UNCHANGED <<obs, calls, queue, errors, replay, request>>
      BY <1>1 DEF InspectNothing, InspectChange, observation, progress, collection
    <2>2. result'.action = request.action
      BY <1>1 DEF InspectNothing, InspectChange, Result
    <2> QED BY <2>1, <2>2, VerdictIsSame DEF NodesLeft
  <1>2. CASE InspectNoChange
    <2>1. /\ pc = "inspect" /\ pc' = "decide" /\ UNCHANGED <<calls, queue, errors>>
          /\ ~obs.low /\ Judge("unknown", TRUE)
      BY <1>2 DEF InspectNoChange
    <2>2. obs'.low = obs.low /\ obs'.lows = obs.lows
      BY <1>0, <1>2 DEF InspectNoChange, ReuseOcr, observation, Observations
    <2>3. replay'.hits = replay.hits BY <1>0, <2>1 DEF Judge, Replays
    <2>4. request' = NoRequest /\ result'.action = request.action BY <2>1, JudgeKeeps
    <2>5. result'.action = result.action BY <2>1, <2>4, VerdictIsSame
    <2>6. Down /\ Goes BY <2>1 DEF NodesLeft
    <2> QED BY <2>1, <2>2, <2>3, <2>4, <2>5, <2>6
  <1>3. CASE FollowUp \/ SelectNothing \/ SkipReplay
    <2>1. /\ UNCHANGED <<obs, calls, queue, errors, request, result>>
      BY <1>3 DEF FollowUp, SelectNothing, SkipReplay, observation, transition, progress,
                  collection
    <2>2. replay'.hits = replay.hits
      BY <1>0, <1>3 DEF FollowUp, SelectNothing, SkipReplay, progress, Replays
    <2>3. Down /\ Goes
      <3>1. CASE FollowUp BY <3>1 DEF FollowUp, NodesLeft
      <3>2. CASE SelectNothing
        BY <3>2 DEF SelectNothing, Selecting, Onward, NodesLeft, NeverStranded
      <3>3. CASE SkipReplay BY <3>3 DEF SkipReplay, NodesLeft
      <3> QED BY <1>3, <3>1, <3>2, <3>3
    <2> QED BY <2>1, <2>2, <2>3
  <1>4. CASE Ocr
    <2>1. /\ pc = "ocr" /\ pc' \in {"complete", "reselect"}
          /\ pc' = "complete" => request # NoRequest
          /\ UNCHANGED <<calls, queue, errors, replay, request, result>>
      BY <1>4 DEF Ocr, transition, progress
    <2>2. obs'.low = obs.low /\ obs'.lows = obs.lows
      BY <1>0, <1>4 DEF Ocr, Observations
    <2> QED BY <2>1, <2>2 DEF NodesLeft
  <1>5. CASE Complete
    <2>1. /\ pc = "complete" /\ pc' = "reselect" /\ UNCHANGED <<obs, calls, queue, errors>>
          /\ ~obs.low
      BY <1>5 DEF Complete, observation, collection, Limits, BlankIsDecided
    <2>2. PICK status \in {"ready", "unknown"}, same \in BOOLEAN : Judge(status, same)
      BY <1>5 DEF Complete
    <2>3. replay'.hits = replay.hits BY <1>0, <2>2 DEF Judge, Replays
    <2> QED BY <2>1, <2>2, <2>3, VerdictIsSame, JudgeKeeps DEF NodesLeft
  <1> QED BY <1>1, <1>2, <1>3, <1>4, <1>5 DEF Watching, Observe

\* A blank screen is captured again at the cost of the wait.
LEMMA WaitSpends ==
  ASSUME Typed, Moves, Countable, SelectWait
  PROVE  Moves' /\ Spends
  <1>1. /\ pc \in {"decide", "reselect"} /\ pc' = "capture" /\ obs.low
        /\ UNCHANGED <<obs, request, result, calls, queue, errors, replay>>
    BY DEF SelectWait, Selecting, observation, transition, progress, collection
  <1>2. CallsLeft' = CallsLeft /\ RulesLeft' = RulesLeft /\ CardsLeft' = CardsLeft
    BY <1>1, WithinGraph
  <1>3. WaysLeft' = WaysLeft BY <1>1, SameWays
  <1>4. CapturesLeft' < CapturesLeft
    <2>1. Rest(LowLimit, obs.lows) \in Nat
      BY RestIs, NumbersOfLimits DEF Typed, ViewTyped, Observations
    <2>2. CapturesLeft = 2 * Rest(LowLimit, obs.lows) + 2 BY <1>1 DEF CapturesLeft
    <2>3. CapturesLeft' = 2 * Rest(LowLimit, obs.lows) + 1 BY <1>1 DEF CapturesLeft
    <2> QED BY <2>1, <2>2, <2>3
  <1>5. Spends BY <1>1, <1>2, <1>3, <1>4, SpendsInGraph DEF SpendsCapture
  <1>6. AtNode' BY <1>1 DEF AtNode, NodesLeft
  <1>7. PolicyMoves' /\ VerdictOnRequest'
    BY <1>1 DEF Moves, PolicyMoves, VerdictOnRequest
  <1> QED BY <1>5, <1>6, <1>7 DEF Moves

\* The model is asked at the cost of a call, a rule step is one of those that
\* are left, and a fixed policy chooses what it may choose.
LEMMA ChoosingSpends ==
  ASSUME Typed, Moves, Countable, Choosing
  PROVE  Moves' /\ Spends
  <1>1. /\ pc \notin {"capture", "inspect", "execute", "review", "end"} /\ pc' = "execute"
        /\ UNCHANGED <<obs, request, result, queue>>
    BY DEF Choosing, SelectStop, SelectNavigation, SelectCard, ReplayStep, MayReplay, Reason,
           ReasonStop, Selecting, Choose, observation, transition, collection
  <1>2. Spends
    <2>1. CASE Reason
      <3>1. /\ calls \in Nat /\ calls < MaxCalls /\ calls' = calls + 1 /\ MaxCalls \in Nat
            /\ pending'.source = "llm"
        BY <2>1, NumbersOfLimits DEF Reason, Choose, Typed, ProgressTyped
      <3>2. Rest(MaxCalls, calls + 1) \in Nat /\ Rest(MaxCalls, calls) \in Nat
            /\ Rest(MaxCalls, calls + 1) < Rest(MaxCalls, calls)
        <4>1. calls \in 0 .. MaxCalls /\ calls + 1 \in 0 .. MaxCalls /\ calls + 1 > calls
          BY <3>1
        <4> QED BY <3>1, <4>1, RestIs
      <3>3. CallsLeft = 3 * Rest(MaxCalls, calls) BY <1>1, <3>2 DEF CallsLeft
      <3>4. CallsLeft' = 3 * Rest(MaxCalls, calls + 1) + 2 BY <1>1, <3>1 DEF CallsLeft
      <3>5. CallsLeft' < CallsLeft BY <3>2, <3>3, <3>4
      <3> QED BY <3>5 DEF Spends, SpendsCall
    <2>2. CASE ReplayStep
      <3>1. /\ replay.hits < MaxReplays /\ replay \in Replays /\ calls' = calls
            /\ replay' = [replay EXCEPT !.session = TRUE, !.hits = replay.hits + 1]
            /\ pending'.source = "reflex"
        BY <2>2 DEF ReplayStep, Choose, Typed, ProgressTyped
      <3>2. /\ replay.hits \in 0 .. MaxReplays /\ replay'.hits = replay.hits + 1
        BY <3>1 DEF Replays
      <3>3. Rest(MaxReplays, replay.hits + 1) \in Nat /\ Rest(MaxReplays, replay.hits) \in Nat
            /\ Rest(MaxReplays, replay.hits + 1) < Rest(MaxReplays, replay.hits)
        <4>1. /\ replay.hits + 1 \in 0 .. MaxReplays /\ replay.hits + 1 > replay.hits
              /\ MaxReplays \in Nat
          BY <3>1, <3>2, NumbersOfLimits
        <4> QED BY <3>2, <4>1, RestIs
      <3>4. RulesLeft = 2 * Rest(MaxReplays, replay.hits) BY <1>1, <3>3 DEF RulesLeft
      <3>5. RulesLeft' = 2 * Rest(MaxReplays, replay.hits + 1) + 1
        BY <1>1, <3>1, <3>2 DEF RulesLeft
      <3>6. RulesLeft' < RulesLeft BY <3>3, <3>4, <3>5
      <3>7. CallsLeft' = CallsLeft BY <1>1, <3>1 DEF CallsLeft
      <3> QED BY <3>6, <3>7 DEF Spends, SpendsCall, SpendsRule
    <2>3. CASE SelectStop \/ SelectNavigation \/ (\E c \in Cards : SelectCard(c)) \/ ReasonStop
      <3>1. /\ UNCHANGED <<calls, queue, errors>> /\ replay'.hits = replay.hits
            /\ pending'.source \notin {"llm", "reflex"}
        <4>1. replay \in Replays BY DEF Typed, ProgressTyped
        <4> QED BY <2>3, <4>1 DEF SelectStop, SelectNavigation, SelectCard, ReasonStop, Choose,
                                 progress, collection, Replays
      <3>2. CallsLeft' = CallsLeft /\ RulesLeft' = RulesLeft /\ CardsLeft' = CardsLeft
        BY <1>1, <3>1, WithinGraph
      <3>3. WaysLeft' = WaysLeft BY <1>1, SameWays
      <3>4. CapturesLeft' <= CapturesLeft BY <1>1, SameCaptures
      <3>5. NodesLeft[pc'] < NodesLeft[pc] BY <1>1 DEF Moves, AtNode, NodesLeft
      <3> QED BY <3>1, <3>2, <3>3, <3>4, <3>5, SpendsInGraph DEF SpendsCapture, SpendsNode
    <2> QED BY <2>1, <2>2, <2>3 DEF Choosing
  <1>3. PolicyMoves'
    <2>1. CASE Reason \/ ReplayStep
      BY <2>1 DEF Reason, ReplayStep, Choose, PolicyMoves
    <2>2. CASE SelectStop \/ ReasonStop
      BY <2>2 DEF SelectStop, ReasonStop, Choose, PolicyMoves
    <2>3. CASE SelectNavigation
      BY <1>1, <2>3 DEF SelectNavigation, IsNavigation, NavigationStep, FailedBack, Choose,
                        PolicyMoves
    <2>4. CASE \E c \in Cards : SelectCard(c)
      BY <2>4 DEF SelectCard, Choose, PolicyMoves
    <2> QED BY <2>1, <2>2, <2>3, <2>4 DEF Choosing
  <1>4. VerdictOnRequest' BY <1>1 DEF Moves, VerdictOnRequest
  <1>5. AtNode' BY <1>1 DEF AtNode, NodesLeft
  <1> QED BY <1>2, <1>3, <1>4, <1>5 DEF Moves

\* Settling leaves no card active and the pending ones as they are.
LEMMA SettlingSpends ==
  ASSUME LedgerTyped, NEW status \in Statuses \ {"pending", "active"},
         queue' = SettleActive(queue, status), Active # {}
  PROVE  CardsLeft' < CardsLeft
  <1>1. With(queue', {"active"}) = {} /\ With(queue', {"pending"}) = With(queue, {"pending"})
    BY DEF LedgerTyped, With, SettleActive
  <1>2. /\ Cardinality(With(queue, {"pending"})) \in Nat
        /\ Cardinality(Active) \in Nat /\ Cardinality(Active) # 0
    BY OpenCards DEF Active
  <1>3. /\ Cardinality(Active') = 0
        /\ Cardinality(With(queue', {"pending"})) = Cardinality(With(queue, {"pending"}))
    BY <1>1, FS_EmptySet DEF Active
  <1> QED BY <1>2, <1>3 DEF CardsLeft

LEMMA DuplicateSpends ==
  ASSUME LedgerTyped, Moves, Countable, SelectDuplicate
  PROVE  Moves' /\ Spends
  <1>1. /\ pc \in {"decide", "reselect"} /\ pc' \in {"end", "prepare", "choose"}
        /\ UNCHANGED <<obs, calls, replay>> /\ ~obs.low /\ request' = NoRequest
    BY DEF SelectDuplicate, Selecting, Onward, observation, progress
  <1>2. CardsLeft' < CardsLeft
    <2>1. PICK status \in {"skipped", "known"} : queue' = SettleActive(queue, status)
      BY DEF SelectDuplicate
    <2>2. Active # {} BY DEF SelectDuplicate, IsDuplicate
    <2>3. status \in Statuses \ {"pending", "active"} BY DEF Statuses
    <2> QED BY <2>1, <2>2, <2>3, SettlingSpends
  <1>3. CallsLeft' = CallsLeft /\ RulesLeft' = RulesLeft BY <1>1 DEF CallsLeft, RulesLeft
  <1>4. Spends BY <1>2, <1>3 DEF Spends, SpendsCall, SpendsRule, SpendsCard
  <1>5. PolicyMoves' /\ VerdictOnRequest' BY <1>1 DEF PolicyMoves, VerdictOnRequest
  <1>6. AtNode' BY <1>1 DEF AtNode, NodesLeft
  <1> QED BY <1>4, <1>5, <1>6 DEF Moves

\* A review is the last thing that a model call set off.
LEMMA ReviewSpends ==
  ASSUME Typed, Moves, Review
  PROVE  Moves' /\ Spends
  <1>1. /\ pc = "review" /\ pc' \in {"end", "decide"}
        /\ UNCHANGED <<obs, request, result, calls>>
    BY DEF Review, CompleteReview, ContinueReview, RejectReview, Reviewed, observation,
           transition, progress
  <1>2. CallsLeft' < CallsLeft
    <2>1. Rest(MaxCalls, calls) \in Nat
      BY RestIs, NumbersOfLimits DEF Typed, ProgressTyped
    <2>2. CallsLeft = 3 * Rest(MaxCalls, calls) + 1 BY <1>1 DEF CallsLeft
    <2>3. CallsLeft' = 3 * Rest(MaxCalls, calls) BY <1>1, <2>1 DEF CallsLeft
    <2> QED BY <2>1, <2>2, <2>3
  <1>3. Spends BY <1>2 DEF Spends, SpendsCall
  <1>4. PolicyMoves' /\ VerdictOnRequest' BY <1>1 DEF Moves, PolicyMoves, VerdictOnRequest
  <1>5. AtNode' BY <1>1 DEF AtNode, NodesLeft
  <1> QED BY <1>3, <1>4, <1>5 DEF Moves

\* Opening the chosen card costs a card, going back a way; failing to, an error.
LEMMA PolicySpends ==
  ASSUME Typed, LedgerInv, Moves, Countable, Execute,
         CallsLeft' = CallsLeft, RulesLeft' = RulesLeft,
         pending.source \notin {"llm", "reflex"}, pending.action # "finish"
  PROVE  Spends
  <1>0. /\ pc = "execute" /\ Route
        /\ pending.action \in {"interact", "go_back", "close_tab"}
        /\ pending.card # Nothing => pending.card \in Cards
        /\ queue \in [Cards -> Statuses] /\ LedgerTyped
    BY ExecuteRoutes DEF LedgerInv, LedgerTyped, CardInHand, Moves, PolicyMoves
  <1>1. ExecuteScreenAction \/ FailScreenAction
    BY <1>0 DEF Execute, HalfExecute, SkipSubmittedSearch, SetQueue, RequestReview,
                FailStateAction, FinishTask, Executing
  <1>2. CASE FailScreenAction
    <2>1. /\ request' = request /\ queue' = queue /\ errors' = errors + 1
          /\ errors \in 0 .. MaxErrors + 1
      BY <1>2 DEF FailScreenAction, collection, Typed, ProgressTyped
    <2>2. result'.action = result.action
      BY <1>0, <2>1 DEF Route, Result, Moves, VerdictOnRequest
    <2>3. WaysLeft' = WaysLeft BY <2>2, SameWays
    <2>4. CardsLeft' = CardsLeft BY <2>1 DEF CardsLeft, Active
    <2>5. errors' > errors BY <2>1, NumbersOfLimits
    <2> QED BY <2>3, <2>4, <2>5
            DEF Spends, SpendsCall, SpendsRule, SpendsCard, SpendsWay, SpendsError
  <1>3. CASE ExecuteScreenAction
    <2>1. queue' = [c \in Cards |-> IF c = pending.card /\ queue[c] = "pending"
                                    THEN "active" ELSE queue[c]]
      BY <1>3 DEF ExecuteScreenAction
    <2>2. CASE pending.card # Nothing
      <3> DEFINE c == pending.card
                 waiting == With(queue, {"pending"})
      <3>1. c \in Cards /\ queue[c] = "pending" /\ Active = {}
        BY <1>0, <2>2 DEF LedgerInv, CardInHand
      <3>2. With(queue', {"pending"}) = waiting \ {c} /\ With(queue', {"active"}) = {c}
            /\ c \in waiting
        BY <1>0, <2>1, <3>1 DEF With, Active
      <3>3. /\ IsFiniteSet(waiting) /\ Cardinality(waiting) \in Nat
            /\ Cardinality(Active) = 0
        BY <1>0, <3>1, OpenCards, FS_EmptySet
      <3> HIDE DEF c, waiting
      <3>4. /\ Cardinality(waiting \ {c}) = Cardinality(waiting) - 1
            /\ Cardinality({c}) = 1
        BY <3>2, <3>3, FS_RemoveElement, FS_Singleton
      <3>5. CardsLeft = 2 * Cardinality(waiting) BY <3>3 DEF CardsLeft, waiting
      <3>6. CardsLeft' = 2 * Cardinality(waiting \ {c}) + Cardinality({c})
        BY <3>2 DEF CardsLeft, Active
      <3>7. CardsLeft' < CardsLeft BY <3>3, <3>4, <3>5, <3>6
      <3> QED BY <3>7 DEF Spends, SpendsCall, SpendsRule, SpendsCard
    <2>3. CASE pending.card = Nothing
      <3>1. Nothing \notin Cards BY PagesDiffer
      <3>2. queue' = queue BY <1>0, <2>1, <2>3, <3>1
      <3>3. CardsLeft' = CardsLeft BY <3>2 DEF CardsLeft, Active
      <3>4. \/ pending.action = "go_back" /\ result.action \notin {"go_back", "close_tab"}
            \/ pending.action = "close_tab" /\ result.action = "go_back"
        BY <1>0, <2>3, <3>1 DEF Moves, PolicyMoves
      <3>5. result'.action = pending.action
        <4>1. \E url : request' = RequestFor(url) BY <1>3, Zenon DEF ExecuteScreenAction
        <4>2. request'.action = pending.action BY <4>1 DEF RequestFor
        <4>3. pending.action # Nothing
          BY <3>4, NothingIsChosen DEF Actions, Interactions
        <4>4. request' # NoRequest BY <4>2, <4>3 DEF NoRequest
        <4> QED BY <1>0, <4>2, <4>4 DEF Route, Result
      <3>6. WaysLeft' < WaysLeft BY <3>4, <3>5 DEF WaysLeft
      <3> QED BY <3>3, <3>6 DEF Spends, SpendsCall, SpendsRule, SpendsCard, SpendsWay
    <2> QED BY <2>2, <2>3
  <1> QED BY <1>1, <1>2, <1>3

LEMMA ExecuteSpends ==
  ASSUME Typed, Limits, LedgerInv, Moves, Countable, Execute
  PROVE  Moves' /\ Spends
  <1>1. /\ pc = "execute" /\ Route /\ obs'.low = obs.low /\ calls' = calls /\ replay' = replay
        /\ pending.action # "review" => draft' = NoDraft
        /\ pending.action = "review" => request' = request
        /\ pending.action = "finish" => pc' = "end"
    BY ExecuteRoutes
  <1>2. pc' \in {"end", "review", "capture", "decide"} BY <1>1 DEF Route
  <1>3. Spends
    <2>1. /\ Rest(MaxCalls, calls) \in Nat /\ Rest(MaxReplays, replay.hits) \in Nat
      BY RestIs, NumbersOfLimits DEF Typed, ProgressTyped, Replays
    <2>2. CASE pending.source = "llm"
      <3>1. CallsLeft = 3 * Rest(MaxCalls, calls) + 2 BY <1>1, <2>2 DEF CallsLeft
      <3>2. CallsLeft' \in {3 * Rest(MaxCalls, calls), 3 * Rest(MaxCalls, calls) + 1}
        BY <1>1, <1>2, <2>1 DEF CallsLeft
      <3>3. CallsLeft' < CallsLeft BY <2>1, <3>1, <3>2
      <3> QED BY <3>3 DEF Spends, SpendsCall
    <2>3. CASE pending.source # "llm" /\ pending.action # "finish"
      <3>1. pending.action # "review"
        BY <1>1, <2>3 DEF Moves, PolicyMoves, Limits, ActionIsChosen
      <3>2. pc' # "review" BY <1>1, <3>1 DEF Route
      <3>3. CallsLeft' = CallsLeft BY <1>1, <1>2, <2>3, <3>2 DEF CallsLeft
      <3>4. CASE pending.source = "reflex"
        <4>1. RulesLeft = 2 * Rest(MaxReplays, replay.hits) + 1 BY <1>1, <3>4 DEF RulesLeft
        <4>2. RulesLeft' = 2 * Rest(MaxReplays, replay.hits)
          BY <1>1, <1>2, <2>1 DEF RulesLeft
        <4>3. RulesLeft' < RulesLeft BY <2>1, <4>1, <4>2
        <4> QED BY <3>3, <4>3 DEF Spends, SpendsCall, SpendsRule
      <3>5. CASE pending.source # "reflex"
        <4>1. RulesLeft' = RulesLeft BY <1>1, <1>2, <3>5 DEF RulesLeft
        <4> QED BY <2>3, <3>3, <3>5, <4>1, PolicySpends
      <3> QED BY <3>4, <3>5
    <2>4. CASE pending.action = "finish" BY <1>1, <2>4 DEF Spends
    <2> QED BY <2>2, <2>3, <2>4
  <1>4. VerdictOnRequest'
    <2>1. obs'.low => pc' = "end" BY <1>1 DEF Limits, BlankIsDecided
    <2>2. CASE request' = NoRequest
      <3>1. pc' # "capture" BY <1>1, <2>2 DEF Route
      <3> QED BY <1>2, <2>1, <2>2, <3>1 DEF VerdictOnRequest
    <2>3. CASE request' # NoRequest
      <3>1. result'.action = request'.action BY <1>1, <2>3 DEF Route, Result
      <3> QED BY <1>2, <2>3, <3>1 DEF VerdictOnRequest
    <2> QED BY <2>2, <2>3
  <1>5. PolicyMoves' BY <1>2 DEF PolicyMoves
  <1>6. AtNode' BY <1>2 DEF AtNode, NodesLeft
  <1> QED BY <1>3, <1>4, <1>5, <1>6 DEF Moves

\* Every step of a run that has not ended spends something.
LEMMA StepSpends ==
  ASSUME WorkerInv, Moves, Next, Countable
  PROVE  Moves' /\ (pc # "end" => Spends)
  <1> USE DEF WorkerInv
  <1>1. Typed /\ Limits /\ LedgerInv /\ LedgerTyped BY DEF LedgerInv
  <1>2. CASE Ended
    BY <1>2 DEF Ended, vars, transition, observation, Moves, PolicyMoves, VerdictOnRequest,
                AtNode
  <1>3. CASE Watching
    <2>1. NeverStranded' BY WorkerStep DEF Judged
    <2> QED BY <1>1, <1>3, <2>1, CaptureSpends, WaitSpends, PassingSpends
  <1>4. CASE Choosing BY <1>1, <1>4, ChoosingSpends
  <1>5. CASE SelectDuplicate BY <1>1, <1>5, DuplicateSpends
  <1>6. CASE Execute BY <1>1, <1>6, ExecuteSpends
  <1>7. CASE Review BY <1>1, <1>7, ReviewSpends
  <1> QED BY <1>2, <1>3, <1>4, <1>5, <1>6, <1>7, NextSteps DEF Acting, Execute, Review

\* For any cards, postings and limits, no step is free: what a run has left falls
\* with every step, in the lexicographic order of eight numbers, whatever the
\* pages, the model and the fixed policies do.
THEOREM NoStepIsFree == Spec => EveryStepSpends
  <1>1. WorkerInv /\ Moves => Countable
    BY LeftCountable DEF WorkerInv, LedgerInv, Moves
  <1>2. WorkerInv /\ Moves /\ Countable /\ [Next]_vars => Moves'
    <2>1. CASE UNCHANGED vars
      BY <2>1 DEF vars, transition, observation, Moves, PolicyMoves, VerdictOnRequest, AtNode
    <2> QED BY <2>1, StepSpends
  <1>3. WorkerInv /\ Moves /\ Countable /\ Countable' /\ [Next]_vars
            => [pc # "end" => Less(Left', Left)]_vars
    BY StepSpends, SpentIsLess
  <1> QED BY <1>1, <1>2, <1>3, MovesInit, WorkerInvariant, PTL DEF Spec, EveryStepSpends
==============================================================================
