--------------------------- MODULE PromotionQueue ---------------------------
(***************************************************************************)
(* The recipe promotion queue: the recipe_candidates and experience_rules  *)
(* tables of SQLite, the collection threads that register candidates, and  *)
(* one promotion worker thread per backend process that claims, reviews    *)
(* and settles them.                                                       *)
(*                                                                         *)
(*   agent/recipe/candidate_store.py                 the queue's rows      *)
(*   agent/recipe/store.py                           the rule's row        *)
(*   agent/application/recipe_promotion_worker.py    the thread            *)
(*   agent/application/recipe_candidate_review_service.py  one review      *)
(*   agent/application/collection_experience.py      registration          *)
(*                                                                         *)
(* An action is one SQLite transaction, or one external event (a critic    *)
(* answer, a passed delay, the end of a process).  A process may end       *)
(* between any two transactions.                                           *)
(***************************************************************************)
EXTENDS Naturals, FiniteSets

CONSTANTS
    Runs,         \* worker run ids; numbers, because a claim orders by run id
    Backends,     \* backend processes that open the same database file
    Home,         \* Home[r]: the backend whose chat request ran collection r
    Purposes,     \* rule keys: site and task category
    PurposeOf,    \* PurposeOf[r]: the rule key a candidate compiles to
    Routes,       \* rule contents the critic's selection can compile to
    NoRun,        \* a worker with nothing in hand
    NoRoute,      \* no row under a rule key
    MaxAttempts,  \* recipe.promotion_max_attempts
    DbFaults,     \* may a transaction fail, for example "database is locked"?
    MaxOutages    \* bound: how often a backend process ends

ASSUME RunsAreNumbers == Runs \subseteq Nat /\ IsFiniteSet(Runs)
ASSUME HomesAreBackends == Home \in [Runs -> Backends]
ASSUME PurposesOfRuns == PurposeOf \in [Runs -> Purposes]
ASSUME NoRunIsNoRun == NoRun \notin Runs
ASSUME NoRouteIsNoRoute == NoRoute \notin Routes
ASSUME LimitsAreNumbers == MaxAttempts \in Nat \ {0} /\ MaxOutages \in Nat
ASSUME FaultsAreASwitch == DbFaults \in BOOLEAN

VARIABLES
    \* recipe_candidates
    status,       \* column status; "absent" without a row
    attempts,     \* column review_attempts
    delayed,      \* is column next_review_at in the future?
    created,      \* column created_at, as the rank of its second
    \* experience_rules and experience_rule_sources
    rule,         \* column rule_json per rule key, or NoRoute
    support,      \* column support_count per rule key
    sources,      \* run ids of experience_rule_sources per rule key
    \* threads
    collector,    \* progress of the collection thread that registers run r
    proc,         \* lifecycle of the backend process
    stop,         \* RecipePromotionWorker._stop_event
    pc,           \* where the promotion worker thread is
    task,         \* what that thread holds in local variables
    \* history
    outages,      \* processes ended so far
    interrupted,  \* reviews of run r a start has taken back
    published     \* runs whose save_rule transaction committed

rows == <<status, attempts, delayed, created>>
rules == <<rule, support, sources, published>>
threads == <<collector, proc, stop, pc, task, outages, interrupted>>
vars == <<rows, rules, threads>>

Statuses == {"absent", "recorded", "pending_review", "reviewing",
             "accepted", "rejected", "review_failed"}
Settled == {"accepted", "rejected", "review_failed"}
Busy == {"reviewing", "reading", "writing", "deciding", "deferring"}

\* Local variables of process_one, review_and_apply_candidate and save_rule;
\* the verdict is "accepted" only once the rule is saved.
Task == [run : Runs \cup {NoRun}, tries : Nat, route : Routes \cup {NoRoute},
         seen : Routes \cup {NoRoute}, known : BOOLEAN, verdict : {"accepted", "rejected"}]

EmptyHands == [run |-> NoRun, tries |-> 0, route |-> NoRoute, seen |-> NoRoute,
               known |-> FALSE, verdict |-> "rejected"]

Init ==
    /\ status = [r \in Runs |-> "absent"]
    /\ attempts = [r \in Runs |-> 0]
    /\ delayed = [r \in Runs |-> FALSE]
    /\ created = [r \in Runs |-> 0]
    /\ rule = [k \in Purposes |-> NoRoute]
    /\ support = [k \in Purposes |-> 0]
    /\ sources = [k \in Purposes |-> {}]
    /\ collector = [r \in Runs |-> "collecting"]
    /\ proc = [b \in Backends |-> "down"]
    /\ stop = [b \in Backends |-> FALSE]
    /\ pc = [b \in Backends |-> "off"]
    /\ task = [b \in Backends |-> EmptyHands]
    /\ outages = 0
    /\ interrupted = [r \in Runs |-> 0]
    /\ published = {}
-----------------------------------------------------------------------------
(* Registration: record_collection_experience in the chat request's thread *)

\* The submission row is written first; a run that is not reusable, or whose
\* submission could not be written, never becomes a candidate.
CommitSubmission(r) ==
    /\ collector[r] = "collecting"
    /\ proc[Home[r]] # "down"
    /\ \E next \in {"submitted", "done"} :
           collector' = [collector EXCEPT ![r] = next]
    /\ UNCHANGED <<rows, rules, proc, stop, pc, task, outages, interrupted>>

\* created_at has a resolution of one second: a commit falls into the second
\* of the latest row or into a later one.
Seconds == 1 .. Cardinality(Runs)

CommitCandidate(r) ==
    /\ collector[r] = "submitted"
    /\ proc[Home[r]] # "down"
    /\ collector' = [collector EXCEPT ![r] = "committed"]
    /\ status' = [status EXCEPT ![r] = "recorded"]
    /\ attempts' = [attempts EXCEPT ![r] = 0]
    /\ delayed' = [delayed EXCEPT ![r] = FALSE]
    /\ \E second \in Seconds :
           /\ \A other \in Runs : created[other] <= second
           /\ created' = [created EXCEPT ![r] = second]
    /\ UNCHANGED <<rules, proc, stop, pc, task, outages, interrupted>>

\* recipe.auto_promote is on, as by default: off, nothing is ever queued and no
\* promotion worker is started.
EnqueueReview(r) ==
    /\ collector[r] = "committed"
    /\ proc[Home[r]] # "down"
    /\ collector' = [collector EXCEPT ![r] = "done"]
    /\ status[r] = "recorded"
    /\ status' = [status EXCEPT ![r] = "pending_review"]
    /\ delayed' = [delayed EXCEPT ![r] = FALSE]
    /\ UNCHANGED <<attempts, created, rules, proc, stop, pc, task, outages, interrupted>>

\* A failed registration is caught and reported; nothing retries it.
RegistrationFails(r) ==
    /\ DbFaults
    /\ collector[r] \in {"submitted", "committed"}
    /\ proc[Home[r]] # "down"
    /\ collector' = [collector EXCEPT ![r] = "done"]
    /\ UNCHANGED <<rows, rules, proc, stop, pc, task, outages, interrupted>>
-----------------------------------------------------------------------------
(* The promotion worker thread of backend b *)

Due == {r \in Runs : status[r] = "pending_review" /\ ~delayed[r]}

\* ORDER BY created_at, run_id LIMIT 1
IsOldestDue(r) ==
    \A other \in Due :
        \/ created[r] < created[other]
        \/ created[r] = created[other] /\ r <= other

\* The loop condition of _run; a stop requested after this test is seen by
\* the next one only.
TestStop(b) ==
    /\ pc[b] = "idle"
    /\ pc' = [pc EXCEPT ![b] = IF stop[b] THEN "off" ELSE "claiming"]
    /\ UNCHANGED <<rows, rules, collector, proc, stop, task, outages, interrupted>>

\* claim_review found nothing: the thread waits for one poll interval.
FindNothing(b) ==
    /\ pc[b] = "claiming"
    /\ Due = {}
    /\ pc' = [pc EXCEPT ![b] = "idle"]
    /\ UNCHANGED <<rows, rules, collector, proc, stop, task, outages, interrupted>>

ClaimReview(b) ==
    /\ pc[b] = "claiming"
    /\ \E r \in Due :
           /\ IsOldestDue(r)
           /\ status' = [status EXCEPT ![r] = "reviewing"]
           /\ attempts' = [attempts EXCEPT ![r] = @ + 1]
           /\ task' = [task EXCEPT ![b] =
                          [EmptyHands EXCEPT !.run = r, !.tries = attempts[r] + 1]]
    /\ pc' = [pc EXCEPT ![b] = "reviewing"]
    /\ UNCHANGED <<delayed, created, rules, collector, proc, stop, outages, interrupted>>

\* The models build the execution graph and judge it: the critic accepts with
\* a selection that compiles, or the candidate is rejected (by the critic, by
\* the compiler), or the call raises.
CriticAnswers(b) ==
    /\ pc[b] = "reviewing"
    /\ \/ \E chosen \in Routes :
             /\ task' = [task EXCEPT ![b].route = chosen]
             /\ pc' = [pc EXCEPT ![b] = "reading"]
       \/ /\ pc' \in {[pc EXCEPT ![b] = next] : next \in {"deciding", "deferring"}}
          /\ UNCHANGED task
    /\ UNCHANGED <<rows, rules, collector, proc, stop, outages, interrupted>>

\* save_rule selects outside of a transaction ...
ReadRule(b) ==
    /\ pc[b] = "reading"
    /\ LET r == task[b].run
           k == PurposeOf[r]
       IN  task' = [task EXCEPT ![b].seen = rule[k], ![b].known = (r \in sources[k])]
    /\ pc' = [pc EXCEPT ![b] = "writing"]
    /\ UNCHANGED <<rows, rules, collector, proc, stop, outages, interrupted>>

\* Mutation: a repeated review of a known source counts again.
SupportRuleTwice(b, r, k) ==
    /\ task[b].seen = task[b].route
    /\ task[b].known \/ r \notin sources[k]
    /\ support' = [support EXCEPT ![k] = @ + 1]
    /\ sources' = [sources EXCEPT ![k] = @ \cup {r}]
    /\ UNCHANGED rule

\* ... and writes by what it selected: the same route gains support, another
\* route replaces the row and its sources, a missing row is inserted.  A
\* primary key conflict rolls the transaction back; the exception is turned
\* into a rejection by review_and_apply_candidate.
SupportRule(b, r, k) ==
    /\ task[b].seen = task[b].route
    /\ task[b].known \/ r \notin sources[k]
    /\ support' = [support EXCEPT ![k] = @ + (IF task[b].known THEN 0 ELSE 1)]
    /\ sources' = [sources EXCEPT ![k] = IF task[b].known THEN @ ELSE @ \cup {r}]
    /\ UNCHANGED rule

ReplaceRule(b, r, k) ==
    /\ task[b].seen \notin {task[b].route, NoRoute}
    /\ rule' = [rule EXCEPT ![k] = task[b].route]
    /\ support' = [support EXCEPT ![k] = 1]
    /\ sources' = [sources EXCEPT ![k] = {r}]

InsertRule(b, r, k) ==
    /\ task[b].seen = NoRoute
    /\ rule[k] = NoRoute
    /\ rule' = [rule EXCEPT ![k] = task[b].route]
    /\ support' = [support EXCEPT ![k] = 1]
    /\ sources' = [sources EXCEPT ![k] = {r}]

WriteConflicts(b, r, k) ==
    \/ task[b].seen = task[b].route /\ ~task[b].known /\ r \in sources[k]
    \/ task[b].seen = NoRoute /\ rule[k] # NoRoute

\* Mutation: the saved rule does not turn the verdict into "accepted".
WriteRuleVerdictUnset(b) ==
    /\ pc[b] = "writing"
    /\ LET r == task[b].run
           k == PurposeOf[r]
       IN  \/ /\ SupportRule(b, r, k) \/ ReplaceRule(b, r, k) \/ InsertRule(b, r, k)
              /\ published' = published \cup {r}
           \/ WriteConflicts(b, r, k) /\ UNCHANGED rules
    /\ pc' = [pc EXCEPT ![b] = "deciding"]
    /\ UNCHANGED <<rows, task, collector, proc, stop, outages, interrupted>>

WriteRule(b) ==
    /\ pc[b] = "writing"
    /\ LET r == task[b].run
           k == PurposeOf[r]
       IN  \/ /\ SupportRule(b, r, k) \/ ReplaceRule(b, r, k) \/ InsertRule(b, r, k)
              /\ published' = published \cup {r}
              /\ task' = [task EXCEPT ![b].verdict = "accepted"]
           \/ /\ WriteConflicts(b, r, k)
              /\ UNCHANGED <<rules, task>>
    /\ pc' = [pc EXCEPT ![b] = "deciding"]
    /\ UNCHANGED <<rows, collector, proc, stop, outages, interrupted>>

\* Mutation: the handler of a failed save keeps the critic's decision.
SaveFailsAccepted(b) ==
    /\ DbFaults
    /\ pc[b] \in {"reading", "writing"}
    /\ task' = [task EXCEPT ![b].verdict = "accepted"]
    /\ pc' = [pc EXCEPT ![b] = "deciding"]
    /\ UNCHANGED <<rows, rules, collector, proc, stop, outages, interrupted>>

\* Any exception of the compile-and-save block becomes a rejection.
SaveFails(b) ==
    /\ DbFaults
    /\ pc[b] \in {"reading", "writing"}
    /\ pc' = [pc EXCEPT ![b] = "deciding"]
    /\ UNCHANGED <<rows, rules, collector, proc, stop, task, outages, interrupted>>

\* update_status names no expected status.  What process_one does afterwards
\* (trace, metrics, log) may still raise into its except branch.
UpdateStatus(b) ==
    /\ pc[b] = "deciding"
    /\ LET r == task[b].run IN
           /\ status' = [status EXCEPT ![r] = task[b].verdict]
           /\ delayed' = [delayed EXCEPT ![r] = FALSE]
    /\ \/ /\ pc' = [pc EXCEPT ![b] = "idle"]
          /\ task' = [task EXCEPT ![b] = EmptyHands]
       \/ /\ pc' = [pc EXCEPT ![b] = "deferring"]
          /\ UNCHANGED task
    /\ UNCHANGED <<attempts, created, rules, collector, proc, stop, outages, interrupted>>

UpdateFails(b) ==
    /\ DbFaults
    /\ pc[b] = "deciding"
    /\ pc' = [pc EXCEPT ![b] = "deferring"]
    /\ UNCHANGED <<rows, rules, collector, proc, stop, task, outages, interrupted>>

\* Mutation: one attempt too many before a failure is terminal.
DeferReviewLate(b) ==
    /\ pc[b] = "deferring"
    /\ LET r == task[b].run
           terminal == task[b].tries > MaxAttempts
       IN  IF status[r] = "reviewing"
           THEN /\ status' = [status EXCEPT ![r] =
                                 IF terminal THEN "review_failed" ELSE "pending_review"]
                /\ delayed' = [delayed EXCEPT ![r] = ~terminal]
           ELSE UNCHANGED <<status, delayed>>
    /\ pc' = [pc EXCEPT ![b] = "idle"]
    /\ task' = [task EXCEPT ![b] = EmptyHands]
    /\ UNCHANGED <<attempts, created, rules, collector, proc, stop, outages, interrupted>>

\* Mutation: defer_review without its status='reviewing' condition.
DeferReviewAnyStatus(b) ==
    /\ pc[b] = "deferring"
    /\ LET r == task[b].run
           terminal == task[b].tries >= MaxAttempts
       IN  /\ status' = [status EXCEPT ![r] =
                             IF terminal THEN "review_failed" ELSE "pending_review"]
           /\ delayed' = [delayed EXCEPT ![r] = ~terminal]
    /\ pc' = [pc EXCEPT ![b] = "idle"]
    /\ task' = [task EXCEPT ![b] = EmptyHands]
    /\ UNCHANGED <<attempts, created, rules, collector, proc, stop, outages, interrupted>>

\* The except branch of process_one; defer_review touches a reviewing row only.
DeferReview(b) ==
    /\ pc[b] = "deferring"
    /\ LET r == task[b].run
           terminal == task[b].tries >= MaxAttempts
       IN  IF status[r] = "reviewing"
           THEN /\ status' = [status EXCEPT ![r] =
                                 IF terminal THEN "review_failed" ELSE "pending_review"]
                /\ delayed' = [delayed EXCEPT ![r] = ~terminal]
           ELSE UNCHANGED <<status, delayed>>
    /\ pc' = [pc EXCEPT ![b] = "idle"]
    /\ task' = [task EXCEPT ![b] = EmptyHands]
    /\ UNCHANGED <<attempts, created, rules, collector, proc, stop, outages, interrupted>>

\* claim_review is called outside of the try block and defer_review inside of
\* its handler: an exception of either ends the thread, and nothing restarts
\* it before the process is restarted.
ThreadDies(b) ==
    /\ DbFaults
    /\ pc[b] \in {"claiming", "deferring"}
    /\ pc' = [pc EXCEPT ![b] = "off"]
    /\ task' = [task EXCEPT ![b] = EmptyHands]
    /\ UNCHANGED <<rows, rules, collector, proc, stop, outages, interrupted>>

\* datetime.now() passes next_review_at.
DelayPasses(r) ==
    /\ delayed[r]
    /\ delayed' = [delayed EXCEPT ![r] = FALSE]
    /\ UNCHANGED <<status, attempts, created, rules, threads>>
-----------------------------------------------------------------------------
(* Backend processes *)

\* Mutation: a recovery that finds nothing to recover.
RecoverNothing == UNCHANGED <<status, delayed, interrupted>>

\* Mutation: a recovery that also takes failed reviews back.
RecoverFailed ==
    /\ status' = [r \in Runs |-> IF status[r] \in {"reviewing", "review_failed"}
                                 THEN "pending_review" ELSE status[r]]
    /\ delayed' = [r \in Runs |-> status[r] # "reviewing" /\ delayed[r]]
    /\ interrupted' = [r \in Runs |-> interrupted[r] + (IF status[r] = "reviewing"
                                                        THEN 1 ELSE 0)]

\* Mutation: a recovery that writes a status no query selects.
RecoverToUnknownStatus ==
    /\ status' = [r \in Runs |-> IF status[r] = "reviewing" THEN "pending" ELSE status[r]]
    /\ UNCHANGED <<delayed, interrupted>>

\* RecipePromotionWorker.start: take interrupted reviews back, start a thread.
RecoverInterrupted ==
    /\ status' = [r \in Runs |-> IF status[r] = "reviewing" THEN "pending_review"
                                                             ELSE status[r]]
    /\ delayed' = [r \in Runs |-> status[r] # "reviewing" /\ delayed[r]]
    /\ interrupted' = [r \in Runs |-> interrupted[r] + (IF status[r] = "reviewing"
                                                        THEN 1 ELSE 0)]

StartBackend(b) ==
    /\ proc[b] = "down"
    /\ proc' = [proc EXCEPT ![b] = "up"]
    /\ stop' = [stop EXCEPT ![b] = FALSE]
    /\ RecoverInterrupted
    /\ pc' = [pc EXCEPT ![b] = "idle"]
    /\ UNCHANGED <<attempts, created, rules, collector, task, outages>>

\* ApplicationRuntime.close: the join has a timeout, so the thread may go on
\* with its review until the process ends.
CloseBackend(b) ==
    /\ proc[b] = "up"
    /\ outages < MaxOutages
    /\ proc' = [proc EXCEPT ![b] = "closing"]
    /\ stop' = [stop EXCEPT ![b] = (pc[b] # "off")]
    /\ UNCHANGED <<rows, rules, collector, pc, task, outages, interrupted>>

\* The process exits or crashes; its daemon thread and its collections with it.
EndBackend(b) ==
    /\ proc[b] # "down"
    /\ outages < MaxOutages
    /\ outages' = outages + 1
    /\ proc' = [proc EXCEPT ![b] = "down"]
    /\ pc' = [pc EXCEPT ![b] = "off"]
    /\ task' = [task EXCEPT ![b] = EmptyHands]
    /\ collector' = [r \in Runs |-> IF Home[r] = b /\ collector[r] # "collecting"
                                    THEN "done" ELSE collector[r]]
    /\ UNCHANGED <<rows, rules, stop, interrupted>>
-----------------------------------------------------------------------------
Register(r) ==
    \/ CommitSubmission(r) \/ CommitCandidate(r)
    \/ EnqueueReview(r) \/ RegistrationFails(r)

Work(b) ==
    \/ TestStop(b) \/ FindNothing(b) \/ ClaimReview(b) \/ CriticAnswers(b)
    \/ ReadRule(b) \/ WriteRule(b) \/ UpdateStatus(b) \/ DeferReview(b)

Fail(b) == SaveFails(b) \/ UpdateFails(b) \/ ThreadDies(b)

Next ==
    \/ \E r \in Runs : Register(r) \/ DelayPasses(r)
    \/ \E b \in Backends : Work(b) \/ Fail(b)
    \/ \E b \in Backends : StartBackend(b) \/ CloseBackend(b) \/ EndBackend(b)

Spec == Init /\ [][Next]_vars

(***************************************************************************)
(* Fairness.  The worker thread runs whenever it can and the models answer *)
(* or time out; delays pass; a backend that has begun to close ends and a  *)
(* backend that is down is started again.  Nothing makes a collection      *)
(* happen, a process end or a transaction fail.                            *)
(***************************************************************************)
Fairness ==
    /\ \A b \in Backends : WF_vars(Work(b)) /\ WF_vars(StartBackend(b))
    /\ \A b \in Backends : WF_vars(proc[b] = "closing" /\ EndBackend(b))
    /\ \A r \in Runs : WF_vars(DelayPasses(r))

FairSpec == Spec /\ Fairness
-----------------------------------------------------------------------------
(* Properties *)

\* Every variable keeps the type its column or Python attribute has.
TypeOK ==
    /\ status \in [Runs -> Statuses]
    /\ attempts \in [Runs -> Nat]
    /\ delayed \in [Runs -> BOOLEAN]
    /\ created \in [Runs -> Nat]
    /\ rule \in [Purposes -> Routes \cup {NoRoute}]
    /\ support \in [Purposes -> Nat]
    /\ sources \in [Purposes -> SUBSET Runs]
    /\ collector \in [Runs -> {"collecting", "submitted", "committed", "done"}]
    /\ proc \in [Backends -> {"down", "up", "closing"}]
    /\ stop \in [Backends -> BOOLEAN]
    /\ pc \in [Backends -> Busy \cup {"off", "idle", "claiming"}]
    /\ task \in [Backends -> Task]
    /\ outages \in Nat
    /\ interrupted \in [Runs -> Nat]
    /\ published \subseteq Runs

\* A candidate is never left in "reviewing" with nobody reviewing it while the
\* worker thread of every backend is alive: a crash in the middle of a review
\* is repaired by the recovery of the next start, whatever ran in between
\* (recover_interrupted_reviews, claim_review, defer_review).
NoOrphanedReview ==
    (\A b \in Backends : pc[b] # "off") =>
        \A r \in Runs : status[r] = "reviewing" =>
            \E b \in Backends : pc[b] \in Busy /\ task[b].run = r

\* The retry limit counts: a candidate is claimed at most max_attempts times,
\* plus once for every review that a restart took back (process_one,
\* recover_interrupted_reviews keeps review_attempts).
AttemptsBounded == \A r \in Runs : attempts[r] <= MaxAttempts + interrupted[r]

\* An accepted candidate's rule was committed before its status was, so no
\* crash leaves an accepted candidate whose rule never reached the store
\* (review_and_apply_candidate saves, then updates the status).
AcceptedIsPublished == \A r \in Runs : status[r] = "accepted" => r \in published

\* support_count is the number of source rows of the rule, through repeated
\* reviews of one candidate, replaced routes and racing writers (save_rule).
SupportCountsSources == \A k \in Purposes : support[k] = Cardinality(sources[k])

\* A candidate that was finally turned down supports an active rule only if a
\* restart interrupted one of its reviews (the two transactions of an
\* accepting review are not atomic).
TurnedDownLeavesNoRule ==
    \A r \in Runs :
        status[r] \in {"rejected", "review_failed"} /\ interrupted[r] = 0 =>
            r \notin sources[PurposeOf[r]]

\* The troubleshooting guide's promise: a review ends with "accepted + active
\* recipe or rejected".  A rejected candidate is no source of an active rule.
RejectedLeavesNoRule ==
    \A r \in Runs : status[r] = "rejected" => r \notin sources[PurposeOf[r]]

\* A settled candidate is never reopened or overruled.
VerdictIsFinal ==
    [][\A r \in Runs : status[r] \in Settled => status'[r] = status[r]]_vars

\* Every queued candidate is settled in the end, through critic failures,
\* delays, crashes and restarts.
QueuedIsSettled ==
    \A r \in Runs : status[r] = "pending_review" ~> status[r] \in Settled

\* The queue's rows as the stages of the abstract review queue.
Stage(column) ==
    IF column = "absent" THEN "none"
    ELSE IF column = "recorded" THEN "recorded"
    ELSE IF column = "pending_review" THEN "waiting"
    ELSE IF column = "reviewing" THEN "inHand"
    ELSE "settled"

StageOf == [r \in Runs |-> Stage(status[r])]

Queue == INSTANCE ReviewQueue WITH stage <- StageOf

\* With one backend the SQLite queue implements the abstract review queue: one
\* candidate in hand at a time, given back or settled, settled once.
IsReviewQueue == Queue!Spec
=============================================================================
