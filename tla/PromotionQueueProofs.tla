------------------------ MODULE PromotionQueueProofs ------------------------
(***************************************************************************)
(* Theorems about the promotion queue, for every set of runs, backends,    *)
(* rule keys and routes, every retry limit, with and without failing       *)
(* transactions, and for any number of backend processes on one file       *)
(* unless a theorem says otherwise.                                        *)
(***************************************************************************)
EXTENDS PromotionQueue, FiniteSetTheorems, TLAPS

(***************************************************************************)
(* Type correctness.                                                       *)
(***************************************************************************)

\* A second is a number (the range a commit's created_at is taken from).
LEMMA SecondsAreNumbers == Seconds \subseteq Nat
  <1>1. Cardinality(Runs) \in Nat
    BY RunsAreNumbers, FS_CardinalityType
  <1> QED BY <1>1 DEF Seconds

\* A thread between two reviews holds a well-typed empty task.
LEMMA EmptyHandsTyped == EmptyHands \in Task
  BY DEF EmptyHands, Task

LEMMA TypeInit == Init => TypeOK
  BY HomesAreBackends, EmptyHandsTyped
     DEF Init, TypeOK, Statuses, Busy

\* The collection threads keep the types.
LEMMA TypeRegister ==
  ASSUME TypeOK, NEW r \in Runs, Register(r) \/ DelayPasses(r)
  PROVE  TypeOK'
  <1> USE DEF TypeOK, rows, rules, threads, Statuses, Settled, Busy
  <1>1. CASE CommitSubmission(r) BY <1>1 DEF CommitSubmission
  <1>2. CASE CommitCandidate(r)
    BY <1>2, SecondsAreNumbers DEF CommitCandidate
  <1>3. CASE EnqueueReview(r) BY <1>3 DEF EnqueueReview
  <1>4. CASE RegistrationFails(r) BY <1>4 DEF RegistrationFails
  <1>5. CASE DelayPasses(r) BY <1>5 DEF DelayPasses
  <1> QED BY <1>1, <1>2, <1>3, <1>4, <1>5 DEF Register

\* A thread that is in the middle of a review holds a run: the fact the types
\* need, because the rule keys a review reads and writes are those of its run.
Holding == \A b \in Backends : pc[b] \in Busy => task[b].run \in Runs

\* The tasks a critic's answer, a read and a write leave behind are tasks.
LEMMA TaskUpdates ==
  ASSUME NEW t \in Task
  PROVE  /\ \A chosen \in Routes : [t EXCEPT !.route = chosen] \in Task
         /\ \A row \in Routes \cup {NoRoute}, source \in BOOLEAN :
                [t EXCEPT !.seen = row, !.known = source] \in Task
         /\ [t EXCEPT !.verdict = "accepted"] \in Task
  BY DEF Task

LEMMA TaskFields ==
  ASSUME NEW t \in Task
  PROVE  /\ t.run \in Runs \cup {NoRun}
         /\ t.tries \in Nat
         /\ t.route \in Routes \cup {NoRoute}
         /\ t.verdict \in {"accepted", "rejected"}
  BY DEF Task

\* One review of a promotion thread keeps the types.
LEMMA TypeWork ==
  ASSUME TypeOK, Holding, NEW b \in Backends, Work(b) \/ Fail(b)
  PROVE  TypeOK'
  <1> USE DEF TypeOK, rows, rules, threads, Statuses, Busy
  <1>a. task[b] \in Task OBVIOUS
  <1>b. pc[b] \in Busy => task[b].run \in Runs BY DEF Holding
  <1>1. CASE TestStop(b) BY <1>1 DEF TestStop
  <1>2. CASE FindNothing(b) BY <1>2 DEF FindNothing
  <1>3. CASE ClaimReview(b)
    <2>1. PICK r \in Due :
            /\ status' = [status EXCEPT ![r] = "reviewing"]
            /\ attempts' = [attempts EXCEPT ![r] = @ + 1]
            /\ task' = [task EXCEPT ![b] =
                           [EmptyHands EXCEPT !.run = r, !.tries = attempts[r] + 1]]
      BY <1>3 DEF ClaimReview
    <2>2. r \in Runs /\ attempts[r] + 1 \in Nat BY DEF Due
    <2>3. [EmptyHands EXCEPT !.run = r, !.tries = attempts[r] + 1] \in Task
      BY <2>2 DEF EmptyHands, Task
    <2>4. task' \in [Backends -> Task] BY <2>1, <2>3
    <2>5. status' \in [Runs -> Statuses] BY <2>1, <2>2
    <2>6. attempts' \in [Runs -> Nat] BY <2>1, <2>2
    <2> QED BY <1>3, <2>4, <2>5, <2>6 DEF ClaimReview
  <1>4. CASE CriticAnswers(b)
    <2>1. ASSUME NEW chosen \in Routes, task' = [task EXCEPT ![b].route = chosen]
          PROVE  task' \in [Backends -> Task]
      <3>1. [task[b] EXCEPT !.route = chosen] \in Task BY <1>a, TaskUpdates
      <3>2. task' = [task EXCEPT ![b] = [task[b] EXCEPT !.route = chosen]] BY <2>1
      <3> QED BY <3>1, <3>2
    <2>2. pc' \in [Backends -> Busy \cup {"off", "idle", "claiming"}]
      BY <1>4 DEF CriticAnswers
    <2>3. task' \in [Backends -> Task] BY <1>4, <2>1 DEF CriticAnswers
    <2> QED BY <1>4, <2>2, <2>3 DEF CriticAnswers
  <1>5. CASE ReadRule(b)
    <2> DEFINE r == task[b].run
               k == PurposeOf[r]
    <2>1. r \in Runs /\ k \in Purposes BY <1>5, <1>b, PurposesOfRuns DEF ReadRule
    <2>2. rule[k] \in Routes \cup {NoRoute} /\ (r \in sources[k]) \in BOOLEAN BY <2>1
    <2>3. [task[b] EXCEPT !.seen = rule[k], !.known = (r \in sources[k])] \in Task
      BY <1>a, <2>2, TaskUpdates
    <2>4. task' = [task EXCEPT ![b] =
                      [task[b] EXCEPT !.seen = rule[k], !.known = (r \in sources[k])]]
      BY <1>5 DEF ReadRule
    <2> HIDE DEF r, k
    <2>5. task' \in [Backends -> Task] BY <2>3, <2>4
    <2> QED BY <1>5, <2>5 DEF ReadRule
  <1>6. CASE WriteRule(b)
    <2> DEFINE r == task[b].run
               k == PurposeOf[r]
    <2>1. r \in Runs /\ k \in Purposes BY <1>6, <1>b, PurposesOfRuns DEF WriteRule
    <2>2. task' \in [Backends -> Task] BY <1>6, <1>a, TaskUpdates DEF WriteRule
    <2>3. /\ rule' \in [Purposes -> Routes \cup {NoRoute}]
          /\ support' \in [Purposes -> Nat]
          /\ sources' \in [Purposes -> SUBSET Runs]
          /\ published' \subseteq Runs
      BY <1>6, <1>a, <2>1, TaskFields
         DEF WriteRule, SupportRule, ReplaceRule, InsertRule
    <2> QED BY <1>6, <2>2, <2>3 DEF WriteRule
  <1>7. CASE UpdateStatus(b)
    <2>1. task' \in [Backends -> Task] BY <1>7, EmptyHandsTyped DEF UpdateStatus
    <2>2. status' \in [Runs -> Statuses] BY <1>7, <1>a, TaskFields DEF UpdateStatus
    <2> QED BY <1>7, <2>1, <2>2 DEF UpdateStatus
  <1>8. CASE DeferReview(b)
    <2>1. task' \in [Backends -> Task] BY <1>8, EmptyHandsTyped DEF DeferReview
    <2>2. /\ status' \in [Runs -> Statuses]
          /\ delayed' \in [Runs -> BOOLEAN]
      BY <1>8 DEF DeferReview
    <2> QED BY <1>8, <2>1, <2>2 DEF DeferReview
  <1>9. CASE SaveFails(b) BY <1>9 DEF SaveFails
  <1>10. CASE UpdateFails(b) BY <1>10 DEF UpdateFails
  <1>11. CASE ThreadDies(b) BY <1>11, EmptyHandsTyped DEF ThreadDies
  <1> QED
    BY <1>1, <1>2, <1>3, <1>4, <1>5, <1>6, <1>7, <1>8, <1>9, <1>10, <1>11
       DEF Work, Fail

\* Starts, closes and ends of backend processes keep the types.
LEMMA TypeProcess ==
  ASSUME TypeOK, NEW b \in Backends,
         StartBackend(b) \/ CloseBackend(b) \/ EndBackend(b)
  PROVE  TypeOK'
  <1> USE DEF TypeOK, rows, rules, threads, Statuses, Busy
  <1>1. CASE StartBackend(b)
    <2>1. /\ status' \in [Runs -> Statuses]
          /\ delayed' \in [Runs -> BOOLEAN]
          /\ interrupted' \in [Runs -> Nat]
      BY <1>1 DEF StartBackend, RecoverInterrupted
    <2> QED BY <1>1, <2>1 DEF StartBackend
  <1>2. CASE CloseBackend(b) BY <1>2 DEF CloseBackend
  <1>3. CASE EndBackend(b)
    <2>1. task' \in [Backends -> Task] BY <1>3, EmptyHandsTyped DEF EndBackend
    <2> QED BY <1>3, <2>1 DEF EndBackend
  <1> QED BY <1>1, <1>2, <1>3

\* A thread takes a run in hand with its claim and drops it when it goes idle.
LEMMA HoldingStep ==
  ASSUME TypeOK, Holding, [Next]_vars
  PROVE  Holding'
  <1> USE DEF Holding, TypeOK, rows, rules, threads, Busy
  <1>1. CASE UNCHANGED vars BY <1>1 DEF vars
  <1>2. ASSUME NEW r \in Runs, Register(r) \/ DelayPasses(r)
        PROVE  Holding'
    BY <1>2 DEF Register, CommitSubmission, CommitCandidate, EnqueueReview,
                RegistrationFails, DelayPasses
  <1>3. ASSUME NEW b \in Backends, Work(b) \/ Fail(b)
        PROVE  Holding'
    <2>1. CASE TestStop(b) BY <2>1 DEF TestStop
    <2>2. CASE FindNothing(b) BY <2>2 DEF FindNothing
    <2>3. CASE ClaimReview(b) BY <2>3 DEF ClaimReview, Due, EmptyHands
    <2>4. CASE CriticAnswers(b)
      <3>1. \A c \in Backends : task'[c].run = task[c].run
        BY <2>4 DEF CriticAnswers, Task
      <3>2. \A c \in Backends : pc'[c] \in Busy => pc[c] \in Busy
        BY <2>4 DEF CriticAnswers
      <3> QED BY <3>1, <3>2
    <2>5. CASE ReadRule(b)
      <3>1. \A c \in Backends : task'[c].run = task[c].run
        BY <2>5 DEF ReadRule, Task
      <3>2. \A c \in Backends : pc'[c] \in Busy => pc[c] \in Busy
        BY <2>5 DEF ReadRule
      <3> QED BY <3>1, <3>2
    <2>6. CASE WriteRule(b)
      <3>1. \A c \in Backends : task'[c].run = task[c].run
        BY <2>6 DEF WriteRule, Task
      <3>2. \A c \in Backends : pc'[c] \in Busy => pc[c] \in Busy
        BY <2>6 DEF WriteRule
      <3> QED BY <3>1, <3>2
    <2>7. CASE UpdateStatus(b) BY <2>7 DEF UpdateStatus
    <2>8. CASE DeferReview(b) BY <2>8 DEF DeferReview
    <2>9. CASE Fail(b) BY <2>9 DEF Fail, SaveFails, UpdateFails, ThreadDies
    <2> QED BY <1>3, <2>1, <2>2, <2>3, <2>4, <2>5, <2>6, <2>7, <2>8, <2>9 DEF Work
  <1>4. ASSUME NEW b \in Backends, StartBackend(b) \/ CloseBackend(b) \/ EndBackend(b)
        PROVE  Holding'
    BY <1>4 DEF StartBackend, CloseBackend, EndBackend
  <1> QED BY <1>1, <1>2, <1>3, <1>4 DEF Next

LEMMA TypeUnchanged ==
  ASSUME TypeOK, UNCHANGED vars
  PROVE  TypeOK'
  BY DEF TypeOK, vars, rows, rules, threads

LEMMA TypeStep ==
  ASSUME TypeOK, Holding, [Next]_vars
  PROVE  TypeOK'
  BY TypeRegister, TypeWork, TypeProcess, TypeUnchanged DEF Next

LEMMA HoldingInit == Init => Holding
  BY DEF Init, Holding, Busy

\* The rows and the threads' local variables always have their types, and a
\* busy thread holds a run: no review ever touches the rows of "no run".
THEOREM TypeCorrect == Spec => [](TypeOK /\ Holding)
  BY TypeInit, HoldingInit, TypeStep, HoldingStep, PTL DEF Spec
-----------------------------------------------------------------------------
(***************************************************************************)
(* No review is orphaned while every worker thread lives.  The invariant   *)
(* is inductive with TypeCorrect: the only steps that end a thread also    *)
(* make its premise false, and the only step that revives one takes every  *)
(* reviewing row back, whoever held it.                                    *)
(***************************************************************************)

LEMMA NoOrphanStep ==
  ASSUME TypeOK, Holding, NoOrphanedReview, [Next]_vars
  PROVE  NoOrphanedReview'
  <1> USE DEF NoOrphanedReview, TypeOK, rows, rules, threads, Busy
  <1>1. CASE UNCHANGED vars BY <1>1 DEF vars
  <1>2. ASSUME NEW r \in Runs, Register(r) \/ DelayPasses(r)
        PROVE  NoOrphanedReview'
    BY <1>2 DEF Register, CommitSubmission, CommitCandidate, EnqueueReview,
                RegistrationFails, DelayPasses
  <1>3. ASSUME NEW b \in Backends, Work(b) \/ Fail(b)
        PROVE  NoOrphanedReview'
    <2>1. CASE TestStop(b) BY <2>1 DEF TestStop
    <2>2. CASE FindNothing(b) BY <2>2 DEF FindNothing
    <2>3. CASE ClaimReview(b) BY <2>3 DEF ClaimReview, Due, EmptyHands
    <2>4. CASE CriticAnswers(b)
      <3>1. \A c \in Backends : task'[c].run = task[c].run
        BY <2>4 DEF CriticAnswers, Task
      <3>2. \A c \in Backends : /\ pc'[c] \in Busy <=> pc[c] \in Busy
                                /\ pc'[c] = "off" <=> pc[c] = "off"
        BY <2>4 DEF CriticAnswers
      <3> QED BY <2>4, <3>1, <3>2 DEF CriticAnswers
    <2>5. CASE ReadRule(b)
      <3>1. \A c \in Backends : task'[c].run = task[c].run
        BY <2>5 DEF ReadRule, Task
      <3> QED BY <2>5, <3>1 DEF ReadRule
    <2>6. CASE WriteRule(b)
      <3>1. \A c \in Backends : task'[c].run = task[c].run
        BY <2>6 DEF WriteRule, Task
      <3> QED BY <2>6, <3>1 DEF WriteRule
    <2>7. CASE UpdateStatus(b)
      <3>1. task[b].verdict # "reviewing" BY TaskFields
      <3>2. task[b].run \in Runs BY <2>7 DEF Holding, UpdateStatus
      <3> QED BY <2>7, <3>1, <3>2 DEF UpdateStatus
    <2>8. CASE DeferReview(b)
      <3>1. task[b].run \in Runs BY <2>8 DEF Holding, DeferReview
      <3> QED BY <2>8, <3>1 DEF DeferReview
    <2>9. CASE Fail(b) BY <2>9 DEF Fail, SaveFails, UpdateFails, ThreadDies
    <2> QED BY <1>3, <2>1, <2>2, <2>3, <2>4, <2>5, <2>6, <2>7, <2>8, <2>9 DEF Work
  <1>4. ASSUME NEW b \in Backends, StartBackend(b) \/ CloseBackend(b) \/ EndBackend(b)
        PROVE  NoOrphanedReview'
    BY <1>4 DEF StartBackend, RecoverInterrupted, CloseBackend, EndBackend
  <1> QED BY <1>1, <1>2, <1>3, <1>4 DEF Next

LEMMA NoOrphanInit == Init => NoOrphanedReview
  BY DEF Init, NoOrphanedReview

\* While the worker thread of every backend lives, every candidate in
\* "reviewing" is in the hands of one of them (recover_interrupted_reviews).
THEOREM ReviewsHaveReviewers == Spec => []NoOrphanedReview
  BY TypeCorrect, NoOrphanInit, NoOrphanStep, PTL DEF Spec
-----------------------------------------------------------------------------
(***************************************************************************)
(* An accepted candidate was published.  The strengthening follows the     *)
(* verdict into the local variables of the thread: it becomes "accepted"   *)
(* only together with the rule's transaction.                              *)
(***************************************************************************)

VerdictIsPublished ==
    \A b \in Backends :
        pc[b] \in Busy /\ task[b].verdict = "accepted" => task[b].run \in published

LEMMA PublishedStep ==
  ASSUME TypeOK, Holding, VerdictIsPublished, AcceptedIsPublished, [Next]_vars
  PROVE  VerdictIsPublished' /\ AcceptedIsPublished'
  <1> USE DEF VerdictIsPublished, AcceptedIsPublished, TypeOK, rows, rules, threads, Busy
  <1>1. CASE UNCHANGED vars BY <1>1 DEF vars
  <1>2. ASSUME NEW r \in Runs, Register(r) \/ DelayPasses(r)
        PROVE  VerdictIsPublished' /\ AcceptedIsPublished'
    BY <1>2 DEF Register, CommitSubmission, CommitCandidate, EnqueueReview,
                RegistrationFails, DelayPasses
  <1>3. ASSUME NEW b \in Backends, Work(b) \/ Fail(b)
        PROVE  VerdictIsPublished' /\ AcceptedIsPublished'
    <2>1. CASE TestStop(b) BY <2>1 DEF TestStop
    <2>2. CASE FindNothing(b) BY <2>2 DEF FindNothing
    <2>3. CASE ClaimReview(b) BY <2>3 DEF ClaimReview, EmptyHands
    <2>4. CASE CriticAnswers(b)
      <3>1. \A c \in Backends : /\ task'[c].run = task[c].run
                                /\ task'[c].verdict = task[c].verdict
        BY <2>4 DEF CriticAnswers, Task
      <3>2. \A c \in Backends : pc'[c] \in Busy => pc[c] \in Busy
        BY <2>4 DEF CriticAnswers
      <3> QED BY <2>4, <3>1, <3>2 DEF CriticAnswers
    <2>5. CASE ReadRule(b)
      <3>1. \A c \in Backends : /\ task'[c].run = task[c].run
                                /\ task'[c].verdict = task[c].verdict
        BY <2>5 DEF ReadRule, Task
      <3> QED BY <2>5, <3>1 DEF ReadRule
    <2>6. CASE WriteRule(b)
      <3>1. \A c \in Backends : task'[c].run = task[c].run
        BY <2>6 DEF WriteRule, Task
      <3>2. \A c \in Backends : c # b => task'[c].verdict = task[c].verdict
        BY <2>6 DEF WriteRule, Task
      <3>3. published \subseteq published' BY <2>6 DEF WriteRule
      <3>4. task'[b].verdict = "accepted" => task[b].run \in published'
        BY <2>6 DEF WriteRule, Task
      <3>5. \A c \in Backends : pc'[c] \in Busy <=> pc[c] \in Busy
        BY <2>6 DEF WriteRule
      <3>6. status' = status BY <2>6 DEF WriteRule
      <3> QED BY <3>1, <3>2, <3>3, <3>4, <3>5, <3>6
    <2>7. CASE UpdateStatus(b)
      <3>1. task[b].run \in Runs BY <2>7 DEF Holding, UpdateStatus
      <3> QED BY <2>7, <3>1 DEF UpdateStatus
    <2>8. CASE DeferReview(b)
      <3>1. task[b].run \in Runs BY <2>8 DEF Holding, DeferReview
      <3> QED BY <2>8, <3>1 DEF DeferReview
    <2>9. CASE Fail(b) BY <2>9 DEF Fail, SaveFails, UpdateFails, ThreadDies
    <2> QED BY <1>3, <2>1, <2>2, <2>3, <2>4, <2>5, <2>6, <2>7, <2>8, <2>9 DEF Work
  <1>4. ASSUME NEW b \in Backends, StartBackend(b) \/ CloseBackend(b) \/ EndBackend(b)
        PROVE  VerdictIsPublished' /\ AcceptedIsPublished'
    BY <1>4 DEF StartBackend, RecoverInterrupted, CloseBackend, EndBackend
  <1> QED BY <1>1, <1>2, <1>3, <1>4 DEF Next

LEMMA PublishedInit == Init => VerdictIsPublished /\ AcceptedIsPublished
  BY DEF Init, VerdictIsPublished, AcceptedIsPublished, Busy

\* No crash, failing transaction or second backend leaves an accepted candidate
\* whose rule was never committed (save_rule before update_status).
THEOREM AcceptedWasPublished == Spec => []AcceptedIsPublished
  BY TypeCorrect, PublishedInit, PublishedStep, PTL DEF Spec
-----------------------------------------------------------------------------
(***************************************************************************)
(* The support count of a rule is the number of its source rows, whatever  *)
(* the writers of two backends selected before they wrote.                 *)
(***************************************************************************)

LEMMA SourcesAreFinite ==
  ASSUME TypeOK, NEW k \in Purposes
  PROVE  IsFiniteSet(sources[k])
  BY RunsAreNumbers, FS_Subset DEF TypeOK

LEMMA SupportStep ==
  ASSUME TypeOK, Holding, SupportCountsSources, [Next]_vars
  PROVE  SupportCountsSources'
  <1> USE DEF SupportCountsSources, TypeOK
  <1>1. CASE UNCHANGED rules
    BY <1>1 DEF rules
  <1>2. ASSUME NEW b \in Backends, WriteRule(b)
        PROVE  SupportCountsSources'
    <2> DEFINE r == task[b].run
               key == PurposeOf[r]
    <2>1. r \in Runs /\ key \in Purposes
      BY <1>2, PurposesOfRuns DEF Holding, Busy, WriteRule
    <2>2. \A k \in Purposes : k # key => support'[k] = support[k] /\ sources'[k] = sources[k]
      BY <1>2 DEF WriteRule, SupportRule, ReplaceRule, InsertRule, rules
    <2>3. CASE SupportRule(b, r, key)
      <3>1. /\ IsFiniteSet(sources[key])
            /\ r \notin sources[key] =>
                  Cardinality(sources[key] \cup {r}) = Cardinality(sources[key]) + 1
        BY <2>1, SourcesAreFinite, FS_AddElement
      <3>2. CASE task[b].known
        <4>1. support'[key] = support[key] + 0 /\ sources'[key] = sources[key]
          BY <2>1, <2>3, <3>2 DEF SupportRule
        <4>2. support[key] + 0 = support[key] BY <2>1
        <4> QED BY <2>1, <2>2, <4>1, <4>2
      <3>3. CASE ~task[b].known
        <4>1. /\ r \notin sources[key]
              /\ support'[key] = support[key] + 1
              /\ sources'[key] = sources[key] \cup {r}
          BY <2>1, <2>3, <3>3 DEF SupportRule
        <4> QED BY <2>1, <2>2, <3>1, <4>1
      <3> QED BY <3>2, <3>3
    <2>4. CASE ReplaceRule(b, r, key) \/ InsertRule(b, r, key)
      <3>1. support'[key] = 1 /\ sources'[key] = {r}
        BY <2>1, <2>4 DEF ReplaceRule, InsertRule
      <3>2. Cardinality({r}) = 1 BY FS_Singleton
      <3> QED BY <2>1, <2>2, <3>1, <3>2
    <2>5. CASE UNCHANGED rules BY <2>5 DEF rules
    <2> QED BY <1>2, <2>3, <2>4, <2>5 DEF WriteRule
  <1>3. ASSUME NEW r \in Runs, Register(r) \/ DelayPasses(r)
        PROVE  UNCHANGED rules
    BY <1>3 DEF Register, CommitSubmission, CommitCandidate, EnqueueReview,
                RegistrationFails, DelayPasses
  <1>4. ASSUME NEW b \in Backends, Work(b) \/ Fail(b), ~WriteRule(b)
        PROVE  UNCHANGED rules
    BY <1>4 DEF Work, Fail, TestStop, FindNothing, ClaimReview, CriticAnswers, ReadRule,
                UpdateStatus, DeferReview, SaveFails, UpdateFails, ThreadDies
  <1>5. ASSUME NEW b \in Backends, StartBackend(b) \/ CloseBackend(b) \/ EndBackend(b)
        PROVE  UNCHANGED rules
    BY <1>5 DEF StartBackend, CloseBackend, EndBackend
  <1> QED BY <1>1, <1>2, <1>3, <1>4, <1>5 DEF Next, vars

LEMMA SupportInit == Init => SupportCountsSources
  BY FS_EmptySet DEF Init, SupportCountsSources

\* support_count equals the number of experience_rule_sources rows of the rule
\* in every reachable state (save_rule's three branches and its conflicts).
THEOREM SupportIsExact == Spec => []SupportCountsSources
  BY TypeCorrect, SupportInit, SupportStep, PTL DEF Spec
-----------------------------------------------------------------------------
(***************************************************************************)
(* What threads hold.  Only a claim takes a candidate in hand, every other *)
(* step of a thread keeps what it holds or drops it; and nobody holds a    *)
(* run whose registration is in progress.                                  *)
(***************************************************************************)

\* What thread c has in hand was in its hand before the step.
Held(c) ==
    pc'[c] \in Busy => /\ pc[c] \in Busy
                       /\ task'[c].run = task[c].run
                       /\ task'[c].tries = task[c].tries

\* A thread that does not claim takes nothing in hand.
LEMMA HandsStep ==
  ASSUME TypeOK, NEW b \in Backends, Work(b) \/ Fail(b), ~ClaimReview(b)
  PROVE  \A c \in Backends : Held(c)
  <1> USE DEF Held, TypeOK, Busy
  <1>1. CASE TestStop(b) \/ FindNothing(b) BY <1>1 DEF TestStop, FindNothing
  <1>2. CASE CriticAnswers(b)
    <2>1. \A c \in Backends : task'[c].run = task[c].run /\ task'[c].tries = task[c].tries
      BY <1>2 DEF CriticAnswers, Task
    <2> QED BY <1>2, <2>1 DEF CriticAnswers
  <1>3. CASE ReadRule(b)
    <2>1. \A c \in Backends : task'[c].run = task[c].run /\ task'[c].tries = task[c].tries
      BY <1>3 DEF ReadRule, Task
    <2> QED BY <1>3, <2>1 DEF ReadRule
  <1>4. CASE WriteRule(b)
    <2>1. \A c \in Backends : task'[c].run = task[c].run /\ task'[c].tries = task[c].tries
      BY <1>4 DEF WriteRule, Task
    <2> QED BY <1>4, <2>1 DEF WriteRule
  <1>5. CASE UpdateStatus(b) \/ DeferReview(b) BY <1>5 DEF UpdateStatus, DeferReview
  <1>6. CASE Fail(b) BY <1>6 DEF Fail, SaveFails, UpdateFails, ThreadDies
  <1> QED BY <1>1, <1>2, <1>3, <1>4, <1>5, <1>6 DEF Work

\* A start finds its thread off, and an end leaves it off.
LEMMA HandsProcess ==
  ASSUME TypeOK, NEW b \in Backends, StartBackend(b) \/ CloseBackend(b) \/ EndBackend(b)
  PROVE  \A c \in Backends : Held(c)
  BY DEF StartBackend, CloseBackend, EndBackend, Held, TypeOK, Busy

\* A registration in progress owns its row, and no thread holds its run.
Enrolled ==
    \A r \in Runs : collector[r] # "done" =>
        /\ status[r] = IF collector[r] = "committed" THEN "recorded" ELSE "absent"
        /\ \A b \in Backends : pc[b] \in Busy => task[b].run # r

LEMMA EnrolledInit == Init => Enrolled
  BY DEF Init, Enrolled, Busy

LEMMA EnrolledStep ==
  ASSUME TypeOK, Holding, Enrolled, [Next]_vars
  PROVE  Enrolled'
  <1> USE DEF TypeOK, rows, rules, threads
  <1>1. CASE UNCHANGED vars BY <1>1 DEF vars, Enrolled
  <1>2. ASSUME NEW r \in Runs, Register(r) \/ DelayPasses(r)
        PROVE  Enrolled'
    BY <1>2 DEF Register, CommitSubmission, CommitCandidate, EnqueueReview,
                RegistrationFails, DelayPasses, Enrolled
  <1>3. ASSUME NEW b \in Backends, Work(b) \/ Fail(b)
        PROVE  Enrolled'
    <2>1. collector' = collector
      BY <1>3 DEF Work, Fail, TestStop, FindNothing, ClaimReview, CriticAnswers, ReadRule,
                  WriteRule, UpdateStatus, DeferReview, SaveFails, UpdateFails, ThreadDies
    <2>2. CASE ClaimReview(b)
      BY <2>1, <2>2 DEF ClaimReview, Due, EmptyHands, Enrolled, Busy
    <2>3. CASE ~ClaimReview(b)
      <3>1. \A c \in Backends : Held(c) BY <1>3, <2>3, HandsStep
      <3>2. ASSUME NEW r \in Runs, collector[r] # "done"
            PROVE  status'[r] = status[r]
        <4>1. pc[b] \in Busy => task[b].run # r BY <3>2 DEF Enrolled
        <4> QED BY <1>3, <2>3, <4>1
                DEF Work, Fail, TestStop, FindNothing, CriticAnswers, ReadRule, WriteRule,
                    UpdateStatus, DeferReview, SaveFails, UpdateFails, ThreadDies, Busy
      <3> QED BY <2>1, <3>1, <3>2 DEF Enrolled, Held
    <2> QED BY <2>2, <2>3
  <1>4. ASSUME NEW b \in Backends, StartBackend(b) \/ CloseBackend(b) \/ EndBackend(b)
        PROVE  Enrolled'
    <2>1. \A c \in Backends : Held(c) BY <1>4, HandsProcess
    <2>2. \A r \in Runs : collector'[r] # "done" => collector'[r] = collector[r]
      BY <1>4 DEF StartBackend, CloseBackend, EndBackend
    <2>3. \A r \in Runs : status[r] # "reviewing" => status'[r] = status[r]
      BY <1>4 DEF StartBackend, RecoverInterrupted, CloseBackend, EndBackend
    <2> QED BY <2>1, <2>2, <2>3 DEF Enrolled, Held
  <1> QED BY <1>1, <1>2, <1>3, <1>4 DEF Next
-----------------------------------------------------------------------------
(***************************************************************************)
(* With one backend, the queue implements ReviewQueue.  The invariant that *)
(* carries the refinement: the reviewing row, if any, is the row in the    *)
(* hands of the only thread, and a thread that has not yet decided still   *)
(* owns a reviewing row.                                                   *)
(***************************************************************************)

Sole(b) ==
    /\ proc[b] = "down" => pc[b] = "off"
    /\ pc[b] \in {"idle", "claiming"} => \A r \in Runs : status[r] # "reviewing"
    /\ pc[b] \in Busy => \A r \in Runs : status[r] = "reviewing" => r = task[b].run
    /\ pc[b] \in Busy \ {"deferring"} => status[task[b].run] = "reviewing"
    /\ \A r, other \in Runs :
           status[r] = "reviewing" /\ status[other] = "reviewing" => r = other

LEMMA SoleStep ==
  ASSUME TypeOK, Holding, Enrolled, NEW b \in Backends, Backends = {b}, Sole(b), [Next]_vars
  PROVE  Sole(b)'
  <1> USE DEF Sole, TypeOK, rows, rules, threads, Busy
  <1>1. CASE UNCHANGED vars BY <1>1 DEF vars
  <1>2. ASSUME NEW r \in Runs, Register(r) \/ DelayPasses(r)
        PROVE  Sole(b)'
    <2>1. ASSUME NEW column \in Statuses \ {"reviewing"}, status[r] # "reviewing",
                 status' = [status EXCEPT ![r] = column], UNCHANGED <<proc, pc, task>>
          PROVE  Sole(b)'
      BY <2>1 DEF Holding
    <2>2. CASE CommitCandidate(r)
      BY <2>1, <2>2 DEF CommitCandidate, Enrolled, Statuses
    <2>3. CASE EnqueueReview(r)
      BY <2>1, <2>3 DEF EnqueueReview, Statuses
    <2>4. CASE CommitSubmission(r) \/ RegistrationFails(r) \/ DelayPasses(r)
      BY <2>4 DEF CommitSubmission, RegistrationFails, DelayPasses
    <2> QED BY <1>2, <2>2, <2>3, <2>4 DEF Register
  <1>3. CASE Work(b)
    <2>1. CASE TestStop(b) BY <2>1 DEF TestStop
    <2>2. CASE FindNothing(b) BY <2>2 DEF FindNothing
    <2>3. CASE ClaimReview(b) BY <2>3 DEF ClaimReview, Due, EmptyHands
    <2>4. CASE CriticAnswers(b)
      <3>1. task'[b].run = task[b].run BY <2>4 DEF CriticAnswers, Task
      <3>2. pc'[b] \in {"reading", "deciding", "deferring"} BY <2>4 DEF CriticAnswers
      <3> QED BY <2>4, <3>1, <3>2 DEF CriticAnswers
    <2>5. CASE ReadRule(b)
      <3>1. task'[b].run = task[b].run BY <2>5 DEF ReadRule, Task
      <3> QED BY <2>5, <3>1 DEF ReadRule
    <2>6. CASE WriteRule(b)
      <3>1. task'[b].run = task[b].run BY <2>6 DEF WriteRule, Task
      <3> QED BY <2>6, <3>1 DEF WriteRule
    <2>7. CASE UpdateStatus(b)
      <3>1. task[b].run \in Runs /\ task[b].verdict # "reviewing"
        BY <2>7, TaskFields DEF UpdateStatus, Holding
      <3> QED BY <2>7, <3>1 DEF UpdateStatus
    <2>8. CASE DeferReview(b)
      <3>1. task[b].run \in Runs BY <2>8 DEF DeferReview, Holding
      <3> QED BY <2>8, <3>1 DEF DeferReview
    <2> QED BY <1>3, <2>1, <2>2, <2>3, <2>4, <2>5, <2>6, <2>7, <2>8 DEF Work
  <1>4. CASE Fail(b) BY <1>4 DEF Fail, SaveFails, UpdateFails, ThreadDies
  <1>5. CASE StartBackend(b) BY <1>5 DEF StartBackend, RecoverInterrupted
  <1>6. CASE CloseBackend(b) BY <1>6 DEF CloseBackend
  <1>7. CASE EndBackend(b) BY <1>7 DEF EndBackend
  <1> QED BY <1>1, <1>2, <1>3, <1>4, <1>5, <1>6, <1>7 DEF Next

\* A step that rewrites one row moves one candidate of the abstract queue.
LEMMA RowMoves ==
  ASSUME TypeOK, NEW r \in Runs, NEW column, status' = [status EXCEPT ![r] = column]
  PROVE  StageOf' = [StageOf EXCEPT ![r] = Stage(column)]
  BY DEF TypeOK, StageOf

LEMMA QueueStep ==
  ASSUME TypeOK, Holding, Enrolled, NEW b \in Backends, Backends = {b}, Sole(b), [Next]_vars
  PROVE  [Queue!Next]_StageOf
  <1> USE DEF TypeOK, rows, rules, threads, Busy
  <1>0. \A r \in Runs : StageOf[r] = Stage(status[r]) BY DEF StageOf
  <1>1. ASSUME UNCHANGED status
        PROVE  UNCHANGED StageOf
    BY <1>1 DEF StageOf
  <1>2. ASSUME NEW r \in Runs, Register(r)
        PROVE  [Queue!Next]_StageOf
    <2>1. CASE CommitCandidate(r)
      <3>1. Stage(status[r]) = "none" /\ status' = [status EXCEPT ![r] = "recorded"]
        BY <2>1 DEF CommitCandidate, Enrolled, Stage
      <3>2. Queue!Record(r) BY <1>0, <3>1, RowMoves DEF Queue!Record, Queue!Move, Stage
      <3> QED BY <3>2 DEF Queue!Next
    <2>2. CASE EnqueueReview(r)
      <3>1. Stage(status[r]) = "recorded" /\ status' = [status EXCEPT ![r] = "pending_review"]
        BY <2>2 DEF EnqueueReview, Stage
      <3>2. Queue!Release(r) BY <1>0, <3>1, RowMoves DEF Queue!Release, Queue!Move, Stage
      <3> QED BY <3>2 DEF Queue!Next
    <2> QED BY <1>1, <1>2, <2>1, <2>2 DEF Register, CommitSubmission, RegistrationFails
  <1>3. ASSUME NEW r \in Runs, DelayPasses(r)
        PROVE  [Queue!Next]_StageOf
    BY <1>1, <1>3 DEF DelayPasses
  <1>4. CASE Work(b)
    <2>1. CASE ClaimReview(b)
      <3>1. PICK r \in Due : status' = [status EXCEPT ![r] = "reviewing"]
        BY <2>1 DEF ClaimReview
      <3>2. r \in Runs /\ Stage(status[r]) = "waiting" BY DEF Due, Stage
      <3>3. \A other \in Runs : Stage(status[other]) # "inHand"
        BY <2>1 DEF ClaimReview, Sole, Stage
      <3>4. Queue!Take(r)
        BY <1>0, <3>1, <3>2, <3>3, RowMoves DEF Queue!Take, Queue!Move, Stage
      <3> QED BY <3>2, <3>4 DEF Queue!Next
    <2>2. CASE UpdateStatus(b)
      <3> DEFINE r == task[b].run
      <3>1. r \in Runs /\ Stage(status[r]) = "inHand"
        BY <2>2 DEF UpdateStatus, Sole, Holding, Stage
      <3>2. status' = [status EXCEPT ![r] = task[b].verdict] BY <2>2 DEF UpdateStatus
      <3>3. Stage(task[b].verdict) = "settled" BY TaskFields DEF Stage
      <3> HIDE DEF r
      <3>4. StageOf' = [StageOf EXCEPT ![r] = Stage(task[b].verdict)]
        BY <3>1, <3>2, RowMoves
      <3>5. StageOf[r] = "inHand" /\ StageOf' = [StageOf EXCEPT ![r] = "settled"]
        BY <1>0, <3>1, <3>3, <3>4
      <3>6. Queue!Settle(r) BY <3>5 DEF Queue!Settle, Queue!Move
      <3> QED BY <3>1, <3>6 DEF Queue!Next
    <2>3. CASE DeferReview(b)
      <3> DEFINE r == task[b].run
      <3>1. r \in Runs BY <2>3 DEF DeferReview, Holding
      <3>2. CASE status[r] = "reviewing"
        <4>1. \/ status' = [status EXCEPT ![r] = "review_failed"]
              \/ status' = [status EXCEPT ![r] = "pending_review"]
          BY <2>3, <3>2 DEF DeferReview
        <4>2. Queue!Settle(r) \/ Queue!PutBack(r)
          BY <1>0, <3>1, <3>2, <4>1, RowMoves
             DEF Queue!Settle, Queue!PutBack, Queue!Move, Stage
        <4> QED BY <3>1, <4>2 DEF Queue!Next
      <3>3. CASE status[r] # "reviewing" BY <1>1, <2>3, <3>3 DEF DeferReview
      <3> QED BY <3>2, <3>3
    <2> QED BY <1>1, <1>4, <2>1, <2>2, <2>3
            DEF Work, TestStop, FindNothing, CriticAnswers, ReadRule, WriteRule
  <1>5. CASE StartBackend(b)
    <2>1. CASE \A r \in Runs : status[r] # "reviewing"
      BY <1>1, <1>5, <2>1 DEF StartBackend, RecoverInterrupted
    <2>2. CASE \E r \in Runs : status[r] = "reviewing"
      <3>1. PICK r \in Runs : status[r] = "reviewing" BY <2>2
      <3>2. status' = [status EXCEPT ![r] = "pending_review"]
        BY <1>5, <3>1 DEF StartBackend, RecoverInterrupted, Sole
      <3>3. Queue!PutBack(r)
        BY <1>0, <3>1, <3>2, RowMoves DEF Queue!PutBack, Queue!Move, Stage
      <3> QED BY <3>3 DEF Queue!Next
    <2> QED BY <2>1, <2>2
  <1> QED
    BY <1>1, <1>2, <1>3, <1>4, <1>5
       DEF Next, vars, Fail, SaveFails, UpdateFails, ThreadDies, CloseBackend, EndBackend

\* With one backend process on the database file, the promotion queue
\* implements the abstract review queue: at most one candidate in hand, put
\* back or settled by its holder, and settled once.
THEOREM ImplementsReviewQueue ==
  ASSUME NEW b \in Backends, Backends = {b}
  PROVE  Spec => IsReviewQueue
  <1>1. Init => Enrolled /\ Sole(b) /\ Queue!Init
    BY DEF Init, Enrolled, Sole, Busy, Queue!Init, StageOf, Stage
  <1>2. TypeOK /\ Holding /\ Enrolled /\ Sole(b) /\ [Next]_vars
          => Enrolled' /\ Sole(b)' /\ [Queue!Next]_StageOf
    BY EnrolledStep, SoleStep, QueueStep
  <1> QED BY <1>1, <1>2, TypeCorrect, PTL DEF Spec, IsReviewQueue, Queue!Spec
-----------------------------------------------------------------------------
(***************************************************************************)
(* Verdicts are final.  The update_status of a promotion thread names no   *)
(* expected status; Sole shows that its row is nevertheless "reviewing".   *)
(***************************************************************************)

LEMMA SettledStep ==
  ASSUME TypeOK, Holding, Enrolled, NEW b \in Backends, Backends = {b}, Sole(b),
         [Next]_vars, NEW r \in Runs, status[r] \in Settled
  PROVE  status'[r] = status[r]
  <1> USE DEF TypeOK, rows, rules, threads, Busy, Settled
  <1>1. CASE UNCHANGED status BY <1>1
  <1>2. ASSUME NEW other \in Runs, Register(other) \/ DelayPasses(other)
        PROVE  status'[r] = status[r]
    BY <1>2 DEF Register, CommitSubmission, CommitCandidate, EnqueueReview,
                RegistrationFails, DelayPasses, Enrolled
  <1>3. CASE ClaimReview(b) BY <1>3 DEF ClaimReview, Due
  <1>4. CASE UpdateStatus(b) BY <1>4 DEF UpdateStatus, Sole, Holding
  <1>5. CASE DeferReview(b) BY <1>5 DEF DeferReview, Holding
  <1>6. CASE StartBackend(b) BY <1>6 DEF StartBackend, RecoverInterrupted
  <1> QED
    BY <1>1, <1>2, <1>3, <1>4, <1>5, <1>6
       DEF Next, vars, Work, TestStop, FindNothing, CriticAnswers, ReadRule, WriteRule,
           Fail, SaveFails, UpdateFails, ThreadDies, CloseBackend, EndBackend

\* With one backend no step reopens or overrules a settled candidate, even when
\* the thread's own error handler runs after its verdict was written.
THEOREM VerdictsAreFinal ==
  ASSUME NEW b \in Backends, Backends = {b}
  PROVE  Spec => VerdictIsFinal
  <1>1. Init => Enrolled /\ Sole(b)
    BY DEF Init, Enrolled, Sole, Busy
  <1>2. TypeOK /\ Holding /\ Enrolled /\ Sole(b) /\ [Next]_vars
          => Enrolled' /\ Sole(b)'
    BY EnrolledStep, SoleStep
  <1>3. TypeOK /\ Holding /\ Enrolled /\ Sole(b) /\ [Next]_vars
          => [\A r \in Runs : status[r] \in Settled => status'[r] = status[r]]_vars
    BY SettledStep
  <1> QED BY <1>1, <1>2, <1>3, TypeCorrect, PTL DEF Spec, VerdictIsFinal
-----------------------------------------------------------------------------
(***************************************************************************)
(* The retry limit, for any number of backends.  After a restart several   *)
(* threads may review one candidate, and each of them may give it back;    *)
(* the invariant counts what they can still make of its attempts.          *)
(***************************************************************************)

\* The threads that hold a review of r which they would give back when it
\* fails: more than one only after restarts took the review back.
Spare(r) == {b \in Backends : /\ pc[b] \in Busy /\ task[b].run = r
                              /\ task[b].tries < MaxAttempts}

\* What is left of a candidate's attempts: a waiting one may be claimed once
\* more, and every spare thread may make it wait again.
InBudget(r) ==
    /\ IsFiniteSet(Spare(r))
    /\ attempts[r] <= MaxAttempts + interrupted[r]
    /\ status[r] \in {"absent", "recorded"} => attempts[r] = 0 /\ Spare(r) = {}
    /\ status[r] = "pending_review" =>
           /\ Cardinality(Spare(r)) <= interrupted[r]
           /\ attempts[r] + Cardinality(Spare(r)) < MaxAttempts + interrupted[r]
    /\ status[r] = "reviewing" =>
           /\ Cardinality(Spare(r)) <= interrupted[r] + 1
           /\ attempts[r] + Cardinality(Spare(r)) <= MaxAttempts + interrupted[r]

Budget == \A r \in Runs : InBudget(r)

\* A step that takes no review of r in hand keeps its budget when the row stays,
\* is queued, is settled, or is taken back and counted.
LEMMA BudgetKept ==
  ASSUME TypeOK, NEW r \in Runs, InBudget(r), Spare(r)' \subseteq Spare(r),
         attempts'[r] = attempts[r],
         \/ status'[r] = status[r] /\ interrupted'[r] = interrupted[r]
         \/ status'[r] \in Settled /\ interrupted'[r] = interrupted[r]
         \/ /\ status[r] = "absent" /\ status'[r] = "recorded"
            /\ interrupted'[r] = interrupted[r]
         \/ /\ status[r] = "recorded" /\ status'[r] = "pending_review"
            /\ interrupted'[r] = interrupted[r]
         \/ /\ status[r] = "reviewing" /\ status'[r] = "pending_review"
            /\ interrupted'[r] = interrupted[r] + 1
  PROVE  InBudget(r)'
  <1> DEFINE old == Spare(r)
             new == Spare(r)'
  <1>1. IsFiniteSet(old) BY DEF InBudget
  <1>2. /\ IsFiniteSet(new) /\ Cardinality(new) <= Cardinality(old)
        /\ Cardinality(new) \in Nat /\ Cardinality(old) \in Nat
    BY <1>1, FS_Subset, FS_CardinalityType
  <1>3. Cardinality({}) = 0 BY FS_EmptySet
  <1>4. old = {} => new = {} OBVIOUS
  <1>5. attempts[r] \in Nat /\ interrupted[r] \in Nat /\ MaxAttempts \in Nat \ {0}
    BY LimitsAreNumbers DEF TypeOK
  <1>6. /\ attempts[r] <= MaxAttempts + interrupted[r]
        /\ status[r] \in {"absent", "recorded"} => attempts[r] = 0 /\ old = {}
        /\ status[r] = "pending_review" =>
             /\ Cardinality(old) <= interrupted[r]
             /\ attempts[r] + Cardinality(old) < MaxAttempts + interrupted[r]
        /\ status[r] = "reviewing" =>
             /\ Cardinality(old) <= interrupted[r] + 1
             /\ attempts[r] + Cardinality(old) <= MaxAttempts + interrupted[r]
    BY DEF InBudget
  <1> HIDE DEF old, new
  <1>7. /\ IsFiniteSet(new)
        /\ attempts'[r] <= MaxAttempts + interrupted'[r]
        /\ status'[r] \in {"absent", "recorded"} => attempts'[r] = 0 /\ new = {}
        /\ status'[r] = "pending_review" =>
             /\ Cardinality(new) <= interrupted'[r]
             /\ attempts'[r] + Cardinality(new) < MaxAttempts + interrupted'[r]
        /\ status'[r] = "reviewing" =>
             /\ Cardinality(new) <= interrupted'[r] + 1
             /\ attempts'[r] + Cardinality(new) <= MaxAttempts + interrupted'[r]
    <2>1. CASE status'[r] = status[r] /\ interrupted'[r] = interrupted[r]
      BY <1>2, <1>4, <1>5, <1>6, <2>1
    <2>2. CASE status'[r] \in Settled /\ interrupted'[r] = interrupted[r]
      BY <1>2, <1>5, <1>6, <2>2 DEF Settled
    <2>3. CASE /\ status[r] = "recorded" /\ status'[r] = "pending_review"
               /\ interrupted'[r] = interrupted[r]
      <3>1. attempts[r] = 0 /\ Cardinality(new) = 0 BY <1>3, <1>4, <1>6, <2>3
      <3> QED BY <1>2, <1>5, <2>3, <3>1
    <2>4. CASE /\ status[r] = "reviewing" /\ status'[r] = "pending_review"
               /\ interrupted'[r] = interrupted[r] + 1
      BY <1>2, <1>5, <1>6, <2>4
    <2>5. CASE /\ status[r] = "absent" /\ status'[r] = "recorded"
               /\ interrupted'[r] = interrupted[r]
      BY <1>2, <1>4, <1>5, <1>6, <2>5
    <2> QED BY <2>1, <2>2, <2>3, <2>4, <2>5
  <1> QED BY <1>7 DEF InBudget, new

\* When no thread takes a review in hand, no run gains a spare thread.
LEMMA SpareShrinks ==
  ASSUME \A c \in Backends : Held(c), NEW r
  PROVE  Spare(r)' \subseteq Spare(r)
  BY DEF Held, Spare

\* A claim turns one of the attempts left into an attempt made.
LEMMA BudgetClaimed ==
  ASSUME TypeOK, NEW b \in Backends, NEW r \in Runs, InBudget(r),
         status[r] = "pending_review", status'[r] = "reviewing",
         attempts'[r] = attempts[r] + 1, interrupted'[r] = interrupted[r],
         pc'[b] \in Busy, task'[b].run = r, task'[b].tries = attempts[r] + 1,
         pc[b] \notin Busy, \A c \in Backends \ {b} : Held(c)
  PROVE  InBudget(r)'
  <1> DEFINE old == Spare(r)
             new == Spare(r)'
  <1>1. /\ IsFiniteSet(old)
        /\ attempts[r] <= MaxAttempts + interrupted[r]
        /\ Cardinality(old) <= interrupted[r]
        /\ attempts[r] + Cardinality(old) < MaxAttempts + interrupted[r]
    BY DEF InBudget
  <1>2. attempts[r] \in Nat /\ interrupted[r] \in Nat /\ MaxAttempts \in Nat \ {0}
    BY LimitsAreNumbers DEF TypeOK
  <1>3. b \notin old BY DEF Spare
  <1>4. /\ IsFiniteSet(old \cup {b}) /\ Cardinality(old \cup {b}) = Cardinality(old) + 1
        /\ Cardinality(old) \in Nat
    BY <1>1, <1>3, FS_AddElement, FS_CardinalityType
  <1>5. CASE attempts[r] + 1 < MaxAttempts
    <2>1. new \subseteq old \cup {b} BY DEF Held, Spare
    <2> HIDE DEF old, new
    <2>2. /\ IsFiniteSet(new) /\ Cardinality(new) <= Cardinality(old) + 1
          /\ Cardinality(new) \in Nat
      BY <1>4, <2>1, FS_Subset, FS_CardinalityType
    <2>3. /\ attempts'[r] <= MaxAttempts + interrupted'[r]
          /\ Cardinality(new) <= interrupted'[r] + 1
          /\ attempts'[r] + Cardinality(new) <= MaxAttempts + interrupted'[r]
      BY <1>1, <1>2, <1>4, <1>5, <2>2
    <2> QED BY <2>2, <2>3 DEF InBudget, new
  <1>6. CASE ~(attempts[r] + 1 < MaxAttempts)
    <2>1. new \subseteq old BY <1>6 DEF Held, Spare
    <2> HIDE DEF old, new
    <2>2. /\ IsFiniteSet(new) /\ Cardinality(new) <= Cardinality(old)
          /\ Cardinality(new) \in Nat
      BY <1>1, <2>1, FS_Subset, FS_CardinalityType
    <2>3. /\ attempts'[r] <= MaxAttempts + interrupted'[r]
          /\ Cardinality(new) <= interrupted'[r] + 1
          /\ attempts'[r] + Cardinality(new) <= MaxAttempts + interrupted'[r]
      BY <1>1, <1>2, <1>4, <2>2
    <2> QED BY <2>2, <2>3 DEF InBudget, new
  <1> QED BY <1>5, <1>6

\* A failed review that goes back to the queue lets one spare thread go.
LEMMA BudgetPutBack ==
  ASSUME TypeOK, NEW b \in Backends, NEW r \in Runs, InBudget(r), b \in Spare(r),
         status[r] = "reviewing", status'[r] = "pending_review",
         attempts'[r] = attempts[r], interrupted'[r] = interrupted[r],
         pc'[b] \notin Busy, \A c \in Backends : Held(c)
  PROVE  InBudget(r)'
  <1> DEFINE old == Spare(r)
             new == Spare(r)'
  <1>1. /\ IsFiniteSet(old)
        /\ attempts[r] <= MaxAttempts + interrupted[r]
        /\ Cardinality(old) <= interrupted[r] + 1
        /\ attempts[r] + Cardinality(old) <= MaxAttempts + interrupted[r]
    BY DEF InBudget
  <1>2. attempts[r] \in Nat /\ interrupted[r] \in Nat /\ MaxAttempts \in Nat \ {0}
    BY LimitsAreNumbers DEF TypeOK
  <1>3. new \subseteq old \ {b} BY DEF Held, Spare
  <1> HIDE DEF new
  <1>4. /\ IsFiniteSet(old \ {b}) /\ Cardinality(old \ {b}) = Cardinality(old) - 1
        /\ Cardinality(old) \in Nat
    BY <1>1, FS_RemoveElement, FS_CardinalityType
  <1>5. /\ IsFiniteSet(new) /\ Cardinality(new) <= Cardinality(old) - 1
        /\ Cardinality(new) \in Nat
    BY <1>3, <1>4, FS_Subset, FS_CardinalityType
  <1>6. /\ attempts'[r] <= MaxAttempts + interrupted'[r]
        /\ Cardinality(new) <= interrupted'[r]
        /\ attempts'[r] + Cardinality(new) < MaxAttempts + interrupted'[r]
    BY <1>1, <1>2, <1>4, <1>5
  <1> QED BY <1>5, <1>6 DEF InBudget, new

LEMMA BudgetStep ==
  ASSUME TypeOK, Holding, Enrolled, Budget, [Next]_vars, NEW r \in Runs
  PROVE  InBudget(r)'
  <1> USE DEF TypeOK, rows, rules, threads
  <1>0. InBudget(r) BY DEF Budget
  <1>1. ASSUME UNCHANGED <<status, attempts, interrupted>>, \A c \in Backends : Held(c)
        PROVE  InBudget(r)'
    BY <1>0, <1>1, SpareShrinks, BudgetKept
  <1>2. CASE UNCHANGED vars BY <1>1, <1>2 DEF vars, Held
  <1>3. ASSUME NEW other \in Runs, Register(other) \/ DelayPasses(other)
        PROVE  InBudget(r)'
    <2>1. \A c \in Backends : Held(c)
      BY <1>3 DEF Register, CommitSubmission, CommitCandidate, EnqueueReview,
                  RegistrationFails, DelayPasses, Held
    <2>2. Spare(r)' \subseteq Spare(r) BY <2>1, SpareShrinks
    <2>3. CASE CommitCandidate(other)
      <3>1. status[other] = "absent" /\ attempts[other] = 0
        BY <2>3 DEF CommitCandidate, Enrolled, Budget, InBudget
      <3>2. /\ attempts'[r] = attempts[r] /\ interrupted'[r] = interrupted[r]
            /\ \/ status'[r] = status[r]
               \/ status[r] = "absent" /\ status'[r] = "recorded"
        BY <2>3, <3>1 DEF CommitCandidate
      <3> QED BY <1>0, <2>2, <3>2, BudgetKept
    <2>4. CASE EnqueueReview(other)
      <3>1. /\ attempts'[r] = attempts[r] /\ interrupted'[r] = interrupted[r]
            /\ \/ status'[r] = status[r]
               \/ status[r] = "recorded" /\ status'[r] = "pending_review"
        BY <2>4 DEF EnqueueReview
      <3> QED BY <1>0, <2>2, <3>1, BudgetKept
    <2>5. CASE CommitSubmission(other) \/ RegistrationFails(other) \/ DelayPasses(other)
      BY <1>1, <2>1, <2>5 DEF CommitSubmission, RegistrationFails, DelayPasses
    <2> QED BY <1>3, <2>3, <2>4, <2>5 DEF Register
  <1>4. ASSUME NEW b \in Backends, ClaimReview(b)
        PROVE  InBudget(r)'
    <2>1. PICK due \in Due :
            /\ status' = [status EXCEPT ![due] = "reviewing"]
            /\ attempts' = [attempts EXCEPT ![due] = @ + 1]
            /\ task' = [task EXCEPT ![b] =
                           [EmptyHands EXCEPT !.run = due, !.tries = attempts[due] + 1]]
      BY <1>4 DEF ClaimReview
    <2>2. due \in Runs /\ status[due] = "pending_review" BY DEF Due
    <2>3. \A c \in Backends \ {b} : Held(c) BY <1>4, <2>1 DEF ClaimReview, Held
    <2>4. /\ pc[b] \notin Busy /\ pc'[b] \in Busy /\ UNCHANGED interrupted
          /\ task'[b].run = due /\ task'[b].tries = attempts[due] + 1
      BY <1>4, <2>1 DEF ClaimReview, EmptyHands, Busy
    <2>5. CASE r = due
      BY <1>0, <2>1, <2>2, <2>3, <2>4, <2>5, BudgetClaimed
    <2>6. CASE r # due
      <3>1. Spare(r)' \subseteq Spare(r) BY <2>3, <2>4, <2>6 DEF Spare, Held
      <3>2. UNCHANGED <<status[r], attempts[r], interrupted[r]>> BY <2>1, <2>4, <2>6
      <3> QED BY <1>0, <3>1, <3>2, BudgetKept
    <2> QED BY <2>5, <2>6
  <1>5. ASSUME NEW b \in Backends, Work(b) \/ Fail(b), ~ClaimReview(b)
        PROVE  InBudget(r)'
    <2>1. \A c \in Backends : Held(c) BY <1>5, HandsStep
    <2>2. Spare(r)' \subseteq Spare(r) BY <2>1, SpareShrinks
    <2>3. CASE UpdateStatus(b)
      <3>1. task[b].verdict \in Settled BY TaskFields DEF Settled
      <3>2. /\ attempts'[r] = attempts[r] /\ interrupted'[r] = interrupted[r]
            /\ status'[r] = status[r] \/ status'[r] \in Settled
        BY <2>3, <3>1 DEF UpdateStatus
      <3> QED BY <1>0, <2>2, <3>2, BudgetKept
    <2>4. CASE DeferReview(b)
      <3>1. /\ attempts'[r] = attempts[r] /\ interrupted'[r] = interrupted[r]
            /\ pc[b] \in Busy /\ pc'[b] \notin Busy
        BY <2>4 DEF DeferReview, Busy
      <3>2. CASE status'[r] = status[r] \/ status'[r] \in Settled
        BY <1>0, <2>2, <3>1, <3>2, BudgetKept
      <3>3. CASE ~(status'[r] = status[r] \/ status'[r] \in Settled)
        <4>1. /\ status[r] = "reviewing" /\ status'[r] = "pending_review"
              /\ r = task[b].run /\ ~(task[b].tries >= MaxAttempts)
          BY <2>4, <3>3 DEF DeferReview, Settled
        <4>2. task[b].tries < MaxAttempts BY <4>1, TaskFields, LimitsAreNumbers
        <4>3. b \in Spare(r) BY <3>1, <4>1, <4>2 DEF Spare
        <4> QED BY <1>0, <2>1, <3>1, <4>1, <4>3, BudgetPutBack
      <3> QED BY <3>2, <3>3
    <2>5. CASE ~UpdateStatus(b) /\ ~DeferReview(b)
      <3>1. UNCHANGED <<status, attempts, interrupted>>
        BY <1>5, <2>5 DEF Work, Fail, TestStop, FindNothing, CriticAnswers, ReadRule,
                          WriteRule, SaveFails, UpdateFails, ThreadDies
      <3> QED BY <1>1, <2>1, <3>1
    <2> QED BY <2>3, <2>4, <2>5
  <1>6. ASSUME NEW b \in Backends, StartBackend(b) \/ CloseBackend(b) \/ EndBackend(b)
        PROVE  InBudget(r)'
    <2>1. \A c \in Backends : Held(c) BY <1>6, HandsProcess
    <2>2. Spare(r)' \subseteq Spare(r) BY <2>1, SpareShrinks
    <2>3. CASE StartBackend(b)
      <3>1. /\ attempts'[r] = attempts[r]
            /\ \/ status'[r] = status[r] /\ interrupted'[r] = interrupted[r]
               \/ /\ status[r] = "reviewing" /\ status'[r] = "pending_review"
                  /\ interrupted'[r] = interrupted[r] + 1
        BY <2>3 DEF StartBackend, RecoverInterrupted
      <3> QED BY <1>0, <2>2, <3>1, BudgetKept
    <2>4. CASE CloseBackend(b) \/ EndBackend(b)
      BY <1>1, <2>1, <2>4 DEF CloseBackend, EndBackend
    <2> QED BY <1>6, <2>3, <2>4
  <1> QED BY <1>2, <1>3, <1>4, <1>5, <1>6 DEF Next

LEMMA BudgetInit == Init => Budget
  <1> SUFFICES ASSUME Init, NEW r \in Runs PROVE InBudget(r)
    BY DEF Budget
  <1>1. Spare(r) = {} BY DEF Init, Spare, Busy
  <1>2. IsFiniteSet({}) BY FS_EmptySet
  <1>3. status[r] = "absent" /\ attempts[r] = 0 /\ interrupted[r] = 0 BY DEF Init
  <1>4. 0 <= MaxAttempts + 0 BY LimitsAreNumbers
  <1> QED BY <1>1, <1>2, <1>3, <1>4 DEF InBudget

\* However many backends review at once, crash and start again, and however
\* many transactions fail: a candidate is claimed at most max_attempts times
\* plus once per review that a start took back (claim_review, defer_review).
THEOREM AttemptsAreBounded == Spec => []AttemptsBounded
  <1>1. TypeOK /\ Holding /\ Enrolled /\ Budget /\ [Next]_vars => Enrolled' /\ Budget'
    BY EnrolledStep, BudgetStep DEF Budget
  <1>2. Budget => AttemptsBounded BY DEF Budget, InBudget, AttemptsBounded
  <1> QED BY <1>1, <1>2, EnrolledInit, BudgetInit, TypeCorrect, PTL DEF Spec
-----------------------------------------------------------------------------
(***************************************************************************)
(* What a turned down candidate leaves behind.  The invariant is about a   *)
(* candidate no start has taken back: one thread at most holds it, and its *)
(* rule is in the store only between the two transactions of an accepting  *)
(* review, and after them.  A failing transaction can separate the two     *)
(* without any restart, so the theorem is about a database that answers.   *)
(***************************************************************************)

HeldBy(b, r) == pc[b] \in Busy /\ task[b].run = r

\* The candidate's rule is active and counts the candidate as a source.
Supports(r) == r \in sources[PurposeOf[r]]

Undisturbed(r) ==
    /\ \A b, c \in Backends : HeldBy(b, r) /\ HeldBy(c, r) => b = c
    /\ \A b \in Backends : HeldBy(b, r) =>
           /\ status[r] \in Settled \cup {"reviewing"}
           /\ pc[b] # "deferring" => status[r] = "reviewing"
           /\ status[r] = "reviewing" /\ Supports(r) =>
                  pc[b] = "deciding" /\ task[b].verdict = "accepted"
    /\ Supports(r) => status[r] \in {"reviewing", "accepted"}

Clean == \A r \in Runs : interrupted[r] = 0 => Undisturbed(r)

\* Steps that concern other candidates leave an undisturbed one alone: they may
\* take it out of the sources of a rule and take it out of a thread's hand.
LEMMA CleanKept ==
  ASSUME NEW r \in Runs, Undisturbed(r), status'[r] = status[r],
         Supports(r)' => Supports(r),
         \A c \in Backends : HeldBy(c, r)' =>
             HeldBy(c, r) /\ pc'[c] = pc[c] /\ task'[c].verdict = task[c].verdict
  PROVE  Undisturbed(r)'
  BY DEF Undisturbed

\* A review writes no run but its own into the sources of a rule.
LEMMA SourcesOfOthers ==
  ASSUME TypeOK, Holding, NEW b \in Backends, Work(b) \/ Fail(b),
         NEW r \in Runs, Supports(r)', ~Supports(r)
  PROVE  WriteRule(b) /\ task[b].run = r
  <1>1. PurposeOf[r] \in Purposes BY PurposesOfRuns
  <1>2. WriteRule(b)
    BY DEF rules, Supports, Work, Fail, TestStop, FindNothing, ClaimReview, CriticAnswers,
           ReadRule, UpdateStatus, DeferReview, SaveFails, UpdateFails, ThreadDies
  <1>3. task[b].run \in Runs /\ PurposeOf[task[b].run] \in Purposes
    BY <1>2, PurposesOfRuns DEF WriteRule, Holding, Busy
  <1>4. task[b].run = r
    BY <1>1, <1>2, <1>3
       DEF WriteRule, SupportRule, ReplaceRule, InsertRule, rules, Supports, TypeOK
  <1> QED BY <1>2, <1>4

\* The steps of a review that is not r's.
LEMMA CleanOthers ==
  ASSUME TypeOK, Holding, NEW b \in Backends, Work(b), NEW r \in Runs, Undisturbed(r),
         task[b].run # r \/ pc[b] \notin Busy,
         status[r] # "pending_review" \/ ~ClaimReview(b)
  PROVE  Undisturbed(r)'
  <1> USE DEF TypeOK, rows, rules, threads
  <1>1. Supports(r)' => Supports(r) BY SourcesOfOthers DEF WriteRule, Busy
  <1>2. CASE ClaimReview(b)
    <2>1. \A c \in Backends : HeldBy(c, r)' =>
            HeldBy(c, r) /\ pc'[c] = pc[c] /\ task'[c].verdict = task[c].verdict
      <3>1. \A c \in Backends \ {b} : pc'[c] = pc[c] /\ task'[c] = task[c]
        BY <1>2 DEF ClaimReview
      <3>2. PICK due \in Due :
              task' = [task EXCEPT ![b] =
                          [EmptyHands EXCEPT !.run = due, !.tries = attempts[due] + 1]]
        BY <1>2 DEF ClaimReview
      <3>3. task'[b].run = due BY <3>2 DEF EmptyHands
      <3> QED BY <1>2, <3>1, <3>3 DEF HeldBy, Due
    <2>2. status'[r] = status[r] BY <1>2 DEF ClaimReview, Due
    <2> QED BY <1>1, <2>1, <2>2, CleanKept
  <1>3. CASE ~ClaimReview(b)
    <2>1. \A c \in Backends \ {b} : pc'[c] = pc[c] /\ task'[c] = task[c]
      BY <1>3 DEF Work, TestStop, FindNothing, CriticAnswers, ReadRule, WriteRule,
                  UpdateStatus, DeferReview
    <2>2. ~HeldBy(b, r)'
      BY <1>3, HandsStep DEF HeldBy, Held
    <2>3. status'[r] = status[r]
      BY <1>3 DEF Work, TestStop, FindNothing, CriticAnswers, ReadRule, WriteRule,
                  UpdateStatus, DeferReview, Busy
    <2> QED BY <1>1, <2>1, <2>2, <2>3, CleanKept DEF HeldBy
  <1> QED BY <1>2, <1>3

\* The steps of r's own review.
LEMMA CleanOwn ==
  ASSUME TypeOK, NEW b \in Backends, Work(b), NEW r \in Runs, Undisturbed(r),
         HeldBy(b, r)
  PROVE  Undisturbed(r)'
  <1> USE DEF TypeOK, rows, rules, threads
  <1>1. ~ClaimReview(b) /\ ~TestStop(b) /\ ~FindNothing(b)
    BY DEF HeldBy, Busy, ClaimReview, TestStop, FindNothing
  <1>2. \A c \in Backends : HeldBy(c, r)' => c = b
    BY <1>1, HandsStep DEF Held, HeldBy, Undisturbed
  <1>3. SUFFICES
          /\ HeldBy(b, r)' =>
                /\ status'[r] \in Settled \cup {"reviewing"}
                /\ pc'[b] # "deferring" => status'[r] = "reviewing"
                /\ status'[r] = "reviewing" /\ Supports(r)' =>
                       pc'[b] = "deciding" /\ task'[b].verdict = "accepted"
          /\ Supports(r)' => status'[r] \in {"reviewing", "accepted"}
    BY <1>2 DEF Undisturbed
  <1>4. PurposeOf[r] \in Purposes BY PurposesOfRuns
  <1>5. /\ status[r] \in Settled \cup {"reviewing"}
        /\ pc[b] # "deferring" => status[r] = "reviewing"
        /\ status[r] = "reviewing" /\ Supports(r) =>
               pc[b] = "deciding" /\ task[b].verdict = "accepted"
        /\ Supports(r) => status[r] \in {"reviewing", "accepted"}
    BY DEF Undisturbed
  <1>6. CASE CriticAnswers(b) \/ ReadRule(b)
    <2>1. status' = status /\ sources' = sources BY <1>6 DEF CriticAnswers, ReadRule
    <2>2. status[r] = "reviewing" /\ ~Supports(r) BY <1>5, <1>6 DEF CriticAnswers, ReadRule
    <2> QED BY <2>1, <2>2 DEF Supports
  <1>7. CASE WriteRule(b)
    <2>1. status'[r] = "reviewing" /\ ~Supports(r) /\ pc'[b] = "deciding"
      BY <1>5, <1>7 DEF WriteRule
    <2>2. sources' # sources => task'[b].verdict = "accepted"
      BY <1>7, task[b] \in Task DEF WriteRule, Task
    <2> QED BY <2>1, <2>2 DEF Supports
  <1>8. CASE UpdateStatus(b)
    <2>1. status'[r] = task[b].verdict /\ sources' = sources /\ pc'[b] \in {"idle", "deferring"}
      BY <1>8 DEF UpdateStatus, HeldBy
    <2>2. status[r] = "reviewing" BY <1>5, <1>8 DEF UpdateStatus
    <2>3. task[b].verdict \in Settled BY TaskFields DEF Settled
    <2>4. Supports(r)' => status'[r] = "accepted" BY <1>5, <2>1, <2>2 DEF Supports
    <2>5. HeldBy(b, r)' => pc'[b] = "deferring" BY <2>1 DEF HeldBy, Busy
    <2> QED BY <2>1, <2>3, <2>4, <2>5 DEF Settled
  <1>9. CASE DeferReview(b)
    <2>1. ~HeldBy(b, r)' BY <1>9 DEF DeferReview, HeldBy, Busy
    <2>2. status[r] = "reviewing" => ~Supports(r) BY <1>5, <1>9 DEF DeferReview
    <2>3. sources' = sources /\ (status[r] # "reviewing" => status'[r] = status[r])
      BY <1>9 DEF DeferReview
    <2> QED BY <1>5, <2>1, <2>2, <2>3 DEF Supports
  <1> QED BY <1>1, <1>6, <1>7, <1>8, <1>9 DEF Work

\* A claim takes a candidate in hand that no thread holds and no rule knows.
LEMMA CleanClaimed ==
  ASSUME TypeOK, NEW b \in Backends, ClaimReview(b), NEW r \in Runs, Undisturbed(r),
         status[r] = "pending_review"
  PROVE  Undisturbed(r)'
  <1> USE DEF TypeOK, rules, Busy
  <1>1. ~Supports(r) /\ \A c \in Backends : ~HeldBy(c, r)
    BY DEF Undisturbed, Settled
  <1>2. ~Supports(r)' BY <1>1 DEF ClaimReview, Supports
  <1>3. PICK due \in Due :
          /\ status' = [status EXCEPT ![due] = "reviewing"]
          /\ task' = [task EXCEPT ![b] =
                         [EmptyHands EXCEPT !.run = due, !.tries = attempts[due] + 1]]
    BY DEF ClaimReview
  <1>4. \A c \in Backends \ {b} : ~HeldBy(c, r)' BY <1>1, <1>3 DEF ClaimReview, HeldBy
  <1>5. task'[b].run = due /\ pc'[b] = "reviewing" BY <1>3 DEF ClaimReview, EmptyHands
  <1>6. HeldBy(b, r)' => status'[r] = "reviewing" BY <1>3, <1>5 DEF HeldBy
  <1> QED BY <1>2, <1>4, <1>5, <1>6 DEF Undisturbed

LEMMA CleanStep ==
  ASSUME DbFaults = FALSE, TypeOK, Holding, Enrolled, Clean, [Next]_vars
  PROVE  Clean'
  <1> USE DEF TypeOK, rows, rules, threads
  <1> SUFFICES ASSUME NEW r \in Runs, interrupted'[r] = 0
               PROVE  Undisturbed(r)'
    BY DEF Clean
  <1>1. interrupted[r] = 0
    <2>1. ASSUME NEW b \in Backends, StartBackend(b)
          PROVE  interrupted[r] = 0
      BY <2>1 DEF StartBackend, RecoverInterrupted
    <2>2. CASE UNCHANGED interrupted BY <2>2
    <2>3. CASE \A b \in Backends : ~StartBackend(b)
      BY <2>2, <2>3
         DEF Next, vars, Register, CommitSubmission, CommitCandidate, EnqueueReview,
             RegistrationFails, DelayPasses, Work, Fail, TestStop, FindNothing, ClaimReview,
             CriticAnswers, ReadRule, WriteRule, UpdateStatus, DeferReview, SaveFails,
             UpdateFails, ThreadDies, CloseBackend, EndBackend
    <2> QED BY <2>1, <2>3
  <1>2. Undisturbed(r) BY <1>1 DEF Clean
  <1>3. CASE UNCHANGED vars BY <1>2, <1>3, CleanKept DEF vars, HeldBy, Supports
  <1>4. ASSUME NEW other \in Runs, Register(other) \/ DelayPasses(other)
        PROVE  Undisturbed(r)'
    <2>1. UNCHANGED <<sources, pc, task>>
      BY <1>4 DEF Register, CommitSubmission, CommitCandidate, EnqueueReview,
                  RegistrationFails, DelayPasses
    <2>2. CASE status'[r] = status[r] BY <1>2, <2>1, <2>2, CleanKept DEF HeldBy, Supports
    <2>3. CASE status'[r] # status[r]
      <3>1. collector[r] # "done" /\ status[r] \in {"absent", "recorded"}
        BY <1>4, <2>3 DEF Register, CommitSubmission, CommitCandidate, EnqueueReview,
                          RegistrationFails, DelayPasses, Enrolled
      <3>2. ~Supports(r) /\ \A c \in Backends : ~HeldBy(c, r)
        BY <1>2, <3>1 DEF Undisturbed, Enrolled, HeldBy
      <3> QED BY <2>1, <3>2 DEF Undisturbed, HeldBy, Supports
    <2> QED BY <2>2, <2>3
  <1>5. ASSUME NEW b \in Backends, Work(b)
        PROVE  Undisturbed(r)'
    <2>1. CASE ClaimReview(b) /\ status[r] = "pending_review" BY <1>2, <2>1, CleanClaimed
    <2>2. CASE HeldBy(b, r) BY <1>2, <1>5, <2>2, CleanOwn
    <2>3. CASE ~HeldBy(b, r) /\ ~(ClaimReview(b) /\ status[r] = "pending_review")
      BY <1>2, <1>5, <2>3, CleanOthers DEF HeldBy
    <2> QED BY <2>1, <2>2, <2>3
  <1>6. ASSUME NEW b \in Backends, Fail(b)
        PROVE  FALSE
    BY <1>6 DEF Fail, SaveFails, UpdateFails, ThreadDies
  <1>7. ASSUME NEW b \in Backends, StartBackend(b) \/ CloseBackend(b) \/ EndBackend(b)
        PROVE  Undisturbed(r)'
    <2>1. status'[r] = status[r]
      BY <1>1, <1>7 DEF StartBackend, RecoverInterrupted, CloseBackend, EndBackend
    <2>2. sources' = sources BY <1>7 DEF StartBackend, CloseBackend, EndBackend
    <2>3. \A c \in Backends : HeldBy(c, r)' =>
            HeldBy(c, r) /\ pc'[c] = pc[c] /\ task'[c].verdict = task[c].verdict
      BY <1>7 DEF StartBackend, CloseBackend, EndBackend, HeldBy, Busy
    <2> QED BY <1>2, <2>1, <2>2, <2>3, CleanKept DEF Supports
  <1> QED BY <1>3, <1>4, <1>5, <1>6, <1>7 DEF Next

LEMMA CleanInit == Init => Clean
  BY PurposesOfRuns DEF Init, Clean, Undisturbed, HeldBy, Supports, Busy

\* While transactions do not fail: a candidate that was rejected, or given up,
\* is a source of an active rule only if a start took one of its reviews back,
\* whatever the backends on the file do between each other's transactions
\* (review_and_apply_candidate, update_status, recover_interrupted_reviews).
THEOREM TurnedDownIsNoSource ==
  ASSUME DbFaults = FALSE
  PROVE  Spec => []TurnedDownLeavesNoRule
  <1>1. TypeOK /\ Holding /\ Enrolled /\ Clean /\ [Next]_vars => Enrolled' /\ Clean'
    BY EnrolledStep, CleanStep
  <1>2. Clean => TurnedDownLeavesNoRule
    BY DEF Clean, Undisturbed, Supports, TurnedDownLeavesNoRule
  <1> QED BY <1>1, <1>2, EnrolledInit, CleanInit, TypeCorrect, PTL DEF Spec
=============================================================================
