------------------------ MODULE InvestigationProofs ------------------------
(***************************************************************************)
(* Theorems about an investigation, for every set of sites, postings and   *)
(* ids and every bound.                                                    *)
(***************************************************************************)
EXTENDS Investigation, FiniteSetTheorems, FunctionTheorems, WellFoundedInduction,
        TLAPS

(***************************************************************************)
(* Type correctness.  What a batch observed or a report cites stays in the *)
(* database because nothing deletes a posting; a collecting node has a     *)
(* step to carry out.                                                      *)
(***************************************************************************)

Collecting ==
    /\ node \in {"collect", "persist"} => Remaining(executed)
    /\ node = "persist" => batch \in Batch /\ batch.observed \subseteq stored

Typed == TypeOK /\ Collecting

LEMMA TypedInit == Init => Typed
  <1> SUFFICES ASSUME Init PROVE Typed
    OBVIOUS
  <1>1. NoReport \in Report BY DEF NoReport, Report
  <1>2. outcome \in [status : {"running", "waiting_input", "completed", "partial", "failed"},
                      cited : SUBSET Docs]
    BY DEF Init
  <1>3. needs \in Seq(Nat) /\ plan \in Seq(Step) /\ results \in Seq(Result)
    BY DEF Init
  <1>4. node = "understand" /\ node \in Nodes
    BY DEF Init, Nodes
  <1> QED BY <1>1, <1>2, <1>3, <1>4 DEF Init, Typed, TypeOK, Collecting, Policies

LEMMA TypedAsk ==
  ASSUME Typed, Understand \/ Ask \/ Resume \/ Clarify \/ Refuse
  PROVE  Typed'
  <1> USE DEF Typed, TypeOK, Collecting, At, evidence, execution, database, Remaining
  <1>1. ASSUME NEW scope, NEW asking \in SUBSET Question, NEW ids
        PROVE  PrepareQuestions(scope, asking, ids) \subseteq Question
    BY BuiltInIdIsAnId DEF PrepareQuestions, Question
  <1>2. CASE Understand
    <2>1. questions' \subseteq Question
      BY <1>1, <1>2 DEF Understand
    <2> QED BY <1>2, <2>1 DEF Understand, AfterUnderstand, Nodes
  <1>3. CASE Ask BY <1>3 DEF Ask, request
  <1>4. CASE Resume BY <1>4 DEF Resume, request
  <1>5. CASE Clarify
    <2>1. PICK question \in pending :
             /\ answered' = answered \cup {question.id}
             /\ occupation' = IF question.field = "occupation_query"
                              THEN "settled" ELSE occupation
             /\ IF question.field = "sites" THEN asked' \in SUBSET Sites ELSE UNCHANGED asked
             /\ questions' = PrepareQuestions(occupation',
                    {other \in questions : other.id # question.id}, answered')
      BY <1>5 DEF Clarify, Apply
    <2>2. questions' \subseteq Question
      BY <1>1, <2>1
    <2>3. question.id \in QuestionIds BY <2>1 DEF Question
    <2> QED BY <1>5, <2>1, <2>2, <2>3 DEF Clarify, AfterUnderstand, Nodes, Apply
  <1>6. CASE Refuse BY <1>6 DEF Refuse, request
  <1> QED BY <1>2, <1>3, <1>4, <1>5, <1>6

LEMMA TypedInspect ==
  ASSUME Typed, DefineEvidence \/ InspectEvidence
  PROVE  Typed'
  <1> USE DEF Typed, TypeOK, Collecting, At, execution, database, Remaining, request
  <1>1. CASE DefineEvidence
    <2>0. PICK n \in 0..MaxRequirements : needs' \in [1..n -> 1..MaxNeed]
      BY <1>1 DEF DefineEvidence, NormalizedCounts
    <2>1. needs' \in Seq(Nat)
      <3>1. n \in Nat /\ needs' \in [1..n -> Nat]
        BY <2>0, BoundsAreNumbers
      <3> QED BY <3>1
    <2> QED BY <1>1, <2>1 DEF DefineEvidence, Nodes
  <1>2. CASE InspectEvidence
    <2>1. report' \in Report
      <3> DEFINE Enough(matching, covered) ==
            /\ needs # <<>> /\ covered
            /\ \A i \in DOMAIN needs : Cardinality(matching[i]) >= needs[i]
      <3>0. PICK matching \in [DOMAIN needs -> SUBSET Candidates], covered \in BOOLEAN :
               report' = [sufficient |-> Enough(matching, covered),
                          docs |-> UNION {matching[i] : i \in DOMAIN needs},
                          missing |-> needs # <<>> /\ ~Enough(matching, covered)]
        BY <1>2 DEF InspectEvidence, Judged
      <3>3. Enough(matching, covered) \in BOOLEAN
            /\ (needs # <<>> /\ ~Enough(matching, covered)) \in BOOLEAN
        OBVIOUS
      <3> HIDE DEF Enough
      <3>1. Candidates \subseteq Docs BY DEF Candidates
      <3>2. UNION {matching[i] : i \in DOMAIN needs} \subseteq Docs
        BY <3>0, <3>1
      <3> QED BY <3>0, <3>2, <3>3 DEF Report
    <2>2. node' \in Nodes /\ node' # "persist"
          /\ (node' = "collect" => \E i \in DOMAIN plan : plan[i].id \notin executed)
      BY <1>2 DEF InspectEvidence, AfterEvidence, Nodes, Judged
    <2>3. UNCHANGED <<plan, executed, collected, results, batch, replanned, drafted, needs,
                      running, pending, given, policy, asked, occupation, questions,
                      answered, outcome, stored, indexed, others>>
      BY <1>2 DEF InspectEvidence, Judged
    <2> QED BY <2>1, <2>2, <2>3
  <1> QED BY <1>1, <1>2

LEMMA SelectedStepsTyped ==
  ASSUME TypeOK, NEW offered \in SUBSET Sites, NEW p \in SelectedSteps(offered)
  PROVE  p \in Seq(Step) /\ (needs = <<>> => p = <<>>)
  <1>1. Cardinality(offered) \in Nat
    BY SetsAreFinite, FS_Subset, FS_CardinalityType
  <1>2. PICK n \in 0..(Cardinality(offered) * Len(needs)) :
            p \in [1..n -> [id : StepIds, site : offered, key : Keys]]
    BY DEF SelectedSteps
  <1>3. n \in Nat BY <1>1, <1>2 DEF TypeOK
  <1>4. p \in [1..n -> Step] BY <1>2 DEF Step
  <1>5. p \in Seq(Step) BY <1>3, <1>4
  <1>6. ASSUME needs = <<>> PROVE p = <<>>
    <2>1. Len(needs) = 0 BY <1>6
    <2>2. n = 0 BY <1>1, <1>2, <2>1
    <2> QED BY <1>2, <2>2
  <1> QED BY <1>5, <1>6

LEMMA TypedPlan ==
  ASSUME Typed, PlanActions \/ ReplanActions
  PROVE  Typed'
  <1> USE DEF Typed, At
  <1>0. Offered \in SUBSET Sites /\ Unused \in SUBSET Sites
    BY ToolsAreForSites DEF Unused, Disclosed
  <1>1. plan' \in Seq(Step)
    <2>1. CASE PlanActions
      <3>1. PICK scope \in SUBSET Sites :
               plan' \in DirectPlans(scope) \/ plan' \in SelectedSteps(Offered)
        BY <2>1 DEF PlanActions
      <3>2. CASE plan' \in DirectPlans(scope)
        <4>1. PICK step \in [id : StepIds, site : DirectSites(scope), key : Keys] :
                 plan' = <<step>>
          BY <3>2 DEF DirectPlans
        <4>2. step \in Step
          BY <4>1, ToolsAreForSites DEF DirectSites, Disclosed, Step
        <4> QED BY <4>1, <4>2
      <3> QED BY <1>0, <3>1, <3>2, SelectedStepsTyped
    <2>2. CASE ReplanActions
      <3>1. PICK accepted \in SelectedSteps(Unused) : plan' = plan \o accepted
        BY <2>2 DEF ReplanActions, NewSteps
      <3>2. accepted \in Seq(Step)
        BY <1>0, <3>1, SelectedStepsTyped
      <3> QED BY <3>1, <3>2 DEF TypeOK
    <2> QED BY <2>1, <2>2
  <1>2. /\ node' = AfterPlan
        /\ UNCHANGED <<running, pending, given, request, evidence, outcome, database>>
        /\ UNCHANGED <<executed, collected, results, batch>>
        /\ replanned' \in BOOLEAN /\ drafted' \in Nat
    <2>1. CASE PlanActions BY <1>1, <2>1 DEF PlanActions, TypeOK
    <2>2. CASE ReplanActions BY <2>2 DEF ReplanActions, TypeOK
    <2> QED BY <2>1, <2>2
  <1>3. node' \in {"collect", "answer"} /\ (node' = "collect" => Remaining(executed)')
    BY <1>2 DEF AfterPlan, Remaining
  <1>4. TypeOK'
    BY <1>1, <1>2, <1>3 DEF TypeOK, request, evidence, database, Nodes
  <1> QED BY <1>3, <1>4 DEF Collecting
(* The first open step is a step of the plan that has not been executed. *)
LEMMA LeastNatural ==
  ASSUME NEW T \in SUBSET Nat, T # {}
  PROVE  \E x \in T : \A y \in T : x <= y
  <1> DEFINE Less == OpToRel(<, Nat)
  <1>1. IsWellFoundedOn(Less, Nat)
    BY NatLessThanWellFounded
  <1>2. PICK x \in T : \A y \in T : ~(<<y, x>> \in Less)
    BY <1>1, WFMin
  <1>3. ASSUME NEW y \in T PROVE x <= y
    <2>1. x \in Nat /\ y \in Nat OBVIOUS
    <2>2. ~(<<y, x>> \in Less) BY <1>2
    <2>3. ~(y < x) BY <2>1, <2>2 DEF OpToRel
    <2> HIDE DEF Less
    <2> QED BY <2>1, <2>3
  <1> QED BY <1>2, <1>3

LEMMA NextStepIsOpen ==
  ASSUME TypeOK, Remaining(executed)
  PROVE  /\ NextStep.id \in StepIds /\ NextStep.id \notin executed
         /\ \E i \in DOMAIN plan : NextStep = plan[i]
  <1> DEFINE open == {i \in DOMAIN plan : plan[i].id \notin executed}
  <1>1. plan \in Seq(Step) BY DEF TypeOK
  <1>2. open \in SUBSET Nat BY <1>1
  <1>3. open # {} BY DEF Remaining
  <1>4. \E i \in open : \A j \in open : i <= j
    <2> HIDE DEF open
    <2> QED BY <1>2, <1>3, LeastNatural
  <1>5. PICK i \in open : NextStep = plan[i]
    BY <1>4 DEF NextStep
  <1>6. plan[i] \in Step BY <1>1, <1>5
  <1> QED BY <1>5, <1>6 DEF Step

LEMMA TypedCompletion ==
  ASSUME Typed, Remaining(executed), NEW result \in Result, NEW docs \in SUBSET Docs,
         CompleteStep(result, docs)
  PROVE  /\ executed' \subseteq StepIds /\ results' \in Seq(Result)
         /\ collected' = collected \cup docs
         /\ batch' = NoBatch /\ UNCHANGED <<plan, replanned, drafted>>
  <1>1. NextStep.id \in StepIds BY NextStepIsOpen DEF Typed
  <1>2. results \in Seq(Result) /\ executed \subseteq StepIds BY DEF Typed, TypeOK
  <1> QED BY <1>1, <1>2 DEF CompleteStep

LEMMA TypedOnWithout ==
  ASSUME node' = OnWithout, UNCHANGED plan
  PROVE  /\ node' \in {"collect", "replan_actions", "answer"}
         /\ node' = "collect" => Remaining(executed)'
  BY DEF OnWithout, Remaining

LEMMA TypedFailure ==
  ASSUME Typed, CollectFails \/ PersistFails
  PROVE  Typed'
  <1> USE DEF Typed
  <1>1. CompleteStep(FailedResult, {}) /\ node' = OnWithout /\ node \in {"collect", "persist"}
    BY DEF CollectFails, PersistFails, At
  <1>2. FailedResult \in Result BY DEF FailedResult, Result
  <1>3. /\ executed' \subseteq StepIds /\ results' \in Seq(Result)
        /\ collected' = collected
        /\ batch' = NoBatch /\ UNCHANGED <<plan, replanned, drafted>>
    <2>1. Remaining(executed) BY <1>1 DEF Collecting
    <2>2. {} \in SUBSET Docs OBVIOUS
    <2>3. /\ executed' \subseteq StepIds /\ results' \in Seq(Result)
          /\ collected' = collected \cup {}
          /\ batch' = NoBatch /\ UNCHANGED <<plan, replanned, drafted>>
      <3> HIDE DEF Typed
      <3> QED BY <1>1, <1>2, <2>1, <2>2, TypedCompletion
    <2> QED BY <2>3
  <1>4. node' \in {"collect", "replan_actions", "answer"}
        /\ (node' = "collect" => Remaining(executed)')
    BY <1>1, <1>3, TypedOnWithout
  <1>5. UNCHANGED <<running, pending, given, request, evidence, outcome, others>>
    BY DEF CollectFails, PersistFails, database
  <1>6. stored' \subseteq Docs /\ indexed' \subseteq stored' /\ stored \subseteq stored'
    <2>1. CASE CollectFails BY <2>1 DEF CollectFails, database, TypeOK
    <2>2. CASE PersistFails
      <3>1. batch \in Batch BY <2>2 DEF PersistFails, At, Collecting
      <3>2. batch.items \subseteq Docs BY <3>1 DEF Batch
      <3> QED BY <2>2, <3>2 DEF PersistFails, TypeOK
    <2> QED BY <2>1, <2>2
  <1>7. TypeOK'
    BY <1>3, <1>4, <1>5, <1>6 DEF TypeOK, request, evidence, Nodes
  <1> QED BY <1>4, <1>7 DEF Collecting

LEMMA TypedPersist ==
  ASSUME Typed, Persist
  PROVE  Typed'
  <1> USE DEF Typed
  <1>1. PICK persisted \in SUBSET batch.items :
          /\ \E unlinked \in SUBSET (batch.items \ persisted) :
                /\ stored' = stored \cup persisted \cup unlinked
                /\ indexed' = (indexed \cup persisted) \ unlinked
          /\ CompleteStep(CollectionResult(DocumentIds(persisted)), DocumentIds(persisted))
          /\ node' = AfterPersist(DocumentIds(persisted))
    BY DEF Persist
  <1>2. /\ node = "persist" /\ Remaining(executed)
        /\ batch \in Batch /\ batch.observed \subseteq stored
    BY DEF Persist, At, Collecting
  <1>3. batch.items \subseteq Docs /\ batch.observed \subseteq Docs
    BY <1>2 DEF Batch
  <1> DEFINE docs == DocumentIds(persisted)
  <1>4. docs \in SUBSET Docs BY <1>1, <1>3 DEF DocumentIds
  <1>5. stored' \subseteq Docs /\ indexed' \subseteq stored' /\ docs \subseteq stored'
        /\ stored \subseteq stored'
    BY <1>1, <1>2, <1>3 DEF DocumentIds, TypeOK
  <1>6. CollectionResult(docs) \in Result
    <2>1. ASSUME NEW b1 \in BOOLEAN, NEW b2 \in BOOLEAN
          PROVE  [verified |-> b1, failed |-> b2] \in Result
      BY DEF Result
    <2> DEFINE v == docs # {} \/ batch.ending = "exhausted"
               f == batch.ending = "failed"
    <2>2. v \in BOOLEAN /\ f \in BOOLEAN OBVIOUS
    <2>3. CollectionResult(docs) = [verified |-> v, failed |-> f]
      BY DEF CollectionResult
    <2> HIDE DEF v, f, docs
    <2> QED BY <2>1, <2>2, <2>3
  <1> HIDE DEF docs
  <1>7. /\ executed' \subseteq StepIds /\ results' \in Seq(Result)
        /\ collected' = collected \cup docs
        /\ batch' = NoBatch /\ UNCHANGED <<plan, replanned, drafted>>
    <2>1. CompleteStep(CollectionResult(docs), docs) BY <1>1 DEF docs
    <2> QED BY <1>2, <1>4, <1>6, <2>1, TypedCompletion
  <1>8. node' \in {"inspect_evidence", "collect", "replan_actions", "answer"}
        /\ (node' = "collect" => Remaining(executed)')
    <2>1. node' = "inspect_evidence" \/ node' = OnWithout
      BY <1>1 DEF AfterPersist
    <2> QED BY <1>7, <2>1, TypedOnWithout
  <1>9. UNCHANGED <<running, pending, given, request, evidence, outcome, others>>
    BY DEF Persist
  <1>10. TypeOK'
    BY <1>5, <1>7, <1>8, <1>9 DEF TypeOK, request, evidence, Nodes
  <1> QED BY <1>8, <1>10 DEF Collecting

LEMMA TypedCollect ==
  ASSUME Typed, Collect
  PROVE  Typed'
  <1> USE DEF Typed, At
  <1>1. batch' \in [observed : SUBSET stored, items : SUBSET Docs, ending : Endings]
    BY DEF Collect
  <1>2. batch' \in Batch /\ batch'.observed \subseteq stored
    BY <1>1 DEF TypeOK, Batch
  <1>3. /\ node' = "persist" /\ node = "collect"
        /\ UNCHANGED <<plan, executed, collected, results, replanned, drafted>>
        /\ UNCHANGED <<running, pending, given, request, evidence, outcome, database>>
    BY DEF Collect
  <1>4. TypeOK' BY <1>2, <1>3 DEF TypeOK, request, evidence, database, Nodes
  <1>5. Remaining(executed)' BY <1>3 DEF Collecting, Remaining
  <1> QED BY <1>2, <1>3, <1>4, <1>5 DEF Collecting, database

LEMMA TypedEnd ==
  ASSUME Typed, Answer \/ Stop
  PROVE  Typed'
  <1> USE DEF Typed, At
  <1>1. CASE Answer
    <2>1. RunStatus \in {"completed", "partial", "failed"} BY DEF RunStatus
    <2>2. report.docs \subseteq Docs BY DEF TypeOK, Report
    <2>3. PICK cited \in SUBSET (report.docs \cap stored) :
             outcome' = [status |-> RunStatus, cited |-> cited]
      BY <1>1 DEF Answer, Grounded
    <2>4. outcome' \in [status : {"running", "waiting_input", "completed", "partial", "failed"},
                        cited : SUBSET Docs]
      BY <2>1, <2>2, <2>3
    <2>5. /\ node' = "end" /\ running' = FALSE
          /\ UNCHANGED <<pending, given, request, evidence, execution, database>>
      BY <1>1 DEF Answer, Grounded
    <2> QED BY <2>4, <2>5 DEF TypeOK, Collecting, request, evidence, execution, database, Nodes
  <1>2. CASE Stop
    BY <1>2 DEF Stop, TypeOK, Collecting, Remaining, request, evidence, execution, database
  <1> QED BY <1>1, <1>2

LEMMA TypedOthers ==
  ASSUME Typed, Others
  PROVE  Typed'
  BY DEF Typed, Others, TypeOK, Collecting, Remaining, request, evidence, execution

LEMMA TypedStep == Typed /\ [Next]_vars => Typed'
  <1> SUFFICES ASSUME Typed, [Next]_vars PROVE Typed'
    OBVIOUS
  <1>1. CASE UNCHANGED vars
    BY <1>1 DEF vars, Typed, TypeOK, Collecting, Remaining, request, evidence, execution,
                database
  <1>2. CASE Next
    BY <1>2, TypedAsk, TypedInspect, TypedPlan, TypedFailure, TypedPersist, TypedCollect,
       TypedEnd, TypedOthers DEF Next, Work
  <1> QED BY <1>1, <1>2

\* Everything collected, observed or cited is in the database, and a node that
\* collects has a step to carry out.
THEOREM TypeCorrect == Spec => []TypeOK
  <1>1. Typed => TypeOK BY DEF Typed
  <1> QED BY <1>1, TypedInit, TypedStep, PTL DEF Spec

LEMMA AlwaysTyped == Spec => []Typed
  BY TypedInit, TypedStep, PTL DEF Spec

(***************************************************************************)
(* No question twice.  Nothing has been answered before the request is     *)
(* understood, and that node never runs again.                             *)
(***************************************************************************)

Fresh == node = "understand" => answered = {} /\ pending = {}

Settled == AnsweredOnce /\ Fresh

LEMMA SettledInit == Init => Settled
  BY DEF Init, Settled, AnsweredOnce, Fresh

LEMMA SettledStep == Settled /\ [Next]_vars => Settled'
  <1> SUFFICES ASSUME Settled, [Next]_vars PROVE Settled'
    OBVIOUS
  <1> USE DEF Settled, AnsweredOnce, Fresh, At
  <1>1. CASE Understand
    <2>1. PICK asking \in SUBSET Question :
             questions' = PrepareQuestions(occupation', asking, {})
      BY <1>1 DEF Understand
    <2>2. answered' = {} /\ pending' = {} /\ node' # "understand"
      BY <1>1 DEF Understand, AfterUnderstand
    <2> QED BY <2>2
  <1>2. CASE Ask BY <1>2 DEF Ask, request
  <1>3. CASE Clarify
    <2>1. PICK question \in pending :
             /\ answered' = answered \cup {question.id}
             /\ questions' = PrepareQuestions(occupation',
                    {other \in questions : other.id # question.id}, answered')
      BY <1>3 DEF Clarify, Apply
    <2>2. \A other \in questions' : other.id \notin answered'
      BY <2>1 DEF PrepareQuestions
    <2>3. pending' = {} /\ node' # "understand"
      BY <1>3 DEF Clarify, AfterUnderstand, Apply
    <2> QED BY <2>2, <2>3
  <1>4. CASE Resume \/ Refuse \/ Stop \/ UNCHANGED vars
    BY <1>4 DEF Resume, Refuse, Stop, request, vars
  <1>5. CASE DefineEvidence BY <1>5 DEF DefineEvidence, request
  <1>6. CASE InspectEvidence BY <1>6 DEF InspectEvidence, AfterEvidence, request, Judged
  <1>7. CASE PlanActions BY <1>7 DEF PlanActions, AfterPlan, request
  <1>8. CASE ReplanActions BY <1>8 DEF ReplanActions, AfterPlan, request
  <1>9. CASE Collect BY <1>9 DEF Collect, request
  <1>10. CASE CollectFails BY <1>10 DEF CollectFails, OnWithout, request
  <1>11. CASE Persist BY <1>11 DEF Persist, AfterPersist, OnWithout, request
  <1>12. CASE PersistFails BY <1>12 DEF PersistFails, OnWithout, request
  <1>13. CASE Answer BY <1>13 DEF Answer, request, Grounded
  <1>14. CASE Others BY <1>14 DEF Others, request
  <1> QED BY <1>1, <1>2, <1>3, <1>4, <1>5, <1>6, <1>7, <1>8, <1>9, <1>10, <1>11, <1>12,
             <1>13, <1>14 DEF Next, Work

\* A question whose id was answered is never put again (prepare_clarification_request
\* looks at the answers; the questions with the id are removed).
THEOREM NoQuestionTwice == Spec => []AnsweredOnce
  <1>1. Settled => AnsweredOnce BY DEF Settled
  <1> QED BY <1>1, SettledInit, SettledStep, PTL DEF Spec

LEMMA AlwaysSettled == Spec => []Settled
  BY SettledInit, SettledStep, PTL DEF Spec

(***************************************************************************)
(* Every node advances: a step is carried out, a question is settled, or   *)
(* the run is at a later node.                                             *)
(***************************************************************************)

LEMMA OrderIs ==
  /\ Order["understand"] = 1 /\ Order["clarify"] = 2 /\ Order["define_evidence"] = 3
  /\ Order["inspect_evidence"] = 4 /\ Order["plan_actions"] = 5
  /\ Order["replan_actions"] = 6 /\ Order["collect"] = 7 /\ Order["persist"] = 8
  /\ Order["answer"] = 9 /\ Order["end"] = 10
  BY DEF Order

LEMMA Advances ==
  ASSUME Typed, Settled, Work, running'
  PROVE  \/ Order[node] < Order[node']
         \/ executed' # executed /\ executed \subseteq executed'
         \/ answered' # answered /\ answered \subseteq answered'
  <1> USE DEF At
  <1>1. CASE Understand
    BY <1>1, OrderIs DEF Understand, AfterUnderstand
  <1>2. CASE Clarify
    <2>1. PICK question \in pending : answered' = answered \cup {question.id}
      BY <1>2 DEF Clarify, Apply
    <2>2. question.id \notin answered BY <2>1 DEF Settled, AnsweredOnce
    <2> QED BY <2>1, <2>2
  <1>3. CASE Ask \/ Refuse \/ Answer \/ Stop
    BY <1>3 DEF Ask, Refuse, Answer, Stop, Grounded
  <1>4. CASE DefineEvidence BY <1>4, OrderIs DEF DefineEvidence
  <1>5. CASE InspectEvidence BY <1>5, OrderIs DEF InspectEvidence, AfterEvidence, Judged
  <1>6. CASE PlanActions BY <1>6, OrderIs DEF PlanActions, AfterPlan
  <1>7. CASE ReplanActions BY <1>7, OrderIs DEF ReplanActions, AfterPlan
  <1>8. CASE Collect BY <1>8, OrderIs DEF Collect
  <1>9. CASE CollectFails \/ Persist \/ PersistFails
    <2>1. executed' = executed \cup {NextStep.id}
      BY <1>9 DEF CollectFails, Persist, PersistFails, CompleteStep
    <2>2. Remaining(executed)
      BY <1>9 DEF CollectFails, Persist, PersistFails, Typed, Collecting
    <2>3. NextStep.id \notin executed BY <2>2, NextStepIsOpen DEF Typed
    <2> QED BY <2>1, <2>3
  <1> QED BY <1>1, <1>2, <1>3, <1>4, <1>5, <1>6, <1>7, <1>8, <1>9 DEF Work

\* No run comes back to a node without having executed a step it had not, or
\* settled a question it had not: _complete_step_update marks failed steps too.
THEOREM RunsAdvance == Spec => EveryNodeAdvances
  <1>1. Typed /\ Settled /\ [Next]_vars =>
          [(Work /\ running') => \/ Order[node] < Order[node']
                                 \/ executed' # executed /\ executed \subseteq executed'
                                 \/ answered' # answered /\ answered \subseteq answered']_vars
    BY Advances
  <1> QED BY <1>1, AlwaysTyped, AlwaysSettled, PTL DEF Spec, EveryNodeAdvances

(***************************************************************************)
(* What an answer rests on.  Early: nothing is planned before the evidence *)
(* is defined.  Planned: a plan needs a requirement, a result a plan and a *)
(* step that was executed; the first plan is made before any result.       *)
(* Assessed: once the database was inspected, the report says whether each *)
(* requirement, which asks for at least one posting, is met.               *)
(***************************************************************************)

Early == node \in {"understand", "clarify", "define_evidence"} =>
             plan = <<>> /\ results = <<>> /\ collected = {} /\ executed = {}

Planned ==
    /\ plan # <<>> => needs # <<>>
    /\ results # <<>> => plan # <<>> /\ executed # {}
    /\ node = "plan_actions" => results = <<>>
    /\ \A i \in DOMAIN needs : needs[i] >= 1

AfterInspection == {"plan_actions", "replan_actions", "collect", "persist", "answer", "end"}

Assessed ==
    Searching /\ node \in AfterInspection =>
        /\ report.missing <=> needs # <<>> /\ ~report.sufficient
        /\ report.sufficient => report.docs # {}

Backed == Early /\ Planned /\ Assessed /\ CompletedIsBacked

LEMMA BackedInit == Init => Backed
  BY DEF Init, Backed, Early, Planned, Assessed, AfterInspection, CompletedIsBacked

\* A step that leaves what the answer rests on alone.
LEMMA BackedFrame ==
  ASSUME Typed, Backed,
         UNCHANGED <<policy, needs, report, plan, results, collected, executed>>,
         \/ node' = node
         \/ node' = "persist" /\ node = "collect",
         outcome' = outcome \/ outcome'.status # "completed"
  PROVE  Backed'
  <1> USE DEF Backed, AfterInspection
  <1>1. Early' /\ Planned' BY DEF Early, Planned
  <1>2. Assessed' BY DEF Assessed, Searching
  <1>3. CompletedIsBacked' BY DEF CompletedIsBacked, Searching
  <1> QED BY <1>1, <1>2, <1>3

LEMMA BackedRequest ==
  ASSUME Typed, Backed, Understand \/ Clarify
  PROVE  Backed'
  <1>1. /\ node \in {"understand", "clarify"}
        /\ node' \in {"clarify", "answer", "define_evidence"}
        /\ node' = "answer" => policy' = "model_knowledge"
        /\ UNCHANGED <<evidence, execution>>
    BY DEF Understand, Clarify, AfterUnderstand, At, Apply
  <1>2. Early' /\ Planned'
    BY <1>1 DEF Backed, Early, Planned, evidence, execution
  <1>3. Assessed' /\ CompletedIsBacked'
    BY <1>1 DEF Assessed, CompletedIsBacked, Searching, AfterInspection
  <1> QED BY <1>2, <1>3 DEF Backed

LEMMA BackedDefine ==
  ASSUME Typed, Backed, DefineEvidence
  PROVE  Backed'
  <1>1. PICK n \in 0..MaxRequirements : needs' \in [1..n -> 1..MaxNeed]
    BY DEF DefineEvidence, NormalizedCounts
  <1>2. \A i \in DOMAIN needs' : needs'[i] >= 1
    BY <1>1, BoundsAreNumbers
  <1>3. node' = "inspect_evidence" /\ plan' = <<>> /\ results' = <<>>
    BY DEF DefineEvidence, At, Backed, Early, execution
  <1> QED BY <1>2, <1>3 DEF Backed, Early, Planned, Assessed, CompletedIsBacked, AfterInspection

LEMMA BackedInspect ==
  ASSUME Typed, Backed, InspectEvidence
  PROVE  Backed'
  <1> DEFINE Enough(matching, covered) ==
        /\ needs # <<>> /\ covered
        /\ \A i \in DOMAIN needs : Cardinality(matching[i]) >= needs[i]
  <1>1. PICK matching \in [DOMAIN needs -> SUBSET Candidates], covered \in BOOLEAN :
           report' = [sufficient |-> Enough(matching, covered),
                      docs |-> UNION {matching[i] : i \in DOMAIN needs},
                      missing |-> needs # <<>> /\ ~Enough(matching, covered)]
    BY DEF InspectEvidence, Judged
  <1>2. needs \in Seq(Nat) BY DEF Typed, TypeOK
  <1>3. ASSUME Enough(matching, covered)
        PROVE  UNION {matching[i] : i \in DOMAIN needs} # {}
    <2>1. 1 \in DOMAIN needs BY <1>2, <1>3
    <2>2. Cardinality(matching[1]) >= needs[1] /\ needs[1] >= 1 /\ needs[1] \in Nat
      BY <1>2, <1>3, <2>1 DEF Backed, Planned
    <2>3. matching[1] # {}
      <3>1. Cardinality({}) = 0 BY FS_EmptySet
      <3> QED BY <2>2, <3>1
    <2> QED BY <2>1, <2>3
  <1>4. Enough(matching, covered) \in BOOLEAN OBVIOUS
  <1>5. Enough(matching, covered) => needs # <<>> OBVIOUS
  <1>6. /\ report'.missing <=> needs # <<>> /\ ~report'.sufficient
        /\ report'.sufficient => report'.docs # {}
    <2> HIDE DEF Enough
    <2> QED BY <1>1, <1>3, <1>4, <1>5
  <1>7. /\ node' \in {"answer", "plan_actions", "collect", "replan_actions"}
        /\ UNCHANGED <<policy, needs, plan, results, executed>>
        /\ node' = "plan_actions" => executed = {} \/ plan = <<>>
    BY DEF InspectEvidence, AfterEvidence, request, execution, Judged
  <1>8. Planned' BY <1>7 DEF Backed, Planned
  <1> QED BY <1>6, <1>7, <1>8 DEF Backed, Early, Assessed, CompletedIsBacked

LEMMA BackedPlan ==
  ASSUME Typed, Backed, PlanActions \/ ReplanActions
  PROVE  Backed'
  <1>0. Offered \in SUBSET Sites /\ Unused \in SUBSET Sites
    BY ToolsAreForSites DEF Unused, Disclosed
  <1>1. plan' # <<>> => needs # <<>>
    <2>1. CASE PlanActions
      <3>1. PICK scope \in SUBSET Sites :
               \/ Len(needs) = 1
               \/ plan' \in SelectedSteps(Offered)
        BY <2>1 DEF PlanActions
      <3>2. Len(needs) = 1 => needs # <<>> OBVIOUS
      <3> QED BY <1>0, <3>1, <3>2, SelectedStepsTyped DEF Typed
    <2>2. CASE ReplanActions
      <3>1. PICK accepted \in SelectedSteps(Unused) : plan' = plan \o accepted
        BY <2>2 DEF ReplanActions, NewSteps
      <3>2. needs = <<>> => accepted = <<>> /\ plan = <<>>
        BY <1>0, <3>1, SelectedStepsTyped DEF Typed, Backed, Planned
      <3> QED BY <3>1, <3>2
    <2> QED BY <2>1, <2>2
  <1>2. /\ node \in {"plan_actions", "replan_actions"} /\ node' \in {"collect", "answer"}
        /\ UNCHANGED <<policy, needs, report, results, executed>>
    BY DEF PlanActions, ReplanActions, AfterPlan, At, request, evidence
  <1>3. results' # <<>> => plan' # <<>>
    <2>1. CASE PlanActions
      <3>1. node = "plan_actions" BY <2>1 DEF PlanActions, At
      <3> QED BY <1>2, <3>1 DEF Backed, Planned
    <2>2. CASE ReplanActions
      <3>1. PICK accepted \in SelectedSteps(Unused) : plan' = plan \o accepted
        BY <2>2 DEF ReplanActions, NewSteps
      <3>2. accepted \in Seq(Step) /\ plan \in Seq(Step)
        BY <1>0, <3>1, SelectedStepsTyped DEF Typed, TypeOK
      <3>3. plan # <<>> => plan' # <<>> BY <3>1, <3>2
      <3> QED BY <1>2, <3>3 DEF Backed, Planned
    <2> QED BY <2>1, <2>2
  <1> QED BY <1>1, <1>2, <1>3
          DEF Backed, Early, Planned, Assessed, CompletedIsBacked, AfterInspection, Searching

LEMMA BackedCollection ==
  ASSUME Typed, Backed, CollectFails \/ Persist \/ PersistFails
  PROVE  Backed'
  <1>1. PICK result, docs : CompleteStep(result, docs)
    BY DEF CollectFails, Persist, PersistFails
  <1>2. /\ node \in {"collect", "persist"} /\ Remaining(executed)
        /\ node' \in {"inspect_evidence", "collect", "replan_actions", "answer"}
        /\ UNCHANGED <<policy, needs, report, outcome>>
    BY DEF CollectFails, Persist, PersistFails, At, AfterPersist, OnWithout, Typed, Collecting,
           request, evidence
  <1>3. executed' # {} /\ plan' = plan
    BY <1>1 DEF CompleteStep
  <1>4. plan # <<>> BY <1>2 DEF Remaining
  <1>5. Early' BY <1>2 DEF Early
  <1>6. Planned' BY <1>2, <1>3, <1>4 DEF Backed, Planned
  <1>7. Assessed' BY <1>2 DEF Backed, Assessed, AfterInspection, Searching
  <1>8. CompletedIsBacked' BY <1>2 DEF CompletedIsBacked
  <1> QED BY <1>5, <1>6, <1>7, <1>8 DEF Backed

LEMMA BackedAnswer ==
  ASSUME Typed, Backed, Answer
  PROVE  Backed'
  <1>1. PICK cited : outcome' = [status |-> RunStatus, cited |-> cited]
    BY DEF Answer, Grounded
  <1>2. /\ node = "answer" /\ node' = "end"
        /\ UNCHANGED <<policy, needs, report, plan, results, collected, executed>>
    BY DEF Answer, At, request, evidence, execution, Grounded
  <1>3. ASSUME Searching, RunStatus = "completed"
        PROVE  report.sufficient
    <2>1. policy \notin {"model_knowledge", "database_only"} BY <1>3 DEF Searching
    <2>2. report.sufficient \/ (results # <<>> /\ ~report.missing)
      BY <1>3, <2>1 DEF RunStatus
    <2>3. results # <<>> => needs # <<>> BY DEF Backed, Planned
    <2>4. report.missing <=> needs # <<>> /\ ~report.sufficient
      BY <1>2, <1>3 DEF Backed, Assessed, AfterInspection
    <2> QED BY <2>2, <2>3, <2>4
  <1>4. Searching' <=> Searching BY <1>2 DEF Searching
  <1>5. Searching /\ report.sufficient => report.docs # {}
    BY <1>2 DEF Backed, Assessed, AfterInspection
  <1>6. CompletedIsBacked'
    BY <1>1, <1>2, <1>3, <1>4, <1>5 DEF CompletedIsBacked
  <1>7. Early' /\ Planned' BY <1>2 DEF Backed, Early, Planned
  <1>8. Assessed' BY <1>2, <1>4 DEF Backed, Assessed, AfterInspection
  <1> QED BY <1>6, <1>7, <1>8 DEF Backed

LEMMA BackedStep == Typed /\ Backed /\ [Next]_vars => Backed'
  <1> SUFFICES ASSUME Typed, Backed, [Next]_vars PROVE Backed'
    OBVIOUS
  <1>0. outcome \in [status : {"running", "waiting_input", "completed", "partial", "failed"},
                     cited : SUBSET Docs]
    BY DEF Typed, TypeOK
  <1>1. CASE Ask \/ Resume \/ Refuse \/ Stop
    BY <1>0, <1>1, BackedFrame DEF Ask, Resume, Refuse, Stop, request, evidence, execution
  <1>2. CASE Others \/ Collect \/ UNCHANGED vars
    BY <1>2, BackedFrame DEF Others, Collect, At, request, evidence, execution, vars
  <1> QED BY <1>1, <1>2, BackedRequest, BackedDefine, BackedInspect, BackedPlan,
             BackedCollection, BackedAnswer DEF Next, Work

\* A completed investigation that looked for postings has sufficient evidence and
\* a posting: every requirement asks for one (normalize_evidence_requirements).
THEOREM CompletionIsBacked == Spec => []CompletedIsBacked
  <1>1. Backed => CompletedIsBacked BY DEF Backed
  <1> QED BY <1>1, BackedInit, BackedStep, AlwaysTyped, PTL DEF Spec

LEMMA AlwaysBacked == Spec => []Backed
  BY BackedInit, BackedStep, AlwaysTyped, PTL DEF Spec

(***************************************************************************)
(* The answer of a web investigation.  A collection that brought postings  *)
(* leads to an inspection, which looks at nothing but what was collected.  *)
(***************************************************************************)

Scoped ==
    /\ collected # {} => executed # {}
    /\ policy = "web_required" /\ collected # {} /\ node # "inspect_evidence" =>
           report.docs \subseteq collected

FromWeb == Scoped /\ WebAnswerIsCollected

LEMMA FromWebInit == Init => FromWeb
  BY DEF Init, FromWeb, Scoped, WebAnswerIsCollected

LEMMA FromWebFrame ==
  ASSUME FromWeb, UNCHANGED <<policy, report, collected>>,
         executed \subseteq executed',
         node # "inspect_evidence", node' # "end" \/ UNCHANGED <<node, outcome>>
  PROVE  FromWeb'
  BY DEF FromWeb, Scoped, WebAnswerIsCollected

LEMMA FromWebNothing ==
  ASSUME UNCHANGED <<collected, executed>>, collected = {}
  PROVE  FromWeb'
  BY DEF FromWeb, Scoped, WebAnswerIsCollected

LEMMA FromWebHalt ==
  ASSUME Typed, FromWeb, Ask \/ Resume \/ Refuse \/ Stop \/ Others \/ UNCHANGED vars
  PROVE  FromWeb'
  <1>0. outcome \in [status : {"running", "waiting_input", "completed", "partial", "failed"},
                     cited : SUBSET Docs]
    BY DEF Typed, TypeOK
  <1>1. UNCHANGED <<node, policy, report, collected, executed>>
    BY DEF Ask, Resume, Refuse, Stop, Others, request, evidence, execution, vars
  <1>2. outcome'.cited = outcome.cited
    BY <1>0 DEF Ask, Resume, Refuse, Stop, Others, vars
  <1> QED BY <1>1, <1>2 DEF FromWeb, Scoped, WebAnswerIsCollected

LEMMA FromWebInspect ==
  ASSUME Typed, FromWeb, InspectEvidence
  PROVE  FromWeb'
  <1>1. PICK matching \in [DOMAIN needs -> SUBSET Candidates] :
           report'.docs = UNION {matching[i] : i \in DOMAIN needs}
    BY DEF InspectEvidence, Judged
  <1>2. policy = "web_required" /\ collected # {} => Candidates \subseteq collected
    BY DEF FromWeb, Scoped, Candidates
  <1>3. policy = "web_required" /\ collected # {} => report'.docs \subseteq collected
    BY <1>1, <1>2
  <1>4. UNCHANGED <<policy, collected, executed>> /\ node' # "end"
    BY DEF InspectEvidence, AfterEvidence, request, execution, Judged
  <1> QED BY <1>3, <1>4 DEF FromWeb, Scoped, WebAnswerIsCollected

LEMMA FromWebPersist ==
  ASSUME Typed, FromWeb, Persist
  PROVE  FromWeb'
  <1>1. PICK docs : /\ CompleteStep(CollectionResult(docs), docs)
                    /\ node' = AfterPersist(docs)
    BY DEF Persist
  <1>2. UNCHANGED <<policy, report>> /\ node = "persist"
    BY DEF Persist, At, request, evidence
  <1>3. executed' # {} /\ executed \subseteq executed' /\ collected' = collected \cup docs
    BY <1>1 DEF CompleteStep
  <1>4. CASE docs = {}
    <2>1. node' # "end" BY <1>1 DEF AfterPersist, OnWithout
    <2> QED BY <1>2, <1>3, <1>4, <2>1, FromWebFrame
  <1>5. CASE docs # {}
    <2>1. node' = "inspect_evidence" BY <1>1, <1>5 DEF AfterPersist
    <2> QED BY <1>3, <2>1 DEF FromWeb, Scoped, WebAnswerIsCollected
  <1> QED BY <1>4, <1>5

LEMMA FromWebFails ==
  ASSUME Typed, FromWeb, CollectFails \/ PersistFails
  PROVE  FromWeb'
  <1>1. CompleteStep(FailedResult, {}) /\ node' = OnWithout
        /\ node \in {"collect", "persist"} /\ UNCHANGED <<policy, report>>
    BY DEF CollectFails, PersistFails, At, request, evidence
  <1>2. collected' = collected /\ executed \subseteq executed'
    BY <1>1 DEF CompleteStep
  <1>3. node' # "end" BY <1>1 DEF OnWithout
  <1> QED BY <1>1, <1>2, <1>3, FromWebFrame

LEMMA FromWebStep == Typed /\ Backed /\ FromWeb /\ [Next]_vars => FromWeb'
  <1> SUFFICES ASSUME Typed, Backed, FromWeb, [Next]_vars PROVE FromWeb'
    OBVIOUS
  <1>1. CASE Understand \/ Clarify \/ DefineEvidence
    <2>1. collected = {} /\ UNCHANGED <<collected, executed>>
      BY <1>1 DEF Understand, Clarify, DefineEvidence, At, Backed, Early, execution, Apply
    <2> QED BY <2>1, FromWebNothing
  <1>2. CASE PlanActions \/ ReplanActions \/ Collect
    BY <1>2, FromWebFrame
       DEF PlanActions, ReplanActions, Collect, AfterPlan, At, request, evidence
  <1>3. CASE Answer
    BY <1>3 DEF Answer, At, FromWeb, Scoped, WebAnswerIsCollected, request, evidence, execution, Grounded
  <1> QED BY <1>1, <1>2, <1>3, FromWebHalt, FromWebInspect, FromWebPersist, FromWebFails
             DEF Next, Work

\* Once a web investigation has collected postings its answer cites no others
\* (inspect_evidence passes collection_document_ids on; persist leads there).
THEOREM WebAnswersAreCollected == Spec => []WebAnswerIsCollected
  <1>1. FromWeb => WebAnswerIsCollected BY DEF FromWeb
  <1> QED BY <1>1, FromWebInit, FromWebStep, AlwaysTyped, AlwaysBacked, PTL DEF Spec

(***************************************************************************)
(* Giving up.  Each result is the execution of a step that had not been    *)
(* executed, so results and executed ids grow together; ids repeat only    *)
(* within the first plan; and every way to an answer without enough        *)
(* evidence leaves nothing of the plan and no other site.                  *)
(***************************************************************************)

ResultPerStep == IsFiniteSet(executed) /\ Len(results) = Cardinality(executed)

PlannedIds == {plan[i].id : i \in DOMAIN plan}
ExecutedIsPlanned == executed \subseteq PlannedIds

\* new_collection_steps keeps the ids of the last plan apart.
RepeatsAreDrafted ==
    \A i, j \in DOMAIN plan : i < j /\ plan[i].id = plan[j].id => j <= drafted

NothingLeft ==
    node \in {"answer", "end"} /\ Searching /\ ~report.sufficient =>
        /\ ~Remaining(executed)
        /\ executed # {} => replanned \/ Unused = {}

Tried == ResultPerStep /\ ExecutedIsPlanned /\ RepeatsAreDrafted /\ NothingLeft

LEMMA TriedInit == Init => Tried
  <1> SUFFICES ASSUME Init PROVE Tried
    OBVIOUS
  <1>1. ResultPerStep BY FS_EmptySet DEF Init, ResultPerStep
  <1> QED
    BY <1>1 DEF Init, Tried, ExecutedIsPlanned, RepeatsAreDrafted, NothingLeft

\* Steps that carry out and plan nothing, and go to no answer.
LEMMA TriedFrame ==
  ASSUME Tried, UNCHANGED <<plan, executed, results, drafted>>, NothingLeft'
  PROVE  Tried'
  BY DEF Tried, ResultPerStep, ExecutedIsPlanned, PlannedIds, RepeatsAreDrafted

LEMMA TriedElsewhere ==
  ASSUME Tried, Understand \/ Clarify \/ DefineEvidence \/ Collect
  PROVE  Tried'
  <1>1. UNCHANGED <<plan, executed, results, drafted>>
    BY DEF Understand, Clarify, Apply, DefineEvidence, Collect, execution
  <1>2. node' \in {"answer", "end"} => policy' = "model_knowledge"
    BY DEF Understand, Clarify, AfterUnderstand, DefineEvidence, Collect
  <1> QED BY <1>1, <1>2, TriedFrame DEF NothingLeft, Searching

LEMMA TriedStays ==
  ASSUME Tried, Ask \/ Resume \/ Refuse \/ Stop \/ Answer \/ Others \/ UNCHANGED vars
  PROVE  Tried'
  <1>1. UNCHANGED <<policy, asked, report, plan, executed, results, drafted, replanned>>
    BY DEF Ask, Resume, Refuse, Stop, Answer, Others, vars, request, evidence, execution,
           Grounded
  <1>2. node' \in {"answer", "end"} => node \in {"answer", "end"}
    BY DEF Ask, Resume, Refuse, Stop, Answer, Others, vars, At
  <1>3. NothingLeft'
    BY <1>1, <1>2
       DEF Tried, NothingLeft, Searching, Remaining, Unused, Disclosed, PlanSites
  <1> QED BY <1>1, <1>3, TriedFrame

LEMMA TriedInspect ==
  ASSUME Tried, InspectEvidence
  PROVE  Tried'
  <1>1. /\ UNCHANGED <<policy, asked, plan, executed, results, drafted, replanned>>
        /\ node' = AfterEvidence
    BY DEF InspectEvidence, request, execution, Judged
  <1>2. Searching' /\ ~report'.sufficient /\ node' = "answer" =>
            ~Remaining(executed) /\ ~CanReplan(report', executed)
    BY <1>1 DEF AfterEvidence, Searching
  <1>3. node' # "end" BY <1>1 DEF AfterEvidence
  <1>4. NothingLeft'
    BY <1>1, <1>2, <1>3
       DEF NothingLeft, CanReplan, Remaining, Unused, Disclosed, PlanSites
  <1> QED BY <1>1, <1>4, TriedFrame

\* The first plan is made before any step was executed, so it repeats what it
\* likes; nothing is executed when its node runs.
LEMMA TriedPlan ==
  ASSUME Typed, Backed, Tried, PlanActions
  PROVE  Tried'
  <1>1. /\ node = "plan_actions" /\ node' = AfterPlan /\ drafted' = Len(plan')
        /\ UNCHANGED <<executed, results>>
    BY DEF PlanActions, At
  <1>2. executed = {}
    <2>1. results = <<>> BY <1>1 DEF Backed, Planned
    <2>2. Cardinality(executed) = 0 BY <2>1 DEF Tried, ResultPerStep
    <2> QED BY <2>2, FS_EmptySet DEF Tried, ResultPerStep
  <1>3. plan' \in Seq(Step)
    <2>1. Typed' BY TypedPlan
    <2> QED BY <2>1 DEF Typed, TypeOK
  <1>4. RepeatsAreDrafted' BY <1>1, <1>3 DEF RepeatsAreDrafted
  <1>5. NothingLeft'
    BY <1>1, <1>2 DEF NothingLeft, AfterPlan, Remaining
  <1> QED
    BY <1>1, <1>2, <1>4, <1>5 DEF Tried, ResultPerStep, ExecutedIsPlanned

\* The last plan is added, with ids of its own.
LEMMA TriedReplan ==
  ASSUME Typed, Tried, ReplanActions
  PROVE  Tried'
  <1>1. PICK accepted \in NewSteps(SelectedSteps(Unused)) : plan' = plan \o accepted
    BY DEF ReplanActions
  <1>2. /\ node' = AfterPlan /\ replanned' = TRUE
        /\ UNCHANGED <<executed, results, drafted>>
    BY DEF ReplanActions
  <1>3. plan \in Seq(Step) /\ accepted \in Seq(Step)
    <2>1. Unused \in SUBSET Sites BY ToolsAreForSites DEF Unused, Disclosed
    <2> QED BY <1>1, <2>1, SelectedStepsTyped DEF Typed, TypeOK, NewSteps
  <1>4. /\ \A i, j \in DOMAIN accepted : accepted[i].id = accepted[j].id => i = j
        /\ \A i \in DOMAIN accepted, k \in DOMAIN plan : accepted[i].id # plan[k].id
    BY <1>1 DEF NewSteps
  <1>5. /\ DOMAIN plan = 1 .. Len(plan) /\ DOMAIN plan' = 1 .. Len(plan) + Len(accepted)
        /\ \A i \in DOMAIN plan : i \in DOMAIN plan' /\ plan'[i] = plan[i]
        /\ \A i \in DOMAIN plan' \ DOMAIN plan :
               i - Len(plan) \in DOMAIN accepted /\ plan'[i] = accepted[i - Len(plan)]
    BY <1>1, <1>3
  <1>6. RepeatsAreDrafted'
    <2> SUFFICES ASSUME NEW i \in DOMAIN plan', NEW j \in DOMAIN plan',
                        i < j, plan'[i].id = plan'[j].id
                 PROVE  j <= drafted
      BY <1>2 DEF RepeatsAreDrafted
    <2>1. CASE j \in DOMAIN plan
      <3>1. i \in DOMAIN plan BY <1>3, <1>5, <2>1
      <3> QED BY <1>5, <2>1, <3>1 DEF Tried, RepeatsAreDrafted
    <2>2. CASE j \notin DOMAIN plan
      <3>1. i \notin DOMAIN plan
        <4> SUFFICES ASSUME i \in DOMAIN plan PROVE FALSE
          OBVIOUS
        <4>1. plan'[i] = plan[i] BY <1>5
        <4>2. j - Len(plan) \in DOMAIN accepted /\ plan'[j] = accepted[j - Len(plan)]
          BY <1>5, <2>2
        <4> QED BY <1>4, <4>1, <4>2
      <3>2. i - Len(plan) = j - Len(plan) BY <1>4, <1>5, <2>2, <3>1
      <3>3. i \in Nat /\ j \in Nat /\ Len(plan) \in Nat BY <1>3, <1>5
      <3> QED BY <3>2, <3>3
    <2> QED BY <2>1, <2>2
  <1>7. ExecutedIsPlanned'
    <2>1. PlannedIds \subseteq PlannedIds' BY <1>5 DEF PlannedIds
    <2> QED BY <1>2, <2>1 DEF Tried, ExecutedIsPlanned
  <1>8. NothingLeft' BY <1>2 DEF NothingLeft, AfterPlan, Remaining
  <1> QED BY <1>2, <1>6, <1>7, <1>8 DEF Tried, ResultPerStep

\* Carrying out a step adds one id and one result.
LEMMA TriedCompletion ==
  ASSUME Typed, Tried, Remaining(executed), NEW result, NEW docs, CompleteStep(result, docs)
  PROVE  ResultPerStep' /\ ExecutedIsPlanned' /\ RepeatsAreDrafted'
  <1>1. /\ executed' = executed \cup {NextStep.id} /\ results' = Append(results, result)
        /\ UNCHANGED <<plan, drafted>>
    BY DEF CompleteStep
  <1>2. /\ NextStep.id \notin executed /\ NextStep.id \in PlannedIds
    BY NextStepIsOpen DEF Typed, PlannedIds
  <1>3. ResultPerStep'
    <2>1. results \in Seq(Result) BY DEF Typed, TypeOK
    <2>2. Len(results') = Len(results) + 1 BY <1>1, <2>1
    <2>3. IsFiniteSet(executed') /\ Cardinality(executed') = Cardinality(executed) + 1
      BY <1>1, <1>2, FS_AddElement DEF Tried, ResultPerStep
    <2> QED BY <2>2, <2>3 DEF Tried, ResultPerStep
  <1> QED
    BY <1>1, <1>2, <1>3 DEF Tried, ExecutedIsPlanned, PlannedIds, RepeatsAreDrafted

LEMMA TriedCollection ==
  ASSUME Typed, Tried, CollectFails \/ Persist \/ PersistFails
  PROVE  Tried'
  <1>1. PICK result, docs : CompleteStep(result, docs)
    BY DEF CollectFails, Persist, PersistFails
  <1>2. Remaining(executed)
    BY DEF CollectFails, Persist, PersistFails, At, Typed, Collecting
  <1>3. /\ node' = "inspect_evidence" \/ node' = OnWithout
        /\ UNCHANGED <<asked, report, plan, replanned>>
    BY <1>1 DEF CollectFails, Persist, PersistFails, AfterPersist, request, evidence,
                CompleteStep
  <1>4. node' \in {"answer", "end"} =>
            ~Remaining(executed') /\ ~CanReplan(report, executed')
    BY <1>3 DEF OnWithout
  <1>5. NothingLeft'
    BY <1>3, <1>4 DEF NothingLeft, CanReplan, Remaining, Unused, Disclosed, PlanSites
  <1> QED BY <1>1, <1>2, <1>5, TriedCompletion DEF Tried

LEMMA TriedStep == Typed /\ Backed /\ Tried /\ [Next]_vars => Tried'
  BY TriedElsewhere, TriedStays, TriedInspect, TriedPlan, TriedReplan, TriedCollection
     DEF Next, Work

\* As many ids as steps, when no two steps share one.
LEMMA DistinctIds ==
  ASSUME plan \in Seq(Step),
         \A i, j \in DOMAIN plan : i < j => plan[i].id # plan[j].id
  PROVE  Cardinality(PlannedIds) = Len(plan)
  <1> DEFINE ids == [i \in 1 .. Len(plan) |-> plan[i].id]
  <1>1. Len(plan) \in Nat /\ DOMAIN plan = 1 .. Len(plan) OBVIOUS
  <1>2. \A i, j \in 1 .. Len(plan) : ids[i] = ids[j] => i = j
    <2> SUFFICES ASSUME NEW i \in 1 .. Len(plan), NEW j \in 1 .. Len(plan), i # j
                 PROVE  plan[i].id # plan[j].id
      OBVIOUS
    <2>1. i < j \/ j < i BY <1>1
    <2> QED BY <1>1, <2>1
  <1>3. ids \in Bijection(1 .. Len(plan), PlannedIds)
    <2>1. ids \in [1 .. Len(plan) -> PlannedIds] BY <1>1 DEF PlannedIds
    <2>2. \A id \in PlannedIds : \E i \in 1 .. Len(plan) : ids[i] = id
      BY <1>1 DEF PlannedIds
    <2> HIDE DEF ids
    <2> QED BY <1>2, <2>1, <2>2, Fun_IsBij
  <1>4. ExistsBijection(1 .. Len(plan), PlannedIds)
    <2> HIDE DEF ids
    <2> QED BY <1>3, Fun_ExistsBij
  <1>5. IsFiniteSet(1 .. Len(plan)) /\ Cardinality(1 .. Len(plan)) = Len(plan)
    BY <1>1, FS_Interval
  <1> QED BY <1>4, <1>5, FS_Bijection

LEMMA TriedGivesUp ==
  ASSUME Typed, Tried
  PROVE  GivesUpLast
  <1> SUFFICES ASSUME node = "end", Searching, ~report.sufficient, ~RepeatedId
               PROVE  Len(results) = Len(plan)
    BY DEF Tried, NothingLeft, GivesUpLast
  <1>1. plan \in Seq(Step) /\ drafted \in Nat BY DEF Typed, TypeOK
  <1>2. \A i, j \in DOMAIN plan : i < j => plan[i].id # plan[j].id
    <2> SUFFICES ASSUME NEW i \in DOMAIN plan, NEW j \in DOMAIN plan, i < j,
                        plan[i].id = plan[j].id
                 PROVE  FALSE
      OBVIOUS
    <2>1. j <= drafted BY DEF Tried, RepeatsAreDrafted
    <2>2. i \in 1 .. drafted /\ j \in 1 .. drafted BY <1>1, <2>1
    <2> QED BY <2>2 DEF RepeatedId
  <1>3. executed = PlannedIds
    BY DEF Tried, ExecutedIsPlanned, NothingLeft, Remaining, PlannedIds
  <1> QED BY <1>1, <1>2, <1>3, DistinctIds DEF Tried, ResultPerStep

\* Without enough evidence an answer comes only after every step that was
\* planned has been carried out once, one result each, and either the plan was
\* extended or no site is left; for any plans of the model
\* (route_after_evidence, can_replan, _complete_step_update).
THEOREM GivesUpAfterAll == Spec => []GivesUpLast
  BY TriedInit, TriedStep, TriedGivesUp, AlwaysTyped, AlwaysBacked, PTL DEF Spec
=============================================================================
