--------------------------- MODULE Investigation ---------------------------
(***************************************************************************)
(* One investigation: the LangGraph workflow that understands a request,   *)
(* asks the user what is missing, looks for evidence in the database,      *)
(* plans collections for what is not there, carries them out one by one,   *)
(* and answers from what was verified.                                     *)
(*                                                                         *)
(*   agent/graph/investigation_workflow.py          routes, resuming       *)
(*   agent/graph/investigation_request_nodes.py     understand, clarify    *)
(*   agent/graph/investigation_evidence_nodes.py    inspect, plan, replan  *)
(*   agent/graph/investigation_evidence_policy.py   which steps are kept   *)
(*   agent/graph/investigation_collection_nodes.py  collect, persist       *)
(*   agent/graph/investigation_answer_nodes.py      the answer, the status *)
(*   agent/application/clarification_service.py     the user's answers     *)
(*                                                                         *)
(* A node is one action; its state is checkpointed when it ends.  The      *)
(* environment is the language model (any analysis, plan or validation     *)
(* that its schema admits), the user, the vision worker, and the other     *)
(* investigations that store postings and index them meanwhile.            *)
(***************************************************************************)
EXTENDS Naturals, FiniteSets, Sequences

CONSTANTS
    Sites,           \* sites a user or the model may name
    Offered,         \* sites with a collection tool
    Docs,            \* postings
    StepIds, Keys,   \* ids of plan steps; search keyword and expected evidence
    QuestionIds,     \* ids the model may give its questions
    OccupationQuestion, \* id of the built-in question
    MaxQuestions,    \* bound: questions of one analysis
    MaxRequirements, \* bound: requirements of one evidence plan
    MaxNeed,         \* bound: postings a requirement asks for
    MaxOthers,       \* bound: how often another investigation stores a posting
    NoBatch          \* no pending collection

ASSUME ToolsAreForSites == Offered \subseteq Sites
ASSUME SetsAreFinite == IsFiniteSet(Sites) /\ IsFiniteSet(Docs)
ASSUME BuiltInIdIsAnId == OccupationQuestion \in QuestionIds
ASSUME BoundsAreNumbers == {MaxQuestions, MaxRequirements, MaxNeed, MaxOthers} \subseteq Nat

VARIABLES
    \* the workflow
    node,       \* the node that runs next
    running,    \* is the graph being invoked?
    pending,    \* the question whose interrupt the checkpoint holds
    given,      \* has the user's answer been handed to the invocation?
    \* request
    policy,     \* evidence_policy
    asked,      \* constraints.sites
    occupation, \* "needed": occupation_scope_required
    questions,  \* clarification_questions; their order is abstracted
    answered,   \* ids in clarification_answers
    \* evidence
    needs,      \* minimum_count of each requirement
    report,     \* db_report
    \* execution
    plan,       \* steps
    executed,   \* executed_step_ids
    collected,  \* collection_document_ids
    results,    \* collection_results
    batch,      \* pending_collection
    replanned,  \* replan_attempted
    \* answer
    outcome,    \* run_status and the postings the answer cites
    \* database
    stored, indexed,
    others,     \* how often another investigation stored a posting
    \* history
    drafted     \* how many steps the first plan had

request == <<policy, asked, occupation, questions, answered>>
evidence == <<needs, report>>
execution == <<plan, executed, collected, results, batch, replanned, drafted>>
database == <<stored, indexed, others>>
vars == <<node, running, pending, given, request, evidence, execution, outcome, database>>

Policies == {"model_knowledge", "database_first", "web_required", "database_only"}
Nodes == {"understand", "clarify", "define_evidence", "inspect_evidence", "plan_actions",
          "replan_actions", "collect", "persist", "answer", "end"}
Question == [id : QuestionIds, field : {"occupation_query", "sites", "other"}]
Step == [id : StepIds, site : Sites, key : Keys]
Report == [sufficient : BOOLEAN, docs : SUBSET Docs, missing : BOOLEAN]
Result == [verified : BOOLEAN, failed : BOOLEAN]
\* How the worker ended: it found the scope exhausted and finished, it finished
\* otherwise, or it failed or gave up.
Endings == {"exhausted", "finished", "failed"}
Batch == [observed : SUBSET Docs, items : SUBSET Docs, ending : Endings]

NoReport == [sufficient |-> FALSE, docs |-> {}, missing |-> FALSE]

Init ==
    /\ node = "understand" /\ running = TRUE /\ pending = {} /\ given = FALSE
    /\ policy = "database_first" /\ asked = {} /\ occupation = "settled"
    /\ questions = {} /\ answered = {}
    /\ needs = <<>> /\ report = NoReport
    /\ plan = <<>> /\ executed = {} /\ collected = {} /\ results = <<>>
    /\ batch = NoBatch /\ replanned = FALSE /\ drafted = 0
    /\ outcome = [status |-> "running", cited |-> {}]
    /\ stored \in SUBSET Docs /\ indexed \in SUBSET stored /\ others = 0

At(n) == running /\ node = n
-----------------------------------------------------------------------------
(* Understanding the request, and asking the user *)

\* Mutant: the built-in question is asked even when its id has an answer.
PrepareUnasked(scope, asking, ids) ==
    IF asking = {} /\ scope = "needed"
    THEN {[id |-> OccupationQuestion, field |-> "occupation_query"]}
    ELSE asking

\* The model's questions first; then the built-in one, unless it has an answer.
PrepareQuestions(scope, asking, ids) ==
    IF asking = {} /\ scope = "needed" /\ OccupationQuestion \notin ids
    THEN {[id |-> OccupationQuestion, field |-> "occupation_query"]}
    ELSE asking

AfterUnderstand ==
    IF questions' # {} THEN "clarify"
    ELSE IF policy' = "model_knowledge" THEN "answer"
    ELSE "define_evidence"

\* The analysis may ask anything but, when the dictionary knows the occupation,
\* for the occupation.
Understand ==
    /\ At("understand")
    /\ policy' \in Policies
    /\ asked' \in SUBSET Sites
    /\ occupation' \in {"needed", "settled"}
    /\ \E asking \in SUBSET Question, known \in BOOLEAN :
           /\ Cardinality(asking) <= MaxQuestions
           /\ known => /\ occupation' = "settled"
                       /\ \A question \in asking : question.field # "occupation_query"
           /\ questions' = PrepareQuestions(occupation', asking, {})
    /\ node' = AfterUnderstand
    /\ UNCHANGED <<running, pending, given, answered, evidence, execution, outcome, database>>

\* clarify interrupts the graph: the run ends, waiting for input.
Ask ==
    /\ At("clarify") /\ ~given
    /\ pending' \in {{question} : question \in IF pending = {} THEN questions ELSE pending}
    /\ running' = FALSE
    /\ outcome' = [outcome EXCEPT !.status = "waiting_input"]
    /\ UNCHANGED <<node, given, request, evidence, execution, database>>

\* The user's answer names the pending question: the graph is invoked again.
Resume ==
    /\ ~running /\ pending # {}
    /\ given' = TRUE
    /\ running' = TRUE
    /\ outcome' = [outcome EXCEPT !.status = "running"]
    /\ UNCHANGED <<node, pending, request, evidence, execution, database>>

\* apply_clarification_answer: what the answer settles.
Apply(question) ==
    /\ answered' = answered \cup {question.id}
    /\ occupation' = IF question.field = "occupation_query" THEN "settled" ELSE occupation
    /\ IF question.field = "sites" THEN asked' \in SUBSET Sites ELSE UNCHANGED asked

\* Every question with the id is gone.
Clarify ==
    /\ At("clarify") /\ given
    /\ \E question \in pending :
           /\ Apply(question)
           /\ questions' = PrepareQuestions(occupation',
                  {other \in questions : other.id # question.id}, answered')
    /\ given' = FALSE
    /\ pending' = {}
    /\ UNCHANGED policy
    /\ node' = AfterUnderstand
    /\ UNCHANGED <<running, evidence, execution, outcome, database>>

\* An answer that cannot be applied (a malformed period, a value outside of the
\* choices) fails the run; the interrupt stays in the checkpoint.
Refuse ==
    /\ At("clarify") /\ given
    /\ given' = FALSE
    /\ running' = FALSE
    /\ outcome' = [outcome EXCEPT !.status = "failed"]
    /\ UNCHANGED <<node, pending, request, evidence, execution, database>>
-----------------------------------------------------------------------------
(* Evidence in the database *)

\* Mutant: the counts the model chose are kept, zero included.
ModelCounts == UNION {[1..n -> 0..MaxNeed] : n \in 0..MaxRequirements}

\* normalize_evidence_requirements: every requirement asks for a posting.
NormalizedCounts == UNION {[1..n -> 1..MaxNeed] : n \in 0..MaxRequirements}

DefineEvidence ==
    /\ At("define_evidence")
    /\ needs' \in NormalizedCounts
    /\ node' = "inspect_evidence"
    /\ UNCHANGED <<running, pending, given, request, report, execution, outcome, database>>

\* Once a web investigation has executed a step, only what it collected counts.
Candidates ==
    IF policy = "web_required" /\ executed # {} THEN indexed \cap collected ELSE indexed

PlanSites == {plan[i].site : i \in DOMAIN plan}
Remaining(done) == \E i \in DOMAIN plan : plan[i].id \notin done

\* collection_capabilities_for, and what of it the plan has not used.
Disclosed == IF asked = {} THEN Offered ELSE Offered \cap asked
Unused == Disclosed \ PlanSites

CanReplan(evidenceReport, done) ==
    /\ ~replanned /\ done # {}
    /\ ~evidenceReport.sufficient
    /\ ~Remaining(done)
    /\ Unused # {}

AfterEvidence ==
    IF policy = "database_only" THEN "answer"
    ELSE IF policy = "web_required" /\ executed = {} THEN "plan_actions"
    ELSE IF report'.sufficient THEN "answer"
    ELSE IF Remaining(executed) THEN "collect"
    ELSE IF plan = <<>> THEN "plan_actions"
    ELSE IF CanReplan(report', executed) THEN "replan_actions" ELSE "answer"

\* apply_evidence_validation: each requirement must reach its count, with the
\* fields and dates it asks for.
Judged(matching, covered) ==
    LET enough == /\ needs # <<>> /\ covered
                  /\ \A i \in DOMAIN needs : Cardinality(matching[i]) >= needs[i]
    IN [sufficient |-> enough,
        docs |-> UNION {matching[i] : i \in DOMAIN needs},
        missing |-> needs # <<>> /\ ~enough]

\* For each requirement some of the candidates match, whether the dictionary or
\* the model's validation decides.
InspectEvidence ==
    /\ At("inspect_evidence")
    /\ \E matching \in [DOMAIN needs -> SUBSET Candidates], covered \in BOOLEAN :
           report' = Judged(matching, covered)
    /\ node' = AfterEvidence
    /\ UNCHANGED <<running, pending, given, request, needs, execution, outcome, database>>
-----------------------------------------------------------------------------
(* Planning *)

Signature(step) == <<step.site, step.key>>

\* select_collection_steps: what it may keep of a model's plan.
SelectedSteps(offered) ==
    {p \in UNION {[1..n -> [id : StepIds, site : offered, key : Keys]] :
                      n \in 0..(Cardinality(offered) * Len(needs))} :
        \A i, j \in DOMAIN p : Signature(p[i]) = Signature(p[j]) => i = j}

\* build_single_site_collection_step: the sites that the only requirement and
\* the request leave.
DirectSites(scope) ==
    IF scope # {} THEN Disclosed \cap scope
    ELSE IF asked # {} THEN Disclosed \cap asked
    ELSE Disclosed

DirectPlans(scope) ==
    {<<step>> : step \in [id : StepIds, site : DirectSites(scope), key : Keys]}

AfterPlan == IF \E i \in DOMAIN plan' : plan'[i].id \notin executed THEN "collect" ELSE "answer"

\* The model's plan may use every site with a tool, asked for or not.
PlanActions ==
    /\ At("plan_actions")
    /\ \E scope \in SUBSET Sites, keyword \in BOOLEAN :
           IF Len(needs) = 1 /\ keyword /\ Cardinality(DirectSites(scope)) = 1
           THEN plan' \in DirectPlans(scope)
           ELSE plan' \in SelectedSteps(Offered)
    /\ drafted' = Len(plan')
    /\ node' = AfterPlan
    /\ UNCHANGED <<running, pending, given, request, evidence, outcome, database>>
    /\ UNCHANGED <<executed, collected, results, batch, replanned>>

\* Mutant: only the meaning of a step is compared, not its id.
NewBySignature(proposals) ==
    {p \in proposals : \A i \in DOMAIN p, k \in DOMAIN plan :
                           Signature(p[i]) # Signature(plan[k])}

\* new_collection_steps: what may remain of the proposals when neither the id nor
\* the meaning of a step is repeated.
NewSteps(proposals) ==
    {p \in proposals :
        /\ \A i, j \in DOMAIN p : p[i].id = p[j].id => i = j
        /\ \A i \in DOMAIN p, k \in DOMAIN plan :
               p[i].id # plan[k].id /\ Signature(p[i]) # Signature(plan[k])}

\* The last plan: only sites that are left, once.
ReplanActions ==
    /\ At("replan_actions")
    /\ \E accepted \in NewSteps(SelectedSteps(Unused)) : plan' = plan \o accepted
    /\ replanned' = TRUE
    /\ node' = AfterPlan
    /\ UNCHANGED <<running, pending, given, request, evidence, outcome, database>>
    /\ UNCHANGED <<executed, collected, results, batch, drafted>>
-----------------------------------------------------------------------------
(* Collecting and storing *)

\* The first step that has not been executed.
NextStep ==
    LET open == {i \in DOMAIN plan : plan[i].id \notin executed}
    IN plan[CHOOSE i \in open : \A j \in open : i <= j]

FailedResult == [verified |-> FALSE, failed |-> TRUE]

\* Mutant: a step whose collection failed stays open.
CompleteSuccessful(result, docs) ==
    /\ executed' = IF result.failed THEN executed ELSE executed \cup {NextStep.id}
    /\ collected' = collected \cup docs
    /\ results' = Append(results, result)
    /\ batch' = NoBatch
    /\ UNCHANGED <<plan, replanned, drafted>>

CompleteStep(result, docs) ==
    /\ executed' = executed \cup {NextStep.id}
    /\ collected' = collected \cup docs
    /\ results' = Append(results, result)
    /\ batch' = NoBatch
    /\ UNCHANGED <<plan, replanned, drafted>>

\* Where a step that brought nothing leads.
OnWithout == IF Remaining(executed') THEN "collect"
             ELSE IF CanReplan(report, executed') THEN "replan_actions" ELSE "answer"

\* The worker's submission: postings that were known, and postings it captured,
\* which may be stored already when the lookup could not read the database.
Collect ==
    /\ At("collect")
    /\ batch' \in [observed : SUBSET stored, items : SUBSET Docs, ending : Endings]
    /\ node' = "persist"
    /\ UNCHANGED <<plan, executed, collected, results, replanned, drafted>>
    /\ UNCHANGED <<running, pending, given, request, evidence, outcome, database>>

CollectFails ==
    /\ At("collect")
    /\ CompleteStep(FailedResult, {})
    /\ node' = OnWithout
    /\ UNCHANGED <<running, pending, given, request, evidence, outcome, database>>

\* Mutant: a captured posting counts although it was rejected.
CapturedIds(persisted) == batch.items \cup batch.observed

DocumentIds(persisted) == persisted \cup batch.observed

\* build_collection_result, as the final status reads it: a scope that the worker
\* finished and found exhausted counts although nothing was found.
CollectionResult(docs) ==
    [verified |-> docs # {} \/ batch.ending = "exhausted",
     failed |-> batch.ending = "failed"]

\* Mutant: the evidence is inspected only after the last step.
AfterAllSteps(docs) == IF docs # {} /\ ~Remaining(executed') THEN "inspect_evidence" ELSE OnWithout

AfterPersist(docs) == IF docs # {} THEN "inspect_evidence" ELSE OnWithout

\* Each item is stored, or rejected; one that is stored may be rejected for the
\* answer because it could not be linked: then it is not indexed, even if it was.
Persist ==
    /\ At("persist")
    /\ \E persisted \in SUBSET batch.items :
           LET docs == DocumentIds(persisted)
           IN /\ \E unlinked \in SUBSET (batch.items \ persisted) :
                     /\ stored' = stored \cup persisted \cup unlinked
                     /\ indexed' = (indexed \cup persisted) \ unlinked
              /\ CompleteStep(CollectionResult(docs), docs)
              /\ node' = AfterPersist(docs)
    /\ UNCHANGED <<others, running, pending, given, request, evidence, outcome>>

\* store_collection raises, after it has stored some items.
PersistFails ==
    /\ At("persist")
    /\ \E kept \in SUBSET batch.items :
           /\ stored' = stored \cup kept
           /\ indexed' \in {(indexed \ kept) \cup linked : linked \in SUBSET kept}
    /\ CompleteStep(FailedResult, {})
    /\ node' = OnWithout
    /\ UNCHANGED <<others, running, pending, given, request, evidence, outcome>>
-----------------------------------------------------------------------------
(* The answer *)

\* investigation_run_status
RunStatus ==
    LET verified == {i \in DOMAIN results : results[i].verified}
    IN IF policy \in {"model_knowledge", "database_only"} \/ report.sufficient THEN "completed"
       ELSE IF results = <<>> THEN "partial"
       ELSE IF verified = {} /\ \E i \in DOMAIN results : results[i].failed THEN "failed"
       ELSE IF verified = DOMAIN results /\ ~report.missing THEN "completed" ELSE "partial"

\* The lines that validate_grounded_answer keeps cite postings of the report.
Grounded == SUBSET (report.docs \cap stored)

Answer ==
    /\ At("answer")
    /\ \E cited \in Grounded :
           outcome' = [status |-> RunStatus, cited |-> cited]
    /\ node' = "end"
    /\ running' = FALSE
    /\ UNCHANGED <<pending, given, request, evidence, execution, database>>
-----------------------------------------------------------------------------
(* Failure of a run, and the other investigations *)

\* The run is cancelled, passes its deadline, a model call fails or the process
\* ends: the checkpoint of the last node that ended stays.
Stop ==
    /\ running
    /\ running' = FALSE
    /\ given' = FALSE
    /\ outcome' = [outcome EXCEPT !.status = "failed"]
    /\ UNCHANGED <<node, pending, request, evidence, execution, database>>

\* A posting is stored, linked, or stored again and not linked yet.
Others ==
    /\ others < MaxOthers
    /\ others' = others + 1
    /\ \E d \in Docs :
           /\ stored' = stored \cup {d}
           /\ indexed' \in {indexed \cup {d}, indexed \ {d}}
    /\ UNCHANGED <<node, running, pending, given, request, evidence, execution, outcome>>

Work ==
    \/ Understand \/ Ask \/ Clarify \/ Refuse \/ DefineEvidence \/ InspectEvidence
    \/ PlanActions \/ ReplanActions \/ Collect \/ CollectFails \/ Persist \/ PersistFails
    \/ Answer \/ Stop

Next == Work \/ Resume \/ Others

Spec == Init /\ [][Next]_vars
-----------------------------------------------------------------------------
(* Properties *)

\* Every variable has its type; what was collected is in the database.
TypeOK ==
    /\ node \in Nodes
    /\ running \in BOOLEAN /\ given \in BOOLEAN /\ replanned \in BOOLEAN
    /\ pending \subseteq Question
    /\ policy \in Policies /\ asked \subseteq Sites
    /\ occupation \in {"needed", "settled"}
    /\ questions \subseteq Question /\ answered \subseteq QuestionIds
    /\ needs \in Seq(Nat) /\ report \in Report
    /\ plan \in Seq(Step) /\ executed \subseteq StepIds
    /\ results \in Seq(Result) /\ batch \in Batch \cup {NoBatch}
    /\ outcome \in [status : {"running", "waiting_input", "completed", "partial", "failed"},
                   cited : SUBSET Docs]
    /\ stored \subseteq Docs /\ indexed \subseteq stored /\ collected \subseteq stored
    /\ drafted \in Nat /\ others \in Nat

Searching == policy \in {"database_first", "web_required"}

\* No question is put to the user again after its id was answered, whatever ids
\* the model gives its own questions.
AnsweredOnce == \A question \in questions \cup pending : question.id \notin answered

\* A completed investigation that was to look for postings has postings: the
\* evidence is sufficient, and there is a document.  (Results without missing
\* evidence also count as completed, but never happen without it.)
CompletedIsBacked ==
    node = "end" /\ Searching /\ outcome.status = "completed" =>
        report.sufficient /\ report.docs # {}

\* Once a web investigation has collected postings, its answer cites no others,
\* whatever the database held before and whatever others store meanwhile.
WebAnswerIsCollected ==
    node = "end" /\ policy = "web_required" /\ collected # {} =>
        outcome.cited \subseteq collected

RepeatedId == \E i, j \in 1..drafted : i < j /\ plan[i].id = plan[j].id

\* An investigation answers without enough evidence only when every step of its
\* plans has been carried out once, one result each, and no other site is left
\* to try; a first plan in which the model repeats an id loses the later step.
GivesUpLast ==
    node = "end" /\ Searching /\ ~report.sufficient =>
        /\ Len(results) = Len(plan) \/ RepeatedId
        /\ executed # {} => replanned \/ Unused = {}

\* The order in which one pass runs the nodes.
Order == [understand |-> 1, clarify |-> 2, define_evidence |-> 3, inspect_evidence |-> 4,
          plan_actions |-> 5, replan_actions |-> 6, collect |-> 7, persist |-> 8,
          answer |-> 9, end |-> 10]

\* Whatever the model, the user and the worker do, a run never comes back to a
\* node without having carried out a step it had not, or settled a question it
\* had not: every invocation of the graph ends.
EveryNodeAdvances ==
    [][(Work /\ running') => \/ Order[node] < Order[node']
                             \/ executed' # executed /\ executed \subseteq executed'
                             \/ answered' # answered /\ answered \subseteq answered']_vars
=============================================================================
