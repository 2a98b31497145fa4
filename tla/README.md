# L2C in TLA+

L2C is a Windows computer-use agent that collects Korean job postings: a chat request becomes an investigation, the
investigation may start a *vision worker* that drives a real browser by screenshots, OCR and mouse input, and what a
run did is turned into an *experience rule* that later runs replay. This directory holds TLA+ modules of the parts of
that program in which steps of several actors, failures and order matter, the TLC runs that check them on small
instances, and TLAPS proofs for every value of the constants. Paths below are relative to the repository's root.

Check a module with `tlc -config WorkerQueue.cfg MCVisionWorker.tla`, prove one with `tlapm VisionWorkerProofs.tla`.
`PROJECT.json` lists components, runs, mutants, hazards, findings, theorems and, under `map`, the source lines that
every definition translates.

## 1. Inventory

| component | state it keeps | operations | interacts with |
|---|---|---|---|
| **Recipe promotion queue** `agent/recipe/candidate_store.py`, `store.py`, `agent/application/recipe_promotion_worker.py`, `recipe_candidate_review_service.py`, `collection_experience.py` | SQLite tables `recipe_candidates`, `experience_rules`, `experience_rule_sources`; a daemon thread and its stop event | commit candidate, enqueue, claim, review and save a rule, settle, defer, recover | written by the chat thread of a collection, read by replay, critic model in between |
| **Vision worker graph** `agent/graph/worker_*.py`, `workflow.py` | `WorkerState`: observation, decision, transition, replay, collection, lifecycle | capture, judge the last action, decide (policy, rule, OCR, policy, model), execute, review | browser, OCR process, model, rule store, job table |
| **Job card queue** `agent/runtime/job_card_queue.py`, `job_capture.py`, `agent/application/duplicate_job_service.py` | status per card, captures of this run | take over, select, activate, complete, skip, reject, scope check | a part of `WorkerState.collection` |
| **Screen transitions, detail buffer** `agent/runtime/transition_runtime.py`, `detail_runtime.py`, `site_context.py` | transition request and result, OCR of the screen before, text buffer | verdict before and after OCR, reuse of OCR, accumulate text | worker graph |
| **Experience rule replay** `agent/recipe/replay.py`, `replay_runtime.py`, `target_matching.py` | replay session, blocked rules, outcome counters of a rule | match, step, verify the arrival, record the outcome | worker graph, rule store (which the promotion thread writes) |
| **Run registry and chat service** `agent/observability/run_registry.py`, `run_context.py`, `agent/application/chat_service.py`, `agent/web_server.py` | recent runs (bounded), cancel flags, event streams | create, update, evict, cancel, stream, disconnect | browser UI, worker threads |
| **Vision runtime** `agent/runtime/vision_worker_runtime.py`, `agent/application/worker_execution_service.py`, `agent/bootstrap.py` | two locks, lazily created resources | execution session, create, close | chat threads, shutdown |
| **Investigation graph** `agent/graph/investigation_*.py`, `agent/application/clarification_service.py` | checkpointed investigation state | understand, ask, resume, recheck evidence, collect, persist, answer | chat service, vision worker, database |
| **Storage and search index** `agent/application/collection_storage.py`, `job_taxonomy_linker.py`, `search_taxonomy_*.py`, `evidence_service.py`, `shared/db/database.py` | job postings keyed by URL, index status, links, installed seed | upsert, link, note a failure, import a seed, relink, search | investigation graph, start of the backend |
| **OCR worker process** `agent/tools/paddle_ocr.py`, `paddle_ocr_runner.py` | subprocess, reader threads with a generation, request id | request, answer, time out, restart once | capture |
| Concept matching, job lookup, normalisation, rule compilation, permissions, prompts, models, observability, sites, frontend, classic, benchmarks | none that several actors share, or data only | pure functions, queries, external calls | — |

**How they interact.** A chat request runs in a thread of its own (`asyncio.to_thread`). The investigation graph calls
the worker through a service that takes the runtime's execution lock. The worker graph is sequential, but its
environment is not: a page can arrive at any point between a screenshot and the reading of the address bar. After a
collection the chat thread writes the run's submission and candidate; a promotion thread of the same process claims
candidates from SQLite, asks the critic and saves a rule; the next worker run reads that rule.

**What is hard.** Process ends between two SQLite transactions and the recovery at the next start; two processes on
one file; transactions that fail; a retry limit across restarts. In the worker: decisions taken from a stale URL or a
verdict that is still open; a card that is active although its page never opened; fixed policies that spend no model
call and so are bounded by nothing but verdicts; local state used after a call has replaced it. In the chat service:
cancellation, eviction and disconnect against running threads, and a shutdown that must wait for them. In the index:
a row that is read in one transaction and linked in the next, failures that must be noted and cannot be, a start that
ends in the middle. In the investigation: a model that repeats ids, a snapshot of the evidence that gets old, steps
that fail and must not be tried for ever. `PROJECT.json` lists each hazard at its line.

**What correctness means**, per component: the promotion queue reviews each candidate to a final verdict, by one
owner, and a rule is in the store exactly when its verdict says so. The worker works on one card at a time, counts a
card only for a posting it collected, calls itself complete only when it is, never closes the wrong tab on a hunch,
and ends. Replay counts an outcome once and for the rule that was replayed. A cancelled run stops, and only that run.
An investigation resumes where it stopped and collects no more often than it may. A batch is stored once per posting.

## 2. Plan

Order: most important behaviour first.

| module | abstract specification | runs | proofs |
|---|---|---|---|
| `PromotionQueue` (done) | `ReviewQueue` | 2 passing, 1 divergence | refinement, all invariants and action properties |
| `VisionWorker` (done) | `CardLedger` | 2 passing, 3 divergences | ledger, all invariants and action properties, the descent behind `Terminates` |
| `JobIndex` (done) | — | 1 passing | all invariants |
| `Investigation` (done) | — | 1 passing | all properties |
| `ChatRuns` (done) | — | 1 passing | all safety properties, no circle among the locks |
| `RouteReplay` (done) | — | 1 passing | all properties |
| `OcrProcess` (left) | no process is left behind, a worker is asked only when it owes no answer, every call ends | later | the first two, by induction over the client's steps |

How they fit together: `ChatRuns` begins and ends the nodes whose content is `Investigation`; one `collect` node of
`Investigation` is one session of `ChatRuns` and one run of `VisionWorker`; its `persist` node is `Upsert` and
`link_job` in `JobIndex`; the record of the collection is a registration in `PromotionQueue`, whose `save_rule` is
`SaveRule` in `RouteReplay`; and `RouteReplay` is what `VisionWorker` has as one flag. Each module lets the others do
whatever their interface admits (postings appear, nodes fail, routes are replaced), so each holds beside any of them.
Their product is too large to check as one state space.

## 3. PromotionQueue and ReviewQueue

`ReviewQueue` is what the queue promises: a candidate waits, is in one reviewer's hand, is put back or settled, and is
settled once. `PromotionQueue` is the code.

- `status`, `attempts`, `delayed`, `created` are columns of `recipe_candidates`; `rule`, `support`, `sources` the rule
  tables; `collector`, `proc`, `stop`, `pc`, `task` the threads with their local variables; `outages`, `interrupted`
  and `published` are history variables, only read by properties and bounds.
- One action is one SQLite transaction or one external event. `CommitCandidate` and `EnqueueReview` are the two
  transactions of a registration; `ClaimReview` the `BEGIN IMMEDIATE` of `claim_review`; `CriticAnswers` the model;
  `ReadRule` and `WriteRule` the reads and the write of `save_rule` (its two SELECTs are one step: nothing between
  them is written by what they saw); `UpdateStatus`, `DeferReview` the end of a review; `RecoverInterrupted` is part
  of `StartBackend`, as in `RecipePromotionWorker.start`. `EndBackend` may happen between any two of them.
- `Fail` actions exist only with `DbFaults`: every transaction may raise, which takes the code's error path, including
  the thread's death when `claim_review` raises outside of the `try`.

| run | instance | shows |
|---|---|---|
| `promotion_single` | one backend, 2 candidates for one rule key, 2 routes, 2 attempts, 2 process ends | refinement of `ReviewQueue`, retry limit, no rule of a turned-down candidate unless a restart interrupted it, final verdicts, and (with fairness) every queued candidate is settled |
| `promotion_shared` | two backends on one file, failing transactions, 1 attempt, 1 process end | no review without a reviewer while the threads live; `support_count` equals the sources under racing writers; an accepted candidate's rule was saved first |
| `promotion_leak` | as single | *violated*: `troubleshooting.md:173` promises "accepted + active recipe or rejected"; rule and verdict are two transactions, and a restart between them can leave a rejected candidate with an active rule |

*Bounds.* Two candidates are what a race for one rule row needs; two routes let a second review replace the first;
two attempts reach both sides of the limit; one process end interrupts a review and two interrupt its repetition.
`CHECK_DEADLOCK FALSE` only in `promotion_shared`: a dead worker thread is not started again before the process ends,
and process ends are bounded.

*Fairness.* The worker thread takes its next step when it can and models answer or time out; delays pass; a closing
backend ends and a backend that is down is started again. The last one is an assumption about the operator, without
which nothing repairs an interrupted review. No fairness makes a collection, a crash or a failure happen.

## 4. VisionWorker and CardLedger

`CardLedger` is what a run promises about cards: they enter the ledger only when none is open, one at a time is taken,
each is settled once, the model may call the task finished only when none is open, and the run may always stop.

`VisionWorker` is one run, from the start page to its end.

- *Browser*: `screen` is the page in front and `arriving` one that is still loading. `Capture` takes a screenshot and
  then reads the address bar; `arriving` may arrive before, between or after the two. With `UrlMayFail` the reading
  may fail and the old URL is kept (`worker_observation.py:178-190`). A page is named by its URL; OCR of a screen that
  is not blank always finds text. Side panels, which show a posting under the results' URL, are left out.
- *Observation, transition*: `obs`, `prev`, `request`, `result`, `noEffect` are the sections `observation` and
  `transition`. `InspectNothing`, `InspectChange`, `InspectNoChange` are the outcomes of the verdict without OCR,
  `Complete` the verdict after `Ocr`. Pixels may differ although the page is the same, and differ too little (or not be
  comparable, when an image is missing) although it is another one.
- *Decision*: `pc` walks through `decision_node`: `decide` (follow-up of a review, or the selection before OCR),
  `prepare` (a rule), `ocr`, `complete`, `reselect` (the selection again), `choose` (a rule again), `reason`. A
  decision that has no route goes to `raised`.
- *Execution*: one action per kind of outcome. `FailScreenAction` merges a guard's block, a permission refusal and a
  failure on the screen, which have the same effect on the state. `open_browser` always reports success in
  `agent/tools/actions.py`, so the branch for the opposite is left out. `FailStateAction` is a `set_job_card_queue` or
  `review_job_detail` that raises or reports an error. Every tool call ends in `Route`, which is `finish_state` and
  `route_after_execution`.
- *Collection*: `queue` maps cards to statuses: `known` is a skipped card with a job id (it counts), `skipped` one
  without. Any pending card may be the next one. `captures` are identified as in `job_capture.py`: URL and card.
  `review.same` says that the detail buffer's fingerprint may equal that of the last review.
- *Choices*: the model's tool among those `Tools` allows, the reviewer's verdict, what a click leads to. A model that
  fails twice, the stage limit and the cost limit are `ReasonStop`, possible at every call.
- *Left out*: the role of a page inferred from visible cues when its URL has none (pages are named by their URL),
  cancellation, exceptions of the OCR process, the recursion limit of 180 steps, the record of
  availability evidence (written, but no decision reads it), the prompt and its loop warnings (except their error).

| run | instance | shows |
|---|---|---|
| `worker_queue` | 2 cards of one posting, request for 2 or all, 4 model calls | types and counters; refinement of `CardLedger`; completion is earned; a collected card has its capture; a tab is closed only after going back was judged without effect |
| `worker_replay` | 1 card of a posting that is in the database, one rule step, unreadable URLs, 2 blank captures | every decision has a route; no step is free in what the run has left; every run ends (fair) |
| `worker_errors` | 1 card, 3 calls | *violated*: after a successful `set_job_card_queue` the error count is not reset: `worker_execution.py:181` writes into a state that the call has replaced |
| `worker_verdict` | 2 cards, 4 calls | *violated*: on a collected posting the selection before OCR goes back and replaces the unjudged request of the click, against invariant 4 of `docs/worker_state_contract.md` |
| `worker_recapture` | 2 cards, 4 calls | *violated*: the same posting, reviewed for a card and again without one, is two captures, against the docstring of `store_job_capture` |

*Bounds.* `MaxCalls` stands for the cost limit; four calls are enough to take over cards, collect one completely and
start on another page. `MaxErrors` is 2 instead of 3 and `LoopLength` 2 instead of 4: both limits are reached within
the calls available. Two cards of one posting are repeated advertisements, which is where counting goes wrong.
`MaxReplays` bounds the steps of rules; 0 is `reflex.enabled = false`.

*Fairness.* `WF_vars(Next)`: the graph runs in one thread that takes its next step. Nothing is assumed of the browser,
the model or the reviewer. `EveryStepSpends` says the same without fairness and step by step: `Left` lists what a run
has left, the scarcest first (its end; model calls with what they set off; rule steps; cards to open and settle; ways
back, one going back and one closing of the tab between two cards; failures; blank captures; the nodes down the
graph), and every step lowers it in lexicographic order. `Terminates` is therefore about the steps that spend no model call: captures of blank
screens, rules, going back and closing tabs, failing actions, reviews. That the number of calls is finite is the
bound `MaxCalls`, in the code the cost limit; with a cost limit of 0 and stages that alternate only the recursion limit
is left (hazard at `worker_reasoning.py:153`).

An observation that is not a run: `troubleshooting.md:208` says the model cannot finish a counted request without
evidence that no candidates are left; `worker_reasoning.py:87` allows `finish_task` as soon as no card is open
(a hazard in `PROJECT.json`).

## 5. RouteReplay

One worker at a time replays stored routes; the promotion thread replaces them underneath.

- `rules` is the table `experience_rules`: per key its route (named by a number), the length of the route and, in
  place of the two counters, the list of outcomes with the path that earned each. `session` is `ReplaySession` (key,
  current step, whether a step awaits its verdict, number of steps), `blocked` is `reflex_blocked_recipe_keys`, `used`
  the fixed controls that recorded actions of a rule pressed, per page scope, `missed` and `doubt` the two conditions
  under which no rule is tried. `replay`, `path` and `log` are history.
- `Hit` and `Miss` are `attempt_reflex_replay` with what it selects; `Candidates` reads the store at every attempt, as
  the code does. `NothingToJudge` is an action that was refused or failed before the screen; `Act` and `Judge(ready)`
  execute and judge one; `ChooseOther` is an action of a policy or of the model with a replay in progress. `Judge`
  moves the session, blocks the rule and counts the outcome, in that row, whatever route it holds by then; the write
  may fail, which is only logged. `Begin` and `End` are a run.
- *Choices*: whether a step fits (target matching, page role, the inputs the request must name, `replay.py:249`) and
  what the verdict is; a step that failed is always judged as failed. An action recorded without a page does not occur
  in `used`: the start screen sets an URL before the first capture, and a failed reading keeps the last one.

| run | instance | shows |
|---|---|---|
| `route_replay` | 2 keys, routes of up to 3 steps, 2 page scopes, 2 saved routes, 3 replays (symmetric keys) | a lost rule is not replayed again in its run; a replay ends once and is never dropped silently; a success judged every step in order; a row gets at most one outcome of another route |

*Bounds.* Three steps have a first, a middle and a last one; two saves let a route be replaced during its replay and
become shorter or longer; three replays are one that is lost, one of another rule and one after both.

`docs/reflex_recipe_plan.md` resets the counters of a replaced route so that routes do not mix. `RoutesMixOnce` is what
the code keeps of that: the replay that was in progress still counts for the new route, once.

## 6. ChatRuns

- `stream` is the SSE generator of a run (`none`, `greeted`, `open`, `gone`, `done`), `at` its thread, `raised` what a
  collection is left with, `outcome` how the thread ended. `entry` and `order` are the registry with its limit. `lock`
  and `resource` are `_execution_lock` and `_resource_lock`, `warming` the warm-up futures, `app` the shutdown.
  `promised` and `nodes` are history: cancellations that were accepted, and what a run began.
- `Request`, `Serve`, `Disconnect`, `EndStream` are the generator; `Disconnect` has both outcomes: a stream that awaits
  an event requests the cancellation, one that is sending a frame is closed with `GeneratorExit` and requests nothing.
  `Register`, `Event`, `Finish`, `RequestCancel` are the registry's methods, each under its lock; an event of a
  forgotten run registers it again, without its cancellation.
- The thread: `Begin`, nodes with the check at their beginning, `Ask`, `Answer`, `Return`, failures; `Enter` to `Leave`
  is one collection in its session: warm-ups and browser in parallel, the barrier, worker steps, the way out. A warm-up
  holds the resource lock while it creates what it needs; the OCR warm-up then starts its worker process without the
  lock (`WorkerStarts`), and the barrier waits for that too.
- `Shutdown` waits for the streams, as the server does, and then `TakeExecution`, `CloseVision`, `CloseCheckpoint`.

| run | instance | shows |
|---|---|---|
| `chat_runs` | 2 runs, a registry of 1, 2 nodes or steps per run | sessions are serial, their lock is never left behind and none survives the close; final statuses are true; a cancellation the registry remembers stops its run; (fair) every run and the shutdown end |

*Bounds.* A registry of one with two runs forgets a running one at every point, which 100 entries do after a hundred
requests. Two nodes are one that is a collection and one after it. `CHECK_DEADLOCK FALSE`: a backend may be idle.

*Fairness.* Threads, open streams, warm-ups and the shutdown take their next step: models have timeouts, the worker a
recursion limit and a deadline (`MaxNodes` stands for them), and locks are handed over. Nothing is assumed of clients.

Not promised by the code, and so not stated: that a client that leaves cancels its run, and that an accepted
cancellation survives eviction from the registry.

## 7. Investigation

- `node` is the node that runs next, `pending` and `given` the interrupt in the checkpoint and its answer; the other
  variables are the sections `request`, `evidence`, `execution` and `answer` of the state, the postings that are
  `stored` and `indexed`, and `drafted` (history). One action is one node, since a node is checkpointed when it ends;
  `Stop` is an invocation that fails, `Resume` an answer, `Others` a posting that another investigation stores.
- *Choices*: any analysis, plan and validation of the model that its schema admits, with any ids for steps and
  questions; any answer of the user; collections that fail, store nothing or store some, of postings that are new or,
  when the lookup of known ones fails, stored already. A posting whose linking fails is out of the index, although it
  was indexed before; `ending` says whether the collection exhausted its scope, finished, or failed.

| run | instance | shows |
|---|---|---|
| `investigation` | 2 sites, 2 postings, 2 step ids, 2 question ids, 2 questions, 1 requirement of 1 posting, 1 posting of others (symmetric) | no question twice; `COMPLETED` is backed by the code's own count; a web answer cites collected postings; giving up is the last resort; every loop of the graph advances |

*Bounds.* Two ids are what a repetition and a conflict with the built-in question need, two sites a second plan, two
postings one that was known and one that is collected; the known one may be collected again. `CHECK_DEADLOCK FALSE`: a finished investigation stops.

*Exceptions that the properties name.* A first plan whose steps repeat an id loses the later step (`RepeatedId`); a
web investigation that collected nothing answers from the report it has; two answers to one question that arrive
together are not modelled, since the user interface sends one.

## 8. JobIndex

- `row` and `links` are `jobs` and `job_concept_links` (a text and a seed stand for what was matched), `installed` the
  version of the seed in the database and `expected` the one a start has read in the seed file, which may be missing;
  `proc`, `mode` and `todo` are the start of the backend, `pc`, `hand` and `found` the investigations' threads.
  `leftover`, `overtaken`, `cut` and `ends` are history.
- `ImportSeed` is one transaction; after it every stored posting is relinked, or, with the same seed or no seed file, a
  bounded batch of those that are not indexed (`SelectPending`). `LinkRead` and `LinkWrite` are the read before and the
  transaction of `link_job`; `NoteFailure` the second transaction, which may fail too. `Collect` reads a posting that
  the lookup does not know, which is a stored one when the lookup fails; `Upsert` sets a row back to pending.
  `ReadRows`, `MatchOccupations` and `MatchSkills` are the three connections of an evidence inspection. `EndProcess`
  comes at any point.

| run | instance | shows |
|---|---|---|
| `job_index` | 2 postings, 2 texts, 2 investigations, 2 seeds, 2 attempts, batch of 1, 2 process ends (symmetric) | links come from the stored text; links of an old seed need an interrupted relinking; no posting that is not indexed is forgotten; a candidate is shown with the text it was judged by |

*Bounds.* Two threads on one posting make the races, a batch of one leaves the second posting for later, two ends
interrupt a start and its repetition, and any of the two seeds, or none, may be in the file at each start.
`CHECK_DEADLOCK FALSE`: an idle backend, or one whose ends are used up.

`NothingIsForgotten` speaks of pending and failed postings alike: while the backend serves, such a posting is about to
be linked by an investigation, has used up its attempts, or was left for a later start (`leftover`: this start did not
select it, or linking it failed since) and is among those that start selects from (`Due`).

`IndexedIsCurrent` and `ShownAsJudged` except postings that were rewritten between another thread's read and its use
(`overtaken`): the code does not prevent it. `OldSeedNeedsCut` except an interrupted relinking (`cut`): the next start
finds the version it expects, and nothing relinks the rest. Both exceptions are hazards in `PROJECT.json`.

## 9. Proofs

`PromotionQueueProofs` (constants: any runs, backends, rule keys, routes, attempt limit, with and without faults).
`Holding` — a thread in the middle of a review holds a run — makes the types inductive: a review reads the rule key of
its run. Theorems: `TypeCorrect`; `ReviewsHaveReviewers` (a reviewing row is in somebody's hands while threads live);
`AcceptedWasPublished`, strengthened by `VerdictIsPublished` (a thread's verdict is "accepted" only after its save);
`SupportIsExact` (finiteness of the source sets gives the count). For one backend two more invariants are needed:
`Sole` (the only thread's run is the only reviewing row) and `Registering` (a registration in progress owns its row:
absent before the commit, recorded before it is queued). They yield `ImplementsReviewQueue` and `VerdictsAreFinal`; `update_status` names no expected
status, so finality rests on sole ownership and not on the statement.

Two more theorems hold for any number of backends. Both need `Enrolled`: until a registration is done, nobody reviews
its row. `AttemptsAreBounded` counts in `Budget`: several threads may hold one row after a start took its review back,
each with the number of tries it read when it claimed the row, and those that may still put the row back (`Spare`) are
at most as many as the reviews that were taken back, so the row's count never outruns the limit plus these.
`TurnedDownIsNoSource` follows from `Clean`: a row none of whose reviews was taken back is in at most one thread's
hand, and supports a rule only after this thread's own accepting save. Its hypothesis `DbFaults = FALSE` is one the
code needs: `save_rule` and `update_status` are two transactions, and if the second one fails the thread defers or
fails the review although the rule is saved; no restart is needed for that, so the property is false with failing
transactions.

`VisionWorkerProofs` (any cards, postings, targets and limits). A decision is checked in one step and executed in a
later one, so the inductive invariant `LedgerInv` says that what was checked still holds: `OneActive`; `CardInHand` (a
chosen card is still pending and none is active); `ToolIsAllowed` (new cards or the model's finish were chosen with no
card open); `DraftIsReviewed` and `DraftOfActive` (a draft lives only until its review, and its card is still the
active one); `OpenWhileRunning`. The steps are grouped by what they leave alone (`Watching`, `Choosing`, `Acting`), one
lemma each; the steps that move cards have a lemma of their own. Theorems: `ImplementsCardLedger`,
`CompleteRunsAreEarned`, `DoneCardsAreCaptured`.

Three more invariants go with it. `Typed` are the types, in four parts by who writes them; `Limits` says why the counters
stay within their limits: a capture follows only while blank captures are below theirs (`BlanksLeft`), a run executes
below the error limit but for the one error a repeating model adds (`ErrorsLeft`), a blank screen is captured again or
ends the run (`BlankIsDecided`). `Judged` says what the last verdict tells while the run decides: it is left pending
only on a blank screen (`PendingIsBlank`), and what is known to have had no effect is what it was about
(`EffectIsJudged`). `OpenIsJudged` says that an unjudged request is judged by the OCR before the model is asked, so that
none is open while a review is requested or in progress: a review call that raises leads back to a decision and not to a
capture. The five together (`WorkerInv`) are inductive and yield `WorkerTypeCorrect`, `DecisionsHaveRoutes`
(the `RuntimeError` of `route_after_decision` is out of reach) and `TabsAreClosedLast` (the guard reads `no_effect`,
the property is about `transition_result`).

`NoStepIsFree` proves `EveryStepSpends`. It needs `Moves`: what fixed policies may have chosen (`PolicyMoves`: a pending
card, going back when the last action was neither going back nor closing, closing after going back), and that the
verdict is about the action that waits for it (`VerdictOnRequest`); without the second, judging an action would give
back ways that were spent. One lemma per group of steps names what the step lowers (`CaptureSpends`, `OnwardSpends`,
`ChoosingSpends`, `SettlingSpends`, `PolicySpends`, ...), `SpentIsLess` turns that into the lexicographic order, and
`Countable` says that the eight are numbers. What is not proved of `Terminates` is the rest: that such a descent is
finite (an induction whose theorem takes an operator) and that fairness makes the next step happen (ENABLED).

`RouteReplayProofs` (any keys, bounds and page scopes). `Sound` types the state and says where a replay stands: a
session is on one of its steps and of a rule that is not blocked, a reflex request is the step its session awaits
(`InSession`), and exactly the steps before the current one were judged, in order (`InStep`). How a step can end a
replay is said once (`HowReplaysEnd`: a run is renewed, the replay goes on, a rule is hit, or it is over), and the three
properties of the log follow from `Sound` with `LossesAreBlocked` and `EndsArePast`. `RoutesMixOnce` needs `Unmixed`:
at most one outcome in a row is foreign, and none while a replay that began with an older route is in progress — a
replacement makes such a replay and empties the row in one step.

`ChatRunsProofs` (any number of runs, any limit, any number of nodes). `Told` says what speaking to the registry may do
to the other runs; `Life` adds to the types that an ended thread has an outcome and that a request comes before
everything else of its run. Theorems: types, `SessionsAreSerial`, `StatusIsTrue`, and `PromiseIsKept` by
`PromiseIsKnown`: a promise is an entry that says so until the run has ended. `NoLockCircle` is the safety half of
`RunsEnd` and `ShutdownEnds` and has no property of its own in the run: its `NobodyIsStuck` says that whoever cannot go
on waits for a warm-up or a lock holder that can. ENABLED is out of the prover's reach, so what can go on is written out
from the guards (`CanStep`, `CanWarm`, `CanClose`). It follows from `SessionsAreSerial`, which says who holds the
execution lock and where the holder is, and `WarmUpHolds`: the resource lock is held by a warm-up that has not ended.

`JobIndexProofs` (any postings, texts, seeds and threads). `Typed`: what a thread that works on a posting holds is one
posting and a text that exists. `CurrentInv`: a text in the hand of a thread that links or searches, and the texts that
led a search to its posting, are the row's unless the row was overtaken (`Holds`); most steps keep it because they rewrite
no text and put no thread to use (`Quiet`).`Lifecycle` relates the phase of the start to what is
still to be linked: `Phases`, `SeedInv` (an indexed posting with links of an old seed is one the relinking of all has
still to do, or `cut`), and `OwnerInv`: as soon as a start has selected its postings, one that is not indexed has a
`Cause` (selected, left over, in a thread's hand, or out of attempts). It yields `OldSeedNeedsCut` and
`NothingIsForgotten`; for the latter it also says that a pending posting has had no attempt, so that a later start may
select it.

`InvestigationProofs` (any sites, postings, ids and bounds). `Typed`; `Settled` (no question is left that was
answered); `Backed` (what each node may rely on about the report and the plan: `Early`, `Planned`, `Assessed`);
`FromWeb` (after a collection, the report holds collected postings only). `RunsAdvance` is the action property that
bounds every loop. `GivesUpAfterAll` rests on `Tried`: one result per executed step, executed ids are planned ones,
ids are repeated only within the first plan, and a run that assesses the result has no step left. Its count needs no
induction over the plan: steps with different ids make a bijection between the plan's positions and the ids, whose
cardinality the library's theorems give.

Assumptions are the named ASSUMEs of the modules: finite sets, null values that differ from real ones
(`NoSeedIsNoVersion` of `JobIndex` among them), limits that
are numbers (`LimitsAreNumbers` of `VisionWorker` also says that the three limits on errors, blank captures and repeats
are not zero: two are literals, `settings.py:263` requires the third to be at least 1), and having no action is not an
action (`NothingIsChosen`). TLC evaluates them in every run.

Only model-checked: the liveness properties `QueuedIsSettled`, `Terminates`, `RunsEnd` and `ShutdownEnds`
(`NoStepIsFree` and `NoLockCircle` prove what they rest on: a measure that falls, and no circle of waits). Liveness
under fairness and ENABLED are out of the prover's reach, as are induction over data and RECURSIVE operators; no module
here uses one. Every invariant, action property and refinement that a passing run checks is a theorem, for every value
of the constants under the assumptions above; `ImplementsReviewQueue` and `VerdictsAreFinal` for a single backend,
`TurnedDownIsNoSource` without failing transactions.

## 10. Not modelled

The components without a module, with the reason for each, are in `PROJECT.json`. The OCR child process (request ids,
reader threads with a generation, a timeout and one restart) is the one left that has behaviour of its own; the other
modules take what it reads as what the screen shows. Its client makes one call at a time (`SessionsAreSerial` in
`ChatRuns`), and the queue made anew at each start, the generation tag and the request id each keep a late answer from
the next request; what is left to check is that a failed start or request leaves no process behind
(`paddle_ocr.py:181-242`) and that a call ends though the child hangs. Text processing (concept matching, normalisation, prompts, rule
compilation), pixels and input (loading wait, hashes, physical actions), static tables, observability and the user
interface have no state that several steps share.
