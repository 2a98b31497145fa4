---------------------------- MODULE VisionWorker ----------------------------
(***************************************************************************)
(* One collection run of the vision worker: the LangGraph workflow that    *)
(* captures a browser window, judges what the last action did, chooses the *)
(* next action (fixed policy, experience rule, language model), executes   *)
(* it, and reviews postings, until the request is fulfilled.               *)
(*                                                                         *)
(*   agent/graph/workflow.py              the routes between the nodes     *)
(*   agent/graph/worker_observation.py    capture and OCR                  *)
(*   agent/graph/worker_transition.py     the verdict on the last action   *)
(*   agent/graph/worker_cycle.py, worker_selection.py                      *)
(*                                        fixed policies                   *)
(*   agent/graph/worker_reasoning.py      the model's choice and limits    *)
(*   agent/graph/worker_execution*.py, worker_action_*.py   execution      *)
(*   agent/graph/worker_review.py         review of a posting              *)
(*   agent/runtime/job_card_queue.py      the queue of job cards           *)
(*                                                                         *)
(* The environment is the browser (a page may arrive late, a URL may be    *)
(* unreadable, a screen may be blank), the model and the reviewer.  A page *)
(* is named by its URL; OCR always finds text on a screen that is not      *)
(* blank.                                                                  *)
(***************************************************************************)
EXTENDS Naturals, FiniteSets

CONSTANTS
    Cards,         \* titles of job cards on the results page
    Jobs,          \* postings, each a page of its own
    OpensTo,       \* OpensTo[c]: the posting behind card c
    Stored,        \* postings whose URL is in the database
    Matched,       \* cards whose title and company are in the database
    Home, Results, \* the site's official start page and its results page
    Nothing,       \* no page, no card, no request
    Targets,       \* requested counts; 0 asks for all visible postings
    MaxErrors,     \* consecutive errors that end the run: 3
    LowLimit,      \* vision.low_information_max_capture_cycles
    LoopLength,    \* equal results in a row that count as an error: 4
    MaxCalls,      \* bound: model calls that the cost limit pays for
    MaxReplays,    \* bound: replayed rule steps; 0 when reflex is off
    UrlMayFail     \* may reading the address bar fail?

ASSUME PostingsBehindCards == OpensTo \in [Cards -> Jobs]
ASSUME CardsAreFinite == IsFiniteSet(Cards) /\ Matched \subseteq Cards
ASSUME PagesDiffer == /\ Home # Results /\ Home \notin Jobs /\ Results \notin Jobs
                      /\ Nothing \notin Jobs \cup {Home, Results} \cup Cards
ASSUME LimitsAreNumbers ==
    /\ Targets \subseteq Nat
    /\ {MaxErrors, LowLimit, LoopLength} \subseteq Nat \ {0}
    /\ {MaxCalls, MaxReplays} \subseteq Nat
    /\ UrlMayFail \in BOOLEAN

VARIABLES
    \* browser
    screen,     \* the page in front
    arriving,   \* a page that is still loading, or Nothing
    \* observation
    obs,        \* the current capture
    prev,       \* previous_observation: url and role of the last OCR
    \* decision and transition
    pending,    \* pending_action
    request,    \* transition_request
    result,     \* transition_result
    noEffect,   \* action judged without effect on the current capture
    last,       \* last action result and how often it was repeated
    errors,     \* error_count
    calls,      \* model calls so far
    replay,     \* replay_session and reflex_trace
    \* collection
    queue,      \* status per card
    captures,   \* job_captures, by their identity
    buffer,     \* job_detail_buffer
    draft,      \* pending_job_draft
    review,     \* last_job_review
    \* lifecycle
    target,     \* target_count of the request
    reason,     \* completion_reason, "" while not finished
    pc          \* the step of the graph that runs next

browser == <<screen, arriving>>
observation == <<obs, prev>>
transition == <<request, result, noEffect>>
progress == <<last, errors, calls, replay>>
collection == <<queue, captures, buffer, draft, review>>
vars == <<browser, observation, pending, transition, progress, collection,
          target, reason, pc>>

Pages == {Home, Results} \cup Jobs
Interactions == {"interact", "scroll", "open", "go_back", "close_tab"}
Actions == Interactions \cup {"set_queue", "review", "finish"}
Sources == {"llm", "reflex", "job_card_queue", "job_results_navigation",
            "reasoning_policy", "screen_policy", "autonomous"}
Completed == {"target_reached", "visible_scope_completed"}
Reasons == Completed \cup {"", "agent_finished", "reasoning_limit", "screen_unavailable"}

\* Having no action is not an action.
ASSUME NothingIsChosen == Nothing \notin Actions

NoAction == [source |-> Nothing, action |-> Nothing, card |-> Nothing]
NoRequest == [source |-> Nothing, action |-> Nothing, url |-> Nothing, ocr |-> FALSE]
NoBuffer == [key |-> Nothing, url |-> Nothing, read |-> FALSE]
NoDraft == [key |-> Nothing, url |-> Nothing, tier |-> Nothing]

\* "same" is the reason: no change was seen on the screen.
Result(req, status, same) ==
    [action |-> req.action, source |-> req.source, status |-> status,
     same |-> same, existing |-> FALSE]

\* The start page was opened before the graph starts.
Init ==
    /\ screen = Home /\ arriving = Nothing
    /\ obs = [shown |-> Nothing, url |-> Home, stale |-> TRUE, ocr |-> FALSE,
              low |-> FALSE, lows |-> 0, role |-> ""]
    /\ prev = [url |-> Nothing, role |-> ""]
    /\ pending = NoAction
    /\ request = NoRequest
    /\ result = Result(NoRequest, "idle", FALSE)
    /\ noEffect = Nothing
    /\ last = [action |-> "open", streak |-> 1]
    /\ errors = 0 /\ calls = 0
    /\ replay = [session |-> FALSE, missed |-> FALSE, hits |-> 0]
    /\ queue = [c \in Cards |-> "absent"]
    /\ captures = {}
    /\ buffer = NoBuffer
    /\ draft = NoDraft
    /\ review = [status |-> "none", key |-> Nothing, url |-> Nothing,
                 tier |-> Nothing, same |-> FALSE]
    /\ target \in Targets
    /\ reason = ""
    /\ pc = "capture"
-----------------------------------------------------------------------------
(* The queue of job cards and the request's scope *)

With(q, statuses) == {c \in DOMAIN q : q[c] \in statuses}
Active == With(queue, {"active"})
Key == IF Active = {} THEN Nothing ELSE CHOOSE c \in Active : TRUE
Unresolved(q) == With(q, {"pending", "active"}) # {}
Resolved(q) == Cardinality(With(q, {"done", "known"}))

\* Mutant: complete as soon as enough cards are settled, open ones or not.
ScopeCompleteEarly(q) ==
    /\ \E c \in Cards : q[c] # "absent"
    /\ target = 0 \/ Resolved(q) >= target

ScopeComplete(q) ==
    /\ \E c \in Cards : q[c] # "absent"
    /\ ~Unresolved(q)
    /\ target = 0 \/ Resolved(q) >= target

Collected(q, stored) ==
    IF Cardinality(stored) > Resolved(q) THEN Cardinality(stored) ELSE Resolved(q)

QueueFinished(q, stored) ==
    \/ target > 0 /\ Collected(q, stored) >= target
    \/ ScopeComplete(q)

Completion == IF target = 0 THEN "visible_scope_completed" ELSE "target_reached"
FinishIf(done) == reason' = IF done THEN Completion ELSE reason

SettleActive(q, status) == [c \in Cards |-> IF q[c] = "active" THEN status ELSE q[c]]

(* What the current observation says about the page *)

RoleOf(url) == IF url \in Jobs THEN "job_detail" ELSE IF url = Results THEN "search" ELSE "home"
IsDetail(o) == o.url \in Jobs \/ o.role = "job_detail" \/ o.shown \in Jobs

\* No posting can be reviewed, or not again, without new evidence.
ReviewMode ==
    IF ~buffer.read THEN "empty"
    ELSE IF /\ review.status = "needs_more" /\ review.same
            /\ review.url = obs.url /\ review.key = Key
         THEN IF review.tier = "lightweight" THEN "primary" ELSE "unchanged"
         ELSE "lightweight"
CanReview == ReviewMode \in {"lightweight", "primary"}
-----------------------------------------------------------------------------
(* Observation: capture, then the verdict that needs no OCR *)

Fronts == {screen} \cup ({arriving} \ {Nothing})

\* The page may arrive before the capture, between the capture and the reading
\* of the address bar, or after both.  A stale URL survives a failed reading.
Capture ==
    /\ pc = "capture"
    /\ \E shown, front \in Fronts, low, read \in BOOLEAN :
           LET wanted == obs.stale \/ request # NoRequest
               url == IF read THEN front ELSE obs.url
               kept == IF obs.ocr THEN [url |-> obs.url, role |-> obs.role] ELSE prev
           IN  /\ shown # screen => front = shown
               /\ read => wanted
               /\ wanted /\ ~UrlMayFail => read
               /\ screen' = front
               /\ arriving' = IF front = screen THEN arriving ELSE Nothing
               /\ prev' = kept
               /\ obs' = [shown |-> shown, url |-> url, stale |-> wanted /\ ~read,
                          ocr |-> FALSE, low |-> low,
                          lows |-> IF low THEN obs.lows + 1 ELSE 0,
                          role |-> IF request.action = "scroll" /\ url = kept.url
                                   THEN kept.role ELSE ""]
    /\ noEffect' = Nothing
    /\ replay' = [replay EXCEPT !.missed = FALSE]
    /\ pc' = "inspect"
    /\ UNCHANGED <<pending, request, result, last, errors, calls, collection, target, reason>>

\* A draft's fingerprint covers the text read and the last verdict.
MaySurvive(same) == same \in {FALSE, review.same}

\* The rest of a verdict: its record, and the running replay of a rule.
Judge(status, same) ==
    /\ request' = NoRequest
    /\ result' = Result(request, status, same)
    /\ noEffect' = IF same THEN request.action ELSE Nothing
    /\ \E goesOn \in BOOLEAN :
           /\ goesOn => replay.session
           /\ request.source # "reflex" => goesOn = replay.session
           /\ request.source = "reflex" /\ status # "ready" => ~goesOn
           /\ replay' = [replay EXCEPT !.session = goesOn]

\* Mutant: a verdict is awaited even when no action asked for one.
InspectNothingPending ==
    /\ pc = "inspect"
    /\ obs.low \/ request = NoRequest
    /\ result' = Result(request, "pending", FALSE)
    /\ pc' = "decide"
    /\ UNCHANGED <<browser, observation, pending, request, noEffect, progress,
                   collection, target, reason>>

InspectNothing ==
    /\ pc = "inspect"
    /\ obs.low \/ request = NoRequest
    /\ result' = Result(request, IF request = NoRequest THEN "idle" ELSE "pending", FALSE)
    /\ pc' = "decide"
    /\ UNCHANGED <<browser, observation, pending, request, noEffect, progress,
                   collection, target, reason>>

\* The pixels may differ on the same page; typing asks for OCR even if they do
\* not, and so does a rule whose expected screen is recognised.
InspectChange ==
    /\ pc = "inspect"
    /\ ~obs.low /\ request # NoRequest
    /\ \E same \in BOOLEAN :
           /\ same => request.action = "interact"
           /\ result' = Result(request, "needs_ocr", same)
    /\ pc' = "decide"
    /\ UNCHANGED <<browser, observation, pending, request, noEffect, progress,
                   collection, target, reason>>

\* The OCR of the screen before the action is used again.
ReuseOcr ==
    /\ obs' = [obs EXCEPT !.ocr = TRUE, !.role = prev.role]
    /\ prev' = [prev EXCEPT !.url = obs.url]

\* No change is seen on the same page, on one that differs too little, and when
\* an image is missing.
InspectNoChange ==
    /\ pc = "inspect"
    /\ ~obs.low /\ request # NoRequest
    /\ Judge("unknown", TRUE)
    /\ IF request.ocr THEN ReuseOcr ELSE UNCHANGED observation
    /\ \E same \in BOOLEAN : MaySurvive(same) /\ review' = [review EXCEPT !.same = same]
    /\ pc' = "decide"
    /\ UNCHANGED <<browser, pending, last, errors, calls, queue, captures, buffer,
                   draft, target, reason>>
-----------------------------------------------------------------------------
(* Decision: fixed policies first *)

\* A posting that needs more goes straight back to the model.
FollowUp ==
    /\ pc = "decide"
    /\ review.status = "needs_more" /\ last.action = "review"
    /\ pc' = "reason"
    /\ UNCHANGED <<browser, observation, pending, transition, progress, collection,
                   target, reason>>

\* Selection runs before OCR and again after it.
Selecting ==
    \/ pc = "decide" /\ ~(review.status = "needs_more" /\ last.action = "review")
    \/ pc = "reselect"
Onward == IF pc = "decide" THEN "prepare" ELSE "choose"

Choose(source, action, card) ==
    /\ pending' = [source |-> source, action |-> action, card |-> card]
    /\ pc' = "execute"

SelectStop ==
    /\ Selecting
    /\ obs.low /\ obs.lows >= LowLimit
    /\ Choose("screen_policy", "finish", Nothing)
    /\ UNCHANGED <<browser, observation, transition, progress, collection, target, reason>>

\* Mutant: one blank capture too many.
SelectWaitLonger ==
    /\ Selecting
    /\ obs.low /\ obs.lows <= LowLimit
    /\ pc' = "capture"
    /\ UNCHANGED <<browser, observation, pending, transition, progress, collection,
                   target, reason>>

SelectWait ==
    /\ Selecting
    /\ obs.low /\ obs.lows < LowLimit
    /\ pc' = "capture"
    /\ UNCHANGED <<browser, observation, pending, transition, progress, collection,
                   target, reason>>

Known == (\E job \in captures : job.url = obs.url) \/ obs.url \in Stored
IsDuplicate == Active # {} /\ obs.url \in Jobs /\ Known

\* The card of a posting stored in the database counts, that of a posting
\* collected in this run does not.  The detail buffer is kept.
SelectDuplicate ==
    /\ Selecting
    /\ ~obs.low /\ ~replay.session
    /\ IsDuplicate
    /\ queue' = SettleActive(queue, IF \E job \in captures : job.url = obs.url
                                    THEN "skipped" ELSE "known")
    /\ request' = NoRequest
    /\ result' = [result EXCEPT !.status = "ready", !.same = FALSE, !.existing = TRUE]
    /\ FinishIf(ScopeComplete(queue'))
    /\ pc' = IF reason' # "" THEN "end" ELSE Onward
    /\ UNCHANGED <<browser, observation, pending, noEffect, progress, captures, buffer,
                   draft, review, target>>

Navigating == result.source = "job_results_navigation"

NeedsResults ==
    /\ \/ \E job \in captures : job.url = obs.url
       \/ result.existing
       \/ review.status \in {"source_incomplete", "invalid_target"} /\ review.url = obs.url
       \/ Navigating
    /\ Active = {}
    /\ \/ With(queue, {"pending"}) # {}
       \/ target > 0 /\ Collected(queue, captures) < target
    /\ obs.role = "job_detail" \/ obs.url \in Jobs

FailedBack == result.action = "go_back" /\ result.status = "unknown" /\ result.same
\* Mutant: going back is tried again however the last attempt ended.
NavigationStepAgain == IF FailedBack THEN "close_tab" ELSE "go_back"

NavigationStep ==
    IF FailedBack THEN "close_tab"
    ELSE IF result.action \in {"go_back", "close_tab"} THEN Nothing ELSE "go_back"

IsNavigation == NeedsResults /\ NavigationStep # Nothing

SelectNavigation ==
    /\ Selecting
    /\ ~obs.low /\ ~replay.session
    /\ ~IsDuplicate
    /\ IsNavigation
    /\ Choose("job_results_navigation", NavigationStep, Nothing)
    /\ UNCHANGED <<browser, observation, transition, progress, collection, target, reason>>

\* Mutant: the next card is taken although one is open.
CanSelectAnyCard == obs.ocr /\ obs.role = "search" /\ obs.url \notin Jobs

CanSelectCard ==
    /\ obs.ocr /\ obs.role = "search" /\ obs.url \notin Jobs
    /\ Active = {}

\* The first pending card; which one that is depends on the order on the page.
\* Its marker may be missing or ambiguous in the current OCR.
SelectCard(c) ==
    /\ Selecting
    /\ ~obs.low /\ ~replay.session
    /\ ~IsDuplicate /\ ~IsNavigation
    /\ CanSelectCard
    /\ queue[c] = "pending"
    /\ Choose("job_card_queue", "interact", c)
    /\ UNCHANGED <<browser, observation, transition, progress, collection, target, reason>>

\* A decision that waits for a verdict although the screen can be read has no
\* route: route_after_decision raises.
SelectNothing ==
    /\ Selecting
    /\ ~obs.low
    /\ \/ replay.session
       \/ ~IsDuplicate /\ ~IsNavigation
    /\ pc' = IF result.status = "pending" THEN "raised" ELSE Onward
    /\ UNCHANGED <<browser, observation, pending, transition, progress, collection,
                   target, reason>>
-----------------------------------------------------------------------------
(* Decision: an experience rule, OCR *)

\* Before OCR a rule is tried unless a verdict is open; after it, unless cards
\* are open or the last action had no clear effect.
MayReplay ==
    /\ MaxReplays > 0 /\ ~replay.missed
    /\ \/ pc = "prepare" /\ ~obs.ocr /\ result.status \notin {"needs_ocr", "unknown"}
       \/ pc = "choose" /\ ~Unresolved(queue) /\ result.status # "unknown"

ReplayStep ==
    /\ MayReplay
    /\ replay.hits < MaxReplays
    /\ replay' = [replay EXCEPT !.session = TRUE, !.hits = @ + 1]
    /\ Choose("reflex", "interact", Nothing)
    /\ UNCHANGED <<browser, observation, transition, last, errors, calls, collection,
                   target, reason>>

SkipReplay ==
    /\ pc \in {"prepare", "choose"}
    /\ replay' = IF MayReplay THEN [replay EXCEPT !.session = FALSE, !.missed = TRUE]
                              ELSE replay
    /\ pc' = IF pc = "choose" THEN "reason" ELSE IF obs.ocr THEN "choose" ELSE "ocr"
    /\ UNCHANGED <<browser, observation, pending, transition, last, errors, calls,
                   collection, target, reason>>

\* The buffer belongs to a card if both know one, otherwise to a URL.
SameDetail(b, url) ==
    IF b.key # Nothing /\ Key # Nothing THEN b.key = Key ELSE b.url = url

\* The text of a posting's page is added to its buffer or begins a new one.
Accumulate(b, o) ==
    LET kept == IF SameDetail(b, o.url) THEN b.key ELSE Nothing
    IN  IF IsDetail(o)
        THEN [key |-> IF Key # Nothing THEN Key ELSE kept, url |-> o.url, read |-> TRUE]
        ELSE b

Ocr ==
    /\ pc = "ocr"
    /\ LET seen == [obs EXCEPT !.ocr = TRUE, !.role = RoleOf(obs.url)]
       IN  obs' = seen /\ buffer' = Accumulate(buffer, seen)
    /\ \E same \in BOOLEAN : MaySurvive(same) /\ review' = [review EXCEPT !.same = same]
    /\ pc' = IF request # NoRequest /\ result.status = "needs_ocr"
             THEN "complete" ELSE "reselect"
    /\ UNCHANGED <<browser, prev, pending, transition, progress, queue, captures, draft,
                   target, reason>>

\* The verdict that needs OCR.  Typed text may be found on the screen.
Complete ==
    /\ pc = "complete"
    /\ \E status \in {"ready", "unknown"}, same \in BOOLEAN :
           LET changed == ~result.same \/ request.url # obs.url
               missedDetail == request.source = "job_card_queue" /\ ~IsDetail(obs)
           IN  /\ same = (request.source # "reflex" /\ ~missedDetail /\ status = "unknown")
               /\ request.source # "reflex" /\ missedDetail => status = "unknown"
               /\ request.source # "reflex" /\ ~missedDetail /\ changed => status = "ready"
               /\ Judge(status, same)
    /\ pc' = "reselect"
    /\ UNCHANGED <<browser, observation, pending, last, errors, calls, collection,
                   target, reason>>
-----------------------------------------------------------------------------
(* Decision: the model *)

\* Cards and postings constrain the tools; a count that is still open does not.
Tools ==
    Interactions
    \cup (IF obs.ocr /\ ~Unresolved(queue) THEN {"set_queue"} ELSE {})
    \cup (IF CanReview THEN {"review"} ELSE IF Unresolved(queue) THEN {} ELSE {"finish"})

\* Four equal results in a row count as an error.
Looping == last.streak >= LoopLength

Reason ==
    /\ pc = "reason"
    /\ calls < MaxCalls
    /\ calls' = calls + 1
    /\ errors' = IF Looping THEN errors + 1 ELSE errors
    /\ replay' = [replay EXCEPT !.missed = FALSE]
    /\ \E tool \in Tools : Choose("llm", tool, Nothing)
    /\ UNCHANGED <<browser, observation, transition, last, collection, target, reason>>

\* The stage's call limit, the run's cost limit, or a model that fails twice.
ReasonStop ==
    /\ pc = "reason"
    /\ replay' = [replay EXCEPT !.missed = FALSE]
    /\ Choose("reasoning_policy", "finish", Nothing)
    /\ UNCHANGED <<browser, observation, transition, last, errors, calls, collection,
                   target, reason>>
-----------------------------------------------------------------------------
(* Execution of the pending action *)

Record(action) ==
    \E equal \in BOOLEAN :
        /\ equal => action = last.action
        /\ last' = [action |-> action,
                    streak |-> IF ~equal THEN 1
                               ELSE IF last.streak < LoopLength THEN last.streak + 1
                               ELSE last.streak]

\* finish_state, then route_after_execution.
Route ==
    /\ pending' = NoAction
    /\ result' = IF request' = NoRequest THEN result ELSE Result(request', "waiting", FALSE)
    /\ pc' = IF reason' # "" \/ errors' >= MaxErrors THEN "end"
             ELSE IF draft' # NoDraft THEN "review"
             ELSE IF request' # NoRequest THEN "capture"
             ELSE "decide"

Executing(actions) ==
    /\ pc = "execute"
    /\ pending.action \in actions
    /\ Record(pending.action)

\* Where a successful action can lead from page p.
Leads(p) ==
    CASE pending.card # Nothing -> {p, OpensTo[pending.card]}
      [] pending.action = "interact" -> Pages
      [] pending.action = "scroll" -> {p}
      [] pending.action = "open" -> {Home, Results}
      [] pending.action = "go_back" -> {p, Results}
      [] pending.action = "close_tab" -> IF p = Results THEN {Home} ELSE {Results}

Land(now, to) ==
    \/ screen' = to /\ arriving' = Nothing
    \/ screen' = now /\ arriving' = to /\ to # now

RequestFor(url) ==
    [source |-> IF pending.source = "llm" THEN "autonomous" ELSE pending.source,
     action |-> pending.action, url |-> url, ocr |-> obs.ocr]

\* Mutant: only a repeated action without effect is blocked.
BlockedIfRepeated ==
    pending.action \in {"go_back", "close_tab"} /\ noEffect = pending.action

Blocked ==
    \/ pending.action \in {"go_back", "close_tab"} /\ noEffect = pending.action
    \/ pending.action = "close_tab" /\ noEffect # "go_back"

\* Reading the address bar is needed again after everything but a scroll.
UrlStale == obs.stale \/ pending.action # "scroll"

ExecuteScreenAction ==
    /\ Executing(Interactions)
    /\ ~Blocked
    /\ \E now \in Fronts : \E to \in Leads(now) :
           LET url == IF pending.action = "open" THEN to ELSE obs.url
           IN  /\ Land(now, to)
               /\ obs' = [obs EXCEPT !.url = url, !.stale = UrlStale]
               /\ request' = RequestFor(url)
    /\ errors' = 0
    /\ queue' = [c \in Cards |-> IF c = pending.card /\ queue[c] = "pending"
                                 THEN "active" ELSE queue[c]]
    /\ UNCHANGED <<prev, noEffect, calls, replay, captures, buffer, draft, review,
                   target, reason>>
    /\ Route

\* Mutant: an action that was blocked or failed is no error.
FailScreenActionUncounted ==
    /\ Executing(Interactions)
    /\ errors' = errors
    /\ request' \in {request, IF pending.source = "reflex" THEN RequestFor(obs.url)
                                                           ELSE request}
    /\ UNCHANGED <<browser, observation, noEffect, calls, replay, collection, target, reason>>
    /\ Route

\* Blocked by a guard or refused by the permission contract, or failed on the
\* screen.  A failed rule step is judged like an executed one.
FailScreenAction ==
    /\ Executing(Interactions)
    /\ errors' = errors + 1
    /\ request' \in {request, IF pending.source = "reflex" THEN RequestFor(obs.url)
                                                           ELSE request}
    /\ UNCHANGED <<browser, observation, noEffect, calls, replay, collection, target, reason>>
    /\ Route

\* Text was typed and the submission that follows it failed.
HalfExecute ==
    /\ Executing({"interact"})
    /\ pending.source \in {"llm", "reflex"}
    /\ \E now \in Fronts : \E to \in Leads(now) : Land(now, to)
    /\ obs' = [obs EXCEPT !.stale = TRUE]
    /\ request' = RequestFor(obs.url)
    /\ errors' = 1
    /\ UNCHANGED <<prev, noEffect, calls, replay, collection, target, reason>>
    /\ Route

\* The search that was already submitted is not typed again.
SkipSubmittedSearch ==
    /\ Executing({"interact"})
    /\ pending.source = "llm" /\ obs.role = "search"
    /\ UNCHANGED <<browser, observation, request, noEffect, errors, calls, replay,
                   collection, target, reason>>
    /\ Route

\* The model's cards enter the queue, those of stored postings as resolved.
SetQueue ==
    /\ Executing({"set_queue"})
    /\ \E new \in SUBSET (IF obs.shown = Results THEN With(queue, {"absent"}) ELSE {}) :
           queue' = [c \in Cards |-> IF c \notin new THEN queue[c]
                                     ELSE IF c \in Matched THEN "known" ELSE "pending"]
    /\ FinishIf(ScopeComplete(queue'))
    /\ UNCHANGED <<browser, observation, request, noEffect, errors, calls, replay,
                   captures, buffer, draft, review, target>>
    /\ Route

RequestReview ==
    /\ Executing({"review"})
    /\ CanReview
    /\ draft' = [key |-> Key, url |-> obs.url, tier |-> ReviewMode]
    /\ UNCHANGED <<browser, observation, request, noEffect, errors, calls, replay, queue,
                   captures, buffer, review, target, reason>>
    /\ Route

\* A call on the state raises, or reports an error: nothing of it is kept.
FailStateAction ==
    /\ Executing({"set_queue", "review"})
    /\ errors' = errors + 1
    /\ UNCHANGED <<browser, observation, request, noEffect, calls, replay, collection,
                   target, reason>>
    /\ Route

FinishTask ==
    /\ Executing({"finish"})
    /\ reason' = CASE pending.source = "reasoning_policy" -> "reasoning_limit"
                   [] pending.source = "screen_policy" -> "screen_unavailable"
                   [] OTHER -> "agent_finished"
    /\ errors' = 0
    /\ UNCHANGED <<browser, observation, request, noEffect, calls, replay, collection, target>>
    /\ Route
-----------------------------------------------------------------------------
(* Review of the posting in the draft *)

Reviewed(status) ==
    /\ pc = "review"
    /\ review' = [status |-> status, key |-> draft.key, url |-> draft.url,
                  tier |-> draft.tier, same |-> status = "needs_more"]
    /\ draft' = NoDraft
    /\ pc' = IF reason' # "" THEN "end" ELSE "decide"
    /\ UNCHANGED <<browser, observation, pending, transition, progress, target>>

CompleteReview ==
    /\ captures' = captures \cup {[url |-> draft.url, key |-> draft.key]}
    /\ queue' = SettleActive(queue, "done")
    /\ buffer' = NoBuffer
    /\ FinishIf(QueueFinished(queue', captures'))
    /\ Reviewed("complete")

ContinueReview ==
    /\ UNCHANGED <<captures, queue, buffer, reason>>
    /\ Reviewed("needs_more")

\* Mutant: a rejected posting settles its card as collected.
RejectReviewDone ==
    /\ UNCHANGED captures
    /\ queue' = SettleActive(queue, "done")
    /\ buffer' = NoBuffer
    /\ FinishIf(QueueFinished(queue', captures))
    /\ \E status \in {"source_incomplete", "invalid_target"} : Reviewed(status)

RejectReview ==
    /\ UNCHANGED captures
    /\ queue' = SettleActive(queue, "rejected")
    /\ buffer' = NoBuffer
    /\ FinishIf(QueueFinished(queue', captures))
    /\ \E status \in {"source_incomplete", "invalid_target"} : Reviewed(status)
-----------------------------------------------------------------------------
Observe == Capture \/ InspectNothing \/ InspectChange \/ InspectNoChange
Select ==
    \/ FollowUp \/ SelectStop \/ SelectWait \/ SelectDuplicate \/ SelectNavigation
    \/ \E c \in Cards : SelectCard(c)
    \/ SelectNothing
Decide == Select \/ ReplayStep \/ SkipReplay \/ Ocr \/ Complete \/ Reason \/ ReasonStop
Execute ==
    \/ ExecuteScreenAction \/ FailScreenAction \/ HalfExecute \/ SkipSubmittedSearch
    \/ SetQueue \/ RequestReview \/ FailStateAction \/ FinishTask
Review == CompleteReview \/ ContinueReview \/ RejectReview

Ended == pc = "end" /\ UNCHANGED vars

Next == Observe \/ Decide \/ Execute \/ Review \/ Ended

Spec == Init /\ [][Next]_vars

\* The graph runs in one thread and takes its next step as long as there is one.
FairSpec == Spec /\ WF_vars(Next)
-----------------------------------------------------------------------------
Statuses == {"absent", "pending", "active", "done", "known", "skipped", "rejected"}
Roles == {"", "home", "search", "job_detail"}

\* Every variable has the type the code gives it, and the counters that limit a
\* run stay within their limits: blank captures, repeats, errors.
TypeOK ==
    /\ screen \in Pages /\ arriving \in Pages \cup {Nothing}
    /\ obs \in [shown : Pages \cup {Nothing}, url : Pages, stale : BOOLEAN, ocr : BOOLEAN,
                low : BOOLEAN, lows : 0 .. LowLimit, role : Roles]
    /\ prev \in [url : Pages \cup {Nothing}, role : Roles]
    /\ pending \in [source : Sources \cup {Nothing}, action : Actions \cup {Nothing},
                    card : Cards \cup {Nothing}]
    /\ request \in [source : Sources \cup {Nothing}, action : Interactions \cup {Nothing},
                    url : Pages \cup {Nothing}, ocr : BOOLEAN]
    /\ result \in [source : Sources \cup {Nothing}, action : Interactions \cup {Nothing},
                   status : {"idle", "pending", "waiting", "needs_ocr", "unknown", "ready"},
                   same : BOOLEAN, existing : BOOLEAN]
    /\ noEffect \in Interactions \cup {Nothing}
    /\ last \in [action : Actions, streak : 1 .. LoopLength]
    /\ errors \in 0 .. MaxErrors + 1 /\ calls \in 0 .. MaxCalls
    /\ replay \in [session : BOOLEAN, missed : BOOLEAN, hits : 0 .. MaxReplays]
    /\ queue \in [Cards -> Statuses]
    /\ captures \subseteq [url : Pages, key : Cards \cup {Nothing}]
    /\ buffer \in [key : Cards \cup {Nothing}, url : Pages \cup {Nothing}, read : BOOLEAN]
    /\ draft \in [key : Cards \cup {Nothing}, url : Pages \cup {Nothing},
                  tier : {"lightweight", "primary", Nothing}]
    /\ review \in [status : {"none", "complete", "needs_more", "source_incomplete",
                             "invalid_target"},
                   key : Cards \cup {Nothing}, url : Pages \cup {Nothing},
                   tier : {"lightweight", "primary", Nothing}, same : BOOLEAN]
    /\ target \in Targets /\ reason \in Reasons

\* No decision is left without an action, a reason to capture again or an end:
\* the RuntimeError at the end of route_after_decision is out of reach.
NeverStranded == pc # "raised"

\* A run that calls itself complete has fulfilled the request: with a count,
\* that many postings were collected or recognised; without, every card that
\* was queued is settled.
CompletionIsEarned ==
    /\ reason = "target_reached" => Collected(queue, captures) >= target
    /\ reason = "visible_scope_completed" =>
           ~Unresolved(queue) /\ \E c \in Cards : queue[c] # "absent"

\* A card is settled as collected only by a posting whose review was asked for
\* while that card was the active one: another card's review, a leftover draft
\* or a skipped duplicate never settles it as collected.
DoneIsCaptured == \A c \in Cards : queue[c] = "done" => \E job \in captures : job.key = c

\* The queue of cards implements the ledger a collection run promises: cards
\* enter it only when none is open, one is worked on at a time, each is settled
\* once, and the model cannot finish while one is open.
Stage == [c \in Cards |-> CASE queue[c] = "absent" -> "absent"
                             [] queue[c] = "pending" -> "waiting"
                             [] queue[c] = "active" -> "taken"
                             [] OTHER -> "settled"]
Closing == CASE reason = "" -> "open"
             [] reason \in Completed -> "completed"
             [] reason = "agent_finished" -> "finished"
             [] OTHER -> "stopped"
Ledger == INSTANCE CardLedger WITH card <- Stage, closed <- Closing
IsCardLedger == Ledger!Spec

\* A tab is closed only when the last judged action was going back and it had
\* changed nothing (or the judged page turned out to be a known posting).
ClosesTab == pc = "execute" /\ pending.action = "close_tab" /\ request' # request
CloseOnlyAfterFailedBack ==
    [][ClosesTab => result.action = "go_back" /\ (result.same \/ result.existing)]_vars

\* A call on the state counts as an error, or it succeeds and the error count
\* starts again: the reset in execute and the boundary test (assert
\* error_count == 0 after a success) say so for all tools.
ErrorsReset ==
    [][pc = "execute" /\ pending.action \in {"set_queue", "review"} /\ pc' # pc
           => errors' \in {0, errors + 1}]_vars

\* The worker state contract: an executed action makes a transition request and
\* the next capture judges it; a request is never replaced by another one.
TransitionIsJudged ==
    [][request # NoRequest /\ request' # request => request' = NoRequest]_vars

\* upsert_job_capture: completing the same posting again replaces its capture,
\* so no posting is counted twice.
CompletedDetailIsReplaced ==
    \A job, other \in captures : job.url = other.url => job = other

\* What a run has left, the scarcest first: its end, model calls with what they
\* set off, rule steps, cards to open and settle, ways back to the results,
\* failures, blank captures, and nodes of the graph.
Rest(limit, count) == limit - count
EndLeft == IF pc = "end" THEN 0 ELSE 1
CallsLeft == 3 * Rest(MaxCalls, calls) + (IF pc = "execute" /\ pending.source = "llm" THEN 2
                                          ELSE IF pc = "review" THEN 1 ELSE 0)
RulesLeft == 2 * Rest(MaxReplays, replay.hits)
             + (IF pc = "execute" /\ pending.source = "reflex" THEN 1 ELSE 0)
CardsLeft == 2 * Cardinality(With(queue, {"pending"})) + Cardinality(Active)
WaysLeft == CASE result.action = "close_tab" -> 0
              [] result.action = "go_back" -> 1
              [] OTHER -> 2
FailuresLeft == Rest(MaxErrors + 1, errors)
CapturesLeft == IF pc = "capture" THEN 2 * Rest(LowLimit, obs.lows) + 1
                ELSE IF obs.low THEN 2 * Rest(LowLimit, obs.lows) + 2 ELSE 0
NodesLeft == [capture |-> 10, inspect |-> 9, decide |-> 8, prepare |-> 7, ocr |-> 6,
              complete |-> 5, reselect |-> 4, choose |-> 3, reason |-> 2, execute |-> 1,
              review |-> 0, end |-> 0]

Left == <<EndLeft, CallsLeft, RulesLeft, CardsLeft, WaysLeft, FailuresLeft, CapturesLeft,
          NodesLeft[pc]>>

\* Lexicographic order.
Less(new, old) == \E i \in DOMAIN old :
    new[i] < old[i] /\ \A j \in 1 .. i - 1 : new[j] = old[j]

\* No step is free: whatever page appears, whatever the model answers and however
\* often an action fails, fixed policies and rules never lead a run round in a
\* circle that spends nothing of what it has left.
EveryStepSpends == [][pc # "end" => Less(Left', Left)]_vars

\* Every run ends: captures, fixed policies, rules, failing actions and reviews
\* never go round in circles without spending a model call.
Terminates == <>(pc = "end")
=============================================================================
