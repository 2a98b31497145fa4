---------------------------- MODULE RouteReplay ----------------------------
(***************************************************************************)
(* The replay of experience rules: a worker that finds a stored route for  *)
(* its site and task replays it step by step, judges each step by the next *)
(* screen, and writes the outcome back to the row of the rule, while the   *)
(* promotion thread may replace that row.                                  *)
(*                                                                         *)
(*   agent/recipe/replay.py             which rule applies                 *)
(*   agent/recipe/replay_runtime.py     hit, miss, verdict, outcome        *)
(*   agent/recipe/store.py              the rows and their counters        *)
(*   agent/graph/worker_transition.py   when a step is judged              *)
(*                                                                         *)
(* VisionWorker.tla has the replay as one flag and says when it is tried;  *)
(* here the rest of the worker is what happens in between.  What the       *)
(* screen shows, and so whether a step fits it, is arbitrary.  Vision runs *)
(* are serial (ChatRuns.tla), so one worker replays at a time.             *)
(***************************************************************************)
EXTENDS Naturals, Sequences, FiniteSets

CONSTANTS
    Keys,       \* rule keys of one site
    Scopes,     \* pages, up to the state of their controls
    MaxSteps,   \* bound: steps of a route
    MaxRoutes,  \* bound: routes that are saved
    MaxReplays, \* bound: replays that begin
    Nothing     \* no key

ASSUME BoundsAreNumbers == {MaxSteps, MaxRoutes, MaxReplays} \subseteq Nat
ASSUME NothingIsNoKey == Nothing \notin Keys

VARIABLES
    rules,      \* store: per key its route, its steps and the outcomes counted
    routes,     \* routes saved so far
    pc,         \* what the worker does next
    page,       \* scope of the current page
    session,    \* replay_session
    blocked,    \* reflex_blocked_recipe_keys
    used,       \* fixed controls pressed by a rule, per page scope
    missed,     \* no rule applied to the current observation
    doubt,      \* the last action had no clear effect
    request,    \* pending_action, then transition_request
    replay,     \* history: replays begun so far
    path,       \* history: steps of the current replay that were judged
    log         \* history: how the replays of this run ended

store == <<rules, routes>>
worker == <<pc, page, session, blocked, used, missed, doubt, request>>
history == <<replay, path, log>>
vars == <<store, worker, history>>

NoRule == [route |-> 0, steps |-> 0, credits |-> <<>>]
NoSession == [key |-> Nothing, current |-> 0, awaits |-> FALSE, count |-> 0]
NoRequest == [source |-> "none", key |-> Nothing, route |-> 0, failed |-> FALSE]
Other == [NoRequest EXCEPT !.source = "other"]

Fresh ==
    /\ session' = NoSession /\ blocked' = {} /\ used' = {}
    /\ missed' = FALSE /\ doubt' = FALSE /\ request' = NoRequest
    /\ path' = <<>> /\ log' = <<>>

Init ==
    /\ rules = [k \in Keys |-> NoRule] /\ routes = 0
    /\ pc = "idle" /\ page \in Scopes
    /\ session = NoSession /\ blocked = {} /\ used = {}
    /\ missed = FALSE /\ doubt = FALSE /\ request = NoRequest
    /\ replay = 0 /\ path = <<>> /\ log = <<>>
-----------------------------------------------------------------------------
(* The store *)

\* Mutant: a new route keeps what was counted for the old one.
SaveRuleCounted(k) ==
    /\ routes < MaxRoutes
    /\ routes' = routes + 1
    /\ \E steps \in 1..MaxSteps :
           rules' = [rules EXCEPT ![k].route = routes', ![k].steps = steps]
    /\ UNCHANGED <<worker, history>>

\* save_rule with a route that differs from the stored one: counters are reset.
\* The same route again changes support only (PromotionQueue.tla).
SaveRule(k) ==
    /\ routes < MaxRoutes
    /\ routes' = routes + 1
    /\ \E steps \in 1..MaxSteps :
           rules' = [rules EXCEPT ![k] = [route |-> routes', steps |-> steps,
                                          credits |-> <<>>]]
    /\ UNCHANGED <<worker, history>>

ClearRules ==
    /\ rules' = [k \in Keys |-> NoRule]
    /\ UNCHANGED <<routes, worker, history>>
-----------------------------------------------------------------------------
(* A run *)

Begin ==
    /\ pc = "idle"
    /\ pc' = "decide" /\ page' \in Scopes
    /\ Fresh
    /\ UNCHANGED <<store, replay>>

End ==
    /\ pc # "idle"
    /\ pc' = "idle"
    /\ Fresh
    /\ UNCHANGED <<store, page, replay>>
-----------------------------------------------------------------------------
(* Which rule applies *)

\* Mutant: the rules of the site, whichever is being replayed.
CandidatesOfSite == {k \in Keys : rules[k] # NoRule}

\* load_reflex_replay_context reads the store at every attempt.
Candidates == {k \in Keys : rules[k] # NoRule /\ session.key \in {k, Nothing}}

Index(k) == IF session.key = k THEN session.current ELSE 0

\* used_idempotent_recipe_keys_on_url: the fixed controls of this page.  (A run
\* knows an URL from its start on and keeps it when the address bar cannot be
\* read, so that every recorded action has the page it was taken on.)
UsedHere == {k \in Keys : <<k, page>> \in used}

\* A blocked rule, a fixed control used on this page (at the first step only)
\* and a step that a shorter route no longer has are passed over.
Eligible ==
    {k \in Candidates : /\ k \notin blocked
                        /\ session = NoSession => k \notin UsedHere
                        /\ Index(k) < rules[k].steps}

\* Once per observation, and not while the last action is in doubt.
MayTry == pc = "decide" /\ ~missed /\ ~doubt

SessionOf(k) ==
    [key |-> k, current |-> Index(k), awaits |-> TRUE, count |-> rules[k].steps]

RequestOf(k) ==
    [source |-> "reflex", key |-> k, route |-> rules[k].route, failed |-> FALSE]

\* The first eligible rule whose step fits: its target is on the screen and the
\* request names the inputs it needs.  Which ones fit is arbitrary, so the order
\* by outcomes is left out.
Hit(k) ==
    /\ MayTry /\ k \in Eligible
    /\ session' = SessionOf(k) /\ request' = RequestOf(k)
    /\ IF session = NoSession
       THEN replay < MaxReplays /\ replay' = replay + 1 /\ path' = <<>>
       ELSE UNCHANGED <<replay, path>>
    /\ pc' = "act"
    /\ UNCHANGED <<store, page, blocked, used, missed, doubt, log>>

Ends(how) == log' = Append(log, [replay |-> replay, key |-> session.key, end |-> how])

\* No rule, or none fits: a replay in progress is given up and its rule blocked.
Miss ==
    /\ MayTry
    /\ missed' = TRUE
    /\ session' = NoSession
    /\ IF session = NoSession THEN UNCHANGED <<blocked, log>>
       ELSE blocked' = blocked \cup {session.key} /\ Ends("missed")
    /\ UNCHANGED <<store, pc, page, used, doubt, request, replay, path>>
-----------------------------------------------------------------------------
(* What else the worker does *)

\* A policy or the model chooses an action, with a replay in progress or not.
ChooseOther ==
    /\ pc = "decide"
    /\ request' = Other /\ missed' = FALSE
    /\ pc' = "act"
    /\ UNCHANGED <<store, page, session, blocked, used, doubt, history>>

\* A capture that no action asked for.
Look ==
    /\ pc = "decide"
    /\ missed' = FALSE /\ doubt' = FALSE
    /\ UNCHANGED <<store, pc, page, session, blocked, used, request, history>>

\* Refused by a guard, failed before the screen was touched, or no action on
\* the screen: nothing is to be judged, and a replay waits as it is.
NothingToJudge ==
    /\ pc = "act"
    /\ request' = NoRequest
    /\ pc' = "decide"
    /\ UNCHANGED <<store, page, session, blocked, used, missed, doubt, history>>

\* What the record of an action keeps of its rule and page.
Pressed == IF request.source = "reflex" THEN {<<request.key, page>>} ELSE {}

\* A step of a rule that fails is judged like one that was executed.  Of the
\* controls that are pressed some are fixed ones.
Act ==
    /\ pc = "act"
    /\ \E failed \in BOOLEAN :
           /\ failed => request.source = "reflex"
           /\ request' = [request EXCEPT !.failed = failed]
    /\ used' \in {used, used \cup Pressed}
    /\ page' \in Scopes
    /\ pc' = "judge"
    /\ UNCHANGED <<store, session, blocked, missed, doubt, history>>
-----------------------------------------------------------------------------
(* The verdict on an action *)

IsLastStep == session.current + 1 >= session.count

\* Mutant: one step too many.
AdvancedPastEnd ==
    IF ~session.awaits THEN NoSession
    ELSE [session EXCEPT !.current = @ + 1, !.awaits = FALSE]

\* ReplaySession.advance
Advanced ==
    IF ~session.awaits \/ IsLastStep THEN NoSession
    ELSE [session EXCEPT !.current = @ + 1, !.awaits = FALSE]

\* Mutant: any verdict moves the replay.
SessionAfterAny(ready) == IF ready THEN Advanced ELSE NoSession

\* replay_session_after_transition
SessionAfter(ready) ==
    IF request.source # "reflex" THEN session
    ELSE IF ready THEN Advanced ELSE NoSession

\* Mutant: the latest failure only.
BlockedLatest(ready) ==
    IF ~ready /\ request.source = "reflex" THEN {request.key} ELSE blocked

BlockedAfter(ready) ==
    IF ~ready /\ request.source = "reflex" THEN blocked \cup {request.key} ELSE blocked

\* Mutant: every step is an outcome of the route.
IsOutcomeOfStep(ready) == request.source = "reflex" /\ session.awaits

\* A success is counted at the last step, a failure at any.
IsOutcome(ready) ==
    /\ request.source = "reflex" /\ session.awaits
    /\ ready => IsLastStep

\* record_replay_result counts in the row of the key, whatever route it holds
\* by now, and in none if the row is gone; a failure to write is only logged.
Count(ready) ==
    \/ UNCHANGED rules
    \/ /\ rules[session.key] # NoRule
       /\ rules' = [rules EXCEPT ![session.key].credits =
              Append(@, [path |-> path', good |-> ready, count |-> session.count])]

RecordOutcome(ready) ==
    IF IsOutcome(ready)
    THEN Ends(IF ready THEN "succeeded" ELSE "failed") /\ Count(ready)
    ELSE UNCHANGED <<rules, log>>

\* The expected effect of a step is seen or not; of a failed one it is not.
Verdicts == IF request.failed THEN {FALSE} ELSE BOOLEAN

Judge(ready) ==
    /\ pc = "judge"
    /\ ready \in Verdicts
    /\ path' = IF request.source = "reflex"
               THEN Append(path, [route |-> request.route, step |-> session.current])
               ELSE path
    /\ RecordOutcome(ready)
    /\ session' = SessionAfter(ready) /\ blocked' = BlockedAfter(ready)
    /\ missed' = FALSE /\ doubt' = ~ready
    /\ request' = NoRequest
    /\ pc' = "decide"
    /\ UNCHANGED <<routes, page, used, replay>>
-----------------------------------------------------------------------------
Next ==
    \/ \E k \in Keys : SaveRule(k) \/ Hit(k)
    \/ ClearRules \/ Begin \/ End \/ Miss \/ ChooseOther \/ Look \/ NothingToJudge \/ Act
    \/ \E ready \in BOOLEAN : Judge(ready)

Spec == Init /\ [][Next]_vars
-----------------------------------------------------------------------------
(* Properties *)

Steps == [route : 1..MaxRoutes, step : 0..MaxSteps]

TypeOK ==
    /\ routes \in 0..MaxRoutes
    /\ \A k \in Keys :
           /\ rules[k].route \in 0..routes /\ rules[k].steps \in 0..MaxSteps
           /\ \A i \in DOMAIN rules[k].credits :
                  LET credit == rules[k].credits[i]
                  IN  credit.path \in Seq(Steps) /\ credit.path # <<>>
    /\ pc \in {"idle", "decide", "act", "judge"}
    /\ page \in Scopes
    /\ session.key \in Keys \cup {Nothing}
    /\ session # NoSession => session.current < session.count
    /\ blocked \subseteq Keys /\ session.key \notin blocked
    /\ used \subseteq Keys \X Scopes
    /\ missed \in BOOLEAN /\ doubt \in BOOLEAN
    /\ request.source = "reflex" => request.key = session.key /\ session.awaits
    /\ replay \in 0..MaxReplays
    /\ path \in Seq(Steps)
    /\ log \in Seq([replay : 1..MaxReplays, key : Keys, end : {"succeeded", "failed", "missed"}])

\* A rule whose replay failed, or was given up, is not replayed again in the
\* same run, not even after other rules failed or its row was saved anew.
NoRetry ==
    \A i \in DOMAIN log : log[i].end # "succeeded" =>
        /\ session.key # log[i].key
        /\ \A j \in i + 1..Len(log) : log[j].key # log[i].key

\* A replay ends once: no second outcome, and none before its end.
OutcomeOnce ==
    \A i \in DOMAIN log :
        /\ session # NoSession => log[i].replay # replay
        /\ \A j \in i + 1..Len(log) : log[j].replay # log[i].replay

\* No replay ends without a word: while the run goes on, one that ends has been
\* judged or given up, and is never dropped for another rule.
EndsAreTold ==
    [][pc' # "idle" /\ session.key \notin {Nothing, session'.key}
           => Len(log') = Len(log) + 1]_vars

\* A success is counted only after each step of the route was judged by its own
\* screen, in order and none left out, whatever other actions came in between.
CreditIsEarned ==
    \A k \in Keys : \A i \in DOMAIN rules[k].credits :
        LET credit == rules[k].credits[i]
        IN  credit.good => /\ Len(credit.path) = credit.count
                           /\ \A j \in DOMAIN credit.path : credit.path[j].step = j - 1

\* Outcomes of different routes are kept apart, but for one: the replay that was
\* in progress when its route was replaced counts for the new one.
RoutesMixOnce ==
    \A k \in Keys :
        Cardinality({i \in DOMAIN rules[k].credits :
                         rules[k].credits[i].path[1].route # rules[k].route}) <= 1
=============================================================================
