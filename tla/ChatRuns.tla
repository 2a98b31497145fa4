------------------------------ MODULE ChatRuns ------------------------------
(***************************************************************************)
(* The life of chat runs in one backend: the stream that answers a request *)
(* over SSE, the thread that executes it, the registry that remembers its  *)
(* status and its cancellation, the vision runtime that all runs share     *)
(* behind two locks, and the shutdown that closes it.                      *)
(*                                                                         *)
(*   agent/application/chat_service.py             stream, execute         *)
(*   agent/observability/run_registry.py           status, cancel, limit   *)
(*   agent/observability/run_context.py            checks and events       *)
(*   agent/application/worker_execution_service.py a collection            *)
(*   agent/runtime/vision_worker_runtime.py        locks, session, close   *)
(*   agent/bootstrap.py                            shutdown                *)
(*                                                                         *)
(* What the nodes of an investigation do is Investigation.tla; here a node *)
(* only begins, ends, asks, answers or fails, and it is a node that begins *)
(* with raise_if_cancelled, together with those that follow it without a   *)
(* check of their own.                                                     *)
(***************************************************************************)
EXTENDS Naturals, Sequences

CONSTANTS
    Runs,       \* run ids
    Limit,      \* how many runs the registry keeps
    MaxNodes,   \* bound: graph nodes and worker steps a run begins
    NoRun,      \* nobody
    Closer      \* the thread that shuts the application down

ASSUME LimitIsPositive == Limit \in Nat \ {0}
ASSUME BoundIsNumber == MaxNodes \in Nat
ASSUME OwnersDiffer ==
    /\ {NoRun, Closer} \cap (Runs \cup {"ocr", "model"}) = {}
    /\ NoRun # Closer

VARIABLES
    stream,     \* per run, the request that streams it
    at,         \* per run, where its thread is
    raised,     \* per run, what a collection that is left raises
    outcome,    \* per run, the status its thread ended with
    nodes,      \* per run, how many nodes and worker steps it began
    entry,      \* registry: status and cancel_requested
    order,      \* registry: registered runs, the oldest first
    promised,   \* history: registered runs whose cancellation was accepted
    lock,       \* owner of _execution_lock
    resource,   \* owner of _resource_lock
    warming,    \* warm-ups that have not ended
    app         \* shutdown

chat == <<stream, at, raised, outcome, nodes>>
registry == <<entry, order, promised>>
vision == <<lock, resource, warming>>
vars == <<chat, registry, vision, app>>

Ended == {"completed", "partial", "failed", "cancelled"}
Statuses == Ended \cup {"queued", "running", "waiting_input"}
NoEntry == [status |-> "none", cancel |-> FALSE]
WarmUps == {"ocr", "model"}
InSession == {"preparing", "opening", "barrier", "acting", "leaving"}

Init ==
    /\ stream = [r \in Runs |-> "none"] /\ at = [r \in Runs |-> "none"]
    /\ raised = [r \in Runs |-> "nothing"] /\ outcome = [r \in Runs |-> "none"]
    /\ nodes = [r \in Runs |-> 0]
    /\ entry = [r \in Runs |-> NoEntry] /\ order = <<>> /\ promised = {}
    /\ lock = NoRun /\ resource = NoRun /\ warming = {}
    /\ app = "up"

Goes(r, place) == at' = [at EXCEPT ![r] = place]
-----------------------------------------------------------------------------
(* The registry *)

Registered(o) == {o[i] : i \in DOMAIN o}
Trim(o) == IF Len(o) > Limit THEN SubSeq(o, Len(o) - Limit + 1, Len(o)) ELSE o

\* start: the newest run is kept, the oldest beyond the limit are forgotten,
\* running or not.
Register(r, status) ==
    /\ order' = Trim(Append(order, r))
    /\ entry' = [x \in Runs |->
           IF x = r THEN [status |-> status, cancel |-> FALSE]
           ELSE IF x \in Registered(order') THEN entry[x] ELSE NoEntry]
    /\ promised' = promised \cap Registered(order')

\* Mutant: an event writes the whole item.
EventAnew(r, status) ==
    IF r \in Registered(order)
    THEN /\ entry' = [entry EXCEPT ![r] = [status |-> status, cancel |-> FALSE]]
         /\ UNCHANGED <<order, promised>>
    ELSE Register(r, status)

\* apply_event: an event of a forgotten run registers it again.
Event(r, status) ==
    IF r \in Registered(order)
    THEN /\ entry' = [entry EXCEPT ![r].status = status]
         /\ UNCHANGED <<order, promised>>
    ELSE Register(r, status)

\* Mutant: the status of a forgotten run is kept without its place in the order.
FinishInPlace(r, status) ==
    /\ entry' = [entry EXCEPT ![r] = [status |-> status, cancel |-> status = "cancelled"]]
    /\ UNCHANGED <<order, promised>>

\* _finish: a forgotten run comes back, whatever the limit.
Finish(r, status) ==
    /\ entry' = [entry EXCEPT ![r] = [status |-> status, cancel |-> status = "cancelled"]]
    /\ order' = IF r \in Registered(order) THEN order ELSE Append(order, r)
    /\ UNCHANGED promised

\* Mutant: the status says cancelled before the run stops.
CancelAtOnce(r) ==
    /\ entry[r].status \notin Ended
    /\ entry' = [entry EXCEPT ![r] = [status |-> "cancelled", cancel |-> TRUE]]
    /\ promised' = promised \cup {r}
    /\ UNCHANGED order

\* request_cancel, of a run that is registered and has not ended.
RequestCancel(r) ==
    /\ entry[r].status \notin Ended
    /\ entry' = [entry EXCEPT ![r].cancel = TRUE]
    /\ promised' = promised \cup {r}
    /\ UNCHANGED order

\* is_cancel_requested
CancelRequested(r) == entry[r].cancel

\* POST /api/runs/{run_id}/cancel
CancelRun(r) ==
    /\ r \in Registered(order) /\ RequestCancel(r)
    /\ UNCHANGED <<chat, vision, app>>
-----------------------------------------------------------------------------
(* The stream *)

\* POST /api/chat: the run is registered and the first frame sent.
Request(r) ==
    /\ app = "up" /\ stream[r] = "none"
    /\ stream' = [stream EXCEPT ![r] = "greeted"]
    /\ Register(r, "queued")
    /\ UNCHANGED <<at, raised, outcome, nodes, vision, app>>

\* The thread is started.
Serve(r) ==
    /\ stream[r] = "greeted"
    /\ stream' = [stream EXCEPT ![r] = "open"]
    /\ Goes(r, "starting")
    /\ UNCHANGED <<raised, outcome, nodes, registry, vision, app>>

\* The client leaves.  Only a stream that awaits an event requests the
\* cancellation; one that is sending a frame is dropped.
Disconnect(r) ==
    /\ stream[r] \in {"greeted", "open"}
    /\ stream' = [stream EXCEPT ![r] = "gone"]
    /\ \/ UNCHANGED registry
       \/ /\ stream[r] = "open" /\ r \in Registered(order)
          /\ RequestCancel(r)
    /\ UNCHANGED <<at, raised, outcome, nodes, vision, app>>

\* complete or fail, and the last frames.
EndStream(r) ==
    /\ stream[r] = "open" /\ at[r] = "ended"
    /\ stream' = [stream EXCEPT ![r] = "done"]
    /\ Finish(r, outcome[r])
    /\ UNCHANGED <<at, raised, outcome, nodes, vision, app>>
-----------------------------------------------------------------------------
(* The thread of a run *)

\* The event of the end of a run, and the end of its thread.
EndsWith(r, status) ==
    /\ Goes(r, "ended")
    /\ outcome' = [outcome EXCEPT ![r] = status]
    /\ Event(r, status)

\* A node that has ended is checkpointed; its graph goes on unless the
\* checkpoint connection was closed meanwhile.
Settles(r) ==
    IF app = "closed" THEN EndsWith(r, "failed")
    ELSE Goes(r, "ready") /\ UNCHANGED <<outcome, registry>>

\* run_started; an empty query ends the run.
Begin(r) ==
    /\ at[r] = "starting"
    /\ \/ Goes(r, "ready") /\ Event(r, "running") /\ UNCHANGED outcome
       \/ EndsWith(r, "failed")
    /\ UNCHANGED <<stream, raised, nodes, vision, app>>

\* raise_if_cancelled, at the beginning of a node.
Halt(r) ==
    /\ at[r] = "ready"
    /\ EndsWith(r, IF CancelRequested(r) THEN "cancelled" ELSE "partial")
    /\ UNCHANGED <<stream, raised, nodes, vision, app>>

\* A node begins: one of the graph, or the collection of one site.
BeginNode(r) ==
    /\ at[r] = "ready" /\ ~CancelRequested(r) /\ nodes[r] < MaxNodes
    /\ nodes' = [nodes EXCEPT ![r] = @ + 1]
    /\ \/ Goes(r, "node")
       \/ Goes(r, "waiting")
    /\ Event(r, "running")
    /\ UNCHANGED <<stream, raised, outcome, vision, app>>

EndNode(r) ==
    /\ at[r] = "node"
    /\ Settles(r)
    /\ UNCHANGED <<stream, raised, nodes, vision, app>>

\* clarify interrupts the graph, and the workflow tells that it awaits an answer.
Ask(r) ==
    /\ at[r] = "node"
    /\ EndsWith(r, IF app = "closed" THEN "failed" ELSE "waiting_input")
    /\ UNCHANGED <<stream, raised, nodes, vision, app>>

\* The answer node tells how the run ended before the graph has returned.
Answer(r) ==
    /\ at[r] = "node"
    /\ Goes(r, "answered")
    /\ \E status \in {"completed", "partial", "failed"} :
           /\ outcome' = [outcome EXCEPT ![r] = status]
           /\ Event(r, status)
    /\ UNCHANGED <<stream, raised, nodes, vision, app>>

Return(r) ==
    /\ at[r] = "answered"
    /\ IF app = "closed" THEN EndsWith(r, "failed")
       ELSE Goes(r, "ended") /\ UNCHANGED <<outcome, registry>>
    /\ UNCHANGED <<stream, raised, nodes, vision, app>>

\* The check after a model call, its timeout, or any other error.
FailNode(r) ==
    /\ at[r] = "node"
    /\ \/ CancelRequested(r) /\ EndsWith(r, "cancelled")
       \/ EndsWith(r, "partial")
       \/ EndsWith(r, "failed")
    /\ UNCHANGED <<stream, raised, nodes, vision, app>>
-----------------------------------------------------------------------------
(* The session of a collection *)

\* Mutant: a runtime that was closed is entered.
EnterAnyway(r) ==
    /\ at[r] = "waiting" /\ lock = NoRun
    /\ lock' = r /\ Goes(r, "preparing")
    /\ UNCHANGED <<stream, raised, outcome, nodes, registry, resource, warming, app>>

\* execution_session: the lock, and _require_open.
Enter(r) ==
    /\ at[r] = "waiting" /\ lock = NoRun
    /\ app \in {"up", "stopping"}
    /\ lock' = r /\ Goes(r, "preparing")
    /\ UNCHANGED <<stream, raised, outcome, nodes, registry, resource, warming, app>>

\* The runtime was closed: the collection has failed.
Turned(r) ==
    /\ at[r] = "waiting" /\ lock = NoRun
    /\ app \in {"saving", "closed"}
    /\ Settles(r)
    /\ UNCHANGED <<stream, raised, nodes, vision, app>>

\* get_graph, the event, and get_action_tools; then the warm-ups start.  The
\* session is over when the graph (before the event) or the tools could not be
\* created.
Prepare(r) ==
    /\ at[r] = "preparing" /\ resource = NoRun
    /\ \/ Goes(r, "opening") /\ Event(r, "running") /\ warming' = WarmUps
       \/ Goes(r, "leaving") /\ Event(r, "running") /\ UNCHANGED warming
       \/ Goes(r, "leaving") /\ UNCHANGED <<registry, warming>>
    /\ UNCHANGED <<stream, raised, outcome, nodes, lock, resource, app>>

\* A warm-up creates what it needs under the resource lock: the perception, or
\* the model with its tools.
WarmStarts(w) ==
    /\ w \in warming /\ resource = NoRun
    /\ resource' = w
    /\ UNCHANGED <<chat, registry, lock, warming, app>>

\* It has it, or failed.  The one of OCR goes on without the lock.
WarmEnds(w) ==
    /\ resource = w
    /\ resource' = NoRun
    /\ \/ warming' = warming \ {w}
       \/ w = "ocr" /\ warming' = (warming \ {w}) \cup {"worker"}
    /\ UNCHANGED <<chat, registry, lock, app>>

\* The worker process of OCR is ready, or could not be started.
WorkerStarts ==
    /\ "worker" \in warming
    /\ warming' = warming \ {"worker"}
    /\ UNCHANGED <<chat, registry, lock, resource, app>>

\* open_browser, while the warm-ups run; its failure is not looked at.
OpenBrowser(r) ==
    /\ at[r] = "opening"
    /\ Goes(r, "barrier")
    /\ UNCHANGED <<stream, raised, outcome, nodes, registry, vision, app>>

\* Both warm-ups have ended: the worker starts, unless the OCR worker is not
\* ready.
Barrier(r) ==
    /\ at[r] = "barrier" /\ warming = {}
    /\ \/ Goes(r, "acting") /\ Event(r, "running")
       \/ Goes(r, "leaving") /\ UNCHANGED registry
    /\ UNCHANGED <<stream, raised, outcome, nodes, vision, app>>

\* The worker graph goes on by a step, and its progress is forwarded.
Step(r) ==
    /\ at[r] = "acting" /\ ~CancelRequested(r) /\ nodes[r] < MaxNodes
    /\ nodes' = [nodes EXCEPT ![r] = @ + 1]
    /\ Event(r, "running")
    /\ UNCHANGED <<stream, at, raised, outcome, vision, app>>

\* The worker has finished, failed, or raises at a check.
StopActing(r) ==
    /\ at[r] = "acting"
    /\ Goes(r, "leaving")
    /\ \E what \in {"nothing", "cancelled", "partial"} :
           /\ what = "cancelled" => CancelRequested(r)
           /\ raised' = [raised EXCEPT ![r] = what]
    /\ UNCHANGED <<stream, outcome, nodes, registry, vision, app>>

\* Mutant: the lock is released on the regular way out only.
LeaveQuietly(r) ==
    /\ at[r] = "leaving"
    /\ lock' = IF raised[r] = "nothing" THEN NoRun ELSE lock
    /\ IF raised[r] = "nothing" THEN Settles(r) ELSE EndsWith(r, raised[r])
    /\ UNCHANGED <<stream, raised, nodes, resource, warming, app>>

\* The end of the session, whether the browser could be closed or not; what was
\* raised ends the run.
Leave(r) ==
    /\ at[r] = "leaving"
    /\ lock' = NoRun
    /\ IF raised[r] = "nothing" THEN Settles(r) ELSE EndsWith(r, raised[r])
    /\ UNCHANGED <<stream, raised, nodes, resource, warming, app>>
-----------------------------------------------------------------------------
(* Shutdown *)

\* The server has no open stream left: the lifespan ends.
Shutdown ==
    /\ app = "up"
    /\ \A r \in Runs : stream[r] \notin {"greeted", "open"}
    /\ app' = "stopping"
    /\ UNCHANGED <<chat, registry, vision>>

\* VisionWorkerRuntime.close: first the execution lock, then the other one.
TakeExecution ==
    /\ app = "stopping" /\ lock = NoRun
    /\ lock' = Closer
    /\ UNCHANGED <<chat, registry, resource, warming, app>>

CloseVision ==
    /\ app = "stopping" /\ lock = Closer /\ resource = NoRun
    /\ lock' = NoRun
    /\ app' = "saving"
    /\ UNCHANGED <<chat, registry, resource, warming>>

CloseCheckpoint ==
    /\ app = "saving"
    /\ app' = "closed"
    /\ UNCHANGED <<chat, registry, vision>>
-----------------------------------------------------------------------------
Thread(r) ==
    \/ Begin(r) \/ Halt(r) \/ BeginNode(r) \/ EndNode(r) \/ Ask(r) \/ Answer(r)
    \/ Return(r) \/ FailNode(r) \/ Enter(r) \/ Turned(r) \/ Prepare(r) \/ OpenBrowser(r)
    \/ Barrier(r) \/ Step(r) \/ StopActing(r) \/ Leave(r)

Warm(w) == WarmStarts(w) \/ WarmEnds(w)

Closing == TakeExecution \/ CloseVision \/ CloseCheckpoint

Next ==
    \/ \E r \in Runs : \/ Request(r) \/ Serve(r) \/ Disconnect(r) \/ EndStream(r)
                       \/ CancelRun(r) \/ Thread(r)
    \/ \E w \in WarmUps : Warm(w)
    \/ WorkerStarts
    \/ Shutdown \/ Closing

Spec == Init /\ [][Next]_vars

\* Threads go on: locks are handed over, models answer or time out, recursion
\* limit and deadline end the worker; an open stream reads what comes.
Fairness ==
    /\ \A r \in Runs : WF_vars(Thread(r)) /\ WF_vars(EndStream(r))
    /\ \A w \in WarmUps : WF_vars(Warm(w))
    /\ WF_vars(WorkerStarts)
    /\ WF_vars(Closing)

FairSpec == Spec /\ Fairness
-----------------------------------------------------------------------------
(* Properties *)

TypeOK ==
    /\ stream \in [Runs -> {"none", "greeted", "open", "gone", "done"}]
    /\ at \in [Runs -> {"none", "starting", "ready", "node", "waiting", "answered", "ended"}
                           \cup InSession]
    /\ raised \in [Runs -> {"nothing", "cancelled", "partial"}]
    /\ outcome \in [Runs -> Ended \cup {"none", "waiting_input"}]
    /\ nodes \in [Runs -> 0..MaxNodes]
    /\ entry \in [Runs -> [status : Statuses \cup {"none"}, cancel : BOOLEAN]]
    /\ order \in Seq(Runs)
    /\ \A r \in Runs : r \in Registered(order) <=> entry[r].status # "none"
    /\ promised \subseteq Registered(order)
    /\ lock \in Runs \cup {NoRun, Closer} /\ resource \in WarmUps \cup {NoRun}
    /\ warming \subseteq WarmUps \cup {"worker"}
    /\ app \in {"up", "stopping", "saving", "closed"}

\* Physical input is never shared, and its lock is never left behind: exactly
\* the run in its session holds the lock, the shutdown takes it only to close,
\* and no run is in a session once the runtime was closed, although requests,
\* cancellations, errors and the shutdown come at any time.
SessionsAreSerial ==
    /\ \A r \in Runs : at[r] \in InSession <=> lock = r
    /\ lock \in Runs => app \in {"up", "stopping"}
    /\ lock = Closer => app = "stopping"

\* What the registry says of an ended run is true: its thread is out of the
\* session and out of every node, and ended with this status, although the
\* registry may forget a run and take it back at the next event.
StatusIsTrue ==
    \A r \in Runs : entry[r].status \in Ended =>
        at[r] \in {"answered", "ended"} /\ outcome[r] = entry[r].status

\* A run whose cancellation was accepted begins no node and no worker step
\* as long as the registry does not forget it.
PromiseIsKept == [][\A r \in promised : nodes'[r] = nodes[r]]_vars

\* Every run that was started ends, cancelled or not, connected or not.
RunsEnd == \A r \in Runs : at[r] = "starting" ~> at[r] = "ended"

\* The shutdown waits for the session in progress and ends.
ShutdownEnds == app = "stopping" ~> app = "closed"
=============================================================================
