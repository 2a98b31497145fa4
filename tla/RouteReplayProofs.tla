--------------------------- MODULE RouteReplayProofs ---------------------------
(***************************************************************************)
(* Proofs about RouteReplay, for any keys, any lengths of routes and any   *)
(* number of replacements, replays and runs.                               *)
(*                                                                         *)
(* Two facts carry everything: a replay in progress has judged exactly the *)
(* steps before its current one (InStep), and a replay that began with an  *)
(* older route than the row holds finds no other such outcome in it        *)
(* (Unmixed).                                                              *)
(***************************************************************************)
EXTENDS RouteReplay, FiniteSetTheorems, TLAPS

Credits == [path : Seq(Steps), good : BOOLEAN, count : Nat]
Entries == [replay : 1..MaxReplays, key : Keys, end : {"succeeded", "failed", "missed"}]

\* The rows of rules that exist hold one of the routes saved so far, and every
\* outcome in them judged at least one step.
RowsAreSound ==
    \A k \in Keys : /\ rules[k].route <= routes
                    /\ rules[k].steps > 0 => rules[k].route > 0
                    /\ \A i \in DOMAIN rules[k].credits : rules[k].credits[i].path # <<>>

StoreTypes ==
    /\ routes \in 0..MaxRoutes
    /\ rules \in [Keys -> [route : 0..MaxRoutes, steps : 0..MaxSteps, credits : Seq(Credits)]]
    /\ RowsAreSound

WorkerTypes ==
    /\ pc \in {"idle", "decide", "act", "judge"} /\ page \in Scopes
    /\ session \in [key : Keys \cup {Nothing}, current : Nat, awaits : BOOLEAN, count : Nat]
    /\ request \in [source : {"none", "other", "reflex"}, key : Keys \cup {Nothing},
                    route : 0..MaxRoutes, failed : BOOLEAN]
    /\ blocked \subseteq Keys /\ used \subseteq Keys \X Scopes
    /\ missed \in BOOLEAN /\ doubt \in BOOLEAN

HistoryTypes ==
    /\ replay \in 0..MaxReplays /\ path \in Seq(Steps) /\ log \in Seq(Entries)

\* A session is of a rule that is not blocked and stands on one of its steps; a
\* request of a rule is the step its session waits for.
InSession ==
    /\ session.key = Nothing => session = NoSession
    /\ session # NoSession => /\ session.current < session.count
                              /\ session.count <= MaxSteps
                              /\ session.key \in Keys \ blocked
                              /\ replay > 0
    /\ request.source = "reflex" => /\ request.key = session.key /\ request.key \in Keys
                                    /\ session.awaits /\ request.route > 0
    /\ pc \in {"idle", "decide"} => request.source = "none"
    /\ pc = "idle" => session = NoSession

\* A replay in progress has judged the steps before its current one.
InStep ==
    session # NoSession =>
        Len(path) = session.current /\ \A j \in DOMAIN path : path[j].step = j - 1

\* What went wrong in this run is blocked for the rest of it.
LossesAreBlocked == \A i \in DOMAIN log : log[i].end # "succeeded" => log[i].key \in blocked

\* What has ended is not of a replay that is still to come.
EndsArePast == \A i \in DOMAIN log : log[i].replay <= replay

Sound == StoreTypes /\ WorkerTypes /\ HistoryTypes /\ InSession /\ InStep

LEMMA NoSessionHasNoKey ==
    /\ NoSession.key = Nothing /\ Nothing \notin Keys /\ NoSession.current = 0
    /\ NoSession.awaits = FALSE
    /\ NoSession \in [key : Keys \cup {Nothing}, current : Nat, awaits : BOOLEAN, count : Nat]
BY NothingIsNoKey DEF NoSession

LEMMA RequestsAreTyped ==
    /\ NoRequest.source = "none" /\ Other.source = "other"
    /\ {NoRequest, Other} \subseteq [source : {"none", "other", "reflex"},
           key : Keys \cup {Nothing}, route : 0..MaxRoutes, failed : BOOLEAN]
<1> DEFINE T == [source : {"none", "other", "reflex"}, key : Keys \cup {Nothing},
                 route : 0..MaxRoutes, failed : BOOLEAN]
<1>1. 0 \in 0..MaxRoutes
  BY BoundsAreNumbers
<1>2. NoRequest \in T /\ NoRequest.source = "none"
  BY <1>1 DEF NoRequest
<1>3. Other \in T /\ Other.source = "other"
  BY <1>2 DEF Other
<1> QED BY <1>2, <1>3

LEMMA NothingJudged == <<>> \in Seq(Steps) /\ <<>> \in Seq(Entries)
OBVIOUS
-----------------------------------------------------------------------------
(* The actions that change the store only *)

LEMMA SavingKeepsSound ==
    ASSUME Sound, NEW k \in Keys, SaveRule(k)
    PROVE  /\ Sound' /\ UNCHANGED <<worker, history>>
           /\ rules'[k].credits = <<>> /\ \A x \in Keys \ {k} : rules'[x] = rules[x]
<1>1. PICK steps \in 1..MaxSteps :
          rules' = [rules EXCEPT ![k] = [route |-> routes', steps |-> steps, credits |-> <<>>]]
  BY DEF SaveRule
<1>2. routes \in 0..MaxRoutes /\ routes < MaxRoutes /\ routes' = routes + 1 /\ MaxRoutes \in Nat
  BY BoundsAreNumbers DEF SaveRule, Sound, StoreTypes, RowsAreSound
<1>3. UNCHANGED <<worker, history>>
  BY DEF SaveRule
<1>4. /\ rules'[k] = [route |-> routes', steps |-> steps, credits |-> <<>>]
      /\ \A x \in Keys \ {k} : rules'[x] = rules[x]
  BY <1>1 DEF Sound, StoreTypes, RowsAreSound
<1>5. rules'[k] \in [route : 0..MaxRoutes, steps : 0..MaxSteps, credits : Seq(Credits)]
  <2>1. routes' \in 0..MaxRoutes /\ steps \in 0..MaxSteps
    BY <1>1, <1>2, BoundsAreNumbers
  <2>2. <<>> \in Seq(Credits)
    OBVIOUS
  <2> QED BY <1>4, <2>1, <2>2
<1>6. StoreTypes'
  <2>1. \A x \in Keys : rules[x].route \in 0..MaxRoutes
    BY DEF Sound, StoreTypes, RowsAreSound
  <2>2. rules' \in [Keys -> [route : 0..MaxRoutes, steps : 0..MaxSteps, credits : Seq(Credits)]]
    BY <1>1, <1>4, <1>5 DEF Sound, StoreTypes, RowsAreSound
  <2>3. /\ rules'[k].route = routes' /\ rules'[k].credits = <<>>
        /\ routes' > 0 /\ routes' \in 0..MaxRoutes
    BY <1>2, <1>4
  <2>4. \A x \in Keys \ {k} : rules'[x].route <= routes'
    BY <1>2, <1>4, <2>1 DEF Sound, StoreTypes, RowsAreSound
  <2>5. RowsAreSound'
    <3> SUFFICES ASSUME NEW x \in Keys
                 PROVE  /\ rules'[x].route <= routes'
                        /\ rules'[x].steps > 0 => rules'[x].route > 0
                        /\ \A i \in DOMAIN rules'[x].credits : rules'[x].credits[i].path # <<>>
      BY DEF RowsAreSound
    <3>1. CASE x = k
      <4>1. \A i \in DOMAIN rules'[x].credits : rules'[x].credits[i].path # <<>>
        BY <2>3, <3>1
      <4>2. rules'[x].route <= routes' /\ rules'[x].route > 0
        BY <2>3, <3>1
      <4> QED BY <4>1, <4>2
    <3>2. CASE x # k
      BY <1>4, <2>4, <3>2 DEF Sound, StoreTypes, RowsAreSound
    <3> QED BY <3>1, <3>2
  <2>6. routes' \in 0..MaxRoutes
    BY <2>3
  <2> QED BY <2>2, <2>5, <2>6 DEF StoreTypes
<1>7. (WorkerTypes /\ HistoryTypes /\ InSession /\ InStep)'
  BY <1>3 DEF Sound, WorkerTypes, HistoryTypes, InSession, InStep, worker, history
<1> QED BY <1>3, <1>4, <1>6, <1>7 DEF Sound

LEMMA ClearingKeepsSound ==
    ASSUME Sound, ClearRules
    PROVE  /\ Sound' /\ UNCHANGED <<worker, history>>
           /\ \A k \in Keys : rules'[k].credits = <<>>
<1>1. /\ rules' = [k \in Keys |-> NoRule] /\ routes' = routes
      /\ UNCHANGED <<worker, history>>
  BY DEF ClearRules
<1>2. /\ NoRule \in [route : 0..MaxRoutes, steps : 0..MaxSteps, credits : Seq(Credits)]
      /\ NoRule.route = 0 /\ NoRule.steps = 0 /\ NoRule.credits = <<>>
  BY BoundsAreNumbers DEF NoRule
<1>3. StoreTypes'
  BY <1>1, <1>2, BoundsAreNumbers DEF Sound, StoreTypes, RowsAreSound
<1>4. (WorkerTypes /\ HistoryTypes /\ InSession /\ InStep)'
  BY <1>1 DEF Sound, WorkerTypes, HistoryTypes, InSession, InStep, worker, history
<1> QED BY <1>1, <1>2, <1>3, <1>4 DEF Sound
-----------------------------------------------------------------------------
(* The actions of the worker *)

LEMMA FreshKeepsSound ==
    ASSUME Sound, Begin \/ End
    PROVE  /\ Sound' /\ UNCHANGED <<store, replay>>
           /\ session' = NoSession /\ log' = <<>> /\ request' = NoRequest /\ path' = <<>>
<1>1. /\ Fresh /\ UNCHANGED <<rules, routes, replay>>
      /\ pc' \in {"idle", "decide"} /\ page' \in Scopes
  BY DEF Begin, End, store, Sound, WorkerTypes
<1>2. /\ session' = NoSession /\ blocked' = {} /\ used' = {} /\ missed' = FALSE /\ doubt' = FALSE
      /\ request' = NoRequest /\ path' = <<>> /\ log' = <<>>
  BY <1>1 DEF Fresh
<1>3. StoreTypes'
  BY <1>1 DEF Sound, StoreTypes, RowsAreSound
<1>4. WorkerTypes' /\ HistoryTypes'
  <2>1. HistoryTypes'
    BY <1>1, <1>2, NothingJudged DEF Sound, HistoryTypes
  <2>2. WorkerTypes'
    BY <1>1, <1>2, NoSessionHasNoKey, RequestsAreTyped DEF WorkerTypes
  <2> QED BY <2>1, <2>2
<1>5. InSession' /\ InStep'
  BY <1>1, <1>2, NoSessionHasNoKey, RequestsAreTyped DEF InSession, InStep
<1> QED BY <1>1, <1>2, <1>3, <1>4, <1>5 DEF Sound, store

LEMMA HitKeepsSound ==
    ASSUME Sound, NEW k \in Keys, Hit(k)
    PROVE  /\ Sound' /\ UNCHANGED <<store, blocked, log>>
           /\ session'.key = k /\ k \notin blocked /\ session.key \in {k, Nothing}
           /\ request'.route = rules[k].route /\ request'.source = "reflex"
           /\ \/ session = NoSession /\ replay' = replay + 1 /\ path' = <<>>
              \/ session # NoSession /\ replay' = replay /\ path' = path
<1>1. /\ k \in Candidates /\ k \notin blocked /\ Index(k) < rules[k].steps
      /\ rules[k] # NoRule /\ session.key \in {k, Nothing}
  BY DEF Hit, Eligible, Candidates
<1>2. /\ session' = [key |-> k, current |-> Index(k), awaits |-> TRUE, count |-> rules[k].steps]
      /\ request' = [source |-> "reflex", key |-> k, route |-> rules[k].route, failed |-> FALSE]
      /\ pc = "decide" /\ pc' = "act"
      /\ UNCHANGED <<rules, routes, page, blocked, used, missed, doubt, log>>
  BY DEF Hit, SessionOf, RequestOf, MayTry, store
<1>3. \/ session = NoSession /\ replay < MaxReplays /\ replay' = replay + 1 /\ path' = <<>>
      \/ session # NoSession /\ replay' = replay /\ path' = path
  BY DEF Hit
<1>4. /\ rules[k].route \in 0..MaxRoutes /\ rules[k].steps \in 0..MaxSteps
      /\ rules[k].steps > 0 => rules[k].route > 0
  BY DEF Sound, StoreTypes, RowsAreSound
<1>5. /\ Index(k) \in Nat
      /\ session = NoSession => Index(k) = 0
      /\ session # NoSession => session.key = k /\ Index(k) = session.current
  BY <1>1, NoSessionHasNoKey DEF Index, Sound, WorkerTypes, InSession
<1>6. MaxReplays \in Nat /\ MaxSteps \in Nat /\ MaxRoutes \in Nat
  BY BoundsAreNumbers
<1>7. StoreTypes'
  BY <1>2 DEF Sound, StoreTypes, RowsAreSound
<1>8. WorkerTypes'
  BY <1>2, <1>4, <1>5, <1>6 DEF Sound, WorkerTypes
<1>9. HistoryTypes'
  <2>1. path' \in Seq(Steps)
    BY <1>3, NothingJudged DEF Sound, HistoryTypes
  <2>2. replay' \in 0..MaxReplays
    BY <1>3, <1>6 DEF Sound, HistoryTypes
  <2> QED BY <1>2, <2>1, <2>2 DEF Sound, HistoryTypes
<1>10. replay' > 0
  BY <1>3, <1>6 DEF Sound, InSession, HistoryTypes
<1>11. InSession'
  <2>1. /\ session'.key = k /\ session'.current = Index(k) /\ session'.count = rules[k].steps
        /\ session'.awaits /\ request'.key = k /\ request'.route = rules[k].route
    BY <1>2
  <2>2. k # Nothing
    BY NoSessionHasNoKey
  <2>3. Index(k) < rules[k].steps /\ rules[k].steps <= MaxSteps /\ rules[k].route > 0
    BY <1>1, <1>4, <1>5, <1>6
  <2> QED BY <1>1, <1>2, <1>10, <2>1, <2>2, <2>3 DEF InSession
<1>12. InStep'
  <2>1. session'.current = Index(k)
    BY <1>2
  <2>2. CASE session = NoSession
    BY <1>3, <1>5, <2>1, <2>2 DEF InStep
  <2>3. CASE session # NoSession
    BY <1>3, <1>5, <2>1, <2>3 DEF Sound, InStep
  <2> QED BY <2>2, <2>3
<1> QED BY <1>1, <1>2, <1>3, <1>7, <1>8, <1>9, <1>11, <1>12 DEF Sound, store

\* An end is told of the replay in progress.
LEMMA EndsAppends ==
    ASSUME HistoryTypes, InSession, session # NoSession,
           NEW how \in {"succeeded", "failed", "missed"}, Ends(how)
    PROVE  /\ log' \in Seq(Entries) /\ Len(log') = Len(log) + 1
           /\ DOMAIN log' = 1..(Len(log) + 1) /\ DOMAIN log = 1..Len(log) /\ Len(log) \in Nat
           /\ \A i \in 1..Len(log) : log'[i] = log[i]
           /\ log'[Len(log) + 1].key = session.key
           /\ log'[Len(log) + 1].replay = replay
           /\ log'[Len(log) + 1].end = how
<1> DEFINE entry == [replay |-> replay, key |-> session.key, end |-> how]
<1>1. log \in Seq(Entries) /\ log' = Append(log, entry)
  BY DEF HistoryTypes, Ends
<1>2. entry \in Entries
  <2>1. replay \in 1..MaxReplays /\ session.key \in Keys
    BY BoundsAreNumbers DEF HistoryTypes, InSession
  <2> QED BY <2>1 DEF Entries
<1>3. entry.key = session.key /\ entry.replay = replay /\ entry.end = how
  OBVIOUS
<1> HIDE DEF entry
<1> QED BY <1>1, <1>2, <1>3

LEMMA MissKeepsSound ==
    ASSUME Sound, Miss
    PROVE  /\ Sound' /\ UNCHANGED <<store, replay, path, request>> /\ session' = NoSession
           /\ \/ session = NoSession /\ UNCHANGED <<blocked, log>>
              \/ session # NoSession /\ blocked' = blocked \cup {session.key} /\ Ends("missed")
<1>1. /\ session' = NoSession /\ missed' = TRUE /\ pc = "decide"
      /\ UNCHANGED <<rules, routes, pc, page, used, doubt, request, replay, path>>
      /\ \/ session = NoSession /\ UNCHANGED <<blocked, log>>
         \/ session # NoSession /\ blocked' = blocked \cup {session.key} /\ Ends("missed")
  BY DEF Miss, MayTry, store
<1>2. log' \in Seq(Entries) /\ blocked' \subseteq Keys
  <2>1. CASE session = NoSession /\ UNCHANGED <<blocked, log>>
    BY <2>1 DEF Sound, HistoryTypes, WorkerTypes
  <2>2. CASE session # NoSession /\ blocked' = blocked \cup {session.key} /\ Ends("missed")
    <3>1. log' \in Seq(Entries)
      BY <2>2, EndsAppends DEF Sound
    <3>2. session.key \in Keys
      BY <2>2 DEF Sound, InSession
    <3> QED BY <2>2, <3>1, <3>2 DEF Sound, WorkerTypes
  <2> QED BY <1>1, <2>1, <2>2
<1>3. (StoreTypes /\ WorkerTypes /\ HistoryTypes)'
  BY <1>1, <1>2, NoSessionHasNoKey DEF Sound, StoreTypes, RowsAreSound, WorkerTypes, HistoryTypes
<1>4. (InSession /\ InStep)'
  BY <1>1, NoSessionHasNoKey DEF Sound, InSession, InStep
<1> QED BY <1>1, <1>3, <1>4 DEF Sound, store

\* What else the worker does leaves a replay as it is, but for its request.
LEMMA OthersKeepSound ==
    ASSUME Sound, ChooseOther \/ Look \/ NothingToJudge \/ Act
    PROVE  /\ Sound' /\ UNCHANGED <<store, session, blocked, replay, path, log>>
           /\ request'.source = "reflex" =>
                  request.source = "reflex" /\ request'.route = request.route
<1>1. /\ UNCHANGED <<rules, routes, session, blocked, replay, path, log>>
      /\ page' \in Scopes /\ missed' \in BOOLEAN /\ doubt' \in BOOLEAN
      /\ pc' \in {"decide", "act", "judge"}
  BY DEF ChooseOther, Look, NothingToJudge, Act, store, history, Sound, WorkerTypes
<1>2. used' \subseteq Keys \X Scopes
  <2>1. CASE Act
    <3>1. Pressed \subseteq Keys \X Scopes
      BY DEF Pressed, Sound, WorkerTypes, InSession
    <3> QED BY <2>1, <3>1 DEF Act, Sound, WorkerTypes
  <2>2. CASE ChooseOther \/ Look \/ NothingToJudge
    BY <2>2 DEF ChooseOther, Look, NothingToJudge, Sound, WorkerTypes
  <2> QED BY <2>1, <2>2
<1>3. \/ request' = NoRequest /\ pc' = "decide"
      \/ request' = Other /\ pc' = "act"
      \/ request' = request /\ pc = "decide" /\ pc' = "decide"
      \/ (\E failed \in BOOLEAN : request' = [request EXCEPT !.failed = failed]) /\ pc' = "judge"
  BY DEF ChooseOther, Look, NothingToJudge, Act
<1>4. /\ request' \in [source : {"none", "other", "reflex"}, key : Keys \cup {Nothing},
                       route : 0..MaxRoutes, failed : BOOLEAN]
      /\ request'.source = "reflex" => /\ request.source = "reflex"
                                       /\ request'.key = request.key
                                       /\ request'.route = request.route
      /\ pc' \in {"idle", "decide"} => request'.source = "none"
  BY <1>3, RequestsAreTyped DEF Sound, WorkerTypes, InSession
<1>5. (StoreTypes /\ WorkerTypes /\ HistoryTypes)'
  BY <1>1, <1>2, <1>4 DEF Sound, StoreTypes, RowsAreSound, WorkerTypes, HistoryTypes
<1>6. InSession'
  BY <1>1, <1>4 DEF Sound, InSession
<1>7. InStep'
  BY <1>1 DEF Sound, InStep
<1> QED BY <1>1, <1>4, <1>5, <1>6, <1>7 DEF Sound, store
-----------------------------------------------------------------------------
(* The verdict *)

\* The verdict on a step appends it to what was judged.
LEMMA JudgedPath ==
    ASSUME Sound, NEW ready \in BOOLEAN, Judge(ready), request.source = "reflex"
    PROVE  /\ session # NoSession
           /\ path' \in Seq(Steps) /\ path' # <<>> /\ Len(path') = session.current + 1
           /\ DOMAIN path' = 1..(session.current + 1)
           /\ \A j \in DOMAIN path' : path'[j].step = j - 1
           /\ path'[1].route = IF path = <<>> THEN request.route ELSE path[1].route
<1> DEFINE step == [route |-> request.route, step |-> session.current]
<1>1. session # NoSession /\ session.current \in Nat
  BY NoSessionHasNoKey DEF Sound, InSession, WorkerTypes
<1>2. step \in Steps
  <2>1. request.route \in 1..MaxRoutes
    BY BoundsAreNumbers DEF Sound, InSession, WorkerTypes
  <2>2. session.current \in 0..MaxSteps
    BY <1>1, BoundsAreNumbers DEF Sound, InSession, WorkerTypes
  <2> QED BY <2>1, <2>2 DEF Steps
<1>3. path' = Append(path, step)
  BY DEF Judge
<1>4. /\ path \in Seq(Steps) /\ Len(path) = session.current
      /\ \A j \in DOMAIN path : path[j].step = j - 1
  BY <1>1 DEF Sound, HistoryTypes, InStep
<1>5. step.step = session.current /\ step.route = request.route
  OBVIOUS
<1> HIDE DEF step
<1>6. /\ path' \in Seq(Steps) /\ Len(path') = session.current + 1
      /\ DOMAIN path' = 1..(session.current + 1) /\ DOMAIN path = 1..session.current
      /\ path'[session.current + 1] = step
      /\ \A j \in 1..session.current : path'[j] = path[j]
  BY <1>1, <1>2, <1>3, <1>4
<1>7. \A j \in DOMAIN path' : path'[j].step = j - 1
  <2> SUFFICES ASSUME NEW j \in 1..(session.current + 1) PROVE path'[j].step = j - 1
    BY <1>6
  <2>1. CASE j \in 1..session.current
    BY <1>4, <1>6, <2>1
  <2>2. CASE j = session.current + 1
    BY <1>1, <1>5, <1>6, <2>2
  <2> QED BY <1>1, <2>1, <2>2
<1>8. path'[1].route = IF path = <<>> THEN request.route ELSE path[1].route
  <2>1. CASE path = <<>>
    <3>1. session.current = 0
      BY <1>4, <2>1
    <3> QED BY <1>5, <1>6, <2>1, <3>1
  <2>2. CASE path # <<>>
    <3>1. session.current # 0
      BY <1>4, <2>2
    <3>2. 1 \in 1..session.current
      BY <1>1, <3>1
    <3> QED BY <1>6, <2>2, <3>2
  <2> QED BY <2>1, <2>2
<1>9. path' # <<>>
  BY <1>1, <1>6
<1> QED BY <1>1, <1>6, <1>7, <1>8, <1>9

\* Where a replay stands after the verdict: gone on, or ended with an outcome.
LEMMA JudgedSession ==
    ASSUME Sound, NEW ready \in BOOLEAN, Judge(ready)
    PROVE  \/ /\ request.source # "reflex" /\ ~IsOutcome(ready)
              /\ session' = session /\ blocked' = blocked /\ path' = path
           \/ /\ request.source = "reflex" /\ ready /\ ~IsOutcome(ready)
              /\ session.current + 1 < session.count
              /\ session' = [session EXCEPT !.current = session.current + 1, !.awaits = FALSE]
              /\ blocked' = blocked
           \/ /\ request.source = "reflex" /\ ready /\ IsOutcome(ready)
              /\ session.current + 1 = session.count
              /\ session' = NoSession /\ blocked' = blocked
           \/ /\ request.source = "reflex" /\ ~ready /\ IsOutcome(ready)
              /\ session' = NoSession /\ blocked' = blocked \cup {session.key}
<1>1. session' = SessionAfter(ready) /\ blocked' = BlockedAfter(ready)
  BY DEF Judge
<1>2. CASE request.source # "reflex"
  BY <1>1, <1>2 DEF Judge, SessionAfter, BlockedAfter, IsOutcome
<1>3. CASE request.source = "reflex"
  <2>1. session.awaits /\ request.key = session.key /\ session # NoSession
    BY <1>3, NoSessionHasNoKey DEF Sound, InSession
  <2>2. session.current \in Nat /\ session.count \in Nat /\ session.current < session.count
    BY <2>1 DEF Sound, InSession, WorkerTypes
  <2>3. CASE ready /\ IsLastStep
    BY <1>1, <1>3, <2>1, <2>2, <2>3 DEF SessionAfter, BlockedAfter, IsOutcome, Advanced, IsLastStep
  <2>4. CASE ready /\ ~IsLastStep
    BY <1>1, <1>3, <2>1, <2>2, <2>4 DEF SessionAfter, BlockedAfter, IsOutcome, Advanced, IsLastStep
  <2>5. CASE ~ready
    BY <1>1, <1>3, <2>1, <2>5 DEF SessionAfter, BlockedAfter, IsOutcome
  <2> QED BY <2>3, <2>4, <2>5
<1> QED BY <1>2, <1>3

\* What the verdict writes.
LEMMA JudgedStore ==
    ASSUME Sound, NEW ready \in BOOLEAN, Judge(ready)
    PROVE  /\ StoreTypes'
           /\ \/ UNCHANGED rules
              \/ /\ IsOutcome(ready) /\ session.key \in Keys
                 /\ \A x \in Keys \ {session.key} : rules'[x] = rules[x]
                 /\ rules'[session.key].route = rules[session.key].route
                 /\ rules'[session.key].credits =
                        Append(rules[session.key].credits,
                               [path |-> path', good |-> ready, count |-> session.count])
<1>0. routes' = routes
  BY DEF Judge
<1>1. CASE UNCHANGED rules
  BY <1>0, <1>1 DEF Sound, StoreTypes, RowsAreSound
<1>2. CASE ~(UNCHANGED rules)
  <2> DEFINE k == session.key
             credit == [path |-> path', good |-> ready, count |-> session.count]
             new == [rules[k] EXCEPT !.credits = Append(@, credit)]
  <2>1. IsOutcome(ready) /\ rules' = [rules EXCEPT ![k].credits = Append(@, credit)]
    BY <1>2 DEF Judge, RecordOutcome, Count
  <2>2. request.source = "reflex" /\ k \in Keys /\ session.count \in Nat
    BY <2>1 DEF IsOutcome, Sound, InSession, WorkerTypes
  <2>3. path' \in Seq(Steps) /\ path' # <<>>
    BY <2>2, JudgedPath
  <2>4. credit \in Credits /\ credit.path # <<>>
    BY <2>2, <2>3 DEF Credits
  <2>5. rules[k] \in [route : 0..MaxRoutes, steps : 0..MaxSteps, credits : Seq(Credits)]
    BY <2>2 DEF Sound, StoreTypes, RowsAreSound
  <2> HIDE DEF credit, k
  <2>6. /\ new \in [route : 0..MaxRoutes, steps : 0..MaxSteps, credits : Seq(Credits)]
        /\ new.route = rules[k].route /\ new.steps = rules[k].steps
        /\ new.credits = Append(rules[k].credits, credit)
    <3> DEFINE c == Append(rules[k].credits, credit)
    <3>1. c \in Seq(Credits)
      BY <2>4, <2>5
    <3>2. new = [rules[k] EXCEPT !.credits = c]
      OBVIOUS
    <3> HIDE DEF c, new
    <3>3. /\ new \in [route : 0..MaxRoutes, steps : 0..MaxSteps, credits : Seq(Credits)]
          /\ new.route = rules[k].route /\ new.steps = rules[k].steps /\ new.credits = c
      BY <2>5, <3>1, <3>2
    <3> QED BY <3>3 DEF c
  <2>7. rules'[k] = new /\ \A x \in Keys \ {k} : rules'[x] = rules[x]
    BY <2>1, <2>2 DEF Sound, StoreTypes, RowsAreSound
  <2>8. \A i \in DOMAIN new.credits : new.credits[i].path # <<>>
    <3>1. \A i \in DOMAIN rules[k].credits : rules[k].credits[i].path # <<>>
      BY <2>2 DEF Sound, StoreTypes, RowsAreSound
    <3>2. rules[k].credits \in Seq(Credits)
      BY <2>5
    <3> DEFINE c == rules[k].credits
    <3>3. \A i \in DOMAIN Append(c, credit) :
              \/ Append(c, credit)[i] = credit
              \/ i \in DOMAIN c /\ Append(c, credit)[i] = c[i]
      <4>1. c \in Seq(Credits)
        BY <3>2
      <4> HIDE DEF c
      <4>2. /\ DOMAIN Append(c, credit) = 1..(Len(c) + 1) /\ DOMAIN c = 1..Len(c) /\ Len(c) \in Nat
            /\ Append(c, credit)[Len(c) + 1] = credit
            /\ \A i \in 1..Len(c) : Append(c, credit)[i] = c[i]
        BY <2>4, <4>1
      <4>3. \A i \in 1..(Len(c) + 1) : i = Len(c) + 1 \/ i \in 1..Len(c)
        BY <4>2
      <4> QED BY <4>2, <4>3
    <3> QED BY <2>4, <2>6, <3>1, <3>3
  <2> HIDE DEF new
  <2>9. rules' \in [Keys -> [route : 0..MaxRoutes, steps : 0..MaxSteps, credits : Seq(Credits)]]
    BY <2>1, <2>6, <2>7 DEF Sound, StoreTypes, RowsAreSound
  <2>10. StoreTypes'
    BY <1>0, <2>6, <2>7, <2>8, <2>9 DEF Sound, StoreTypes, RowsAreSound
  <2> QED BY <2>1, <2>2, <2>6, <2>7, <2>10 DEF k, credit
<1> QED BY <1>1, <1>2

\* What the verdict tells.
LEMMA JudgedLog ==
    ASSUME Sound, NEW ready \in BOOLEAN, Judge(ready)
    PROVE  /\ log' \in Seq(Entries)
           /\ \/ ~IsOutcome(ready) /\ log' = log
              \/ IsOutcome(ready) /\ Ends(IF ready THEN "succeeded" ELSE "failed")
<1>1. CASE IsOutcome(ready)
  <2>1. Ends(IF ready THEN "succeeded" ELSE "failed")
    BY <1>1 DEF Judge, RecordOutcome
  <2>2. session # NoSession
    BY <1>1, NoSessionHasNoKey DEF IsOutcome
  <2>3. (IF ready THEN "succeeded" ELSE "failed") \in {"succeeded", "failed", "missed"}
    OBVIOUS
  <2> QED BY <1>1, <2>1, <2>2, <2>3, EndsAppends DEF Sound
<1>2. CASE ~IsOutcome(ready)
  BY <1>2 DEF Judge, RecordOutcome, Sound, HistoryTypes
<1> QED BY <1>1, <1>2

LEMMA JudgeKeepsSound ==
    ASSUME Sound, NEW ready \in BOOLEAN, Judge(ready)
    PROVE  Sound'
<1>1. /\ missed' = FALSE /\ doubt' = ~ready /\ request' = NoRequest /\ pc' = "decide"
      /\ UNCHANGED <<routes, page, used, replay>>
  BY DEF Judge
<1>2. StoreTypes' /\ log' \in Seq(Entries)
  BY JudgedStore, JudgedLog
<1>3. path' \in Seq(Steps)
  <2>1. CASE request.source = "reflex"
    BY <2>1, JudgedPath
  <2>2. CASE request.source # "reflex"
    BY <2>2 DEF Judge, Sound, HistoryTypes
  <2> QED BY <2>1, <2>2
<1>4. HistoryTypes'
  BY <1>1, <1>2, <1>3 DEF Sound, HistoryTypes
<1>5. WorkerTypes' /\ InSession' /\ InStep'
  <2>1. CASE /\ request.source # "reflex"
             /\ session' = session /\ blocked' = blocked /\ path' = path
    BY <1>1, <2>1, RequestsAreTyped DEF Sound, WorkerTypes, InSession, InStep
  <2>2. CASE /\ request.source = "reflex" /\ session.current + 1 < session.count
             /\ session' = [session EXCEPT !.current = session.current + 1, !.awaits = FALSE]
             /\ blocked' = blocked
    <3>1. session # NoSession /\ Len(path') = session.current + 1
          /\ \A j \in DOMAIN path' : path'[j].step = j - 1
      BY <2>2, JudgedPath
    <3>2. /\ session'.key = session.key /\ session'.current = session.current + 1
          /\ session'.count = session.count
          /\ session' \in [key : Keys \cup {Nothing}, current : Nat, awaits : BOOLEAN, count : Nat]
      <4> DEFINE T == [key : Keys \cup {Nothing}, current : Nat, awaits : BOOLEAN, count : Nat]
      <4>1. session \in T /\ session.current + 1 \in Nat
        BY DEF Sound, WorkerTypes
      <4> QED BY <2>2, <4>1
    <3>3. session.key \in Keys
      BY <3>1 DEF Sound, InSession
    <3>4. WorkerTypes'
      BY <1>1, <2>2, <3>2, RequestsAreTyped DEF Sound, WorkerTypes
    <3>5. InSession'
      BY <1>1, <2>2, <3>1, <3>2, <3>3, NoSessionHasNoKey, RequestsAreTyped DEF Sound, InSession
    <3> QED BY <3>1, <3>2, <3>4, <3>5 DEF InStep
  <2>3. CASE /\ request.source = "reflex" /\ session' = NoSession
             /\ blocked' = blocked \/ blocked' = blocked \cup {session.key}
    <3>1. session.key \in Keys
      BY <2>3 DEF Sound, InSession
    <3>2. blocked' \subseteq Keys
      BY <2>3, <3>1 DEF Sound, WorkerTypes
    <3> QED BY <1>1, <2>3, <3>2, NoSessionHasNoKey, RequestsAreTyped
            DEF Sound, WorkerTypes, InSession, InStep
  <2> QED BY <2>1, <2>2, <2>3, JudgedSession
<1> QED BY <1>2, <1>4, <1>5 DEF Sound
-----------------------------------------------------------------------------
LEMMA SoundInitially == Init => Sound
<1> SUFFICES ASSUME Init PROVE Sound
  OBVIOUS
<1>1. /\ NoRule \in [route : 0..MaxRoutes, steps : 0..MaxSteps, credits : Seq(Credits)]
      /\ NoRule.route = 0 /\ NoRule.steps = 0 /\ NoRule.credits = <<>>
  BY BoundsAreNumbers DEF NoRule
<1>2. StoreTypes
  BY <1>1, BoundsAreNumbers DEF Init, StoreTypes, RowsAreSound
<1>3. WorkerTypes /\ HistoryTypes
  <2>1. HistoryTypes
    BY BoundsAreNumbers, NothingJudged DEF Init, HistoryTypes
  <2>2. WorkerTypes
    BY NoSessionHasNoKey, RequestsAreTyped DEF Init, WorkerTypes
  <2> QED BY <2>1, <2>2
<1>4. InSession /\ InStep
  BY NoSessionHasNoKey, RequestsAreTyped DEF Init, InSession, InStep
<1> QED BY <1>2, <1>3, <1>4 DEF Sound

LEMMA SoundStep == Sound /\ [Next]_vars => Sound'
<1> SUFFICES ASSUME Sound, [Next]_vars PROVE Sound'
  OBVIOUS
<1>1. ASSUME NEW k \in Keys, SaveRule(k) PROVE Sound'
  BY <1>1, SavingKeepsSound
<1>2. ASSUME NEW k \in Keys, Hit(k) PROVE Sound'
  BY <1>2, HitKeepsSound
<1>3. CASE ClearRules
  BY <1>3, ClearingKeepsSound
<1>4. CASE Begin \/ End
  BY <1>4, FreshKeepsSound
<1>5. CASE Miss
  BY <1>5, MissKeepsSound
<1>6. CASE ChooseOther \/ Look \/ NothingToJudge \/ Act
  BY <1>6, OthersKeepSound
<1>7. ASSUME NEW ready \in BOOLEAN, Judge(ready) PROVE Sound'
  BY <1>7, JudgeKeepsSound
<1>8. CASE UNCHANGED vars
  BY <1>8 DEF Sound, StoreTypes, RowsAreSound, WorkerTypes, HistoryTypes, InSession, InStep, vars, store, worker, history
<1> QED BY <1>1, <1>2, <1>3, <1>4, <1>5, <1>6, <1>7, <1>8 DEF Next

LEMMA SoundAlways == Spec => []Sound
BY SoundInitially, SoundStep, PTL DEF Spec

\* Type correctness for any keys and bounds: among others a session stands on one
\* of its steps, and is never of a blocked rule.
THEOREM TypeCorrect == Spec => []TypeOK
<1>1. Sound => TypeOK
  <2> SUFFICES ASSUME Sound PROVE TypeOK
    OBVIOUS
  <2>1. ASSUME NEW k \in Keys
        PROVE  /\ rules[k].route \in 0..routes /\ rules[k].steps \in 0..MaxSteps
               /\ \A i \in DOMAIN rules[k].credits :
                      rules[k].credits[i].path \in Seq(Steps) /\ rules[k].credits[i].path # <<>>
    <3>1. /\ rules[k].route \in 0..MaxRoutes /\ rules[k].steps \in 0..MaxSteps
          /\ rules[k].credits \in Seq(Credits) /\ rules[k].route <= routes
          /\ \A i \in DOMAIN rules[k].credits : rules[k].credits[i].path # <<>>
      BY DEF Sound, StoreTypes, RowsAreSound
    <3>2. \A i \in DOMAIN rules[k].credits : rules[k].credits[i] \in Credits
      BY <3>1
    <3>3. routes \in Nat /\ MaxRoutes \in Nat
      BY BoundsAreNumbers DEF Sound, StoreTypes, RowsAreSound
    <3> QED BY <3>1, <3>2, <3>3 DEF Credits
  <2>2. /\ routes \in 0..MaxRoutes
        /\ pc \in {"idle", "decide", "act", "judge"} /\ page \in Scopes
        /\ session.key \in Keys \cup {Nothing}
        /\ blocked \subseteq Keys /\ used \subseteq Keys \X Scopes
        /\ missed \in BOOLEAN /\ doubt \in BOOLEAN
        /\ replay \in 0..MaxReplays /\ path \in Seq(Steps)
    BY DEF Sound, StoreTypes, RowsAreSound, WorkerTypes, HistoryTypes
  <2>3. log \in Seq([replay : 1..MaxReplays, key : Keys, end : {"succeeded", "failed", "missed"}])
    BY DEF Sound, HistoryTypes, Entries
  <2>4. /\ session # NoSession => session.current < session.count
        /\ session.key \notin blocked
        /\ request.source = "reflex" => request.key = session.key /\ session.awaits
    BY <2>2, NoSessionHasNoKey DEF Sound, InSession
  <2> QED BY <2>1, <2>2, <2>3, <2>4 DEF TypeOK
<1> QED BY <1>1, SoundAlways, PTL
-----------------------------------------------------------------------------
(* How replays end *)

\* A run begins or ends.
Renewed ==
    /\ log' = <<>> /\ session' = NoSession /\ replay' = replay
    /\ pc' = "idle" \/ session = NoSession

\* Nothing ends, and a replay in progress goes on.
GoesOn ==
    /\ UNCHANGED <<log, blocked, replay>>
    /\ session'.key = session.key /\ (session' = NoSession <=> session = NoSession)

\* A rule is hit: the one in progress, or a new one.
Replays ==
    /\ UNCHANGED <<log, blocked>>
    /\ session.key \in {session'.key, Nothing} /\ session'.key \in Keys \ blocked
    /\ \/ session = NoSession /\ replay' = replay + 1
       \/ session # NoSession /\ replay' = replay

\* A replay ends, and is blocked unless it succeeded.
IsOver ==
    /\ session # NoSession /\ session' = NoSession /\ replay' = replay
    /\ \E how \in {"succeeded", "failed", "missed"} :
           /\ Ends(how)
           /\ blocked' = IF how = "succeeded" THEN blocked ELSE blocked \cup {session.key}

LEMMA HowReplaysEnd ==
    ASSUME Sound, [Next]_vars
    PROVE  Renewed \/ GoesOn \/ Replays \/ IsOver
<1>1. ASSUME NEW k \in Keys, SaveRule(k) PROVE GoesOn
  BY <1>1, SavingKeepsSound DEF GoesOn, worker, history
<1>2. CASE ClearRules
  BY <1>2, ClearingKeepsSound DEF GoesOn, worker, history
<1>3. CASE Begin \/ End
  <2>1. pc' = "idle" \/ session = NoSession
    BY <1>3 DEF Begin, End, Sound, InSession
  <2> QED BY <1>3, <2>1, FreshKeepsSound DEF Renewed
<1>4. ASSUME NEW k \in Keys, Hit(k) PROVE Replays
  BY <1>4, HitKeepsSound DEF Replays
<1>5. CASE Miss
  <2>1. CASE session = NoSession
    BY <1>5, <2>1, MissKeepsSound DEF GoesOn
  <2>2. CASE session # NoSession
    BY <1>5, <2>2, MissKeepsSound DEF IsOver
  <2> QED BY <2>1, <2>2
<1>6. CASE ChooseOther \/ Look \/ NothingToJudge \/ Act
  BY <1>6, OthersKeepSound DEF GoesOn
<1>7. ASSUME NEW ready \in BOOLEAN, Judge(ready) PROVE GoesOn \/ IsOver
  <2>1. replay' = replay
    BY <1>7 DEF Judge
  <2>2. request.source = "reflex" => session # NoSession /\ session.key \in Keys
    BY NoSessionHasNoKey DEF Sound, InSession
  <2>3. CASE ~IsOutcome(ready)
    <3>1. log' = log
      BY <1>7, <2>3, JudgedLog
    <3>2. CASE session' = session /\ blocked' = blocked
      BY <2>1, <3>1, <3>2 DEF GoesOn
    <3>3. CASE /\ request.source = "reflex" /\ blocked' = blocked
               /\ session' = [session EXCEPT !.current = session.current + 1, !.awaits = FALSE]
      <4>1. session'.key = session.key
        BY <3>3 DEF Sound, WorkerTypes
      <4>2. session # NoSession /\ session' # NoSession
        BY <2>2, <3>3, <4>1, NoSessionHasNoKey
      <4> QED BY <2>1, <3>1, <3>3, <4>1, <4>2 DEF GoesOn
    <3> QED BY <1>7, <2>3, <3>2, <3>3, JudgedSession
  <2>4. CASE IsOutcome(ready)
    <3>1. Ends(IF ready THEN "succeeded" ELSE "failed")
      BY <1>7, <2>4, JudgedLog
    <3>2. CASE ready
      <4>1. session' = NoSession /\ blocked' = blocked /\ request.source = "reflex"
        BY <1>7, <2>4, <3>2, JudgedSession
      <4> QED BY <2>1, <2>2, <3>1, <3>2, <4>1 DEF IsOver
    <3>3. CASE ~ready
      <4>1. /\ session' = NoSession /\ blocked' = blocked \cup {session.key}
            /\ request.source = "reflex"
        BY <1>7, <2>4, <3>3, JudgedSession
      <4> QED BY <2>1, <2>2, <3>1, <3>3, <4>1 DEF IsOver
    <3> QED BY <3>2, <3>3
  <2> QED BY <2>3, <2>4
<1>8. CASE UNCHANGED vars
  BY <1>8 DEF GoesOn, vars, worker, history
<1> QED BY <1>1, <1>2, <1>3, <1>4, <1>5, <1>6, <1>7, <1>8 DEF Next

\* A rule whose replay was lost is not replayed again in its run, for any keys.
THEOREM LostRulesAreNotRetried == Spec => []NoRetry
<1>1. Init => NoRetry /\ LossesAreBlocked
  BY DEF Init, NoRetry, LossesAreBlocked
<1>2. Sound /\ NoRetry /\ LossesAreBlocked /\ [Next]_vars => (NoRetry /\ LossesAreBlocked)'
  <2> SUFFICES ASSUME Sound, NoRetry, LossesAreBlocked, [Next]_vars
               PROVE  (NoRetry /\ LossesAreBlocked)'
    OBVIOUS
  <2>1. log \in Seq(Entries)
    BY DEF Sound, HistoryTypes
  <2>2. \A i \in DOMAIN log : log[i].key \in Keys
    <3>1. \A i \in DOMAIN log : log[i] \in Entries
      BY <2>1
    <3> QED BY <3>1 DEF Entries
  <2>3. CASE Renewed
    BY <2>3 DEF Renewed, NoRetry, LossesAreBlocked
  <2>4. CASE GoesOn
    BY <2>4 DEF GoesOn, NoRetry, LossesAreBlocked
  <2>5. CASE Replays
    BY <2>5 DEF Replays, NoRetry, LossesAreBlocked
  <2>6. CASE IsOver
    <3>1. PICK how \in {"succeeded", "failed", "missed"} :
              /\ Ends(how)
              /\ blocked' = IF how = "succeeded" THEN blocked ELSE blocked \cup {session.key}
      BY <2>6 DEF IsOver
    <3>2. session # NoSession /\ session'.key = Nothing
      BY <2>6, NoSessionHasNoKey DEF IsOver
    <3>3. /\ DOMAIN log' = 1..(Len(log) + 1) /\ DOMAIN log = 1..Len(log) /\ Len(log) \in Nat
          /\ Len(log') = Len(log) + 1
          /\ \A i \in 1..Len(log) : log'[i] = log[i]
          /\ log'[Len(log) + 1].key = session.key /\ log'[Len(log) + 1].end = how
      BY <3>1, <3>2, EndsAppends DEF Sound
    <3>4. session.key \in Keys \ blocked
      BY <3>2 DEF Sound, InSession
    <3>5. \A i \in 1..(Len(log) + 1) : i \in 1..Len(log) \/ i = Len(log) + 1
      BY <3>3
    <3>6. LossesAreBlocked'
      BY <3>1, <3>3, <3>5 DEF LossesAreBlocked
    <3>7. \A i \in DOMAIN log' : log'[i].key \in Keys
      BY <2>2, <3>3, <3>4, <3>5
    <3>8. ASSUME NEW i \in DOMAIN log', log'[i].end # "succeeded",
                 NEW j \in i + 1..Len(log')
          PROVE  log'[j].key # log'[i].key
      <4>1. i \in 1..Len(log) /\ log'[i] = log[i] /\ log[i].end # "succeeded"
        BY <3>3, <3>5, <3>8
      <4>2. CASE j = Len(log) + 1
        <5>1. log[i].key \in blocked
          BY <3>3, <4>1 DEF LossesAreBlocked
        <5> QED BY <3>3, <3>4, <4>1, <4>2, <5>1
      <4>3. CASE j # Len(log) + 1
        <5>1. j \in i + 1..Len(log) /\ j \in 1..Len(log)
          BY <3>3, <4>1, <4>3
        <5> QED BY <3>3, <4>1, <5>1 DEF NoRetry
      <4> QED BY <4>2, <4>3
    <3>9. NoRetry'
      BY <3>2, <3>7, <3>8, NoSessionHasNoKey DEF NoRetry
    <3> QED BY <3>6, <3>9
  <2> QED BY <2>3, <2>4, <2>5, <2>6, HowReplaysEnd
<1> QED BY <1>1, <1>2, SoundAlways, PTL DEF Spec

\* A replay has one end, for any keys.
THEOREM ReplaysEndOnce == Spec => []OutcomeOnce
<1>1. Init => OutcomeOnce /\ EndsArePast
  BY DEF Init, OutcomeOnce, EndsArePast
<1>2. Sound /\ OutcomeOnce /\ EndsArePast /\ [Next]_vars => (OutcomeOnce /\ EndsArePast)'
  <2> SUFFICES ASSUME Sound, OutcomeOnce, EndsArePast, [Next]_vars
               PROVE  (OutcomeOnce /\ EndsArePast)'
    OBVIOUS
  <2>1. /\ replay \in Nat /\ log \in Seq(Entries)
        /\ \A i \in DOMAIN log : log[i].replay \in Nat
    <3>1. log \in Seq(Entries)
      BY DEF Sound, HistoryTypes
    <3>2. \A i \in DOMAIN log : log[i] \in Entries
      BY <3>1
    <3> QED BY <3>1, <3>2, BoundsAreNumbers DEF Sound, HistoryTypes, Entries
  <2>2. CASE Renewed
    BY <2>2 DEF Renewed, OutcomeOnce, EndsArePast
  <2>3. CASE GoesOn
    BY <2>3 DEF GoesOn, OutcomeOnce, EndsArePast
  <2>4. CASE Replays
    <3>1. CASE session = NoSession /\ replay' = replay + 1 /\ log' = log
      <4>1. \A i \in DOMAIN log : log[i].replay <= replay' /\ log[i].replay # replay'
        BY <2>1, <3>1 DEF EndsArePast
      <4> QED BY <3>1, <4>1 DEF OutcomeOnce, EndsArePast
    <3>2. CASE session # NoSession /\ replay' = replay /\ log' = log
      BY <3>2 DEF OutcomeOnce, EndsArePast
    <3> QED BY <2>4, <3>1, <3>2 DEF Replays
  <2>5. CASE IsOver
    <3>1. PICK how \in {"succeeded", "failed", "missed"} : Ends(how)
      BY <2>5 DEF IsOver
    <3>2. session # NoSession /\ session' = NoSession /\ replay' = replay
      BY <2>5 DEF IsOver
    <3>3. /\ DOMAIN log' = 1..(Len(log) + 1) /\ DOMAIN log = 1..Len(log) /\ Len(log) \in Nat
          /\ Len(log') = Len(log) + 1
          /\ \A i \in 1..Len(log) : log'[i] = log[i]
          /\ log'[Len(log) + 1].replay = replay
      BY <3>1, <3>2, EndsAppends DEF Sound
    <3>4. \A i \in 1..(Len(log) + 1) : i \in 1..Len(log) \/ i = Len(log) + 1
      BY <3>3
    <3>5. EndsArePast'
      BY <2>1, <3>2, <3>3, <3>4 DEF EndsArePast
    <3>6. ASSUME NEW i \in DOMAIN log', NEW j \in i + 1..Len(log')
          PROVE  log'[j].replay # log'[i].replay
      <4>1. i \in 1..Len(log) /\ log'[i] = log[i]
        BY <3>3, <3>4
      <4>2. CASE j = Len(log) + 1
        <5>1. log[i].replay # replay
          BY <3>2, <3>3, <4>1 DEF OutcomeOnce
        <5> QED BY <3>3, <4>1, <4>2, <5>1
      <4>3. CASE j # Len(log) + 1
        <5>1. j \in i + 1..Len(log) /\ j \in 1..Len(log)
          BY <3>3, <4>1, <4>3
        <5> QED BY <3>3, <4>1, <5>1 DEF OutcomeOnce
      <4> QED BY <4>2, <4>3
    <3> QED BY <3>2, <3>5, <3>6 DEF OutcomeOnce
  <2> QED BY <2>2, <2>3, <2>4, <2>5, HowReplaysEnd
<1> QED BY <1>1, <1>2, SoundAlways, PTL DEF Spec

\* While its run goes on, a replay ends only with a word in the log.
THEOREM EndsAreAlwaysTold == Spec => EndsAreTold
<1>1. Sound /\ [Next]_vars
          => [pc' # "idle" /\ session.key \notin {Nothing, session'.key}
                  => Len(log') = Len(log) + 1]_vars
  <2> SUFFICES ASSUME Sound, [Next]_vars,
                      pc' # "idle", session.key \notin {Nothing, session'.key}
               PROVE  Len(log') = Len(log) + 1
    OBVIOUS
  <2>1. session # NoSession
    BY NoSessionHasNoKey
  <2>2. IsOver
    BY <2>1, HowReplaysEnd DEF Renewed, GoesOn, Replays
  <2>3. PICK how \in {"succeeded", "failed", "missed"} : Ends(how)
    BY <2>2 DEF IsOver
  <2> QED BY <2>1, <2>3, EndsAppends DEF Sound
<1> QED BY <1>1, SoundAlways, PTL DEF Spec, EndsAreTold
-----------------------------------------------------------------------------
(* What outcomes are worth *)

\* A row is left alone, emptied, or gets the outcome of the replay in progress.
LEMMA RowsAfter ==
    ASSUME Sound, [Next]_vars, NEW k \in Keys
    PROVE  \/ rules'[k] = rules[k]
           \/ rules'[k].credits = <<>>
           \/ \E ready \in BOOLEAN :
                  /\ Judge(ready) /\ IsOutcome(ready) /\ k = session.key
                  /\ rules'[k].route = rules[k].route
                  /\ rules'[k].credits = Append(rules[k].credits,
                         [path |-> path', good |-> ready, count |-> session.count])
<1>1. ASSUME NEW x \in Keys, SaveRule(x)
      PROVE  rules'[k] = rules[k] \/ rules'[k].credits = <<>>
  BY <1>1, SavingKeepsSound
<1>2. CASE ClearRules
  BY <1>2, ClearingKeepsSound
<1>3. CASE Begin \/ End
  BY <1>3, FreshKeepsSound DEF store
<1>4. ASSUME NEW x \in Keys, Hit(x) PROVE rules' = rules
  BY <1>4, HitKeepsSound DEF store
<1>5. CASE Miss
  BY <1>5, MissKeepsSound DEF store
<1>6. CASE ChooseOther \/ Look \/ NothingToJudge \/ Act
  BY <1>6, OthersKeepSound DEF store
<1>7. ASSUME NEW ready \in BOOLEAN, Judge(ready)
      PROVE  \/ rules'[k] = rules[k]
             \/ /\ IsOutcome(ready) /\ k = session.key
                /\ rules'[k].route = rules[k].route
                /\ rules'[k].credits = Append(rules[k].credits,
                       [path |-> path', good |-> ready, count |-> session.count])
  BY <1>7, JudgedStore
<1>8. CASE UNCHANGED vars
  BY <1>8 DEF vars, store
<1> QED BY <1>1, <1>2, <1>3, <1>4, <1>5, <1>6, <1>7, <1>8 DEF Next

\* What an outcome adds to a row.
LEMMA CreditsAfter ==
    ASSUME Sound, NEW k \in Keys, NEW credit,
           rules'[k].credits = Append(rules[k].credits, credit)
    PROVE  /\ Len(rules[k].credits) \in Nat
           /\ DOMAIN rules[k].credits = 1..Len(rules[k].credits)
           /\ \A i \in DOMAIN rules'[k].credits :
                  \/ i \in DOMAIN rules[k].credits /\ rules'[k].credits[i] = rules[k].credits[i]
                  \/ i = Len(rules[k].credits) + 1 /\ rules'[k].credits[i] = credit
<1> DEFINE c == rules[k].credits
<1>1. c \in Seq(Credits)
  BY DEF Sound, StoreTypes
<1>2. \E S : c \in Seq(S) /\ credit \in S
  <2>1. c \in Seq(Credits \cup {credit})
    <3>1. /\ Len(c) \in Nat /\ DOMAIN c = 1..Len(c)
          /\ \A i \in 1..Len(c) : c[i] \in Credits \cup {credit}
          /\ c = [i \in 1..Len(c) |-> c[i]]
      BY <1>1
    <3> HIDE DEF c
    <3>2. c \in [1..Len(c) -> Credits \cup {credit}]
      BY <3>1
    <3> QED BY <3>1, <3>2
  <2> QED BY <2>1
<1> HIDE DEF c
<1>3. /\ Len(c) \in Nat /\ DOMAIN c = 1..Len(c)
      /\ DOMAIN Append(c, credit) = 1..(Len(c) + 1)
      /\ Append(c, credit)[Len(c) + 1] = credit
      /\ \A i \in 1..Len(c) : Append(c, credit)[i] = c[i]
  BY <1>2
<1>4. \A i \in 1..(Len(c) + 1) : i \in 1..Len(c) \/ i = Len(c) + 1
  BY <1>3
<1> QED BY <1>3, <1>4 DEF c

\* A success was earned by all steps of its route, in order, for any routes.
THEOREM CreditsAreEarned == Spec => []CreditIsEarned
<1>1. Init => CreditIsEarned
  BY DEF Init, CreditIsEarned, NoRule
<1>2. Sound /\ CreditIsEarned /\ [Next]_vars => CreditIsEarned'
  <2> DEFINE Earned(credit) ==
                 credit.good => /\ Len(credit.path) = credit.count
                                /\ \A j \in DOMAIN credit.path : credit.path[j].step = j - 1
  <2> SUFFICES ASSUME Sound, CreditIsEarned, [Next]_vars, NEW k \in Keys,
                      NEW i \in DOMAIN rules'[k].credits
               PROVE  Earned(rules'[k].credits[i])
    BY DEF CreditIsEarned
  <2>1. \A x \in DOMAIN rules[k].credits : Earned(rules[k].credits[x])
    BY DEF CreditIsEarned
  <2>2. CASE rules'[k] = rules[k]
    BY <2>1, <2>2
  <2>3. CASE rules'[k].credits = <<>>
    BY <2>3
  <2>4. ASSUME NEW ready \in BOOLEAN, Judge(ready), IsOutcome(ready),
               rules'[k].credits = Append(rules[k].credits,
                   [path |-> path', good |-> ready, count |-> session.count])
        PROVE  Earned(rules'[k].credits[i])
    <3> DEFINE credit == [path |-> path', good |-> ready, count |-> session.count]
    <3>1. request.source = "reflex"
      BY <2>4 DEF IsOutcome
    <3>2. /\ Len(path') = session.current + 1
          /\ \A j \in DOMAIN path' : path'[j].step = j - 1
      BY <2>4, <3>1, JudgedPath
    <3>3. ready => session.current + 1 = session.count
      BY <2>4, <3>1, JudgedSession
    <3>4. Earned(credit)
      BY <3>2, <3>3
    <3> HIDE DEF credit, Earned
    <3>5. rules'[k].credits = Append(rules[k].credits, credit)
      BY <2>4 DEF credit
    <3> QED BY <2>1, <3>4, <3>5, CreditsAfter
  <2> QED BY <2>2, <2>3, <2>4, RowsAfter
<1> QED BY <1>1, <1>2, SoundAlways, PTL DEF Spec

\* The replay in progress is of k, and began with a route its row no longer holds.
Foreign(k) ==
    /\ session.key = k
    /\ \/ path # <<>> /\ path[1].route # rules[k].route
       \/ path = <<>> /\ request.source = "reflex" /\ request.route # rules[k].route

\* The outcomes in the row of k that are of another route.
Mixed(k) ==
    {i \in DOMAIN rules[k].credits : rules[k].credits[i].path[1].route # rules[k].route}

\* The strengthening: at most one, and none while one may still come.
Unmixed ==
    \A k \in Keys : /\ \A i, j \in Mixed(k) : i = j
                    /\ Foreign(k) => Mixed(k) = {}

\* A replay becomes foreign only when its route is replaced, which empties the row.
LEMMA ForeignBefore ==
    ASSUME Sound, [Next]_vars, NEW k \in Keys, Foreign(k)', rules'[k] = rules[k]
    PROVE  Foreign(k)
<1>1. session'.key = k /\ k # Nothing
  BY NoSessionHasNoKey DEF Foreign
<1>2. session' # NoSession
  BY <1>1, NoSessionHasNoKey
<1>3. CASE UNCHANGED <<worker, history>>
  BY <1>3 DEF Foreign, worker, history
<1>4. ASSUME NEW x \in Keys, Hit(x) PROVE Foreign(k)
  <2>1. /\ x = k /\ session.key \in {k, Nothing}
        /\ request'.route = rules[k].route /\ request'.source = "reflex"
        /\ \/ session = NoSession /\ path' = <<>>
           \/ session # NoSession /\ path' = path
    BY <1>1, <1>4, HitKeepsSound
  <2>2. path' # <<>> /\ path'[1].route # rules[k].route
    BY <2>1 DEF Foreign
  <2>3. session # NoSession /\ path' = path
    BY <2>1, <2>2
  <2>4. session.key = k
    BY <2>1, <2>3 DEF Sound, InSession
  <2> QED BY <2>2, <2>3, <2>4 DEF Foreign
<1>5. CASE ChooseOther \/ Look \/ NothingToJudge \/ Act
  <2>1. /\ session' = session /\ path' = path
        /\ request'.source = "reflex" => request.source = "reflex" /\ request'.route = request.route
    BY <1>5, OthersKeepSound
  <2> QED BY <2>1 DEF Foreign
<1>6. ASSUME NEW ready \in BOOLEAN, Judge(ready) PROVE Foreign(k)
  <2>1. request'.source = "none"
    BY <1>6, RequestsAreTyped DEF Judge
  <2>2. path' # <<>> /\ path'[1].route # rules[k].route
    BY <2>1 DEF Foreign
  <2>3. CASE request.source # "reflex"
    BY <1>1, <1>6, <2>2, <2>3, JudgedSession DEF Foreign
  <2>4. CASE request.source = "reflex"
    <3>1. session' = [session EXCEPT !.current = session.current + 1, !.awaits = FALSE]
      BY <1>2, <1>6, <2>4, JudgedSession
    <3>2. session.key = k
      BY <1>1, <3>1 DEF Sound, WorkerTypes
    <3>3. path'[1].route = IF path = <<>> THEN request.route ELSE path[1].route
      BY <1>6, <2>4, JudgedPath
    <3> QED BY <2>2, <2>4, <3>2, <3>3 DEF Foreign
  <2> QED BY <2>3, <2>4
<1>7. ~(Begin \/ End) /\ ~Miss
  BY <1>2, FreshKeepsSound, MissKeepsSound
<1>8. ASSUME NEW x \in Keys, SaveRule(x) PROVE Foreign(k)
  BY <1>3, <1>8 DEF SaveRule
<1>9. CASE ClearRules \/ UNCHANGED vars
  BY <1>3, <1>9 DEF ClearRules, vars
<1> QED BY <1>4, <1>5, <1>6, <1>7, <1>8, <1>9 DEF Next

\* An outcome that is counted for another route is that of a foreign replay.
LEMMA OutcomesMix ==
    ASSUME Sound, NEW ready \in BOOLEAN, Judge(ready), IsOutcome(ready),
           path'[1].route # rules[session.key].route
    PROVE  Foreign(session.key)
<1>1. request.source = "reflex"
  BY DEF IsOutcome
<1>2. path'[1].route = IF path = <<>> THEN request.route ELSE path[1].route
  BY <1>1, JudgedPath
<1> QED BY <1>1, <1>2 DEF Foreign

\* In the row of a rule there is at most one outcome of another route, for any
\* number of replacements at any point.
THEOREM RoutesMixAtMostOnce == Spec => []RoutesMixOnce
<1>1. Init => Unmixed
  <2> SUFFICES ASSUME Init, NEW k \in Keys PROVE Mixed(k) = {}
    BY DEF Unmixed
  <2>1. rules[k].credits = <<>>
    BY DEF Init, NoRule
  <2> QED BY <2>1 DEF Mixed
<1>2. Sound /\ Unmixed /\ [Next]_vars => Unmixed'
  <2> SUFFICES ASSUME Sound, Unmixed, [Next]_vars, NEW k \in Keys
               PROVE  /\ \A i, j \in Mixed(k)' : i = j
                      /\ Foreign(k)' => Mixed(k)' = {}
    BY DEF Unmixed
  <2>1. CASE rules'[k] = rules[k]
    <3>1. Mixed(k)' = Mixed(k)
      BY <2>1 DEF Mixed
    <3>2. Foreign(k)' => Foreign(k)
      BY <2>1, ForeignBefore
    <3> QED BY <3>1, <3>2 DEF Unmixed
  <2>2. CASE rules'[k].credits = <<>>
    <3>1. Mixed(k)' = {}
      BY <2>2 DEF Mixed
    <3> QED BY <3>1
  <2>3. ASSUME NEW ready \in BOOLEAN, Judge(ready), IsOutcome(ready), k = session.key,
               rules'[k].route = rules[k].route,
               rules'[k].credits = Append(rules[k].credits,
                   [path |-> path', good |-> ready, count |-> session.count])
        PROVE  /\ \A i, j \in Mixed(k)' : i = j
               /\ Foreign(k)' => Mixed(k)' = {}
    <3> DEFINE credit == [path |-> path', good |-> ready, count |-> session.count]
               n == Len(rules[k].credits) + 1
    <3>1. session' = NoSession
      BY <2>3, JudgedSession DEF IsOutcome
    <3>2. ~Foreign(k)'
      BY <3>1, NoSessionHasNoKey DEF Foreign
    <3>3. /\ DOMAIN rules[k].credits = 1..Len(rules[k].credits) /\ Len(rules[k].credits) \in Nat
          /\ \A i \in DOMAIN rules'[k].credits :
                 \/ i \in DOMAIN rules[k].credits /\ rules'[k].credits[i] = rules[k].credits[i]
                 \/ i = n /\ rules'[k].credits[i] = credit
      BY <2>3, CreditsAfter
    <3>4. credit.path = path'
      OBVIOUS
    <3>5. CASE path'[1].route # rules[k].route
      <4>1. Mixed(k) = {}
        BY <2>3, <3>5, OutcomesMix DEF Unmixed
      <4>2. \A i \in Mixed(k)' : i = n
        BY <2>3, <3>3, <4>1 DEF Mixed
      <4> QED BY <3>2, <4>2
    <3>6. CASE path'[1].route = rules[k].route
      <4> HIDE DEF credit
      <4>1. \A i \in Mixed(k)' : i \in Mixed(k)
        BY <2>3, <3>3, <3>4, <3>6 DEF Mixed
      <4> QED BY <3>2, <4>1 DEF Unmixed
    <3> QED BY <3>5, <3>6
  <2> QED BY <2>1, <2>2, <2>3, RowsAfter
<1>3. Unmixed => RoutesMixOnce
  <2> SUFFICES ASSUME Unmixed, NEW k \in Keys PROVE Cardinality(Mixed(k)) <= 1
    BY DEF RoutesMixOnce, Mixed
  <2>1. CASE Mixed(k) = {}
    BY <2>1, FS_EmptySet
  <2>2. CASE Mixed(k) # {}
    <3>1. PICK i \in Mixed(k) : TRUE
      BY <2>2
    <3>2. Mixed(k) = {i}
      BY <3>1 DEF Unmixed
    <3>3. Cardinality({i}) = 1
      BY FS_Singleton
    <3> HIDE DEF Mixed
    <3> QED BY <3>2, <3>3
  <2> QED BY <2>1, <2>2
<1> QED BY <1>1, <1>2, <1>3, SoundAlways, PTL DEF Spec
=============================================================================
