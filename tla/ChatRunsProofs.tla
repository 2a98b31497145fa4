---------------------------- MODULE ChatRunsProofs ----------------------------
(***************************************************************************)
(* Proofs about ChatRuns, for any number of runs and any limit of the      *)
(* registry.                                                               *)
(*                                                                         *)
(* Most steps of a run tell the registry something, and what that does to  *)
(* the other runs (it may forget one) does not depend on the step.  So     *)
(* Told says it once; the actions of a thread are then told apart only by  *)
(* where they leave the thread.                                            *)
(***************************************************************************)
EXTENDS ChatRuns, SequenceTheorems, TLAPS

ChatTypes ==
    /\ stream \in [Runs -> {"none", "greeted", "open", "gone", "done"}]
    /\ at \in [Runs -> {"none", "starting", "ready", "node", "waiting", "answered", "ended"}
                           \cup InSession]
    /\ raised \in [Runs -> {"nothing", "cancelled", "partial"}]
    /\ outcome \in [Runs -> Ended \cup {"none", "waiting_input"}]
    /\ nodes \in [Runs -> 0..MaxNodes]

RegistryTypes ==
    /\ entry \in [Runs -> [status : Statuses \cup {"none"}, cancel : BOOLEAN]]
    /\ order \in Seq(Runs)
    /\ \A r \in Runs : r \in Registered(order) <=> entry[r].status # "none"
    /\ promised \subseteq Registered(order)

VisionTypes ==
    /\ lock \in Runs \cup {NoRun, Closer} /\ resource \in WarmUps \cup {NoRun}
    /\ warming \subseteq WarmUps \cup {"worker"}
    /\ app \in {"up", "stopping", "saving", "closed"}

LEMMA Types == TypeOK <=> ChatTypes /\ RegistryTypes /\ VisionTypes
BY DEF TypeOK, ChatTypes, RegistryTypes, VisionTypes
-----------------------------------------------------------------------------
(* The registry *)

\* Registering a run keeps the order a sequence of runs, with this run in it
\* and no other that was not in it.
LEMMA OrderAfter ==
    ASSUME NEW o \in Seq(Runs), NEW r \in Runs
    PROVE  /\ Append(o, r) \in Seq(Runs)
           /\ Registered(Append(o, r)) = Registered(o) \cup {r}
           /\ Trim(Append(o, r)) \in Seq(Runs)
           /\ Registered(Trim(Append(o, r))) \subseteq Registered(o) \cup {r}
           /\ r \in Registered(Trim(Append(o, r)))
<1> DEFINE a == Append(o, r)
           n == Len(a)
<1>1. /\ a \in Seq(Runs) /\ n = Len(o) + 1 /\ n \in Nat /\ Len(o) \in Nat
      /\ a[n] = r /\ \A i \in 1..Len(o) : a[i] = o[i]
      /\ DOMAIN a = 1..n /\ DOMAIN o = 1..Len(o)
  OBVIOUS
<1>2. Registered(a) = Registered(o) \cup {r}
  <2>1. ASSUME NEW i \in DOMAIN a PROVE a[i] \in Registered(o) \cup {r}
    BY <1>1, <2>1 DEF Registered
  <2>2. ASSUME NEW i \in DOMAIN o PROVE o[i] \in Registered(a)
    BY <1>1, <2>2 DEF Registered
  <2>3. r \in Registered(a)
    BY <1>1 DEF Registered
  <2> QED BY <2>1, <2>2, <2>3 DEF Registered
<1>3. CASE n > Limit
  <2> DEFINE t == SubSeq(a, n - Limit + 1, n)
  <2>1. Limit \in Nat /\ Limit > 0
    BY LimitIsPositive
  <2>2. n - Limit + 1 \in 1..n /\ n \in 1..n
    BY <2>1, <1>1, <1>3
  <2>3. /\ t \in Seq(Runs) /\ Len(t) = Limit
        /\ \A i \in 1..Limit : t[i] = a[n - Limit + i]
    <3> HIDE DEF a, n
    <3>1. \A i \in 1..n : a[i] \in Runs
      BY <1>1
    <3>2. t = [i \in 1..(n - (n - Limit + 1) + 1) |-> a[i + (n - Limit + 1) - 1]]
      BY <1>1, <2>1, <2>2
    <3>3. n - (n - Limit + 1) + 1 = Limit
      BY <1>1, <2>1
    <3>4. \A i \in 1..Limit : i + (n - Limit + 1) - 1 \in 1..n /\ i + (n - Limit + 1) - 1 = n - Limit + i
      BY <1>1, <2>1, <1>3
    <3>5. t = [i \in 1..Limit |-> a[n - Limit + i]]
      BY <3>2, <3>3, <3>4
    <3> HIDE DEF t
    <3>6. t \in [1..Limit -> Runs]
      BY <3>1, <3>4, <3>5
    <3> QED BY <3>5, <3>6, <2>1
  <2>4. Trim(a) = t
    BY <1>3 DEF Trim
  <2>5. DOMAIN t = 1..Limit
    BY <2>3
  <2>6. Registered(t) \subseteq Registered(a)
    <3> SUFFICES ASSUME NEW i \in 1..Limit PROVE t[i] \in Registered(a)
      BY <2>5 DEF Registered
    <3>1. n - Limit + i \in DOMAIN a
      BY <1>1, <1>3, <2>1
    <3> QED BY <3>1, <2>3 DEF Registered
  <2>7. r \in Registered(t)
    <3>1. Limit \in 1..Limit /\ n - Limit + Limit = n
      BY <2>1, <1>1
    <3>2. t[Limit] = r
      BY <3>1, <2>3, <1>1
    <3> QED BY <3>1, <3>2, <2>5 DEF Registered
  <2> HIDE DEF t, a
  <2> QED BY <1>1, <1>2, <2>3, <2>4, <2>6, <2>7 DEF a
<1>4. CASE ~(n > Limit)
  <2>1. Trim(a) = a
    BY <1>4 DEF Trim
  <2> HIDE DEF a
  <2> QED BY <1>1, <1>2, <2>1 DEF a
<1> QED BY <1>3, <1>4

\* What telling the registry the status of r does: other runs keep their entry
\* or lose it together with the promise made to them.
Told(r, status) ==
    /\ RegistryTypes'
    /\ entry'[r].status = status
    /\ \A x \in Runs \ {r} : entry'[x] = entry[x] \/ entry'[x] = NoEntry
    /\ \A x \in Runs \ {r} : x \in promised' => entry'[x] = entry[x]
    /\ promised' \subseteq promised
    /\ Registered(order') \subseteq Registered(order) \cup {r}

LEMMA Registering ==
    ASSUME RegistryTypes, NEW r \in Runs, NEW status \in Statuses, Register(r, status)
    PROVE  Told(r, status) /\ promised' \subseteq promised
<1> DEFINE new == [status |-> status, cancel |-> FALSE]
<1>1. order \in Seq(Runs)
  BY DEF RegistryTypes
<1>2. /\ order' \in Seq(Runs) /\ Registered(order') \subseteq Registered(order) \cup {r}
      /\ r \in Registered(order')
  BY <1>1, OrderAfter DEF Register
<1>3. /\ entry'[r] = new
      /\ \A x \in Runs \ {r} :
             entry'[x] = IF x \in Registered(order') THEN entry[x] ELSE NoEntry
      /\ entry' \in [Runs -> [status : Statuses \cup {"none"}, cancel : BOOLEAN]]
  <2>1. new \in [status : Statuses \cup {"none"}, cancel : BOOLEAN]
    OBVIOUS
  <2>2. NoEntry \in [status : Statuses \cup {"none"}, cancel : BOOLEAN]
    BY DEF NoEntry
  <2>3. \A x \in Runs : entry[x] \in [status : Statuses \cup {"none"}, cancel : BOOLEAN]
    BY DEF RegistryTypes
  <2>4. entry' = [x \in Runs |-> IF x = r THEN new
                      ELSE IF x \in Registered(order') THEN entry[x] ELSE NoEntry]
    BY DEF Register
  <2> HIDE DEF new
  <2> QED BY <2>1, <2>2, <2>3, <2>4
<1>4. promised' = promised \cap Registered(order')
  BY DEF Register
<1>5. new.status = status /\ status # "none" /\ NoEntry.status = "none"
  BY DEF NoEntry, Statuses, Ended
<1>6. \A x \in Runs : x \in Registered(order) <=> entry[x].status # "none"
  BY DEF RegistryTypes
<1> HIDE DEF new
<1>7. \A x \in Runs : x \in Registered(order') <=> entry'[x].status # "none"
  BY <1>2, <1>3, <1>5, <1>6
<1>8. promised' \subseteq Registered(order') /\ promised' \subseteq promised
  BY <1>4
<1>9. RegistryTypes'
  BY <1>2, <1>3, <1>7, <1>8 DEF RegistryTypes
<1>10. \A x \in Runs \ {r} : x \in promised' => entry'[x] = entry[x]
  BY <1>3, <1>8
<1> QED BY <1>2, <1>3, <1>5, <1>8, <1>9, <1>10 DEF Told

LEMMA EventTells ==
    ASSUME RegistryTypes, NEW r \in Runs, NEW status \in Statuses, Event(r, status)
    PROVE  Told(r, status) /\ (r \in promised' => entry'[r].cancel = entry[r].cancel)
<1>1. CASE r \in Registered(order)
  <2>1. entry' = [entry EXCEPT ![r].status = status] /\ UNCHANGED <<order, promised>>
    BY <1>1 DEF Event
  <2>2. \A x \in Runs : entry[x] \in [status : Statuses \cup {"none"}, cancel : BOOLEAN]
    BY DEF RegistryTypes
  <2>3. /\ entry'[r] = [entry[r] EXCEPT !.status = status]
        /\ \A x \in Runs \ {r} : entry'[x] = entry[x]
    BY <2>1 DEF RegistryTypes
  <2>4. /\ entry'[r].status = status /\ entry'[r].cancel = entry[r].cancel
        /\ entry'[r] \in [status : Statuses \cup {"none"}, cancel : BOOLEAN]
    BY <2>2, <2>3
  <2>5. entry' \in [Runs -> [status : Statuses \cup {"none"}, cancel : BOOLEAN]]
    BY <2>1, <2>2, <2>3, <2>4 DEF RegistryTypes
  <2>6. status # "none"
    BY DEF Statuses, Ended
  <2>7. RegistryTypes'
    BY <1>1, <2>1, <2>3, <2>4, <2>5, <2>6 DEF RegistryTypes
  <2> QED BY <2>1, <2>3, <2>4, <2>7 DEF Told
<1>2. CASE r \notin Registered(order)
  <2>1. Register(r, status)
    BY <1>2 DEF Event
  <2>2. Told(r, status) /\ promised' \subseteq promised
    BY <2>1, Registering
  <2>3. r \notin promised
    BY <1>2 DEF RegistryTypes
  <2> QED BY <2>2, <2>3
<1> QED BY <1>1, <1>2

LEMMA FinishTells ==
    ASSUME RegistryTypes, NEW r \in Runs, NEW status \in Statuses, Finish(r, status)
    PROVE  Told(r, status)
<1> DEFINE new == [status |-> status, cancel |-> status = "cancelled"]
<1>1. /\ entry' = [entry EXCEPT ![r] = new] /\ UNCHANGED promised
      /\ order' = IF r \in Registered(order) THEN order ELSE Append(order, r)
  BY DEF Finish
<1>2. /\ order' \in Seq(Runs) /\ Registered(order') = Registered(order) \cup {r}
  <2>1. order \in Seq(Runs)
    BY DEF RegistryTypes
  <2> QED BY <1>1, <2>1, OrderAfter
<1>3. new \in [status : Statuses \cup {"none"}, cancel : BOOLEAN] /\ new.status = status
  <2>1. (status = "cancelled") \in BOOLEAN
    OBVIOUS
  <2> QED BY <2>1
<1>4. status # "none"
  BY DEF Statuses, Ended
<1> HIDE DEF new
<1>5. entry'[r] = new /\ \A x \in Runs \ {r} : entry'[x] = entry[x]
  BY <1>1 DEF RegistryTypes
<1>6. entry' \in [Runs -> [status : Statuses \cup {"none"}, cancel : BOOLEAN]]
  BY <1>1, <1>3 DEF RegistryTypes
<1>7. RegistryTypes'
  BY <1>1, <1>2, <1>3, <1>4, <1>5, <1>6 DEF RegistryTypes
<1> QED BY <1>1, <1>2, <1>3, <1>5, <1>7 DEF Told

\* An accepted cancellation marks the entry and nothing else.
LEMMA CancelMarks ==
    ASSUME RegistryTypes, NEW r \in Runs, r \in Registered(order), RequestCancel(r)
    PROVE  /\ RegistryTypes'
           /\ order' = order /\ promised' = promised \cup {r}
           /\ entry'[r].status = entry[r].status /\ entry'[r].cancel
           /\ \A x \in Runs \ {r} : entry'[x] = entry[x]
<1>1. /\ entry' = [entry EXCEPT ![r].cancel = TRUE] /\ order' = order
      /\ promised' = promised \cup {r}
  BY DEF RequestCancel
<1>2. \A x \in Runs : entry[x] \in [status : Statuses \cup {"none"}, cancel : BOOLEAN]
  BY DEF RegistryTypes
<1>3. /\ entry'[r] = [entry[r] EXCEPT !.cancel = TRUE]
      /\ \A x \in Runs \ {r} : entry'[x] = entry[x]
  BY <1>1 DEF RegistryTypes
<1>4. /\ entry'[r].status = entry[r].status /\ entry'[r].cancel = TRUE
      /\ entry'[r] \in [status : Statuses \cup {"none"}, cancel : BOOLEAN]
  BY <1>2, <1>3
<1>5. entry' \in [Runs -> [status : Statuses \cup {"none"}, cancel : BOOLEAN]]
  BY <1>1, <1>2, <1>3, <1>4 DEF RegistryTypes
<1>6. RegistryTypes'
  BY <1>1, <1>3, <1>4, <1>5 DEF RegistryTypes
<1> QED BY <1>1, <1>3, <1>4, <1>6
-----------------------------------------------------------------------------
(* One step of a thread *)

\* It speaks to the registry by events only.
LEMMA ThreadTells ==
    ASSUME ChatTypes, NEW r \in Runs, Thread(r)
    PROVE  \/ UNCHANGED registry
           \/ \E status \in Statuses : Event(r, status)
<1> Ended \subseteq Statuses /\ {"queued", "running", "waiting_input"} \subseteq Statuses
  BY DEF Statuses
<1> {"completed", "partial", "failed", "cancelled"} \subseteq Statuses
  BY DEF Statuses, Ended
<1>1. CASE Begin(r)
  BY <1>1 DEF Begin, Goes, EndsWith, registry
<1>2. CASE Halt(r)
  BY <1>2 DEF Halt, Goes, EndsWith, CancelRequested, registry
<1>3. CASE BeginNode(r)
  BY <1>3 DEF BeginNode, Goes, CancelRequested, registry
<1>4. CASE EndNode(r)
  BY <1>4 DEF EndNode, Goes, EndsWith, Settles, registry
<1>5. CASE Ask(r)
  BY <1>5 DEF Ask, Goes, EndsWith, registry
<1>6. CASE Answer(r)
  BY <1>6 DEF Answer, Goes, registry
<1>7. CASE Return(r)
  BY <1>7 DEF Return, Goes, EndsWith, registry
<1>8. CASE FailNode(r)
  BY <1>8 DEF FailNode, Goes, EndsWith, CancelRequested, registry
<1>9. CASE Enter(r)
  BY <1>9 DEF Enter, Goes, registry
<1>10. CASE Turned(r)
  BY <1>10 DEF Turned, Goes, EndsWith, Settles, registry
<1>11. CASE Prepare(r)
  BY <1>11 DEF Prepare, Goes, registry
<1>12. CASE OpenBrowser(r)
  BY <1>12 DEF OpenBrowser, Goes, registry
<1>13. CASE Barrier(r)
  BY <1>13 DEF Barrier, Goes, registry
<1>14. CASE Step(r)
  BY <1>14 DEF Step, CancelRequested, registry
<1>15. CASE StopActing(r)
  BY <1>15 DEF StopActing, Goes, CancelRequested, registry
<1>16. CASE Leave(r)
  BY <1>16 DEF Leave, Goes, EndsWith, Settles, registry, ChatTypes
<1> QED BY <1>1, <1>2, <1>3, <1>4, <1>5, <1>6, <1>7, <1>8, <1>9, <1>10, <1>11, <1>12, <1>13, <1>14, <1>15, <1>16 DEF Thread

\* It moves its own run only, and neither before it was started nor after its end.
LEMMA ThreadKeeps ==
    ASSUME ChatTypes, NEW r \in Runs, Thread(r)
    PROVE  /\ at[r] \notin {"none", "ended"}
           /\ \A x \in Runs \ {r} : at'[x] = at[x] /\ outcome'[x] = outcome[x] /\ nodes'[x] = nodes[x]
           /\ stream' = stream /\ app' = app
<1>1. CASE Begin(r)
  BY <1>1 DEF Begin, Goes, EndsWith, ChatTypes, InSession
<1>2. CASE Halt(r)
  BY <1>2 DEF Halt, Goes, EndsWith, CancelRequested, ChatTypes, InSession
<1>3. CASE BeginNode(r)
  BY <1>3 DEF BeginNode, Goes, CancelRequested, ChatTypes, InSession
<1>4. CASE EndNode(r)
  BY <1>4 DEF EndNode, Goes, EndsWith, Settles, ChatTypes, InSession
<1>5. CASE Ask(r)
  BY <1>5 DEF Ask, Goes, EndsWith, ChatTypes, InSession
<1>6. CASE Answer(r)
  BY <1>6 DEF Answer, Goes, ChatTypes, InSession
<1>7. CASE Return(r)
  BY <1>7 DEF Return, Goes, EndsWith, ChatTypes, InSession
<1>8. CASE FailNode(r)
  BY <1>8 DEF FailNode, Goes, EndsWith, CancelRequested, ChatTypes, InSession
<1>9. CASE Enter(r)
  BY <1>9 DEF Enter, Goes, ChatTypes, InSession
<1>10. CASE Turned(r)
  BY <1>10 DEF Turned, Goes, EndsWith, Settles, ChatTypes, InSession
<1>11. CASE Prepare(r)
  BY <1>11 DEF Prepare, Goes, ChatTypes, InSession
<1>12. CASE OpenBrowser(r)
  BY <1>12 DEF OpenBrowser, Goes, ChatTypes, InSession
<1>13. CASE Barrier(r)
  BY <1>13 DEF Barrier, Goes, ChatTypes, InSession
<1>14. CASE Step(r)
  BY <1>14 DEF Step, CancelRequested, ChatTypes, InSession
<1>15. CASE StopActing(r)
  BY <1>15 DEF StopActing, Goes, CancelRequested, ChatTypes, InSession
<1>16. CASE Leave(r)
  BY <1>16 DEF Leave, Goes, EndsWith, Settles, ChatTypes, InSession
<1> QED BY <1>1, <1>2, <1>3, <1>4, <1>5, <1>6, <1>7, <1>8, <1>9, <1>10, <1>11, <1>12, <1>13, <1>14, <1>15, <1>16 DEF Thread

LEMMA ThreadChatTypes ==
    ASSUME ChatTypes, NEW r \in Runs, Thread(r)
    PROVE  ChatTypes'
<1> BoundIsNumber /\ 0..MaxNodes = {n \in Nat : n <= MaxNodes}
  BY BoundIsNumber
<1>1. CASE Begin(r)
  BY <1>1 DEF Begin, Goes, EndsWith, ChatTypes, InSession, Ended
<1>2. CASE Halt(r)
  BY <1>2 DEF Halt, Goes, EndsWith, CancelRequested, ChatTypes, InSession, Ended
<1>3. CASE BeginNode(r)
  BY <1>3 DEF BeginNode, Goes, CancelRequested, ChatTypes, InSession, Ended
<1>4. CASE EndNode(r)
  BY <1>4 DEF EndNode, Goes, EndsWith, Settles, ChatTypes, InSession, Ended
<1>5. CASE Ask(r)
  BY <1>5 DEF Ask, Goes, EndsWith, ChatTypes, InSession, Ended
<1>6. CASE Answer(r)
  BY <1>6 DEF Answer, Goes, ChatTypes, InSession, Ended
<1>7. CASE Return(r)
  BY <1>7 DEF Return, Goes, EndsWith, ChatTypes, InSession, Ended
<1>8. CASE FailNode(r)
  BY <1>8 DEF FailNode, Goes, EndsWith, CancelRequested, ChatTypes, InSession, Ended
<1>9. CASE Enter(r)
  BY <1>9 DEF Enter, Goes, ChatTypes, InSession, Ended
<1>10. CASE Turned(r)
  BY <1>10 DEF Turned, Goes, EndsWith, Settles, ChatTypes, InSession, Ended
<1>11. CASE Prepare(r)
  BY <1>11 DEF Prepare, Goes, ChatTypes, InSession, Ended
<1>12. CASE OpenBrowser(r)
  BY <1>12 DEF OpenBrowser, Goes, ChatTypes, InSession, Ended
<1>13. CASE Barrier(r)
  BY <1>13 DEF Barrier, Goes, ChatTypes, InSession, Ended
<1>14. CASE Step(r)
  BY <1>14 DEF Step, CancelRequested, ChatTypes, InSession, Ended
<1>15. CASE StopActing(r)
  BY <1>15 DEF StopActing, Goes, CancelRequested, ChatTypes, InSession, Ended
<1>16. CASE Leave(r)
  BY <1>16 DEF Leave, Goes, EndsWith, Settles, ChatTypes, InSession, Ended
<1> QED BY <1>1, <1>2, <1>3, <1>4, <1>5, <1>6, <1>7, <1>8, <1>9, <1>10, <1>11, <1>12, <1>13, <1>14, <1>15, <1>16 DEF Thread

LEMMA ThreadVisionTypes ==
    ASSUME VisionTypes, NEW r \in Runs, Thread(r)
    PROVE  VisionTypes'
<1>1. CASE Begin(r)
  BY <1>1 DEF Begin, VisionTypes, vision
<1>2. CASE Halt(r)
  BY <1>2 DEF Halt, VisionTypes, vision
<1>3. CASE BeginNode(r)
  BY <1>3 DEF BeginNode, VisionTypes, vision
<1>4. CASE EndNode(r)
  BY <1>4 DEF EndNode, VisionTypes, vision
<1>5. CASE Ask(r)
  BY <1>5 DEF Ask, VisionTypes, vision
<1>6. CASE Answer(r)
  BY <1>6 DEF Answer, VisionTypes, vision
<1>7. CASE Return(r)
  BY <1>7 DEF Return, VisionTypes, vision
<1>8. CASE FailNode(r)
  BY <1>8 DEF FailNode, VisionTypes, vision
<1>9. CASE Enter(r)
  BY <1>9 DEF Enter, VisionTypes, vision
<1>10. CASE Turned(r)
  BY <1>10 DEF Turned, VisionTypes, vision
<1>11. CASE Prepare(r)
  BY <1>11 DEF Prepare, VisionTypes, vision
<1>12. CASE OpenBrowser(r)
  BY <1>12 DEF OpenBrowser, VisionTypes, vision
<1>13. CASE Barrier(r)
  BY <1>13 DEF Barrier, VisionTypes, vision
<1>14. CASE Step(r)
  BY <1>14 DEF Step, VisionTypes, vision
<1>15. CASE StopActing(r)
  BY <1>15 DEF StopActing, VisionTypes, vision
<1>16. CASE Leave(r)
  BY <1>16 DEF Leave, VisionTypes, vision
<1> QED BY <1>1, <1>2, <1>3, <1>4, <1>5, <1>6, <1>7, <1>8, <1>9, <1>10, <1>11, <1>12, <1>13, <1>14, <1>15, <1>16 DEF Thread

LEMMA ThreadTypes ==
    ASSUME TypeOK, NEW r \in Runs, Thread(r)
    PROVE  TypeOK'
<1>1. ChatTypes /\ RegistryTypes /\ VisionTypes
  BY Types
<1>2. ChatTypes' /\ VisionTypes'
  BY <1>1, ThreadChatTypes, ThreadVisionTypes
<1>3. RegistryTypes'
  <2>1. CASE UNCHANGED registry
    BY <1>1, <2>1 DEF RegistryTypes, registry, Registered
  <2>2. CASE \E status \in Statuses : Event(r, status)
    BY <1>1, <2>2, EventTells DEF Told
  <2> QED BY <1>1, <2>1, <2>2, ThreadTells
<1> QED BY <1>2, <1>3 DEF TypeOK, ChatTypes, RegistryTypes, VisionTypes
-----------------------------------------------------------------------------
(* Types *)

\* A run whose thread has ended, or told how it ends, has an outcome.
OutcomeIsKnown == \A r \in Runs : at[r] \in {"answered", "ended"} => outcome[r] # "none"

\* A run is registered by its request, and its thread comes later.
RequestComesFirst ==
    \A r \in Runs : /\ stream[r] \in {"none", "greeted"} => at[r] = "none"
                    /\ stream[r] = "none" => r \notin Registered(order)

Life == TypeOK /\ OutcomeIsKnown /\ RequestComesFirst

LEMMA ThreadKnows ==
    ASSUME ChatTypes, NEW r \in Runs, Thread(r), OutcomeIsKnown
    PROVE  at'[r] \in {"answered", "ended"} => outcome'[r] # "none"
<1>1. CASE Begin(r)
  BY <1>1 DEF Begin, Goes, EndsWith, ChatTypes, InSession, OutcomeIsKnown
<1>2. CASE Halt(r)
  BY <1>2 DEF Halt, Goes, EndsWith, CancelRequested, ChatTypes, InSession, OutcomeIsKnown
<1>3. CASE BeginNode(r)
  BY <1>3 DEF BeginNode, Goes, CancelRequested, ChatTypes, InSession, OutcomeIsKnown
<1>4. CASE EndNode(r)
  BY <1>4 DEF EndNode, Goes, EndsWith, Settles, ChatTypes, InSession, OutcomeIsKnown
<1>5. CASE Ask(r)
  BY <1>5 DEF Ask, Goes, EndsWith, ChatTypes, InSession, OutcomeIsKnown
<1>6. CASE Answer(r)
  BY <1>6 DEF Answer, Goes, ChatTypes, InSession, OutcomeIsKnown
<1>7. CASE Return(r)
  BY <1>7 DEF Return, Goes, EndsWith, ChatTypes, InSession, OutcomeIsKnown
<1>8. CASE FailNode(r)
  BY <1>8 DEF FailNode, Goes, EndsWith, CancelRequested, ChatTypes, InSession, OutcomeIsKnown
<1>9. CASE Enter(r)
  BY <1>9 DEF Enter, Goes, ChatTypes, InSession, OutcomeIsKnown
<1>10. CASE Turned(r)
  BY <1>10 DEF Turned, Goes, EndsWith, Settles, ChatTypes, InSession, OutcomeIsKnown
<1>11. CASE Prepare(r)
  BY <1>11 DEF Prepare, Goes, ChatTypes, InSession, OutcomeIsKnown
<1>12. CASE OpenBrowser(r)
  BY <1>12 DEF OpenBrowser, Goes, ChatTypes, InSession, OutcomeIsKnown
<1>13. CASE Barrier(r)
  BY <1>13 DEF Barrier, Goes, ChatTypes, InSession, OutcomeIsKnown
<1>14. CASE Step(r)
  BY <1>14 DEF Step, CancelRequested, ChatTypes, InSession, OutcomeIsKnown
<1>15. CASE StopActing(r)
  BY <1>15 DEF StopActing, Goes, CancelRequested, ChatTypes, InSession, OutcomeIsKnown
<1>16. CASE Leave(r)
  BY <1>16 DEF Leave, Goes, EndsWith, Settles, ChatTypes, InSession, OutcomeIsKnown
<1> QED BY <1>1, <1>2, <1>3, <1>4, <1>5, <1>6, <1>7, <1>8, <1>9, <1>10, <1>11, <1>12, <1>13, <1>14, <1>15, <1>16 DEF Thread

LEMMA ThreadLife ==
    ASSUME Life, NEW r \in Runs, Thread(r)
    PROVE  Life'
<1>1. ChatTypes /\ RegistryTypes /\ VisionTypes
  BY Types DEF Life
<1>2. TypeOK'
  BY ThreadTypes DEF Life
<1>3. /\ at[r] \notin {"none", "ended"}
      /\ \A x \in Runs \ {r} : at'[x] = at[x] /\ outcome'[x] = outcome[x]
      /\ stream' = stream
  BY <1>1, ThreadKeeps
<1>4. OutcomeIsKnown'
  <2>1. OutcomeIsKnown
    BY DEF Life
  <2>2. at'[r] \in {"answered", "ended"} => outcome'[r] # "none"
    BY <1>1, <2>1, ThreadKnows
  <2> QED BY <1>3, <2>1, <2>2 DEF OutcomeIsKnown
<1>5. Registered(order') \subseteq Registered(order) \cup {r}
  <2>1. CASE UNCHANGED registry
    BY <2>1 DEF registry, Registered
  <2>2. CASE \E status \in Statuses : Event(r, status)
    BY <1>1, <2>2, EventTells DEF Told
  <2> QED BY <1>1, <2>1, <2>2, ThreadTells
<1>6. RequestComesFirst'
  <2>1. RequestComesFirst
    BY DEF Life
  <2>2. stream[r] \notin {"none", "greeted"}
    BY <1>3, <2>1 DEF RequestComesFirst
  <2> QED BY <1>3, <1>5, <2>1, <2>2 DEF RequestComesFirst
<1> QED BY <1>2, <1>4, <1>6 DEF Life

LEMMA RequestLife ==
    ASSUME Life, NEW r \in Runs, Request(r)
    PROVE  Life' /\ Told(r, "queued")
<1>1. ChatTypes /\ RegistryTypes /\ VisionTypes
  BY Types DEF Life
<1>2. Told(r, "queued")
  <2>1. "queued" \in Statuses
    BY DEF Statuses
  <2> QED BY <1>1, <2>1, Registering DEF Request
<1>3. ChatTypes' /\ VisionTypes'
  BY <1>1 DEF Request, ChatTypes, VisionTypes, vision
<1>4. TypeOK'
  BY <1>2, <1>3 DEF Told, TypeOK, ChatTypes, RegistryTypes, VisionTypes
<1>5. OutcomeIsKnown'
  BY DEF Life, OutcomeIsKnown, Request
<1>6. RequestComesFirst'
  <2>1. stream' = [stream EXCEPT ![r] = "greeted"] /\ stream[r] = "none" /\ at' = at
    BY DEF Request
  <2> QED BY <1>1, <1>2, <2>1 DEF Life, RequestComesFirst, Told, ChatTypes
<1> QED BY <1>2, <1>4, <1>5, <1>6 DEF Life

LEMMA EndStreamLife ==
    ASSUME Life, NEW r \in Runs, EndStream(r)
    PROVE  Life' /\ Told(r, outcome[r])
<1>1. ChatTypes /\ RegistryTypes /\ VisionTypes
  BY Types DEF Life
<1>2. outcome[r] \in Statuses
  BY <1>1 DEF Life, OutcomeIsKnown, EndStream, ChatTypes, Statuses
<1>3. Told(r, outcome[r])
  BY <1>1, <1>2, FinishTells DEF EndStream
<1>4. ChatTypes' /\ VisionTypes'
  BY <1>1 DEF EndStream, ChatTypes, VisionTypes, vision
<1>5. TypeOK'
  BY <1>3, <1>4 DEF Told, TypeOK, ChatTypes, RegistryTypes, VisionTypes
<1>6. OutcomeIsKnown'
  BY DEF Life, OutcomeIsKnown, EndStream
<1>7. RequestComesFirst'
  <2>1. stream' = [stream EXCEPT ![r] = "done"] /\ stream[r] = "open" /\ at' = at
    BY DEF EndStream
  <2> QED BY <1>1, <1>3, <2>1 DEF Life, RequestComesFirst, Told, ChatTypes
<1> QED BY <1>3, <1>5, <1>6, <1>7 DEF Life

LEMMA ServeLife ==
    ASSUME Life, NEW r \in Runs, Serve(r)
    PROVE  Life'
<1>1. ChatTypes /\ RegistryTypes /\ VisionTypes
  BY Types DEF Life
<1>2. /\ stream' = [stream EXCEPT ![r] = "open"] /\ stream[r] = "greeted"
      /\ at' = [at EXCEPT ![r] = "starting"]
      /\ UNCHANGED <<raised, outcome, nodes, entry, order, promised, lock, resource, warming, app>>
  BY DEF Serve, Goes, registry, vision
<1>3. TypeOK'
  BY <1>1, <1>2 DEF TypeOK, ChatTypes, RegistryTypes, VisionTypes, Registered
<1>4. OutcomeIsKnown' /\ RequestComesFirst'
  BY <1>1, <1>2 DEF Life, OutcomeIsKnown, RequestComesFirst, ChatTypes, Registered
<1> QED BY <1>3, <1>4 DEF Life

\* Of a disconnect and a cancellation the registry sees the same.
LEMMA CancelLife ==
    ASSUME Life, NEW r \in Runs, Disconnect(r) \/ CancelRun(r)
    PROVE  /\ Life'
           /\ UNCHANGED <<at, outcome, nodes, lock, app>>
           /\ \/ UNCHANGED registry
              \/ r \in Registered(order) /\ RequestCancel(r)
<1>1. ChatTypes /\ RegistryTypes /\ VisionTypes
  BY Types DEF Life
<1>2. /\ \/ stream' = stream
         \/ stream' = [stream EXCEPT ![r] = "gone"] /\ stream[r] \in {"greeted", "open"}
      /\ UNCHANGED <<at, raised, outcome, nodes, lock, resource, warming, app>>
      /\ \/ UNCHANGED registry
         \/ r \in Registered(order) /\ RequestCancel(r)
  BY DEF Disconnect, CancelRun, chat, vision, registry
<1>3. RegistryTypes' /\ order' = order
  <2>1. CASE UNCHANGED registry
    BY <1>1, <2>1 DEF RegistryTypes, registry, Registered
  <2>2. CASE r \in Registered(order) /\ RequestCancel(r)
    BY <1>1, <2>2, CancelMarks
  <2> QED BY <1>2, <2>1, <2>2
<1>4. ChatTypes' /\ VisionTypes'
  BY <1>1, <1>2 DEF ChatTypes, VisionTypes
<1>5. TypeOK'
  BY <1>3, <1>4 DEF TypeOK, ChatTypes, RegistryTypes, VisionTypes
<1>6. OutcomeIsKnown' /\ RequestComesFirst'
  BY <1>1, <1>2, <1>3 DEF Life, OutcomeIsKnown, RequestComesFirst, ChatTypes, Registered
<1> QED BY <1>2, <1>5, <1>6 DEF Life

\* Warm-ups and the shutdown touch neither runs nor registry.
Housekeeping == (\E x \in WarmUps : Warm(x)) \/ WorkerStarts \/ Shutdown \/ Closing

LEMMA HousekeepingLife ==
    ASSUME Life, Housekeeping
    PROVE  Life' /\ UNCHANGED <<chat, registry>>
<1>1. ChatTypes /\ RegistryTypes /\ VisionTypes
  BY Types DEF Life
<1>2. UNCHANGED <<chat, registry>>
  BY DEF Housekeeping, Warm, WarmStarts, WarmEnds, WorkerStarts, Shutdown, Closing, TakeExecution,
         CloseVision, CloseCheckpoint
<1>3. VisionTypes'
  BY <1>1 DEF Housekeeping, Warm, WarmStarts, WarmEnds, WorkerStarts, Shutdown, Closing, TakeExecution,
              CloseVision, CloseCheckpoint, VisionTypes, vision
<1>4. TypeOK'
  BY <1>1, <1>2, <1>3 DEF TypeOK, ChatTypes, RegistryTypes, VisionTypes, chat, registry, Registered
<1>5. OutcomeIsKnown' /\ RequestComesFirst'
  BY <1>2 DEF Life, OutcomeIsKnown, RequestComesFirst, chat, registry, Registered
<1> QED BY <1>2, <1>4, <1>5 DEF Life

LEMMA LifeOfSpec == Spec => []Life
<1>1. Init => Life
  <2> SUFFICES ASSUME Init PROVE Life
    OBVIOUS
  <2>1. Registered(order) = {}
    BY DEF Init, Registered
  <2>2. ChatTypes /\ VisionTypes
    BY BoundIsNumber DEF Init, ChatTypes, VisionTypes
  <2>3. RegistryTypes
    <3>1. NoEntry \in [status : Statuses \cup {"none"}, cancel : BOOLEAN]
      BY DEF NoEntry
    <3>2. order \in Seq(Runs) /\ promised = {} /\ entry = [r \in Runs |-> NoEntry]
      BY DEF Init
    <3>3. NoEntry.status = "none"
      BY DEF NoEntry
    <3> QED BY <2>1, <3>1, <3>2, <3>3 DEF RegistryTypes
  <2>4. OutcomeIsKnown /\ RequestComesFirst
    BY <2>1 DEF Init, OutcomeIsKnown, RequestComesFirst
  <2> QED BY <2>2, <2>3, <2>4, Types DEF Life
<1>2. Life /\ [Next]_vars => Life'
  <2> SUFFICES ASSUME Life, [Next]_vars PROVE Life'
    OBVIOUS
  <2>1. ASSUME NEW r \in Runs, Request(r) PROVE Life'
    BY <2>1, RequestLife
  <2>2. ASSUME NEW r \in Runs, Serve(r) PROVE Life'
    BY <2>2, ServeLife
  <2>3. ASSUME NEW r \in Runs, Disconnect(r) \/ CancelRun(r) PROVE Life'
    BY <2>3, CancelLife
  <2>4. ASSUME NEW r \in Runs, EndStream(r) PROVE Life'
    BY <2>4, EndStreamLife
  <2>5. ASSUME NEW r \in Runs, Thread(r) PROVE Life'
    BY <2>5, ThreadLife
  <2>6. CASE Housekeeping
    BY <2>6, HousekeepingLife
  <2>7. CASE UNCHANGED vars
    BY <2>7 DEF Life, TypeOK, OutcomeIsKnown, RequestComesFirst, vars, chat, registry, vision, Registered
  <2> QED BY <2>1, <2>2, <2>3, <2>4, <2>5, <2>6, <2>7 DEF Next, Housekeeping
<1> QED BY <1>1, <1>2, PTL DEF Spec

\* Type correctness for any number of runs: among others the registry's order
\* and its entries speak of the same runs, whatever is forgotten and taken back.
THEOREM TypeCorrect == Spec => []TypeOK
<1>1. Life => TypeOK
  BY DEF Life
<1> QED BY <1>1, LifeOfSpec, PTL
-----------------------------------------------------------------------------
(* Sessions *)

\* A thread takes the lock when it is free and gives back its own.
LEMMA ThreadLocks ==
    ASSUME ChatTypes, SessionsAreSerial, NEW r \in Runs, Thread(r)
    PROVE  /\ lock' = lock \/ (lock = NoRun /\ lock' = r) \/ (lock = r /\ lock' = NoRun)
           /\ at'[r] \in InSession <=> lock' = r
           /\ lock' = r => app \in {"up", "stopping"}
<1>0. lock = r => lock # NoRun
  BY OwnersDiffer
<1> USE <1>0 DEF SessionsAreSerial, ChatTypes, InSession, vision
<1>1. CASE Begin(r)
  BY <1>1 DEF Begin, Goes, EndsWith
<1>2. CASE Halt(r)
  BY <1>2 DEF Halt, Goes, EndsWith, CancelRequested
<1>3. CASE BeginNode(r)
  BY <1>3 DEF BeginNode, Goes, CancelRequested
<1>4. CASE EndNode(r)
  BY <1>4 DEF EndNode, Goes, EndsWith, Settles
<1>5. CASE Ask(r)
  BY <1>5 DEF Ask, Goes, EndsWith
<1>6. CASE Answer(r)
  BY <1>6 DEF Answer, Goes
<1>7. CASE Return(r)
  BY <1>7 DEF Return, Goes, EndsWith
<1>8. CASE FailNode(r)
  BY <1>8 DEF FailNode, Goes, EndsWith, CancelRequested
<1>9. CASE Enter(r)
  BY <1>9 DEF Enter, Goes
<1>10. CASE Turned(r)
  BY <1>10 DEF Turned, Goes, EndsWith, Settles
<1>11. CASE Prepare(r)
  BY <1>11 DEF Prepare, Goes
<1>12. CASE OpenBrowser(r)
  BY <1>12 DEF OpenBrowser, Goes
<1>13. CASE Barrier(r)
  BY <1>13 DEF Barrier, Goes
<1>14. CASE Step(r)
  BY <1>14 DEF Step, CancelRequested
<1>15. CASE StopActing(r)
  BY <1>15 DEF StopActing, Goes, CancelRequested
<1>16. CASE Leave(r)
  BY <1>16 DEF Leave, Goes, EndsWith, Settles
<1> QED BY <1>1, <1>2, <1>3, <1>4, <1>5, <1>6, <1>7, <1>8, <1>9, <1>10, <1>11, <1>12, <1>13, <1>14, <1>15, <1>16 DEF Thread

\* Vision sessions are serial, give the lock back however they end, and are over
\* once the runtime was closed, for any number of runs.
THEOREM SerialSessions == Spec => []SessionsAreSerial
<1>1. Init => SessionsAreSerial
  BY OwnersDiffer DEF Init, SessionsAreSerial, InSession
<1>2. Life /\ SessionsAreSerial /\ [Next]_vars => SessionsAreSerial'
  <2> SUFFICES ASSUME Life, SessionsAreSerial, [Next]_vars PROVE SessionsAreSerial'
    OBVIOUS
  <2>1. ChatTypes
    BY Types DEF Life
  <2>2. NoRun \notin Runs /\ Closer \notin Runs /\ NoRun # Closer
    BY OwnersDiffer
  <2>3. ASSUME NEW r \in Runs, Thread(r) PROVE SessionsAreSerial'
    <3>1. /\ \A x \in Runs \ {r} : at'[x] = at[x]
          /\ app' = app
      BY <2>1, <2>3, ThreadKeeps
    <3>2. /\ lock' = lock \/ (lock = NoRun /\ lock' = r) \/ (lock = r /\ lock' = NoRun)
          /\ at'[r] \in InSession <=> lock' = r
          /\ lock' = r => app \in {"up", "stopping"}
      BY <2>1, <2>3, ThreadLocks
    <3>3. ASSUME NEW x \in Runs \ {r} PROVE at'[x] \in InSession <=> lock' = x
      BY <2>2, <3>1, <3>2 DEF SessionsAreSerial
    <3>4. lock' \in Runs => app' \in {"up", "stopping"}
      BY <2>2, <3>1, <3>2 DEF SessionsAreSerial
    <3>5. lock' = Closer => app' = "stopping"
      BY <2>2, <3>1, <3>2 DEF SessionsAreSerial
    <3> QED BY <3>2, <3>3, <3>4, <3>5 DEF SessionsAreSerial
  <2>4. ASSUME NEW r \in Runs, Request(r) \/ EndStream(r) PROVE SessionsAreSerial'
    BY <2>4 DEF Request, EndStream, SessionsAreSerial, vision
  <2>5. ASSUME NEW r \in Runs, Serve(r) PROVE SessionsAreSerial'
    <3>1. at[r] = "none" BY <2>5 DEF Serve, Life, RequestComesFirst
    <3>2. \A x \in Runs : at'[x] \in InSession <=> at[x] \in InSession
      BY <2>1, <2>5, <3>1 DEF Serve, Goes, ChatTypes, InSession
    <3> QED BY <2>5, <3>2 DEF Serve, SessionsAreSerial, vision
  <2>6. ASSUME NEW r \in Runs, Disconnect(r) \/ CancelRun(r) PROVE SessionsAreSerial'
    BY <2>6, CancelLife DEF SessionsAreSerial
  <2>7. CASE Housekeeping
    <3>1. UNCHANGED at
      BY <2>7 DEF Housekeeping, Warm, WarmStarts, WarmEnds, WorkerStarts, Shutdown, Closing, TakeExecution,
                  CloseVision, CloseCheckpoint, chat
    <3>2. CASE UNCHANGED <<lock, app>>
      BY <3>1, <3>2 DEF SessionsAreSerial
    <3>3. CASE Shutdown
      BY <3>1, <3>3 DEF Shutdown, SessionsAreSerial, vision
    <3>4. CASE TakeExecution
      BY <2>2, <3>1, <3>4 DEF TakeExecution, SessionsAreSerial
    <3>5. CASE CloseVision
      BY <2>2, <3>1, <3>5 DEF CloseVision, SessionsAreSerial
    <3>6. CASE CloseCheckpoint
      BY <2>2, <3>1, <3>6 DEF CloseCheckpoint, SessionsAreSerial, vision
    <3> QED BY <2>7, <3>2, <3>3, <3>4, <3>5, <3>6
            DEF Housekeeping, Warm, WarmStarts, WarmEnds, WorkerStarts, Closing
  <2>8. CASE UNCHANGED vars
    BY <2>8 DEF SessionsAreSerial, vars, chat, vision
  <2> QED BY <2>3, <2>4, <2>5, <2>6, <2>7, <2>8 DEF Next, Housekeeping
<1> QED BY <1>1, <1>2, LifeOfSpec, PTL DEF Spec
-----------------------------------------------------------------------------
(* Locks *)

\* What can go on now, by the guards of its actions: a thread unless it waits
\* for a lock or for the warm-ups, a warm-up in its turn, the shutdown when what
\* it takes next is free.
CanStep(r) ==
    /\ at[r] \notin {"none", "ended"}
    /\ at[r] = "waiting" => lock = NoRun
    /\ at[r] = "preparing" => resource = NoRun
    /\ at[r] = "barrier" => warming = {}
CanWarm == IF resource = NoRun THEN warming # {} ELSE resource \in warming
CanClose ==
    \/ app = "stopping" /\ lock = NoRun
    \/ app = "stopping" /\ lock = Closer /\ resource = NoRun
    \/ app = "saving"

\* Nobody waits in a circle: a live thread and a shutdown in progress can go on
\* themselves, or a warm-up can, or the holder of the execution lock.
HolderGoesOn == CanWarm \/ (lock \in Runs /\ CanStep(lock)) \/ (lock = Closer /\ CanClose)
NobodyIsStuck ==
    /\ \A r \in Runs : at[r] \notin {"none", "ended"} => CanStep(r) \/ HolderGoesOn
    /\ app \in {"stopping", "saving"} => CanClose \/ HolderGoesOn

\* The resource lock is held by a warm-up that has not ended.
WarmUpHolds == resource # NoRun => resource \in warming

LEMMA WarmUpStep ==
    ASSUME VisionTypes, WarmUpHolds, [Next]_vars
    PROVE  WarmUpHolds'
<1> USE DEF WarmUpHolds, vision, chat
<1>1. ASSUME NEW r \in Runs, Thread(r) PROVE WarmUpHolds'
  <2>1. UNCHANGED <<resource, warming>> \/ (resource = NoRun /\ resource' = resource)
    BY <1>1 DEF Thread, Begin, Halt, BeginNode, EndNode, Ask, Answer, Return, FailNode, Enter,
                Turned, Prepare, OpenBrowser, Barrier, Step, StopActing, Leave
  <2> QED BY <2>1
<1>2. ASSUME NEW r \in Runs,
             Request(r) \/ Serve(r) \/ Disconnect(r) \/ EndStream(r) \/ CancelRun(r)
      PROVE  WarmUpHolds'
  BY <1>2 DEF Request, Serve, Disconnect, EndStream, CancelRun
<1>3. ASSUME NEW w \in WarmUps, Warm(w) PROVE WarmUpHolds'
  BY <1>3 DEF Warm, WarmStarts, WarmEnds
<1>4. CASE WorkerStarts
  BY <1>4 DEF WorkerStarts, VisionTypes, WarmUps
<1>5. CASE Shutdown \/ Closing
  BY <1>5 DEF Shutdown, Closing, TakeExecution, CloseVision, CloseCheckpoint
<1>6. CASE UNCHANGED vars
  BY <1>6 DEF vars
<1> QED BY <1>1, <1>2, <1>3, <1>4, <1>5, <1>6 DEF Next

\* The holder of the execution lock waits at most for a warm-up.
LEMMA HolderWaits ==
    ASSUME SessionsAreSerial, WarmUpHolds, lock # NoRun, lock \in Runs \cup {Closer}
    PROVE  HolderGoesOn
<1>1. CASE CanWarm
  BY <1>1 DEF HolderGoesOn
<1>2. CASE ~CanWarm
  <2>1. resource = NoRun /\ warming = {}
    BY <1>2 DEF CanWarm, WarmUpHolds
  <2>2. CASE lock \in Runs
    <3>1. at[lock] \in InSession
      BY <2>2 DEF SessionsAreSerial
    <3>2. CanStep(lock)
      BY <2>1, <3>1 DEF CanStep, InSession
    <3> QED BY <2>2, <3>2 DEF HolderGoesOn
  <2>3. CASE lock = Closer
    <3>1. CanClose
      BY <2>1, <2>3 DEF SessionsAreSerial, CanClose
    <3> QED BY <2>3, <3>1 DEF HolderGoesOn
  <2> QED BY <2>2, <2>3
<1> QED BY <1>1, <1>2

\* However many runs wait for the session, and whenever the shutdown begins,
\* there is no deadlock among the execution lock, the resource lock and the wait
\* for the warm-ups (VisionWorkerRuntime.execution_session and close, the
\* startup barrier of _open_browser_while_ocr_starts).  What this leaves of
\* RunsEnd and ShutdownEnds is that threads which can go on do.
THEOREM NoLockCircle == Spec => []NobodyIsStuck
<1>1. Init => WarmUpHolds
  BY DEF Init, WarmUpHolds
<1>2. Life => VisionTypes
  BY Types DEF Life
<1>3. Life /\ WarmUpHolds /\ [Next]_vars => WarmUpHolds'
  BY <1>2, WarmUpStep
<1>4. Life /\ SessionsAreSerial /\ WarmUpHolds => NobodyIsStuck
  <2> SUFFICES ASSUME Life, SessionsAreSerial, WarmUpHolds
               PROVE  NobodyIsStuck
    OBVIOUS
  <2>1. lock # NoRun => HolderGoesOn
    BY <1>2, HolderWaits DEF VisionTypes
  <2>2. resource # NoRun \/ warming # {} => HolderGoesOn
    BY DEF HolderGoesOn, CanWarm, WarmUpHolds
  <2>3. ASSUME NEW r \in Runs, at[r] \notin {"none", "ended"}, ~HolderGoesOn
        PROVE  CanStep(r)
    BY <2>1, <2>2, <2>3 DEF CanStep
  <2>4. ASSUME app \in {"stopping", "saving"}, ~HolderGoesOn
        PROVE  CanClose
    BY <2>1, <2>4 DEF CanClose
  <2> QED BY <2>3, <2>4 DEF NobodyIsStuck
<1> QED BY <1>1, <1>3, <1>4, LifeOfSpec, SerialSessions, PTL DEF Spec
-----------------------------------------------------------------------------
(* Statuses *)

\* A thread tells a final status only where it ends, and never goes on after it.
LEMMA ThreadStatus ==
    ASSUME ChatTypes, StatusIsTrue, NEW r \in Runs, Thread(r)
    PROVE  \/ /\ UNCHANGED registry
              /\ entry[r].status \in Ended =>
                     at'[r] \in {"answered", "ended"} /\ outcome'[r] = outcome[r]
           \/ \E status \in Statuses :
                  /\ Event(r, status)
                  /\ status \in Ended => at'[r] \in {"answered", "ended"} /\ outcome'[r] = status
<1> {"running", "waiting_input"} \cap Ended = {}
  BY DEF Ended
<1> Ended \subseteq Statuses /\ {"running", "waiting_input"} \subseteq Statuses
  BY DEF Statuses
<1> {"completed", "partial", "failed", "cancelled"} \subseteq Statuses
  BY DEF Statuses, Ended
<1> USE DEF StatusIsTrue, ChatTypes
<1>1. CASE Begin(r)
  BY <1>1 DEF Begin, Goes, EndsWith, registry
<1>2. CASE Halt(r)
  BY <1>2 DEF Halt, Goes, EndsWith, CancelRequested, registry
<1>3. CASE BeginNode(r)
  BY <1>3 DEF BeginNode, Goes, CancelRequested, registry
<1>4. CASE EndNode(r)
  BY <1>4 DEF EndNode, Goes, EndsWith, Settles, registry
<1>5. CASE Ask(r)
  BY <1>5 DEF Ask, Goes, EndsWith, registry
<1>6. CASE Answer(r)
  BY <1>6 DEF Answer, Goes, registry
<1>7. CASE Return(r)
  BY <1>7 DEF Return, Goes, EndsWith, registry
<1>8. CASE FailNode(r)
  BY <1>8 DEF FailNode, Goes, EndsWith, CancelRequested, registry
<1>9. CASE Enter(r)
  BY <1>9 DEF Enter, Goes, registry
<1>10. CASE Turned(r)
  BY <1>10 DEF Turned, Goes, EndsWith, Settles, registry
<1>11. CASE Prepare(r)
  BY <1>11 DEF Prepare, Goes, registry
<1>12. CASE OpenBrowser(r)
  BY <1>12 DEF OpenBrowser, Goes, registry
<1>13. CASE Barrier(r)
  BY <1>13 DEF Barrier, Goes, registry
<1>14. CASE Step(r)
  BY <1>14 DEF Step, CancelRequested, registry
<1>15. CASE StopActing(r)
  BY <1>15 DEF StopActing, Goes, CancelRequested, registry
<1>16. CASE Leave(r)
  BY <1>16 DEF Leave, Goes, EndsWith, Settles, registry
<1> QED BY <1>1, <1>2, <1>3, <1>4, <1>5, <1>6, <1>7, <1>8, <1>9, <1>10, <1>11, <1>12, <1>13, <1>14, <1>15, <1>16 DEF Thread

\* A final status is true: the run's thread has left its session and its nodes
\* and ended with this status, for any number of runs and any limit.
THEOREM StatusesAreTrue == Spec => []StatusIsTrue
<1>1. Init => StatusIsTrue
  BY DEF Init, StatusIsTrue, NoEntry, Ended
<1>2. Life /\ StatusIsTrue /\ [Next]_vars => StatusIsTrue'
  <2> SUFFICES ASSUME Life, StatusIsTrue, [Next]_vars PROVE StatusIsTrue'
    OBVIOUS
  <2>1. ChatTypes /\ RegistryTypes
    BY Types DEF Life
  <2>2. NoEntry.status \notin Ended /\ "queued" \notin Ended
    BY DEF NoEntry, Ended
  <2>3. ASSUME NEW r \in Runs, Thread(r) PROVE StatusIsTrue'
    <3>1. \A x \in Runs \ {r} : at'[x] = at[x] /\ outcome'[x] = outcome[x]
      BY <2>1, <2>3, ThreadKeeps
    <3>2. CASE /\ UNCHANGED registry
               /\ entry[r].status \in Ended =>
                      at'[r] \in {"answered", "ended"} /\ outcome'[r] = outcome[r]
      BY <3>1, <3>2 DEF StatusIsTrue, registry
    <3>3. ASSUME NEW status \in Statuses, Event(r, status),
                 status \in Ended => at'[r] \in {"answered", "ended"} /\ outcome'[r] = status
          PROVE  StatusIsTrue'
      <4>1. Told(r, status)
        BY <2>1, <3>3, EventTells
      <4>2. entry'[r].status = status
        BY <4>1 DEF Told
      <4>3. \A x \in Runs \ {r} : entry'[x] = entry[x] \/ entry'[x] = NoEntry
        BY <4>1 DEF Told
      <4> QED BY <2>2, <3>1, <3>3, <4>2, <4>3 DEF StatusIsTrue
    <3> QED BY <2>1, <2>3, <3>2, <3>3, ThreadStatus
  <2>4. ASSUME NEW r \in Runs, Request(r) PROVE StatusIsTrue'
    <3>1. at' = at /\ outcome' = outcome
      BY <2>4 DEF Request
    <3>2. Told(r, "queued")
      BY <2>4, RequestLife
    <3>3. /\ entry'[r].status = "queued"
          /\ \A x \in Runs \ {r} : entry'[x] = entry[x] \/ entry'[x] = NoEntry
      BY <3>2 DEF Told
    <3> QED BY <2>2, <3>1, <3>3 DEF StatusIsTrue
  <2>5. ASSUME NEW r \in Runs, EndStream(r) PROVE StatusIsTrue'
    <3>1. at' = at /\ outcome' = outcome /\ at[r] = "ended"
      BY <2>5 DEF EndStream
    <3>2. Told(r, outcome[r])
      BY <2>5, EndStreamLife
    <3>3. /\ entry'[r].status = outcome[r]
          /\ \A x \in Runs \ {r} : entry'[x] = entry[x] \/ entry'[x] = NoEntry
      BY <3>2 DEF Told
    <3> QED BY <2>2, <3>1, <3>3 DEF StatusIsTrue
  <2>6. ASSUME NEW r \in Runs, Serve(r) PROVE StatusIsTrue'
    <3>1. at[r] = "none"
      BY <2>6 DEF Life, RequestComesFirst, Serve
    <3>2. /\ at' = [at EXCEPT ![r] = "starting"] /\ outcome' = outcome /\ entry' = entry
      BY <2>6 DEF Serve, Goes, registry
    <3> QED BY <2>1, <3>1, <3>2 DEF StatusIsTrue, ChatTypes
  <2>7. ASSUME NEW r \in Runs, Disconnect(r) \/ CancelRun(r) PROVE StatusIsTrue'
    <3>1. at' = at /\ outcome' = outcome
      BY <2>7, CancelLife
    <3>2. \A x \in Runs : entry'[x].status = entry[x].status
      <4>1. CASE UNCHANGED registry
        BY <4>1 DEF registry
      <4>2. CASE r \in Registered(order) /\ RequestCancel(r)
        <5>1. /\ entry'[r].status = entry[r].status
              /\ \A x \in Runs \ {r} : entry'[x] = entry[x]
          BY <2>1, <4>2, CancelMarks
        <5> QED BY <5>1
      <4> QED BY <2>7, <4>1, <4>2, CancelLife
    <3> QED BY <3>1, <3>2 DEF StatusIsTrue
  <2>8. CASE Housekeeping
    BY <2>8, HousekeepingLife DEF StatusIsTrue, chat, registry
  <2>9. CASE UNCHANGED vars
    BY <2>9 DEF StatusIsTrue, vars, chat, registry
  <2> QED BY <2>3, <2>4, <2>5, <2>6, <2>7, <2>8, <2>9 DEF Next, Housekeeping
<1> QED BY <1>1, <1>2, LifeOfSpec, PTL DEF Spec
-----------------------------------------------------------------------------
(* Cancellations *)

\* The strengthening: a promise is an entry that says so, until the run has ended
\* (the end of its stream writes the entry anew).
PromiseIsKnown == \A r \in promised : entry[r].cancel \/ at[r] = "ended"

\* A node or a step begins only after a check.
LEMMA ThreadStops ==
    ASSUME ChatTypes, NEW r \in Runs, Thread(r), entry[r].cancel
    PROVE  nodes'[r] = nodes[r]
<1>1. CASE Begin(r)
  BY <1>1 DEF Begin, Goes, EndsWith
<1>2. CASE Halt(r)
  BY <1>2 DEF Halt, Goes, EndsWith, CancelRequested
<1>3. CASE BeginNode(r)
  BY <1>3 DEF BeginNode, Goes, CancelRequested
<1>4. CASE EndNode(r)
  BY <1>4 DEF EndNode, Goes, EndsWith, Settles
<1>5. CASE Ask(r)
  BY <1>5 DEF Ask, Goes, EndsWith
<1>6. CASE Answer(r)
  BY <1>6 DEF Answer, Goes
<1>7. CASE Return(r)
  BY <1>7 DEF Return, Goes, EndsWith
<1>8. CASE FailNode(r)
  BY <1>8 DEF FailNode, Goes, EndsWith, CancelRequested
<1>9. CASE Enter(r)
  BY <1>9 DEF Enter, Goes
<1>10. CASE Turned(r)
  BY <1>10 DEF Turned, Goes, EndsWith, Settles
<1>11. CASE Prepare(r)
  BY <1>11 DEF Prepare, Goes
<1>12. CASE OpenBrowser(r)
  BY <1>12 DEF OpenBrowser, Goes
<1>13. CASE Barrier(r)
  BY <1>13 DEF Barrier, Goes
<1>14. CASE Step(r)
  BY <1>14 DEF Step, CancelRequested
<1>15. CASE StopActing(r)
  BY <1>15 DEF StopActing, Goes, CancelRequested
<1>16. CASE Leave(r)
  BY <1>16 DEF Leave, Goes, EndsWith, Settles
<1> QED BY <1>1, <1>2, <1>3, <1>4, <1>5, <1>6, <1>7, <1>8, <1>9, <1>10, <1>11, <1>12, <1>13, <1>14, <1>15, <1>16 DEF Thread

LEMMA PromisesAreKnown == Spec => []PromiseIsKnown
<1>1. Init => PromiseIsKnown
  BY DEF Init, PromiseIsKnown
<1>2. Life /\ PromiseIsKnown /\ [Next]_vars => PromiseIsKnown'
  <2> SUFFICES ASSUME Life, PromiseIsKnown, [Next]_vars PROVE PromiseIsKnown'
    OBVIOUS
  <2>1. ChatTypes /\ RegistryTypes
    BY Types DEF Life
  <2>2. promised \subseteq Runs
    <3>1. order \in Seq(Runs) /\ promised \subseteq Registered(order)
      BY <2>1 DEF RegistryTypes
    <3> QED BY <3>1 DEF Registered
  <2>3. ASSUME NEW r \in Runs, Thread(r) PROVE PromiseIsKnown'
    <3>1. at[r] # "ended" /\ \A x \in Runs \ {r} : at'[x] = at[x]
      BY <2>1, <2>3, ThreadKeeps
    <3>2. CASE UNCHANGED registry
      BY <2>2, <3>1, <3>2 DEF PromiseIsKnown, registry
    <3>3. ASSUME NEW status \in Statuses, Event(r, status) PROVE PromiseIsKnown'
      <4>1. Told(r, status) /\ (r \in promised' => entry'[r].cancel = entry[r].cancel)
        BY <2>1, <3>3, EventTells
      <4>2. /\ \A x \in Runs \ {r} : x \in promised' => entry'[x] = entry[x]
            /\ promised' \subseteq promised
        BY <4>1 DEF Told
      <4> QED BY <2>2, <3>1, <4>1, <4>2 DEF PromiseIsKnown
    <3> QED BY <2>1, <2>3, <3>2, <3>3, ThreadTells
  <2>4. ASSUME NEW r \in Runs, Request(r) PROVE PromiseIsKnown'
    <3>1. at' = at /\ stream[r] = "none"
      BY <2>4 DEF Request
    <3>2. Told(r, "queued")
      BY <2>4, RequestLife
    <3>3. /\ \A x \in Runs \ {r} : x \in promised' => entry'[x] = entry[x]
          /\ promised' \subseteq promised
      BY <3>2 DEF Told
    <3>4. r \notin promised
      BY <2>1, <3>1 DEF Life, RequestComesFirst, RegistryTypes
    <3> QED BY <2>2, <3>1, <3>3, <3>4 DEF PromiseIsKnown
  <2>5. ASSUME NEW r \in Runs, EndStream(r) PROVE PromiseIsKnown'
    <3>1. at' = at /\ at[r] = "ended"
      BY <2>5 DEF EndStream
    <3>2. Told(r, outcome[r])
      BY <2>5, EndStreamLife
    <3>3. /\ \A x \in Runs \ {r} : x \in promised' => entry'[x] = entry[x]
          /\ promised' \subseteq promised
      BY <3>2 DEF Told
    <3> QED BY <2>2, <3>1, <3>3 DEF PromiseIsKnown
  <2>6. ASSUME NEW r \in Runs, Serve(r) PROVE PromiseIsKnown'
    <3>1. at[r] = "none"
      BY <2>6 DEF Life, RequestComesFirst, Serve
    <3>2. at' = [at EXCEPT ![r] = "starting"] /\ entry' = entry /\ promised' = promised
      BY <2>6 DEF Serve, Goes, registry
    <3> QED BY <2>1, <2>2, <3>1, <3>2 DEF PromiseIsKnown, ChatTypes
  <2>7. ASSUME NEW r \in Runs, Disconnect(r) \/ CancelRun(r) PROVE PromiseIsKnown'
    <3>1. at' = at
      BY <2>7, CancelLife
    <3>2. CASE UNCHANGED registry
      BY <3>1, <3>2 DEF PromiseIsKnown, registry
    <3>3. CASE r \in Registered(order) /\ RequestCancel(r)
      <4>1. /\ promised' = promised \cup {r} /\ entry'[r].cancel
            /\ \A x \in Runs \ {r} : entry'[x] = entry[x]
        BY <2>1, <3>3, CancelMarks
      <4> QED BY <2>2, <3>1, <4>1 DEF PromiseIsKnown
    <3> QED BY <2>7, <3>2, <3>3, CancelLife
  <2>8. CASE Housekeeping
    BY <2>8, HousekeepingLife DEF PromiseIsKnown, chat, registry
  <2>9. CASE UNCHANGED vars
    BY <2>9 DEF PromiseIsKnown, vars, chat, registry
  <2> QED BY <2>3, <2>4, <2>5, <2>6, <2>7, <2>8, <2>9 DEF Next, Housekeeping
<1> QED BY <1>1, <1>2, LifeOfSpec, PTL DEF Spec

\* An accepted cancellation that the registry still knows stops its run: it begins
\* no further node and no further step, for any number of runs.
THEOREM PromisesAreKept == Spec => PromiseIsKept
<1>1. Life /\ PromiseIsKnown /\ [Next]_vars => [\A r \in promised : nodes'[r] = nodes[r]]_vars
  <2> SUFFICES ASSUME Life, PromiseIsKnown, Next, NEW x \in promised PROVE nodes'[x] = nodes[x]
    OBVIOUS
  <2>1. ChatTypes /\ RegistryTypes
    BY Types DEF Life
  <2>2. x \in Runs
    <3>1. order \in Seq(Runs) /\ promised \subseteq Registered(order)
      BY <2>1 DEF RegistryTypes
    <3> QED BY <3>1 DEF Registered
  <2>3. ASSUME NEW r \in Runs, Thread(r) PROVE nodes'[x] = nodes[x]
    <3>1. CASE x = r
      <4>1. at[r] # "ended"
        BY <2>1, <2>3, ThreadKeeps
      <4>2. entry[r].cancel
        BY <3>1, <4>1 DEF PromiseIsKnown
      <4> QED BY <2>1, <2>3, <3>1, <4>2, ThreadStops
    <3>2. CASE x # r
      BY <2>1, <2>2, <2>3, <3>2, ThreadKeeps
    <3> QED BY <3>1, <3>2
  <2>4. ASSUME NEW r \in Runs, Request(r) \/ Serve(r) \/ EndStream(r) PROVE nodes'[x] = nodes[x]
    BY <2>4 DEF Request, Serve, EndStream
  <2>5. ASSUME NEW r \in Runs, Disconnect(r) \/ CancelRun(r) PROVE nodes'[x] = nodes[x]
    BY <2>5, CancelLife
  <2>6. CASE Housekeeping
    BY <2>6, HousekeepingLife DEF chat
  <2> QED BY <2>3, <2>4, <2>5, <2>6 DEF Next, Housekeeping
<1> QED BY <1>1, LifeOfSpec, PromisesAreKnown, PTL DEF Spec, PromiseIsKept
=============================================================================
