--------------------------- MODULE JobIndexProofs ---------------------------
(***************************************************************************)
(* Theorems about the posting index, for every set of postings, texts and  *)
(* investigations, every set of seed versions and every limit.             *)
(***************************************************************************)
EXTENDS JobIndex, FiniteSetTheorems, TLAPS

(***************************************************************************)
(* Type correctness.  A thread that works on a posting holds exactly one,  *)
(* and a candidate needs a text on both sides: the types are inductive     *)
(* only together with these two facts.                                     *)
(***************************************************************************)

OneInHand == \A t \in Threads :
    pc[t] \in Linking \cup Searching \cup {"collected"} => \E j \in Jobs : hand[t].job = {j}

TextsAreThere ==
    /\ \A j \in Jobs : row[j].status # "absent" => row[j].text \in Contents
    /\ \A j \in Indexed : links[j].text \in Contents
    /\ \A t \in Threads :
           pc[t] \in Searching \cup {"linking", "collected"} => hand[t].text \in Contents
    /\ \A t \in Threads : \A j \in hand[t].job :
           pc[t] \in Linking => row[j].status # "absent"
    /\ pc[Starter] \in Linking \cup {"idle"}
    /\ todo \subseteq Stored

Typed == TypeOK /\ OneInHand /\ TextsAreThere

\* The fields of a row, of links and of a thread's locals have their types.
LEMMA RowFields ==
  ASSUME NEW r \in Row
  PROVE  r.status \in Statuses /\ r.attempts \in Nat /\ r.text \in Text
  BY DEF Row

LEMMA HandFields ==
  ASSUME NEW h \in Hand
  PROVE  /\ h.job \subseteq Jobs /\ h.text \in Text /\ h.led \subseteq Contents
         /\ \A text \in Text : [h EXCEPT !.text = text] \in Hand
         /\ \A led \in SUBSET Contents : [h EXCEPT !.led = led] \in Hand
  BY DEF Hand

LEMMA EmptyHandTyped ==
  /\ EmptyHand \in Hand
  /\ \A j \in Jobs : [EmptyHand EXCEPT !.job = {j}] \in Hand
  /\ \A j \in Jobs, text \in Text : [EmptyHand EXCEPT !.job = {j}, !.text = text] \in Hand
  BY DEF EmptyHand, Hand, Text

LEMMA TypedInit == Init => Typed
  <1> SUFFICES ASSUME Init PROVE Typed
    OBVIOUS
  <1>1. TypeOK
    BY EmptyHandTyped
       DEF Init, TypeOK, Row, Links, Statuses, Text, NoLinks, Linking
  <1>2. OneInHand /\ TextsAreThere
    BY DEF Init, OneInHand, TextsAreThere, Linking, Searching, Threads, Stored, Indexed
  <1> QED BY <1>1, <1>2 DEF Typed

\* Nothing is lost when the memory of the process is cleared.
LEMMA TypedClear ==
  ASSUME Typed, ClearMemory
  PROVE  /\ proc' \in {"down", "preparing", "relinking", "serving"}
         /\ expected' = NoSeed
         /\ mode' \in {"none", "all", "pending"} /\ todo' = {}
         /\ pc' \in [Threads -> Linking \cup Searching \cup {"idle", "collected"}]
         /\ hand' \in [Threads -> Hand]
         /\ found' \in [Investigations ->
                 SUBSET [job : Jobs, shown : Contents, judged : SUBSET Contents]]
         /\ cut' \in BOOLEAN
         /\ \A t \in Threads : pc'[t] = "idle"
  BY EmptyHandTyped DEF Typed, TypeOK, ClearMemory

\* The start.
LEMMA TypedStart ==
  ASSUME Typed, Start \/ ImportSeed \/ SelectPending \/ LinkNext \/ Serve
  PROVE  Typed'
  <1> USE DEF Typed, TypeOK, OneInHand, TextsAreThere, database, Stored, Indexed
  <1>1. CASE Start BY <1>1 DEF Start
  <1>2. CASE ImportSeed BY <1>2 DEF ImportSeed
  <1>3. CASE SelectPending
    <2>1. /\ todo' \subseteq Due /\ leftover' \subseteq Due
          /\ Due \subseteq {j \in Jobs : row[j].status # "absent"}
      BY <1>3 DEF SelectPending, Due
    <2> QED BY <1>3, <2>1 DEF SelectPending
  <1>4. CASE LinkNext
    <2> PICK j \in todo : /\ todo' = todo \ {j}
                          /\ hand' = [hand EXCEPT ![Starter] = [EmptyHand EXCEPT !.job = {j}]]
      BY <1>4 DEF LinkNext
    <2>1. [EmptyHand EXCEPT !.job = {j}] \in Hand
      BY EmptyHandTyped
    <2>2. [EmptyHand EXCEPT !.job = {j}].job = {j}
      BY DEF EmptyHand
    <2>3. Starter \in Threads
      BY DEF Threads
    <2>4. /\ pc' = [pc EXCEPT ![Starter] = "stored"]
          /\ UNCHANGED <<row, links, installed, proc, expected, mode, leftover, cut, ends>>
          /\ UNCHANGED <<found, overtaken>>
      BY <1>4 DEF LinkNext
    <2>5. TypeOK' BY <2>1, <2>4 DEF Linking
    <2>6. OneInHand' BY <2>2, <2>3, <2>4 DEF Linking
    <2>7. TextsAreThere' BY <2>2, <2>3, <2>4 DEF Linking, Searching
    <2> QED BY <2>5, <2>6, <2>7
  <1>5. CASE Serve BY <1>5 DEF Serve
  <1> QED BY <1>1, <1>2, <1>3, <1>4, <1>5

\* What a note about a failed linking does to the rows.
Noted == /\ row' \in [Jobs -> Row]
         /\ \A k \in Jobs : /\ row'[k].text = row[k].text
                            /\ row'[k].status = "absent" <=> row[k].status = "absent"
                            /\ row'[k].status = "indexed" => row[k].status = "indexed"

LEMMA NotedTexts ==
  ASSUME TextsAreThere, Noted, links' = links
  PROVE  /\ \A k \in Jobs : row'[k].status # "absent" => row'[k].text \in Contents
         /\ \A k \in Indexed' : links'[k].text \in Contents
         /\ Stored' = Stored
  BY DEF TextsAreThere, Noted, Indexed, Stored

LEMMA NoteFailureNotes ==
  ASSUME TypeOK, NEW j \in Jobs, row[j].status # "absent",
         \/ row' = [row EXCEPT ![j].status = "failed", ![j].attempts = @ + 1]
         \/ row' = row
  PROVE  Noted
  <1>1. row[j] \in Row BY DEF TypeOK
  <1> QED BY <1>1 DEF TypeOK, Noted, Row, Statuses

\* Linking one posting.
LEMMA TypedLink ==
  ASSUME Typed, NEW t \in Threads, Link(t)
  PROVE  Typed'
  <1> USE DEF Typed, TypeOK, OneInHand, TextsAreThere, Searching, database, start, Stored, Indexed
  <1>1. CASE LinkRead(t)
    <2> PICK j \in hand[t].job : hand' = [hand EXCEPT ![t].text = row[j].text]
      BY <1>1 DEF LinkRead
    <2>1. /\ pc[t] = "stored" /\ pc' = [pc EXCEPT ![t] = "linking"]
          /\ UNCHANGED <<row, links, installed, proc, expected, mode, todo, leftover, cut, ends>>
          /\ UNCHANGED <<found, overtaken>>
      BY <1>1 DEF LinkRead
    <2>2. hand[t].job = {j} /\ j \in Jobs /\ row[j].status # "absent"
      BY <2>1 DEF Linking
    <2>3. row[j].text \in Contents /\ row[j].text \in Text
      BY <2>2 DEF Text
    <2>4. hand[t] \in Hand BY DEF TypeOK
    <2>5. [hand[t] EXCEPT !.text = row[j].text] \in Hand
      BY <2>3, <2>4, HandFields
    <2>6. hand' = [hand EXCEPT ![t] = [hand[t] EXCEPT !.text = row[j].text]]
      OBVIOUS
    <2>7. /\ \A s \in Threads : hand'[s].job = hand[s].job
          /\ hand'[t].text = row[j].text
          /\ \A s \in Threads \ {t} : hand'[s] = hand[s]
      BY <2>4, <2>6 DEF Hand
    <2>8. TypeOK' BY <2>1, <2>5, <2>6 DEF Linking
    <2>9. OneInHand' BY <2>1, <2>7 DEF Linking
    <2>10. TextsAreThere' BY <2>1, <2>3, <2>7 DEF Linking
    <2> QED BY <2>8, <2>9, <2>10
  <1>2. CASE LinkWrite(t)
    <2> PICK j \in hand[t].job :
          /\ links' = [links EXCEPT ![j] = GeneratedLinks(hand[t].text)]
          /\ row' = [row EXCEPT ![j].status = "indexed", ![j].attempts = @ + 1]
      BY <1>2 DEF LinkWrite
    <2>1. /\ pc[t] = "linking" /\ pc' = [pc EXCEPT ![t] = "idle"]
          /\ hand' = [hand EXCEPT ![t] = EmptyHand]
          /\ leftover' = leftover \ hand[t].job
          /\ UNCHANGED <<installed, proc, expected, mode, todo, cut, ends>>
          /\ UNCHANGED <<found, overtaken>>
      BY <1>2 DEF LinkWrite
    <2>2. hand[t].job = {j} /\ j \in Jobs /\ row[j].status # "absent"
          /\ hand[t].text \in Contents /\ hand[t].text \in Text
      BY <2>1 DEF Linking, Text
    <2>3. GeneratedLinks(hand[t].text) \in Links
          /\ GeneratedLinks(hand[t].text).text = hand[t].text
      BY <2>2 DEF GeneratedLinks, Links
    <2>4. row[j] \in Row BY <2>2
    <2>5. row' \in [Jobs -> Row]
          /\ \A k \in Jobs : row'[k].text = row[k].text
          /\ \A m \in Jobs \ {j} : row'[m] = row[m]
          /\ row'[j].status = "indexed"
      BY <2>2, <2>4 DEF Row, Statuses
    <2>6. TypeOK' BY <2>1, <2>2, <2>3, <2>5, EmptyHandTyped DEF Linking
    <2>7. OneInHand' BY <2>1 DEF Linking
    <2>8. links'[j].text \in Contents /\ \A k \in Jobs \ {j} : links'[k] = links[k]
      BY <2>2, <2>3
    <2>9. \A s \in Threads : \A k \in hand'[s].job :
             pc'[s] \in Linking => row'[k].status # "absent"
      BY <2>1, <2>2, <2>5 DEF Linking, TypeOK, Hand
    <2>10. TextsAreThere'
      <3>1. \A k \in Jobs : row'[k].status # "absent" => row'[k].text \in Contents
        BY <2>2, <2>5
      <3>2. \A k \in Indexed' : links'[k].text \in Contents
        BY <2>5, <2>8
      <3>3. \A s \in Threads : pc'[s] \in Searching \cup {"linking", "collected"}
                                   => hand'[s].text \in Contents
        BY <2>1
      <3>4. pc'[Starter] \in Linking \cup {"idle"} /\ todo' \subseteq Stored'
        BY <2>1, <2>2, <2>5 DEF Threads
      <3> QED BY <2>9, <3>1, <3>2, <3>3, <3>4
    <2> QED BY <2>6, <2>7, <2>10
  <1>3. CASE LinkFails(t)
    <2>1. /\ pc[t] \in {"stored", "linking"} /\ pc' = [pc EXCEPT ![t] = "failing"]
          /\ hand' = [hand EXCEPT ![t] = [hand[t] EXCEPT !.text = NoText]]
          /\ UNCHANGED <<row, links, installed, proc, expected, mode, todo, leftover, cut, ends>>
          /\ UNCHANGED <<found, overtaken>>
      BY <1>3 DEF LinkFails
    <2>2. /\ [hand[t] EXCEPT !.text = NoText] \in Hand
          /\ \A s \in Threads : hand'[s].job = hand[s].job
          /\ \A s \in Threads \ {t} : hand'[s] = hand[s]
      BY <2>1, HandFields DEF Text, Hand
    <2>3. TypeOK' BY <2>1, <2>2 DEF Linking
    <2>4. OneInHand' BY <2>1, <2>2 DEF Linking
    <2>5. TextsAreThere' BY <2>1, <2>2 DEF Linking
    <2> QED BY <2>3, <2>4, <2>5
  <1>4. CASE LinkFailed(t)
    <2>0. PICK j \in hand[t].job :
          /\ row' \in {row, [row EXCEPT ![j].status = "failed", ![j].attempts = @ + 1]}
          /\ leftover' = leftover \cup {j}
      BY <1>4 DEF LinkFailed, NoteFailure
    <2>1. /\ pc[t] = "failing" /\ pc' = [pc EXCEPT ![t] = "idle"]
          /\ hand' = [hand EXCEPT ![t] = EmptyHand]
          /\ UNCHANGED <<links, installed, proc, expected, mode, todo, cut, ends>>
          /\ UNCHANGED <<found, overtaken>>
      BY <1>4 DEF LinkFailed, NoteFailure
    <2>2. hand[t].job = {j} /\ j \in Jobs /\ row[j].status # "absent"
      BY <2>1 DEF Linking
    <2>4. Noted
      BY <2>0, <2>2, NoteFailureNotes
    <2>5. TypeOK' BY <2>0, <2>1, <2>2, <2>4, EmptyHandTyped DEF Linking, Noted
    <2>6. OneInHand' BY <2>1 DEF Linking
    <2>7. \A s \in Threads : \A k \in hand'[s].job :
             pc'[s] \in Linking => row'[k].status # "absent"
      <3> SUFFICES ASSUME NEW s \in Threads, NEW k \in hand'[s].job, pc'[s] \in Linking
                   PROVE  row'[k].status # "absent"
        OBVIOUS
      <3>1. s # t /\ hand'[s] = hand[s] /\ pc'[s] = pc[s]
        BY <2>1 DEF Linking
      <3>2. k \in Jobs /\ row[k].status # "absent"
        BY <3>1
      <3> QED BY <3>2, <2>4 DEF Noted
    <2>8. TextsAreThere'
      <3>1. \A k \in Jobs : row'[k].status # "absent" => row'[k].text \in Contents
        BY <2>1, <2>4, NotedTexts
      <3>2. \A k \in Indexed' : links'[k].text \in Contents
        BY <2>1, <2>4, NotedTexts
      <3>3. \A s \in Threads : pc'[s] \in Searching \cup {"linking", "collected"}
                                   => hand'[s].text \in Contents
        BY <2>1
      <3>4. pc'[Starter] \in Linking \cup {"idle"} /\ todo' \subseteq Stored'
        BY <2>1, <2>4, NotedTexts DEF Threads
      <3> QED BY <2>7, <3>1, <3>2, <3>3, <3>4
    <2> QED BY <2>5, <2>6, <2>8
  <1> QED BY <1>1, <1>2, <1>3, <1>4 DEF Link

\* The end of the process.
LEMMA TypedEnd ==
  ASSUME Typed, EndProcess \/ StartFails
  PROVE  Typed'
  <1>1. CASE EndProcess
    <2>1. TypeOK'
      BY <1>1, TypedClear DEF EndProcess, Typed, TypeOK, database
    <2>2. OneInHand' /\ TextsAreThere'
      BY <1>1, TypedClear
         DEF EndProcess, Typed, OneInHand, TextsAreThere, database, Linking, Searching, Threads,
             Indexed, Stored
    <2> QED BY <2>1, <2>2 DEF Typed
  <1>2. CASE StartFails
    <2>0. PICK j \in hand[Starter].job :
          /\ row' \in {row, [row EXCEPT ![j].status = "failed", ![j].attempts = @ + 1]}
          /\ leftover' = leftover \cup {j}
      BY <1>2 DEF StartFails, NoteFailure
    <2>1. /\ pc[Starter] = "failing" /\ ends' = ends + 1 /\ ClearMemory
          /\ UNCHANGED <<links, installed, overtaken>>
      BY <1>2 DEF StartFails, NoteFailure
    <2>2. j \in Jobs /\ row[j].status # "absent"
      BY <2>1 DEF Typed, OneInHand, TextsAreThere, Linking, Threads
    <2>4. Noted
      BY <2>0, <2>2, NoteFailureNotes DEF Typed
    <2>5. TypeOK'
      BY <2>0, <2>1, <2>2, <2>4, TypedClear DEF Typed, TypeOK, Noted
    <2>6. OneInHand'
      BY <2>1, TypedClear DEF OneInHand, Linking, Searching
    <2>7. TextsAreThere'
      <3>1. \A k \in Jobs : row'[k].status # "absent" => row'[k].text \in Contents
        BY <2>1, <2>4, NotedTexts DEF Typed
      <3>2. \A k \in Indexed' : links'[k].text \in Contents
        BY <2>1, <2>4, NotedTexts DEF Typed
      <3>3. todo' = {} /\ \A t \in Threads : pc'[t] = "idle"
        BY <2>1, TypedClear
      <3>4. pc'[Starter] = "idle"
        BY <3>3 DEF Threads
      <3> QED BY <3>1, <3>2, <3>3, <3>4 DEF Linking, Searching, TextsAreThere
    <2> QED BY <2>5, <2>6, <2>7 DEF Typed
  <1> QED BY <1>1, <1>2

\* Collecting, storing and searching.
LEMMA TypedInvestigate ==
  ASSUME Typed, NEW i \in Investigations, Investigate(i)
  PROVE  Typed'
  <1> USE DEF Typed, TypeOK, OneInHand, TextsAreThere, Searching, database, start,
             Stored, Indexed
  <1>0. i \in Threads /\ i # Starter
    BY StarterIsNoInvestigation DEF Threads
  <1>1. CASE Collect(i)
    <2> PICK j \in Jobs, text \in Contents :
          hand' = [hand EXCEPT ![i] = [EmptyHand EXCEPT !.job = {j}, !.text = text]]
      BY <1>1 DEF Collect
    <2>1. /\ pc[i] = "idle" /\ pc' = [pc EXCEPT ![i] = "collected"]
          /\ found' = [found EXCEPT ![i] = {}]
          /\ UNCHANGED <<row, links, installed, proc, expected, mode, todo, leftover, cut, ends>>
          /\ UNCHANGED overtaken
      BY <1>1 DEF Collect
    <2>2. /\ [EmptyHand EXCEPT !.job = {j}, !.text = text] \in Hand
          /\ [EmptyHand EXCEPT !.job = {j}, !.text = text].job = {j}
          /\ [EmptyHand EXCEPT !.job = {j}, !.text = text].text = text
      BY EmptyHandTyped DEF Text, EmptyHand
    <2>3. TypeOK' BY <2>1, <2>2 DEF Linking
    <2>4. OneInHand' BY <1>0, <2>1, <2>2 DEF Linking
    <2>5. TextsAreThere' BY <1>0, <2>1, <2>2 DEF Linking, Threads
    <2> QED BY <2>3, <2>4, <2>5
  <1>2. CASE Upsert(i)
    <2>0. PICK j \in hand[i].job :
          /\ row' = [row EXCEPT ![j] =
                 [status |-> "pending", attempts |-> 0, text |-> hand[i].text]]
          /\ overtaken' = overtaken \cup (IF InUse(j) = {} THEN {} ELSE {j})
      BY <1>2 DEF Upsert
    <2>1. /\ pc[i] = "collected" /\ pc' = [pc EXCEPT ![i] = "stored"]
          /\ UNCHANGED <<links, installed, proc, expected, mode, todo, leftover, cut, ends>>
          /\ hand' = [hand EXCEPT ![i] = [hand[i] EXCEPT !.text = NoText]]
          /\ found' = found
      BY <1>2 DEF Upsert
    <2>a. /\ [hand[i] EXCEPT !.text = NoText] \in Hand
          /\ \A s \in Threads : hand'[s].job = hand[s].job
          /\ \A s \in Threads \ {i} : hand'[s] = hand[s]
      BY <1>0, <2>1, HandFields DEF Text, Hand
    <2>2. j \in Jobs /\ hand[i].job = {j} /\ hand[i].text \in Contents
      BY <1>0, <2>1
    <2>3. /\ row' \in [Jobs -> Row]
          /\ \A k \in Jobs \ {j} : row'[k] = row[k]
          /\ row'[j].status = "pending" /\ row'[j].text \in Contents
      BY <2>0, <2>2 DEF Row, Statuses, Text
    <2>4. TypeOK' BY <1>0, <2>0, <2>1, <2>2, <2>3, <2>a DEF Linking
    <2>5. OneInHand' BY <1>0, <2>1, <2>a DEF Linking
    <2>6. TextsAreThere'
      <3>1. \A k \in Jobs : row'[k].status # "absent" => row'[k].text \in Contents
        BY <2>2, <2>3
      <3>2. \A k \in Indexed' : links'[k].text \in Contents
        BY <2>1, <2>3
      <3>3. \A s \in Threads : pc'[s] \in Searching \cup {"linking", "collected"}
                                   => hand'[s].text \in Contents
        BY <1>0, <2>1, <2>a
      <3>4. \A s \in Threads : \A k \in hand'[s].job :
               pc'[s] \in Linking => row'[k].status # "absent"
        <4> SUFFICES ASSUME NEW s \in Threads, NEW k \in hand[s].job, pc'[s] \in Linking
                     PROVE  row'[k].status # "absent"
          BY <2>a
        <4>1. CASE s = i BY <4>1, <2>2, <2>3
        <4>2. CASE s # i
          <5>1. pc[s] \in Linking BY <4>2, <2>1
          <5>2. k \in Jobs /\ row[k].status # "absent" BY <5>1
          <5> QED BY <5>2, <2>3
        <4> QED BY <4>1, <4>2
      <3>5. pc'[Starter] \in Linking \cup {"idle"} /\ todo' \subseteq Stored'
        BY <1>0, <2>1, <2>3 DEF Threads
      <3> QED BY <3>1, <3>2, <3>3, <3>4, <3>5
    <2> QED BY <2>4, <2>5, <2>6
  <1>3. CASE UpsertFails(i)
    <2>1. /\ pc' = [pc EXCEPT ![i] = "idle"] /\ hand' = [hand EXCEPT ![i] = EmptyHand]
          /\ UNCHANGED <<row, links, installed, proc, expected, mode, todo, leftover, cut, ends>>
          /\ UNCHANGED <<found, overtaken>>
      BY <1>3 DEF UpsertFails
    <2>2. TypeOK' BY <2>1, EmptyHandTyped
    <2>3. OneInHand' /\ TextsAreThere' BY <1>0, <2>1 DEF Linking, Threads
    <2> QED BY <2>2, <2>3
  <1>4. CASE ReadRows(i)
    <2> PICK j \in Indexed :
          hand' = [hand EXCEPT ![i] = [EmptyHand EXCEPT !.job = {j}, !.text = row[j].text]]
      BY <1>4 DEF ReadRows
    <2>1. /\ pc' = [pc EXCEPT ![i] = "searching"]
          /\ found' = [found EXCEPT ![i] = {}]
          /\ UNCHANGED <<row, links, installed, proc, expected, mode, todo, leftover, cut, ends>>
          /\ UNCHANGED overtaken
      BY <1>4 DEF ReadRows
    <2>2. j \in Jobs /\ row[j].text \in Contents
      OBVIOUS
    <2>3. /\ [EmptyHand EXCEPT !.job = {j}, !.text = row[j].text] \in Hand
          /\ [EmptyHand EXCEPT !.job = {j}, !.text = row[j].text].job = {j}
          /\ [EmptyHand EXCEPT !.job = {j}, !.text = row[j].text].text = row[j].text
      BY <2>2, EmptyHandTyped DEF Text, EmptyHand
    <2>4. TypeOK' BY <2>1, <2>3
    <2>5. OneInHand' BY <1>0, <2>1, <2>2, <2>3 DEF Linking
    <2>6. TextsAreThere' BY <1>0, <2>1, <2>2, <2>3 DEF Linking, Threads
    <2> QED BY <2>4, <2>5, <2>6
  <1>5. CASE MatchOccupations(i)
    <2> PICK led \in Leads(i) : hand' = [hand EXCEPT ![i].led = led]
      BY <1>5 DEF MatchOccupations
    <2>1. /\ pc[i] = "searching" /\ pc' = [pc EXCEPT ![i] = "matching"]
          /\ UNCHANGED <<row, links, installed, proc, expected, mode, todo, leftover, cut, ends>>
          /\ UNCHANGED <<found, overtaken>>
      BY <1>5 DEF MatchOccupations
    <2>2. hand' = [hand EXCEPT ![i] = [hand[i] EXCEPT !.led = led]]
      OBVIOUS
    <2>3. led \subseteq Contents
      BY DEF Leads
    <2>4. /\ [hand[i] EXCEPT !.led = led] \in Hand
          /\ \A s \in Threads : hand'[s].job = hand[s].job /\ hand'[s].text = hand[s].text
      BY <1>0, <2>2, <2>3, HandFields DEF Hand
    <2>5. TypeOK' BY <2>1, <2>2, <2>4
    <2>6. OneInHand' BY <1>0, <2>1, <2>4 DEF Linking
    <2>7. TextsAreThere' BY <1>0, <2>1, <2>4 DEF Linking, Threads
    <2> QED BY <2>5, <2>6, <2>7
  <1>6. CASE MatchSkills(i)
    <2> PICK led \in Leads(i) :
          found' = [found EXCEPT ![i] = Candidates(i, hand[i].led \cup led)]
      BY <1>6 DEF MatchSkills
    <2>1. /\ pc[i] = "matching" /\ pc' = [pc EXCEPT ![i] = "idle"]
          /\ hand' = [hand EXCEPT ![i] = EmptyHand]
          /\ UNCHANGED <<row, links, installed, proc, expected, mode, todo, leftover, cut, ends>>
          /\ UNCHANGED overtaken
      BY <1>6 DEF MatchSkills
    <2>2. /\ hand[i].text \in Contents /\ hand[i].job \subseteq Jobs
          /\ hand[i].led \subseteq Contents /\ led \subseteq Contents
      BY <1>0, <2>1, HandFields DEF Leads
    <2>3. Candidates(i, hand[i].led \cup led)
              \in SUBSET [job : Jobs, shown : Contents, judged : SUBSET Contents]
      BY <2>2 DEF Candidates
    <2>4. TypeOK' BY <2>1, <2>3, EmptyHandTyped
    <2>5. OneInHand' /\ TextsAreThere' BY <1>0, <2>1 DEF Linking, Threads
    <2> QED BY <2>4, <2>5
  <1> QED BY <1>1, <1>2, <1>3, <1>4, <1>5, <1>6 DEF Investigate

\* Every variable keeps its type.
THEOREM TypeCorrect == Spec => []TypeOK
  <1>1. Init => Typed BY TypedInit
  <1>2. Typed /\ [Next]_vars => Typed'
    <2> SUFFICES ASSUME Typed, [Next]_vars PROVE Typed'
      OBVIOUS
    <2>1. CASE Next
      BY <2>1, TypedStart, TypedLink, TypedEnd, TypedInvestigate DEF Next
    <2>2. CASE UNCHANGED vars
      BY <2>2 DEF vars, database, start, Typed, TypeOK, OneInHand, TextsAreThere, Stored,
                  Indexed
    <2> QED BY <2>1, <2>2
  <1>3. Typed => TypeOK BY DEF Typed
  <1> QED BY <1>1, <1>2, <1>3, PTL DEF Spec

(***************************************************************************)
(* What is indexed, shown and judged is the stored text, or the posting was *)
(* rewritten while somebody used it.  The invariant adds what the threads  *)
(* hold between their two accesses to the database.                        *)
(***************************************************************************)

\* What a thread has read of a posting is still there, and its links led a search
\* by no other text, or the posting was overtaken.
Holds(t, j) ==
    \/ j \in overtaken
    \/ /\ hand[t].text = row[j].text
       /\ pc[t] \in Searching => hand[t].led \subseteq {hand[t].text}

Using == Searching \cup {"linking"}

CurrentInv ==
    /\ IndexedIsCurrent
    /\ ShownAsJudged
    /\ \A t \in Threads : pc[t] \in Using => \A j \in hand[t].job : Holds(t, j)

\* A step that neither changes a text or links nor makes a thread read one.
Quiet ==
    /\ Noted
    /\ links' = links
    /\ overtaken' = overtaken
    /\ \A i \in Investigations : found'[i] \subseteq found[i]
    /\ \A t \in Threads : \/ pc'[t] = pc[t] /\ hand'[t] = hand[t]
                          \/ pc'[t] \notin Using

LEMMA QuietKeeps ==
  ASSUME CurrentInv, Typed, Quiet
  PROVE  CurrentInv'
  <1>1. IndexedIsCurrent'
    BY DEF CurrentInv, IndexedIsCurrent, Quiet, Noted, Indexed
  <1>2. ShownAsJudged'
    BY DEF CurrentInv, ShownAsJudged, Quiet
  <1>3. ASSUME NEW t \in Threads, pc'[t] \in Using, NEW j \in hand'[t].job
        PROVE  Holds(t, j)'
    <2>1. pc[t] \in Using /\ pc'[t] = pc[t] /\ hand'[t] = hand[t]
      BY <1>3 DEF Quiet
    <2>2. j \in Jobs
      BY <1>3, <2>1 DEF Typed, OneInHand, Linking, Using
    <2> QED BY <1>3, <2>1, <2>2 DEF CurrentInv, Quiet, Noted, Holds
  <1> QED BY <1>1, <1>2, <1>3 DEF CurrentInv

\* A row that does not change is noted in the sense above.
LEMMA SameRowsNoted ==
  ASSUME TypeOK, row' = row
  PROVE  Noted
  BY DEF TypeOK, Noted

LEMMA QuietStart ==
  ASSUME Typed, Start \/ ImportSeed \/ SelectPending \/ LinkNext \/ Serve
  PROVE  Quiet
  <1>0. UNCHANGED <<row, links, found, overtaken>>
    BY DEF Start, ImportSeed, SelectPending, LinkNext, Serve, database
  <1>1. Noted BY <1>0, SameRowsNoted DEF Typed
  <1>2. CASE UNCHANGED <<pc, hand>>
    BY <1>0, <1>1, <1>2 DEF Quiet
  <1>3. CASE LinkNext
    <2>1. /\ pc' = [pc EXCEPT ![Starter] = "stored"]
          /\ \E h \in Hand : hand' = [hand EXCEPT ![Starter] = h]
      BY <1>3, EmptyHandTyped DEF LinkNext, Typed, TypeOK
    <2> QED BY <1>0, <1>1, <2>1 DEF Quiet, Using, Searching, Typed, TypeOK
  <1> QED BY <1>2, <1>3 DEF Start, ImportSeed, SelectPending, Serve

LEMMA QuietThread ==
  ASSUME Typed, NEW t \in Threads,
         \/ LinkFails(t) \/ LinkFailed(t)
         \/ t \in Investigations /\ (Collect(t) \/ UpsertFails(t))
  PROVE  Quiet
  <1>1. /\ UNCHANGED <<links, overtaken>>
        /\ \A i \in Investigations : found'[i] \subseteq found[i]
        /\ \E p \in {"failing", "idle", "collected"} : pc' = [pc EXCEPT ![t] = p]
        /\ \E h : hand' = [hand EXCEPT ![t] = h]
    <2>1. CASE LinkFails(t)
      <3>1. hand' = [hand EXCEPT ![t] = [hand[t] EXCEPT !.text = NoText]]
        BY <2>1 DEF LinkFails
      <3> QED BY <2>1, <3>1 DEF LinkFails, database
    <2>2. CASE LinkFailed(t)
      BY <2>2 DEF LinkFailed, NoteFailure
    <2>3. CASE t \in Investigations /\ Collect(t)
      BY <2>3 DEF Collect, database, Typed, TypeOK
    <2>4. CASE t \in Investigations /\ UpsertFails(t)
      BY <2>4 DEF UpsertFails, database
    <2> QED BY <2>1, <2>2, <2>3, <2>4
  <1>2. Noted
    <2>1. CASE row' = row BY <2>1, SameRowsNoted DEF Typed
    <2>2. CASE LinkFailed(t)
      <3>1. /\ pc[t] = "failing"
            /\ \E j \in hand[t].job :
                   \/ row' = [row EXCEPT ![j].status = "failed", ![j].attempts = @ + 1]
                   \/ row' = row
        BY <2>2 DEF LinkFailed, NoteFailure
      <3>2. \A j \in hand[t].job : j \in Jobs /\ row[j].status # "absent"
        BY <3>1 DEF Typed, OneInHand, TextsAreThere, Linking
      <3> QED BY <3>1, <3>2, NoteFailureNotes DEF Typed
    <2> QED BY <2>1, <2>2 DEF LinkFails, Collect, UpsertFails, database
  <1> QED BY <1>1, <1>2 DEF Quiet, Using, Searching, Typed, TypeOK

LEMMA QuietEnd ==
  ASSUME Typed, EndProcess \/ StartFails
  PROVE  Quiet
  <1>1. links' = links /\ overtaken' = overtaken /\ ClearMemory
    BY DEF EndProcess, StartFails, NoteFailure, database
  <1>2. Noted
    <2>1. CASE EndProcess BY <2>1, SameRowsNoted DEF EndProcess, database, Typed
    <2>2. CASE StartFails
      <3>1. /\ pc[Starter] = "failing"
            /\ \E j \in hand[Starter].job :
                   \/ row' = [row EXCEPT ![j].status = "failed", ![j].attempts = @ + 1]
                   \/ row' = row
        BY <2>2 DEF StartFails, NoteFailure
      <3>2. \A j \in hand[Starter].job : j \in Jobs /\ row[j].status # "absent"
        BY <3>1 DEF Typed, OneInHand, TextsAreThere, Linking, Threads
      <3> QED BY <3>1, <3>2, NoteFailureNotes DEF Typed
    <2> QED BY <2>1, <2>2
  <1>3. found' = [i \in Investigations |-> {}]
    BY <1>1 DEF ClearMemory
  <1> QED BY <1>1, <1>2, <1>3, TypedClear DEF Quiet, Using, Searching

LEMMA CurrentLinkRead ==
  ASSUME CurrentInv, Typed, NEW t \in Threads, LinkRead(t)
  PROVE  CurrentInv'
  <1>1. /\ UNCHANGED <<row, links, found, overtaken>>
        /\ pc' = [pc EXCEPT ![t] = "linking"] /\ pc[t] = "stored"
        /\ \E j \in hand[t].job : hand' = [hand EXCEPT ![t].text = row[j].text]
    BY DEF LinkRead, database
  <1>2. PICK k \in Jobs : hand[t].job = {k}
    BY <1>1 DEF Typed, OneInHand, Linking
  <1>3. /\ hand'[t].text = row[k].text /\ hand'[t].job = {k}
        /\ \A s \in Threads \ {t} : hand'[s] = hand[s]
    BY <1>1, <1>2 DEF Typed, TypeOK, Hand
  <1>4. pc'[t] = "linking" /\ \A s \in Threads \ {t} : pc'[s] = pc[s]
    BY <1>1 DEF Typed, TypeOK
  <1>5. IndexedIsCurrent' /\ ShownAsJudged'
    BY <1>1 DEF CurrentInv, IndexedIsCurrent, ShownAsJudged, Indexed
  <1> QED BY <1>1, <1>3, <1>4, <1>5 DEF CurrentInv, Holds, Searching

LEMMA CurrentLinkWrite ==
  ASSUME CurrentInv, Typed, NEW t \in Threads, LinkWrite(t)
  PROVE  CurrentInv'
  <1>1. /\ pc[t] = "linking" /\ UNCHANGED <<found, overtaken>>
        /\ pc' = [pc EXCEPT ![t] = "idle"] /\ hand' = [hand EXCEPT ![t] = EmptyHand]
    BY DEF LinkWrite
  <1>2. PICK k \in Jobs : hand[t].job = {k}
    BY <1>1 DEF Typed, OneInHand, Linking
  <1>3. /\ links' = [links EXCEPT ![k] = GeneratedLinks(hand[t].text)]
        /\ row' = [row EXCEPT ![k].status = "indexed", ![k].attempts = @ + 1]
    BY <1>2 DEF LinkWrite
  <1>4. hand[t].text = row[k].text \/ k \in overtaken
    BY <1>1, <1>2 DEF CurrentInv, Holds, Using
  <1>5. row \in [Jobs -> Row] /\ links \in [Jobs -> Links]
    BY DEF Typed, TypeOK
  <1>6. /\ \A j \in Jobs : row'[j].text = row[j].text
        /\ \A j \in Jobs \ {k} : row'[j] = row[j] /\ links'[j] = links[j]
        /\ links'[k].text = hand[t].text
    BY <1>3, <1>5 DEF Row, GeneratedLinks
  <1>7. \A s \in Threads : \/ pc'[s] = pc[s] /\ hand'[s] = hand[s]
                           \/ pc'[s] = "idle"
    BY <1>1 DEF Typed, TypeOK
  <1>8. IndexedIsCurrent'
    BY <1>1, <1>4, <1>6 DEF CurrentInv, IndexedIsCurrent, Indexed
  <1>9. ShownAsJudged'
    BY <1>1 DEF CurrentInv, ShownAsJudged
  <1>10. ASSUME NEW s \in Threads, pc'[s] \in Using, NEW j \in hand'[s].job
         PROVE  Holds(s, j)'
    <2>1. pc'[s] = pc[s] /\ hand'[s] = hand[s]
      BY <1>7, <1>10 DEF Using, Searching
    <2>2. j \in Jobs BY <1>10, <2>1 DEF Typed, OneInHand, Linking, Using
    <2> QED BY <1>1, <1>6, <1>10, <2>1, <2>2 DEF CurrentInv, Holds
  <1> QED BY <1>8, <1>9, <1>10 DEF CurrentInv

LEMMA CurrentUpsert ==
  ASSUME CurrentInv, Typed, NEW i \in Investigations, Upsert(i)
  PROVE  CurrentInv'
  <1>1. /\ pc[i] = "collected" /\ UNCHANGED <<links, found>>
        /\ pc' = [pc EXCEPT ![i] = "stored"]
        /\ hand' = [hand EXCEPT ![i] = [hand[i] EXCEPT !.text = NoText]]
        /\ i \in Threads
    BY DEF Upsert, Threads
  <1>2. PICK k \in Jobs : hand[i].job = {k}
    BY <1>1 DEF Typed, OneInHand
  <1>3. /\ row' = [row EXCEPT ![k] =
               [status |-> "pending", attempts |-> 0, text |-> hand[i].text]]
        /\ overtaken' = overtaken \cup (IF InUse(k) = {} THEN {} ELSE {k})
    BY <1>2 DEF Upsert
  <1>4. /\ \A j \in Jobs \ {k} : row'[j] = row[j]
        /\ row'[k].status = "pending"
        /\ overtaken \subseteq overtaken'
    BY <1>3 DEF Typed, TypeOK
  <1>5. \A s \in Threads : pc'[s] \in Using => pc'[s] = pc[s] /\ hand'[s] = hand[s]
    BY <1>1 DEF Typed, TypeOK, Using, Searching
  <1>6. IndexedIsCurrent'
    BY <1>1, <1>4 DEF CurrentInv, IndexedIsCurrent, Indexed
  <1>7. ShownAsJudged'
    BY <1>1, <1>4 DEF CurrentInv, ShownAsJudged
  <1>8. ASSUME NEW s \in Threads, pc'[s] \in Using, NEW j \in hand'[s].job
        PROVE  Holds(s, j)'
    <2>1. pc'[s] = pc[s] /\ hand'[s] = hand[s]
      BY <1>5, <1>8
    <2>2. j \in Jobs BY <1>8, <2>1 DEF Typed, OneInHand, Linking, Using
    <2>3. CASE j = k
      <3>1. s \in InUse(k) BY <1>8, <2>1, <2>3 DEF InUse, Using
      <3> QED BY <1>3, <2>3, <3>1 DEF Holds
    <2>4. CASE j # k
      BY <1>4, <1>8, <2>1, <2>2, <2>4 DEF CurrentInv, Holds
    <2> QED BY <2>3, <2>4
  <1> QED BY <1>6, <1>7, <1>8 DEF CurrentInv

\* A lookup leads a search to its posting by the text the search has read, or the
\* posting was overtaken.
LEMMA LeadsHold ==
  ASSUME CurrentInv, Typed, NEW i \in Investigations, pc[i] \in Searching,
         NEW led \in Leads(i), NEW j \in hand[i].job
  PROVE  hand[i].led \cup led \subseteq {hand[i].text} \/ j \in overtaken
  <1>0. i \in Threads BY DEF Threads
  <1>1. hand[i].job = {j} /\ j \in Jobs
    BY <1>0 DEF Typed, OneInHand
  <1>2. j \in overtaken \/ (/\ hand[i].text = row[j].text
                            /\ hand[i].led \subseteq {hand[i].text})
    BY <1>0 DEF CurrentInv, Holds, Using
  <1>3. j \in Indexed => links[j].text = row[j].text \/ j \in overtaken
    BY DEF CurrentInv, IndexedIsCurrent
  <1> QED BY <1>1, <1>2, <1>3 DEF Leads

LEMMA CurrentSearch ==
  ASSUME CurrentInv, Typed, NEW i \in Investigations,
         ReadRows(i) \/ MatchOccupations(i) \/ MatchSkills(i)
  PROVE  CurrentInv'
  <1>1. UNCHANGED <<row, links, overtaken>> /\ i \in Threads
    BY DEF ReadRows, MatchOccupations, MatchSkills, database, Threads
  <1>2. IndexedIsCurrent'
    BY <1>1 DEF CurrentInv, IndexedIsCurrent, Indexed
  <1>3. \A s \in Threads \ {i} : hand'[s] = hand[s] /\ pc'[s] = pc[s]
    BY DEF ReadRows, MatchOccupations, MatchSkills, Typed, TypeOK
  <1>4. \A s \in Threads \ {i} : pc'[s] \in Using => \A j \in hand'[s].job : Holds(s, j)'
    BY <1>1, <1>3 DEF CurrentInv, Holds
  <1>5. CASE ReadRows(i)
    <2>1. PICK j \in Indexed :
            hand' = [hand EXCEPT ![i] = [EmptyHand EXCEPT !.job = {j}, !.text = row[j].text]]
      BY <1>5 DEF ReadRows
    <2>2. /\ pc' = [pc EXCEPT ![i] = "searching"]
          /\ found' = [found EXCEPT ![i] = {}]
      BY <1>5 DEF ReadRows
    <2>3. ShownAsJudged'
      BY <1>1, <2>2 DEF CurrentInv, ShownAsJudged, Typed, TypeOK
    <2>4. hand'[i] = [EmptyHand EXCEPT !.job = {j}, !.text = row[j].text]
      BY <1>1, <2>1 DEF Typed, TypeOK
    <2>5. hand'[i].job = {j} /\ hand'[i].text = row[j].text /\ hand'[i].led = {}
      BY <2>4 DEF EmptyHand
    <2>6. \A k \in hand'[i].job : Holds(i, k)'
      BY <1>1, <2>5 DEF Holds
    <2> QED BY <1>2, <1>4, <2>3, <2>6 DEF CurrentInv
  <1>6. CASE MatchOccupations(i)
    <2>1. PICK led \in Leads(i) : hand' = [hand EXCEPT ![i].led = led]
      BY <1>6 DEF MatchOccupations
    <2>2. /\ pc[i] = "searching" /\ found' = found
          /\ pc' = [pc EXCEPT ![i] = "matching"]
      BY <1>6 DEF MatchOccupations
    <2>3. ShownAsJudged'
      BY <1>1, <2>2 DEF CurrentInv, ShownAsJudged
    <2>4. hand'[i].job = hand[i].job /\ hand'[i].text = hand[i].text /\ hand'[i].led = led
      BY <1>1, <2>1 DEF Typed, TypeOK, Hand
    <2>5. \A j \in hand[i].job : hand[i].led \cup led \subseteq {hand[i].text} \/ j \in overtaken
      BY <2>2, LeadsHold DEF Searching
    <2>6. \A j \in hand[i].job : hand[i].text = row[j].text \/ j \in overtaken
      BY <1>1, <2>2 DEF CurrentInv, Holds, Using, Searching
    <2>7. \A k \in hand'[i].job : Holds(i, k)'
      BY <1>1, <2>4, <2>5, <2>6 DEF Holds
    <2> QED BY <1>2, <1>4, <2>3, <2>7 DEF CurrentInv
  <1>7. CASE MatchSkills(i)
    <2>1. PICK led \in Leads(i) :
            found' = [found EXCEPT ![i] = Candidates(i, hand[i].led \cup led)]
      BY <1>7 DEF MatchSkills
    <2>2. pc[i] = "matching" /\ pc' = [pc EXCEPT ![i] = "idle"]
      BY <1>7 DEF MatchSkills
    <2>3. \A c \in Candidates(i, hand[i].led \cup led) :
              c.judged = {c.shown} \/ c.job \in overtaken
      <3> SUFFICES ASSUME NEW j \in hand[i].job, hand[i].led \cup led # {}
                   PROVE  hand[i].led \cup led = {hand[i].text} \/ j \in overtaken
        BY DEF Candidates
      <3> QED BY <2>2, LeadsHold DEF Searching
    <2>4. ShownAsJudged'
      BY <1>1, <2>1, <2>3 DEF CurrentInv, ShownAsJudged, Typed, TypeOK
    <2>5. pc'[i] \notin Using
      BY <1>1, <2>2 DEF Using, Searching, Typed, TypeOK
    <2> QED BY <1>2, <1>4, <2>4, <2>5 DEF CurrentInv
  <1> QED BY <1>5, <1>6, <1>7

LEMMA CurrentNext ==
  ASSUME CurrentInv, Typed, [Next]_vars
  PROVE  CurrentInv'
  <1>1. CASE \E t \in Threads : Link(t)
    BY <1>1, QuietThread, QuietKeeps, CurrentLinkRead, CurrentLinkWrite DEF Link
  <1>2. CASE \E i \in Investigations : Investigate(i)
    BY <1>2, QuietThread, QuietKeeps, CurrentUpsert, CurrentSearch DEF Investigate, Threads
  <1>3. CASE EndProcess \/ StartFails
    BY <1>3, QuietEnd, QuietKeeps
  <1>4. CASE UNCHANGED vars
    BY <1>4, SameRowsNoted, QuietKeeps DEF vars, database, start, Quiet, Typed
  <1> QED BY <1>1, <1>2, <1>3, <1>4, QuietStart, QuietKeeps DEF Next

LEMMA CurrentInit == Init => CurrentInv
  BY DEF Init, CurrentInv, IndexedIsCurrent, ShownAsJudged, Indexed, Using, Searching

LEMMA TypedNext ==
  ASSUME Typed, [Next]_vars
  PROVE  Typed'
  <1>1. CASE Next
    BY <1>1, TypedStart, TypedLink, TypedEnd, TypedInvestigate DEF Next
  <1>2. CASE UNCHANGED vars
    BY <1>2 DEF vars, database, start, Typed, TypeOK, OneInHand, TextsAreThere, Stored,
                Indexed
  <1> QED BY <1>1, <1>2

\* An indexed posting carries the links of the stored text, unless it was
\* rewritten while a thread was using it.
THEOREM IndexIsCurrent == Spec => []IndexedIsCurrent
  <1>1. Init => Typed /\ CurrentInv BY TypedInit, CurrentInit
  <1>2. Typed /\ CurrentInv /\ [Next]_vars => (Typed /\ CurrentInv)'
    BY TypedNext, CurrentNext
  <1>3. CurrentInv => IndexedIsCurrent BY DEF CurrentInv
  <1> QED BY <1>1, <1>2, <1>3, PTL DEF Spec

\* A candidate is shown with the text it was judged by, under the same proviso.
THEOREM EvidenceIsCoherent == Spec => []ShownAsJudged
  <1>1. Init => Typed /\ CurrentInv BY TypedInit, CurrentInit
  <1>2. Typed /\ CurrentInv /\ [Next]_vars => (Typed /\ CurrentInv)'
    BY TypedNext, CurrentNext
  <1>3. CurrentInv => ShownAsJudged BY DEF CurrentInv
  <1> QED BY <1>1, <1>2, <1>3, PTL DEF Spec

(***************************************************************************)
(* Who links a posting, and with which seed.                               *)
(***************************************************************************)

\* The threads that run in each phase of the process.
Phases ==
    /\ proc # "serving" => \A i \in Investigations : pc[i] = "idle"
    /\ proc # "relinking" => pc[Starter] = "idle" /\ mode = "none"
    /\ proc = "serving" => todo = {}

\* A posting that is not indexed has its reason in every phase in which the start
\* has selected what to link.
Cause(j) ==
    \/ j \in leftover \cup todo
    \/ row[j].status = "failed" /\ row[j].attempts >= MaxAttempts
    \/ \E t \in Threads : pc[t] \in Linking /\ hand[t].job = {j}

OwnerInv ==
    /\ \A j \in Jobs : row[j].status = "pending" => row[j].attempts = 0
    /\ proc \in {"relinking", "serving"} => \A j \in Stored \ Indexed : Cause(j)

SeedInv ==
    \A j \in Indexed :
        \/ cut
        \/ links[j].seed = installed
        \/ mode = "all" /\ j \in todo
        \/ mode = "all" /\ pc[Starter] \in Linking /\ hand[Starter].job = {j}

Lifecycle == Phases /\ OwnerInv /\ SeedInv

LEMMA LifecycleInit == Init => Lifecycle
  BY DEF Init, Lifecycle, Phases, OwnerInv, SeedInv, Indexed, Stored, Threads

LEMMA LifecycleGoals ==
  ASSUME Lifecycle, Typed
  PROVE  OldSeedNeedsCut /\ NothingIsForgotten
  <1>1. OldSeedNeedsCut
    BY DEF Lifecycle, Phases, SeedInv, OldSeedNeedsCut
  <1>2. ASSUME proc = "serving", NEW j \in Stored \ Indexed
        PROVE  \/ \E i \in Investigations : pc[i] \in Linking /\ hand[i].job = {j}
               \/ row[j].status = "failed" /\ row[j].attempts >= MaxAttempts
               \/ j \in leftover \cap Due
    <2>1. pc[Starter] \notin Linking /\ todo = {}
      BY <1>2 DEF Lifecycle, Phases, Linking
    <2>2. Cause(j) /\ (row[j].status = "pending" => row[j].attempts = 0)
      BY <1>2 DEF Lifecycle, OwnerInv, Stored
    <2>3. row[j].status \in {"pending", "failed"} /\ row[j].attempts \in Nat /\ j \in Jobs
      BY <1>2 DEF Typed, TypeOK, Row, Statuses, Stored, Indexed
    <2>4. j \in Due \/ (row[j].status = "failed" /\ row[j].attempts >= MaxAttempts)
      BY <2>2, <2>3, LimitsAreNumbers DEF Due
    <2> QED BY <2>1, <2>2, <2>4 DEF Cause, Threads
  <1> QED BY <1>1, <1>2 DEF NothingIsForgotten

LEMMA LifecycleStart ==
  ASSUME Lifecycle, Typed,
         Start \/ ImportSeed \/ SelectPending \/ LinkNext \/ Serve
  PROVE  Lifecycle'
  <1> USE DEF Lifecycle, Phases, OwnerInv, SeedInv, Cause, database, Indexed, Stored
  <1>1. CASE Start BY <1>1 DEF Start
  <1>2. CASE ImportSeed BY <1>2 DEF ImportSeed
  <1>3. CASE SelectPending
    <2>1. todo' \cup leftover' = Due /\ UNCHANGED <<row, pc, hand>>
      BY <1>3 DEF SelectPending
    <2>2. ASSUME NEW j \in Stored \ Indexed PROVE Cause(j)'
      <3>1. row[j].status \in {"pending", "failed"} /\ row[j].attempts \in Nat
        BY <2>2 DEF Typed, TypeOK, Row, Statuses
      <3>2. j \in Due \/ (row[j].status = "failed" /\ row[j].attempts >= MaxAttempts)
        BY <2>2, <3>1, LimitsAreNumbers DEF Due
      <3> QED BY <2>1, <3>2
    <2> QED BY <1>3, <2>1, <2>2 DEF SelectPending
  <1>4. CASE LinkNext
    <2>1. PICK j \in todo :
            /\ todo' = todo \ {j}
            /\ hand' = [hand EXCEPT ![Starter] = [EmptyHand EXCEPT !.job = {j}]]
      BY <1>4 DEF LinkNext
    <2>2. /\ pc' = [pc EXCEPT ![Starter] = "stored"] /\ pc[Starter] = "idle"
          /\ UNCHANGED <<row, links, installed, proc, mode, leftover, cut>>
          /\ proc = "relinking"
      BY <1>4 DEF LinkNext
    <2>3. [EmptyHand EXCEPT !.job = {j}].job = {j}
      BY DEF EmptyHand
    <2>4. /\ hand'[Starter].job = {j} /\ pc'[Starter] = "stored" /\ Starter \in Threads
          /\ \A t \in Threads \ {Starter} : hand'[t] = hand[t] /\ pc'[t] = pc[t]
      BY <2>1, <2>2, <2>3 DEF Typed, TypeOK, Threads
    <2>5. Phases'
      BY <2>2, <2>4, StarterIsNoInvestigation DEF Threads
    <2>6. OwnerInv'
      BY <2>1, <2>2, <2>4 DEF Linking
    <2>7. SeedInv'
      BY <2>1, <2>2, <2>4 DEF Linking
    <2> QED BY <2>5, <2>6, <2>7
  <1>5. CASE Serve BY <1>5 DEF Serve, Linking
  <1> QED BY <1>1, <1>2, <1>3, <1>4, <1>5

LEMMA LifecycleEnd ==
  ASSUME Lifecycle, Typed, EndProcess \/ StartFails
  PROVE  Lifecycle'
  <1>1. /\ ClearMemory /\ links' = links /\ installed' = installed
    BY DEF EndProcess, StartFails, NoteFailure, database
  <1>2. \A j \in Jobs : /\ row'[j].status = "pending" => row[j] = row'[j]
                        /\ row'[j].status = "indexed" => row[j].status = "indexed"
    <2>1. CASE EndProcess BY <2>1 DEF EndProcess, database
    <2>2. CASE StartFails
      <3>1. \E j \in hand[Starter].job :
                \/ row' = [row EXCEPT ![j].status = "failed", ![j].attempts = @ + 1]
                \/ row' = row
        BY <2>2 DEF StartFails, NoteFailure
      <3> QED BY <3>1 DEF Typed, TypeOK, Row
    <2> QED BY <2>1, <2>2
  <1>3. proc' = "down" /\ mode' = "none" /\ todo' = {} /\ cut' = (cut \/ mode = "all")
    BY <1>1 DEF ClearMemory
  <1>4. Phases' BY <1>1, <1>3, TypedClear DEF Phases, Threads
  <1>5. OwnerInv' BY <1>2, <1>3 DEF Lifecycle, OwnerInv
  <1>6. SeedInv' BY <1>1, <1>2, <1>3 DEF Lifecycle, SeedInv, Indexed
  <1> QED BY <1>4, <1>5, <1>6 DEF Lifecycle

\* What linking leaves as it is.
LEMMA LinkFrame ==
  ASSUME NEW t \in Threads, Link(t)
  PROVE  UNCHANGED <<installed, proc, mode, todo, cut>>
  <1>1. CASE LinkRead(t) BY <1>1 DEF LinkRead, database, start
  <1>2. CASE LinkWrite(t) BY <1>2 DEF LinkWrite, start
  <1>3. CASE LinkFails(t) BY <1>3 DEF LinkFails, database, start
  <1>4. CASE LinkFailed(t) BY <1>4 DEF LinkFailed, NoteFailure
  <1> QED BY <1>1, <1>2, <1>3, <1>4 DEF Link

LEMMA LifecycleLink ==
  ASSUME Lifecycle, Typed, NEW t \in Threads, Link(t)
  PROVE  Lifecycle'
  <1>1. UNCHANGED <<installed, proc, mode, todo, cut>>
    BY LinkFrame
  <1>2. PICK j \in Jobs : hand[t].job = {j} /\ pc[t] \in Linking
    BY DEF Link, LinkRead, LinkWrite, LinkFails, LinkFailed, NoteFailure, Typed,
           OneInHand, Linking
  <1>3. \A s \in Threads \ {t} : hand'[s] = hand[s] /\ pc'[s] = pc[s]
    BY DEF Link, LinkRead, LinkWrite, LinkFails, LinkFailed, start, Typed, TypeOK
  <1>4. \A k \in Jobs \ {j} : row'[k] = row[k] /\ links'[k] = links[k]
    BY <1>2 DEF Link, LinkRead, LinkWrite, LinkFails, LinkFailed, NoteFailure, database,
                Typed, TypeOK
  <1>5. leftover \ {j} \subseteq leftover'
    BY <1>2 DEF Link, LinkRead, LinkWrite, LinkFails, LinkFailed, NoteFailure, start
  <1>6. pc'[t] \in Linking \cup {"idle"} /\ pc[t] # "idle"
    BY <1>2 DEF Link, LinkRead, LinkWrite, LinkFails, LinkFailed, Linking, Typed, TypeOK
  <1>7. Phases'
    BY <1>1, <1>2, <1>3, <1>6 DEF Lifecycle, Phases, Threads, Linking
  <1>8. \A k \in Stored' \ Indexed' : k # j =>
            k \in Stored \ Indexed /\ (Cause(k) => Cause(k)')
    BY <1>1, <1>2, <1>3, <1>4, <1>5 DEF Stored, Indexed, Cause
  <1>9. j \in Stored
    BY <1>2 DEF Typed, OneInHand, TextsAreThere, Stored
  <1>10. CASE LinkRead(t) \/ LinkFails(t)
    <2>1. /\ row' = row /\ links' = links /\ leftover' = leftover
          /\ pc'[t] \in Linking /\ hand'[t].job = {j}
      BY <1>2, <1>10 DEF LinkRead, LinkFails, database, start, Linking, Typed, TypeOK, Hand
    <2>2. Cause(j)'
      BY <2>1 DEF Cause
    <2>3. OwnerInv'
      BY <1>1, <1>8, <2>1, <2>2 DEF Lifecycle, OwnerInv
    <2>4. SeedInv'
      BY <1>1, <1>2, <1>3, <2>1 DEF Lifecycle, SeedInv, Indexed, Threads
    <2> QED BY <1>7, <2>3, <2>4 DEF Lifecycle
  <1>11. CASE LinkWrite(t)
    <2>1. row'[j].status = "indexed" /\ links'[j].seed = installed
      BY <1>2, <1>11 DEF LinkWrite, GeneratedLinks, Typed, TypeOK, Row
    <2>2. OwnerInv'
      <3>1. \A k \in Jobs : row'[k].status = "pending" => row'[k].attempts = 0
        BY <1>4, <2>1 DEF Lifecycle, OwnerInv
      <3>2. j \in Indexed'
        BY <1>2, <2>1 DEF Indexed
      <3> QED BY <1>1, <1>8, <3>1, <3>2 DEF Lifecycle, OwnerInv
    <2>3. SeedInv'
      <3> SUFFICES ASSUME NEW k \in Indexed', k # j
                   PROVE  \/ cut \/ links[k].seed = installed
                          \/ mode = "all" /\ k \in todo
                          \/ /\ mode = "all" /\ pc'[Starter] \in Linking
                             /\ hand'[Starter].job = {k}
        BY <1>1, <1>4, <2>1 DEF SeedInv, Indexed
      <3>1. k \in Indexed BY <1>4 DEF Indexed
      <3> QED BY <1>2, <1>3, <3>1 DEF Lifecycle, SeedInv, Threads
    <2> QED BY <1>7, <2>2, <2>3 DEF Lifecycle
  <1>12. CASE LinkFailed(t)
    <2>1. mode # "all" /\ links' = links /\ j \in leftover'
          /\ (row'[j].status = "failed" \/ row' = row)
      BY <1>2, <1>12 DEF LinkFailed, NoteFailure, Typed, TypeOK, Row
    <2>2. OwnerInv'
      <3>1. \A k \in Jobs : row'[k].status = "pending" => row'[k].attempts = 0
        BY <1>4, <2>1 DEF Lifecycle, OwnerInv
      <3>2. Cause(j)'
        BY <2>1 DEF Cause
      <3> QED BY <1>1, <1>8, <3>1, <3>2 DEF Lifecycle, OwnerInv
    <2>3. \A k \in Indexed' : k \in Indexed
      BY <1>4, <2>1 DEF Indexed
    <2>4. SeedInv'
      BY <1>1, <2>1, <2>3 DEF Lifecycle, SeedInv
    <2> QED BY <1>7, <2>2, <2>4 DEF Lifecycle
  <1> QED BY <1>10, <1>11, <1>12 DEF Link

LEMMA LifecycleInvestigate ==
  ASSUME Lifecycle, Typed, NEW i \in Investigations, Investigate(i)
  PROVE  Lifecycle'
  <1>1. UNCHANGED <<links, installed, proc, mode, todo, cut, leftover>>
    BY DEF Investigate, Collect, Upsert, UpsertFails, ReadRows, MatchOccupations, MatchSkills,
           database, start
  <1>2. proc = "serving" /\ i # Starter /\ i \in Threads
    BY StarterIsNoInvestigation
       DEF Investigate, Collect, Upsert, UpsertFails, ReadRows, MatchOccupations, MatchSkills,
           Lifecycle, Phases, Threads
  <1>3. \A s \in Threads \ {i} : hand'[s] = hand[s] /\ pc'[s] = pc[s]
    BY DEF Investigate, Collect, Upsert, UpsertFails, ReadRows, MatchOccupations, MatchSkills,
           Typed, TypeOK
  <1>4. pc[i] \notin Linking
    BY DEF Investigate, Collect, Upsert, UpsertFails, ReadRows, MatchOccupations, MatchSkills,
           Linking
  <1>5. Phases'
    BY <1>1, <1>2, <1>3, StarterIsNoInvestigation DEF Lifecycle, Phases, Threads
  <1>6. CASE Upsert(i)
    <2>1. PICK j \in Jobs : hand[i].job = {j}
      BY <1>2, <1>6 DEF Upsert, Typed, OneInHand
    <2>2. /\ row' = [row EXCEPT ![j] =
                 [status |-> "pending", attempts |-> 0, text |-> hand[i].text]]
          /\ pc' = [pc EXCEPT ![i] = "stored"]
          /\ hand' = [hand EXCEPT ![i].text = NoText]
      BY <1>6, <2>1 DEF Upsert
    <2>3. /\ \A k \in Jobs \ {j} : row'[k] = row[k]
          /\ row'[j].status = "pending" /\ row'[j].attempts = 0
          /\ pc'[i] \in Linking /\ hand'[i].job = {j}
      BY <1>2, <2>1, <2>2 DEF Typed, TypeOK, Linking, Hand
    <2>4. OwnerInv'
      <3>1. \A k \in Jobs : row'[k].status = "pending" => row'[k].attempts = 0
        BY <2>3 DEF Lifecycle, OwnerInv
      <3>2. Cause(j)'
        BY <1>2, <2>3 DEF Cause
      <3>3. ASSUME NEW k \in Stored' \ Indexed', k # j PROVE Cause(k)'
        <4>1. Cause(k)
          BY <1>2, <2>3, <3>3 DEF Lifecycle, OwnerInv, Stored, Indexed
        <4>2. row'[k] = row[k]
          BY <2>3, <3>3 DEF Stored
        <4> QED BY <1>1, <1>3, <1>4, <4>1, <4>2 DEF Cause
      <3> QED BY <3>1, <3>2, <3>3 DEF OwnerInv
    <2>5. \A k \in Indexed' : k \in Indexed
      BY <2>3 DEF Indexed
    <2>6. SeedInv'
      BY <1>1, <1>2, <2>5 DEF Lifecycle, Phases, SeedInv
    <2> QED BY <1>5, <2>4, <2>6 DEF Lifecycle
  <1>7. CASE Collect(i) \/ UpsertFails(i) \/ ReadRows(i) \/ MatchOccupations(i) \/ MatchSkills(i)
    <2>1. row' = row
      BY <1>7 DEF Collect, UpsertFails, ReadRows, MatchOccupations, MatchSkills, database
    <2>2. OwnerInv'
      BY <1>1, <1>2, <1>3, <1>4, <2>1 DEF Lifecycle, OwnerInv, Cause, Stored, Indexed
    <2>3. SeedInv'
      BY <1>1, <1>2, <2>1 DEF Lifecycle, Phases, SeedInv, Indexed
    <2> QED BY <1>5, <2>2, <2>3 DEF Lifecycle
  <1> QED BY <1>6, <1>7 DEF Investigate

LEMMA LifecycleNext ==
  ASSUME Lifecycle, Typed, [Next]_vars
  PROVE  Lifecycle'
  <1>1. CASE Next
    BY <1>1, LifecycleStart, LifecycleEnd, LifecycleLink, LifecycleInvestigate DEF Next
  <1>2. CASE UNCHANGED vars
    BY <1>2 DEF vars, database, start, Lifecycle, Phases, OwnerInv, SeedInv, Cause, Indexed,
                Stored
  <1> QED BY <1>1, <1>2

\* While the backend serves, an indexed posting is linked with the installed seed,
\* unless a relinking of all postings was interrupted.
THEOREM SeedIsCurrent == Spec => []OldSeedNeedsCut
  <1>1. Init => Typed /\ Lifecycle BY TypedInit, LifecycleInit
  <1>2. Typed /\ Lifecycle /\ [Next]_vars => (Typed /\ Lifecycle)'
    BY TypedNext, LifecycleNext
  <1>3. Typed /\ Lifecycle => OldSeedNeedsCut BY LifecycleGoals
  <1> QED BY <1>1, <1>2, <1>3, PTL DEF Spec

\* While the backend serves, a stored posting that is not indexed is about to be
\* linked, has used up its attempts, or was left for a later start that may select
\* it, for any number of postings, of attempts and of ends of the process.
THEOREM NoneIsForgotten == Spec => []NothingIsForgotten
  <1>1. Init => Typed /\ Lifecycle BY TypedInit, LifecycleInit
  <1>2. Typed /\ Lifecycle /\ [Next]_vars => (Typed /\ Lifecycle)'
    BY TypedNext, LifecycleNext
  <1>3. Typed /\ Lifecycle => NothingIsForgotten BY LifecycleGoals
  <1> QED BY <1>1, <1>2, <1>3, PTL DEF Spec
=============================================================================
