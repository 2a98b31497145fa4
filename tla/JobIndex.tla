------------------------------ MODULE JobIndex ------------------------------
(***************************************************************************)
(* The posting store and its search index: the jobs and job_concept_links  *)
(* tables of SQLite, the seed of the search taxonomy, the start of the     *)
(* backend that brings the index up to date, and the investigations that   *)
(* store postings and search them while it serves.                         *)
(*                                                                         *)
(*   shared/db/database.py                        the jobs table           *)
(*   agent/application/collection_storage.py      storing one batch        *)
(*   agent/application/job_taxonomy_linker.py     linking one posting      *)
(*   agent/application/search_taxonomy_maintenance.py   the start          *)
(*   agent/application/search_taxonomy_import_service.py  the seed         *)
(*   agent/application/evidence_service.py, search_taxonomy_service.py     *)
(*                                                the search               *)
(*                                                                         *)
(* An action is one SQLite statement outside of a transaction, or one      *)
(* transaction.  Storing runs in the investigation's own thread, outside   *)
(* of every lock of the program, and the process may end between any two   *)
(* actions.  A text is named by its version; the links generated from it   *)
(* are named by the text and the seed they were matched against.           *)
(***************************************************************************)
EXTENDS Naturals, FiniteSets

CONSTANTS
    Jobs,          \* URLs of postings
    Contents,      \* versions of a posting's text that a collection may read
    Seeds,         \* versions of the seed file
    Investigations, \* threads that collect, store and search
    Starter,       \* the thread that prepares the taxonomy at a start
    NoSeed,        \* no row in taxonomy_sources, or no seed file
    NoText,        \* no text
    MaxAttempts,   \* relink_pending_jobs(max_attempts)
    PendingLimit,  \* relink_pending_jobs(limit)
    MaxEnds        \* bound: how often the process ends

ASSUME NoSeedIsNoVersion == NoSeed \notin Seeds
ASSUME StarterIsNoInvestigation == Starter \notin Investigations
ASSUME NoTextIsNoContent == NoText \notin Contents
ASSUME LimitsAreNumbers ==
    MaxAttempts \in Nat \ {0} /\ PendingLimit \in Nat \ {0} /\ MaxEnds \in Nat

VARIABLES
    \* the database
    row,        \* jobs: index status, index attempts and text per URL
    links,      \* job_concept_links: text and seed the links were made from
    installed,  \* taxonomy_sources.version of the core source
    \* the backend
    proc,       \* lifecycle of the process
    expected,   \* version the start has read in the seed file, if there is one
    mode,       \* which relinking the start runs
    todo,       \* ids the start has selected and not linked yet
    pc,         \* where a thread is
    hand,       \* its local variables
    found,      \* what the investigation's last search returned, until it goes on
    \* history
    leftover,   \* postings left for a later start: this one did not select them,
                \* or linking them failed since
    overtaken,  \* postings rewritten while another thread was using them
    cut,        \* has a relinking of all postings ended before its end?
    ends        \* how often the process ended

database == <<row, links, installed>>
start == <<proc, expected, mode, todo, leftover, cut, ends>>
vars == <<database, start, pc, hand, found, overtaken>>

Threads == Investigations \cup {Starter}
Statuses == {"absent", "pending", "indexed", "failed"}
Linking == {"stored", "linking", "failing"}
Searching == {"searching", "matching"}

Text == Contents \cup {NoText}
Row == [status : Statuses, attempts : Nat, text : Text]
Links == [text : Text, seed : Seeds \cup {NoSeed}]
NoLinks == [text |-> NoText, seed |-> NoSeed]

\* The job a thread works on, the text it collected or read for it, and the texts
\* whose links have led a search to it.
Hand == [job : SUBSET Jobs, text : Text, led : SUBSET Contents]
EmptyHand == [job |-> {}, text |-> NoText, led |-> {}]

Stored == {j \in Jobs : row[j].status # "absent"}
Indexed == {j \in Jobs : row[j].status = "indexed"}

Init ==
    /\ row = [j \in Jobs |-> [status |-> "absent", attempts |-> 0, text |-> NoText]]
    /\ links = [j \in Jobs |-> NoLinks]
    /\ installed = NoSeed
    /\ proc = "down"
    /\ expected = NoSeed
    /\ mode = "none"
    /\ todo = {}
    /\ pc = [t \in Threads |-> "idle"]
    /\ hand = [t \in Threads |-> EmptyHand]
    /\ found = [i \in Investigations |-> {}]
    /\ leftover = {}
    /\ overtaken = {}
    /\ cut = FALSE
    /\ ends = 0
-----------------------------------------------------------------------------
(* The start: prepare_search_taxonomy *)

\* The installation may have brought another seed file, or none, since the last.
Start ==
    /\ proc = "down"
    /\ proc' = "preparing"
    /\ expected' \in Seeds \cup {NoSeed}
    /\ UNCHANGED <<database, mode, todo, leftover, cut, ends>>
    /\ UNCHANGED <<pc, hand, found, overtaken>>

\* Mutant: a new seed relinks only what is not indexed yet.
ImportWithoutRelinking ==
    /\ proc = "preparing"
    /\ expected \notin {installed, NoSeed}
    /\ installed' = expected
    /\ expected' = NoSeed
    /\ proc' = "relinking"
    /\ mode' = "all"
    /\ todo' = Stored \ Indexed
    /\ leftover' = {}
    /\ UNCHANGED <<row, links, cut, ends>>
    /\ UNCHANGED <<pc, hand, found, overtaken>>

\* Another version is imported in one transaction, which replaces the aliases
\* and the version together.
ImportSeed ==
    /\ proc = "preparing"
    /\ expected \notin {installed, NoSeed}
    /\ installed' = expected
    /\ expected' = NoSeed
    /\ proc' = "relinking"
    /\ mode' = "all"
    /\ todo' = Stored
    /\ leftover' = {}
    /\ UNCHANGED <<row, links, cut, ends>>
    /\ UNCHANGED <<pc, hand, found, overtaken>>

\* Mutant: only postings whose linking failed are selected.
DueFailures == {j \in Jobs : row[j].status = "failed" /\ row[j].attempts < MaxAttempts}

Due == {j \in Jobs : row[j].status \in {"pending", "failed"} /\ row[j].attempts < MaxAttempts}

\* The same version, or no seed file: the oldest postings that are not indexed,
\* up to the limit.  The order of updated_at is abstracted to a choice.
SelectPending ==
    /\ proc = "preparing"
    /\ expected \in {installed, NoSeed}
    /\ expected' = NoSeed
    /\ \E batch \in SUBSET Due :
           /\ Cardinality(batch) <= PendingLimit
           /\ batch = Due \/ Cardinality(batch) = PendingLimit
           /\ todo' = batch
           /\ leftover' = Due \ batch
    /\ proc' = "relinking"
    /\ mode' = "pending"
    /\ UNCHANGED <<database, cut, ends>>
    /\ UNCHANGED <<pc, hand, found, overtaken>>

LinkNext ==
    /\ proc = "relinking"
    /\ pc[Starter] = "idle"
    /\ \E j \in todo :
           /\ todo' = todo \ {j}
           /\ hand' = [hand EXCEPT ![Starter] = [EmptyHand EXCEPT !.job = {j}]]
    /\ pc' = [pc EXCEPT ![Starter] = "stored"]
    /\ UNCHANGED <<database, proc, expected, mode, leftover, cut, ends>>
    /\ UNCHANGED <<found, overtaken>>

Serve ==
    /\ proc = "relinking"
    /\ pc[Starter] = "idle"
    /\ todo = {}
    /\ proc' = "serving"
    /\ mode' = "none"
    /\ UNCHANGED <<database, expected, todo, leftover, cut, ends>>
    /\ UNCHANGED <<pc, hand, found, overtaken>>
-----------------------------------------------------------------------------
(* The end of the process *)

ClearMemory ==
    /\ proc' = "down"
    /\ expected' = NoSeed
    /\ mode' = "none"
    /\ todo' = {}
    /\ pc' = [t \in Threads |-> "idle"]
    /\ hand' = [t \in Threads |-> EmptyHand]
    /\ found' = [i \in Investigations |-> {}]
    /\ cut' = (cut \/ mode = "all")

EndProcess ==
    /\ proc # "down"
    /\ ends < MaxEnds
    /\ ends' = ends + 1
    /\ ClearMemory
    /\ UNCHANGED <<database, leftover, overtaken>>

-----------------------------------------------------------------------------
(* link_job: the start and the storing investigations share it *)

\* The row is read before the first write opens the transaction.
LinkRead(t) ==
    /\ pc[t] = "stored"
    /\ pc' = [pc EXCEPT ![t] = "linking"]
    /\ \E j \in hand[t].job : hand' = [hand EXCEPT ![t].text = row[j].text]
    /\ UNCHANGED <<database, start, found, overtaken>>

\* What matching a text with the aliases of the installed seed generates.
GeneratedLinks(text) == [text |-> text, seed |-> installed]

\* Mutant: the row is marked although the links are not saved.
MarkWithoutLinks(t) ==
    /\ pc[t] = "linking"
    /\ \E j \in hand[t].job :
           row' = [row EXCEPT ![j].status = "indexed", ![j].attempts = @ + 1]
    /\ pc' = [pc EXCEPT ![t] = "idle"]
    /\ hand' = [hand EXCEPT ![t] = EmptyHand]
    /\ leftover' = leftover \ hand[t].job
    /\ UNCHANGED <<links, installed, proc, expected, mode, todo, cut, ends, found, overtaken>>

\* One transaction: the generated links of the posting are cleared, the aliases
\* of the installed seed are matched with the text that was read, the links are
\* saved and the row is marked.
LinkWrite(t) ==
    /\ pc[t] = "linking"
    /\ \E j \in hand[t].job :
           /\ links' = [links EXCEPT ![j] = GeneratedLinks(hand[t].text)]
           /\ row' = [row EXCEPT ![j].status = "indexed", ![j].attempts = @ + 1]
    /\ pc' = [pc EXCEPT ![t] = "idle"]
    /\ hand' = [hand EXCEPT ![t] = EmptyHand]
    /\ leftover' = leftover \ hand[t].job
    /\ UNCHANGED <<installed, proc, expected, mode, todo, cut, ends, found, overtaken>>

\* An exception rolls the transaction back; a second transaction notes it.  (A
\* failed relinking of all postings ends the process, hence the bound.)
LinkFails(t) ==
    /\ pc[t] \in {"stored", "linking"}
    /\ mode = "all" => ends < MaxEnds
    /\ pc' = [pc EXCEPT ![t] = "failing"]
    /\ hand' = [hand EXCEPT ![t].text = NoText]
    /\ UNCHANGED <<database, start, found, overtaken>>

\* The note may fail like the linking did: then the row stays as it is.  The
\* posting is left for a later start either way.
NoteFailure(t) ==
    /\ pc[t] = "failing"
    /\ \E j \in hand[t].job :
           /\ row' \in {row, [row EXCEPT ![j].status = "failed", ![j].attempts = @ + 1]}
           /\ leftover' = leftover \cup {j}
    /\ UNCHANGED <<links, installed, overtaken>>

\* An investigation reports the item as stored but rejected and goes on; so
\* does the relinking of the postings that are not indexed.
LinkFailed(t) ==
    /\ NoteFailure(t)
    /\ mode # "all"
    /\ pc' = [pc EXCEPT ![t] = "idle"]
    /\ hand' = [hand EXCEPT ![t] = EmptyHand]
    /\ UNCHANGED <<proc, expected, mode, todo, cut, ends, found>>

\* The relinking of all postings raises: the start fails and the process ends.
StartFails ==
    /\ NoteFailure(Starter)
    /\ mode = "all"
    /\ ends < MaxEnds
    /\ ends' = ends + 1
    /\ ClearMemory
-----------------------------------------------------------------------------
(* Storing and searching: one investigation's thread *)

\* The lookup of a card or an URL knows every stored posting, or, when the
\* database cannot be read, none.
Lookups == {Stored, {}}

\* The worker reads a posting that the lookup does not know.
Collect(i) ==
    /\ proc = "serving"
    /\ pc[i] = "idle"
    /\ \E known \in Lookups : \E j \in Jobs \ known, text \in Contents :
           hand' = [hand EXCEPT ![i] = [EmptyHand EXCEPT !.job = {j}, !.text = text]]
    /\ pc' = [pc EXCEPT ![i] = "collected"]
    /\ found' = [found EXCEPT ![i] = {}]
    /\ UNCHANGED <<database, start, overtaken>>

InUse(j) == {t \in Threads : pc[t] \in Searching \cup {"linking"} /\ j \in hand[t].job}

\* Mutant: an update of a stored posting keeps its index status.
UpsertKeepingStatus(i) ==
    /\ pc[i] = "collected"
    /\ \E j \in hand[i].job :
           /\ row' = [row EXCEPT ![j].text = hand[i].text,
                                 ![j].status = IF @ = "absent" THEN "pending" ELSE @]
           /\ overtaken' = overtaken \cup (IF InUse(j) = {} THEN {} ELSE {j})
    /\ pc' = [pc EXCEPT ![i] = "stored"]
    /\ hand' = [hand EXCEPT ![i].text = NoText]
    /\ UNCHANGED <<links, installed, start, found>>

Upsert(i) ==
    /\ pc[i] = "collected"
    /\ \E j \in hand[i].job :
           /\ row' = [row EXCEPT ![j] =
                  [status |-> "pending", attempts |-> 0, text |-> hand[i].text]]
           /\ overtaken' = overtaken \cup (IF InUse(j) = {} THEN {} ELSE {j})
    /\ pc' = [pc EXCEPT ![i] = "stored"]
    /\ hand' = [hand EXCEPT ![i].text = NoText]
    /\ UNCHANGED <<links, installed, start, found>>

\* Reported as rejected, and nothing is stored.
UpsertFails(i) ==
    /\ pc[i] = "collected"
    /\ pc' = [pc EXCEPT ![i] = "idle"]
    /\ hand' = [hand EXCEPT ![i] = EmptyHand]
    /\ UNCHANGED <<database, start, found, overtaken>>

\* inspect_job_evidence reads the indexed rows first, ...  (A candidate does not
\* depend on the other rows: the search is followed for one of them.)
ReadRows(i) ==
    /\ proc = "serving"
    /\ pc[i] = "idle"
    /\ \E j \in Indexed :
           hand' = [hand EXCEPT ![i] = [EmptyHand EXCEPT !.job = {j}, !.text = row[j].text]]
    /\ pc' = [pc EXCEPT ![i] = "searching"]
    /\ found' = [found EXCEPT ![i] = {}]
    /\ UNCHANGED <<database, start, overtaken>>

\* What a lookup by occupation or skill may add: the text of the links that lead
\* it to the posting, if it is indexed; nothing if they do not lead there or the
\* requirement does not ask for it.
Leads(i) == SUBSET {links[j].text : j \in Indexed \cap hand[i].job}

\* ... then, in a connection of its own, the postings that the links of the
\* requirement's occupations lead to, ...
MatchOccupations(i) ==
    /\ pc[i] = "searching"
    /\ \E led \in Leads(i) : hand' = [hand EXCEPT ![i].led = led]
    /\ pc' = [pc EXCEPT ![i] = "matching"]
    /\ UNCHANGED <<database, start, found, overtaken>>

\* A candidate is shown as its row was read and judged by its links.
Candidates(i, led) ==
    {[job |-> j, shown |-> hand[i].text, judged |-> led] :
        j \in {k \in hand[i].job : led # {}}}

\* ... and in another one, those that the links of its skills lead to.  What the
\* match mode, the document scope and the other conditions take away is a lookup
\* that leads nowhere.  The other requirements are matched with the same rows in
\* the same way: one stands for all.
MatchSkills(i) ==
    /\ pc[i] = "matching"
    /\ \E led \in Leads(i) :
           found' = [found EXCEPT ![i] = Candidates(i, hand[i].led \cup led)]
    /\ pc' = [pc EXCEPT ![i] = "idle"]
    /\ hand' = [hand EXCEPT ![i] = EmptyHand]
    /\ UNCHANGED <<database, start, overtaken>>

Link(t) == LinkRead(t) \/ LinkWrite(t) \/ LinkFails(t) \/ LinkFailed(t)

Investigate(i) ==
    \/ Collect(i) \/ Upsert(i) \/ UpsertFails(i)
    \/ ReadRows(i) \/ MatchOccupations(i) \/ MatchSkills(i)

Next ==
    \/ Start \/ ImportSeed \/ SelectPending \/ LinkNext \/ Serve
    \/ StartFails \/ EndProcess
    \/ \E t \in Threads : Link(t)
    \/ \E i \in Investigations : Investigate(i)

Spec == Init /\ [][Next]_vars
-----------------------------------------------------------------------------
(* Properties *)

\* Every variable has its type.
TypeOK ==
    /\ row \in [Jobs -> Row]
    /\ links \in [Jobs -> Links]
    /\ installed \in Seeds \cup {NoSeed}
    /\ expected \in Seeds \cup {NoSeed}
    /\ proc \in {"down", "preparing", "relinking", "serving"}
    /\ mode \in {"none", "all", "pending"}
    /\ todo \subseteq Jobs
    /\ pc \in [Threads -> Linking \cup Searching \cup {"idle", "collected"}]
    /\ hand \in [Threads -> Hand]
    /\ found \in [Investigations ->
                 SUBSET [job : Jobs, shown : Contents, judged : SUBSET Contents]]
    /\ leftover \subseteq Jobs
    /\ overtaken \subseteq Jobs
    /\ cut \in BOOLEAN
    /\ ends \in Nat

\* A posting marked as indexed carries the links of the text that is stored,
\* unless one investigation rewrote it while another thread was between the
\* read and the write of link_job: whatever fails and whenever the process ends,
\* a search never judges a posting by a text it no longer has.
IndexedIsCurrent ==
    \A j \in Indexed : links[j].text = row[j].text \/ j \in overtaken

\* While the backend serves, every indexed posting is linked with the seed that
\* is installed, unless a relinking of all postings was interrupted: the next
\* start finds the version it expects and never relinks the rest.
OldSeedNeedsCut ==
    proc = "serving" => \A j \in Indexed : links[j].seed = installed \/ cut

\* While the backend serves, a stored posting that is not indexed has a thread
\* that is about to link it, or has used up its attempts, or was left for a later
\* start, and that start may select it: nothing that fails and no end of the
\* process keeps a posting out of the search silently.
NothingIsForgotten ==
    proc = "serving" =>
        \A j \in Stored \ Indexed :
            \/ \E i \in Investigations : pc[i] \in Linking /\ hand[i].job = {j}
            \/ row[j].status = "failed" /\ row[j].attempts >= MaxAttempts
            \/ j \in leftover \cap Due

\* A search reads the rows and the links in several connections: a candidate is
\* shown with the text that all its links were judged by, unless an
\* investigation rewrote the posting in between.
ShownAsJudged ==
    \A i \in Investigations : \A candidate \in found[i] :
        candidate.judged = {candidate.shown} \/ candidate.job \in overtaken
=============================================================================
