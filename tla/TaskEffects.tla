------------------------------ MODULE TaskEffects ------------------------------
(***************************************************************************)
(* What the tasks of CloudVaultTasks and the fallback requests of the API  *)
(* do, item by item: the handlers of services/cloud_vault_task_service.py  *)
(* and the imports, notes and classifications on request of                *)
(* services/file_mutation_service.py that they call, next to the scans of  *)
(* the mirror, which index what was imported once more.                    *)
(*                                                                         *)
(* Abstractions.                                                           *)
(*  - A document is a number: of icloud, indexed by an earlier scan; of    *)
(*    uploads, the base name of an imported file and the suffix that made  *)
(*    it free; of external data, the task that brings it.  Numbers are in  *)
(*    the order in which a folder is listed and matches are found.         *)
(*  - Imports go to one folder.  A name with a suffix is no other file's   *)
(*    base name, and of two files that are written to one place the bytes  *)
(*    of the last to begin are there (the code could also mix them).       *)
(*  - A note is a place (name, folder, suffix) and the document it is      *)
(*    about.  Notes made on request are in a folder named after the        *)
(*    document, those of the classifier in the folder of their label.      *)
(*  - The classifier finds, moves and writes a note in one step (VaultNotes*)
(*    takes that step apart) and answers with its place.                   *)
(*  - The reindexing and the refreshes that items and tasks ask for at     *)
(*    their end are actions of their own: they may happen at any time.     *)
(*  - A chunk's progress and its final status are one commit, tasks are    *)
(*    not canceled and nothing is added to the folder (CloudVaultTasks has *)
(*    the commits, the cancellations and the passes over the queue).       *)
(*  - Change sets, attachments, texts and the export of corrections at the *)
(*    end of a note are left out.                                          *)
(***************************************************************************)
EXTENDS Integers, FiniteSets

CONSTANTS
  Docs,         \* documents of icloud, numbers
  Name,         \* the file name of each of them
  Files,        \* files of the folder on the server and below it, numbers
  Base,         \* the base name of each of them, a number
  Tasks,        \* numbers too
  Kinds,        \* kinds of tasks that are queued
  Requests,     \* kinds of requests to the API
  Runners,      \* the worker and the API requests that run tasks
  Api,          \* those of them that are API requests
  Chunk,        \* items of a run (chunk_size, batch_size)
  MaxEvents,    \* bound: requests, unexpected errors, processes that die, failed tasks
                \* that are continued, documents that cloud sync removes, together
  NoTask, NoSource, NoProgress

\* What a task does: to which documents, with which notes, over existing ones or not
Kind == [does : {"import", "importfile", "search", "batch", "file", "external"},
         move : BOOLEAN, note : {"none", "create", "first", "fallback"}, force : BOOLEAN]

ASSUME TaskEffectsAssumption ==
  /\ IsFiniteSet(Docs) /\ Docs \subseteq Nat /\ IsFiniteSet(Files) /\ Files \subseteq Nat
  /\ DOMAIN Name = Docs /\ Tasks \subseteq Nat
  /\ DOMAIN Base = Files /\ \A f \in Files : Base[f] \in Nat
  /\ Kinds \cup Requests \subseteq Kind
  /\ \A k \in Kinds : k.does # "batch" /\ (k.does = "external" => k.note = "create")
  /\ \A k \in Requests : k.does = "batch" /\ k.note = "fallback"
  /\ Chunk \in Nat \ {0}
  /\ MaxEvents \in Nat
  /\ NoTask \notin Tasks /\ Api \subseteq Runners

VARIABLES
  task,     \* the rows of cloud_vault_tasks
  runner,   \* what each runner has loaded and where it is
  folder,   \* files in the folder on the server
  mirror,   \* documents in the mirror
  bytes,    \* which file's bytes are at each place of uploads
  raced,    \* files whose runner had chosen a name that another file's runner had, too
  index,    \* live rows of files: a document and who wrote the key of the row
  scan,     \* the documents the current scan has listed
  notes,    \* notes in the vault
  noteRow,  \* rows of document_vault_notes with a document
  state,    \* places of notes in classification_states
  excused,  \* items of a task that were reported without a note
  events   \* how many so far

vars == <<task, runner, folder, mirror, bytes, raced, index, scan, notes, noteRow, state,
          excused, events>>
vault == <<notes, noteRow, state>>
disk  == <<folder, mirror, bytes, raced, index, scan>>

Document(d)  == [in |-> "icloud", id |-> d, copy |-> 1]
Copy(b, n)   == [in |-> "uploads", id |-> b, copy |-> n]
External(t)  == [in |-> "external", id |-> t, copy |-> 1]

\* The title of a note: copies are told apart by their suffix
Title(s) == IF s.in = "icloud" THEN <<"icloud", Name[s.id]>> ELSE <<s.in, s.id, s.copy>>

NoKind == [does |-> "none", move |-> FALSE, note |-> "none", force |-> FALSE]

Rest == [at |-> "rest", task |-> NoTask, kind |-> NoKind, matched |-> {}, cursor |-> 0,
         item |-> 0, s |-> NoSource, saw |-> {}, place |-> NoSource]

Idle == [at |-> "idle", listed |-> {}]

Init ==
  /\ task = [t \in Tasks |->
              [status |-> "none", kind |-> NoKind, input |-> {}, progress |-> NoProgress]]
  /\ runner = [e \in Runners |-> Rest]
  /\ folder = Files
  /\ mirror = {Document(d) : d \in Docs}
  /\ bytes = {} /\ raced = {}
  /\ index = {<<Document(d), "crawl">> : d \in Docs}
  /\ scan = Idle
  /\ notes = {} /\ noteRow = {} /\ state = {}
  /\ excused = {}
  /\ events = 0

\* What a caller can name when it asks for a kind
Inputs(t, k) ==
  CASE k.does = "importfile" -> {{f} : f \in Files}
    [] k.does \in {"file", "batch"} -> {{d} : d \in Docs}
    [] OTHER                 -> {{t}}

Queue(t, k) ==
  /\ task[t].status = "none"
  /\ \E input \in Inputs(t, k) :
       task' = [task EXCEPT ![t] = [@ EXCEPT !.status = "queued", !.kind = k, !.input = input]]
  /\ UNCHANGED <<runner, disk, vault, excused, events>>

-----------------------------------------------------------------------------
(* Items *)

\* The k-th of a set of numbers
Nth(S, k) == CHOOSE x \in S : Cardinality({y \in S : y < x}) = k - 1

ItemOf(r) == Nth(r.matched, r.item)

Goal(r) ==
  LET all == Cardinality(r.matched)
  IN  IF r.cursor + Chunk < all THEN r.cursor + Chunk ELSE all

\* What a task works through: the files of the folder, the documents that match
Listing(row) ==
  CASE row.kind.does = "import" -> folder
    [] row.kind.does = "search" -> {x[1].id : x \in {y \in index : y[1].in = "icloud"}}
    [] OTHER                    -> row.input

\* Where runner r turns to: item i of its chunk
Turn(r, i) ==
  LET begun == [r EXCEPT !.item = i, !.s = NoSource, !.saw = {}, !.place = NoSource]
      x     == Nth(r.matched, i)
  IN  IF i > Goal(r) THEN [begun EXCEPT !.at = "end"]
      ELSE CASE r.kind.does \in {"import", "importfile"} -> [begun EXCEPT !.at = "copy"]
             [] r.kind.does = "external" -> [begun EXCEPT !.at = "new", !.s = External(x)]
             [] OTHER -> [begun EXCEPT !.at = "look", !.s = Document(x)]

Event == events < MaxEvents /\ events' = events + 1

Goes(e, r) == runner' = [runner EXCEPT ![e] = r]
DoneItem(e) == Goes(e, Turn(runner[e], runner[e].item + 1))

Begun(t, k, p) ==
  Turn([Rest EXCEPT !.task = t, !.kind = k, !.matched = p.matched, !.cursor = p.cursor], p.cursor + 1)

\* A task is loaded and marked running; its items are looked up when no progress is stored
Load(e, t) ==
  /\ runner[e] = Rest
  /\ \/ task[t].status \in {"queued", "running"} /\ UNCHANGED events
     \/ /\ task[t].status = "failed"
        /\ Event
  /\ Goes(e, Begun(t, task[t].kind,
                   IF task[t].progress = NoProgress
                   THEN [matched |-> Listing(task[t]), cursor |-> 0]
                   ELSE task[t].progress))
  /\ task' = [task EXCEPT ![t].status = "running"]
  /\ UNCHANGED <<disk, vault, excused>>

\* The fallback routes of the API: the same with no row, one document after the other
Request(e, k) ==
  /\ runner[e] = Rest
  /\ Event
  /\ \E matched \in Inputs(NoTask, k) :
       Goes(e, Begun(NoTask, k, [matched |-> matched, cursor |-> 0]))
  /\ UNCHANGED <<task, disk, vault, excused>>

At(e, step) == runner[e].at = step

\* Item i of a task was reported without a note
Excuse(e) ==
  /\ excused' = excused \cup {<<runner[e].task, ItemOf(runner[e])>>}
  /\ DoneItem(e)

-----------------------------------------------------------------------------
(* Imports *)

OnServer(e) == ItemOf(runner[e]) \in folder

\* The name of the file that is free in the mirror when the suffixes before are not
FreeName(e) ==
  LET b == Base[ItemOf(runner[e])]
  IN  {Copy(b, n) : n \in {i \in 1..(Cardinality(mirror) + 1) :
                            /\ Copy(b, i) \notin mirror
                            /\ \A k \in 1..(i - 1) : Copy(b, k) \in mirror}}

\* Runners that are about to write another file under the same name
Rivals(e, s) ==
  {o \in Runners \ {e} : /\ At(o, "place") /\ runner[o].s = s
                         /\ ItemOf(runner[o]) # ItemOf(runner[e])}

\* The file gets a name; nothing reserves it
ChooseName(e) ==
  /\ At(e, "copy")
  /\ OnServer(e)
  /\ \E s \in FreeName(e) :
     /\ raced' = raced \cup UNION {{ItemOf(runner[e]), ItemOf(runner[o])} : o \in Rivals(e, s)}
     /\ Goes(e, [runner[e] EXCEPT !.at = "place", !.s = s])
  /\ UNCHANGED <<task, folder, mirror, bytes, index, scan, vault, excused, events>>

\* It is copied or moved there, over what another has put there since
CopyFile(e) ==
  /\ At(e, "place")
  /\ OnServer(e)
  /\ LET s == runner[e].s
         f == ItemOf(runner[e])
     IN  /\ mirror' = mirror \cup {s}
         /\ bytes' = {b \in bytes : b[1] # s} \cup {<<s, f>>}
         /\ folder' = IF runner[e].kind.move THEN folder \ {f} ELSE folder
  /\ Goes(e, [runner[e] EXCEPT !.at = "register"])
  /\ UNCHANGED <<task, raced, index, scan, vault, excused, events>>

\* Its row has a key of its own and belongs to no sync run, unless it is the row of a
\* scan that came first, whose key is replaced
Registered(s) ==
  IF <<s, "crawl">> \in index
  THEN (index \ {<<s, "crawl">>}) \cup {<<s, "taken">>}
  ELSE index \cup {<<s, "import">>}

Register(e) ==
  /\ At(e, "register")
  /\ index' = Registered(runner[e].s)
  /\ IF runner[e].kind.note = "none"
     THEN DoneItem(e)
     ELSE Goes(e, [runner[e] EXCEPT !.at = "look"])
  /\ UNCHANGED <<task, folder, mirror, bytes, raced, scan, vault, excused, events>>

-----------------------------------------------------------------------------
(* Notes *)

Place(m) == <<m.name, m.way, m.n>>
There(p) == \E m \in notes : Place(m) = Place(p)

\* _find_active_document_vault_note_for_file: a row, or else the classifier's answer
Recorded(s) ==
  LET rows == {p \in noteRow : p.of = s}
  IN  IF rows # {} THEN rows ELSE {p \in state : p.of = s}

OwnPath(s) == {m \in notes : m.of = s}

\* mistake: only what is recorded counts as the document's own
MatchesRecorded(s, way) == {m \in notes : \E p \in Recorded(s) : Place(p) = Place(m)}

\* The notes a writer takes for the document's own: of its path, or of its name
Matches(s, way) == OwnPath(s) \cup {m \in notes : m.way = way /\ m.name = Title(s)}

\* The best of them: of its path before of its name, then by suffix
Best(s, saw) ==
  {m \in saw : \A k \in saw :
     \/ m.of = s /\ k.of # s
     \/ (m.of = s <=> k.of = s) /\ m.n <= k.n}

\* The note of s after a writer who saw certain matches: the best one is moved to
\* the first free suffix, the others are removed
Target(s, way, best) ==
  LET taken == {m.n : m \in {k \in notes : k.name = Title(s) /\ k.way = way /\ k # best}}
  IN  [name |-> Title(s), way |-> way, of |-> s,
       n |-> CHOOSE n \in 1..(Cardinality(taken) + 1) :
               n \notin taken /\ 1..(n - 1) \subseteq taken]

\* A row is about the document that its note names; uploads are not looked for
Linked(p) ==
  {r \in noteRow : Place(r) # Place(p)}
  \cup {m \in notes : Place(m) = Place(p) /\ m.of.in = "icloud"}

InMirror(e)  == runner[e].s \in mirror
Fallback(e)  == runner[e].kind.note = "fallback"
Searching(e) == runner[e].kind.does = "search"

\* A search skips a document that is gone; a fallback answers from what is recorded
Resolved(e) == InMirror(e) \/ (Fallback(e) /\ ~ Searching(e))

\* An existing note is used as it is; its row is brought up to date
Existing(e) ==
  /\ At(e, "look")
  /\ ~ runner[e].kind.force
  /\ Resolved(e)
  /\ \E p \in Recorded(runner[e].s) : There(p) /\ noteRow' = Linked(p)
  /\ DoneItem(e)
  /\ UNCHANGED <<task, disk, notes, state, excused, events>>

\* Nothing is recorded, or nothing is where it should be
Unnoted(e) ==
  LET known == Recorded(runner[e].s)
  IN  runner[e].kind.force \/ known = {} \/ \E p \in known : ~ There(p)

\* create_document_vault_note, up to the look for notes that match
LookCreate(e) ==
  /\ At(e, "look")
  /\ ~ Fallback(e)
  /\ InMirror(e) /\ Unnoted(e)
  /\ Goes(e, [runner[e] EXCEPT !.at = "write", !.saw = Matches(runner[e].s, "create")])
  /\ UNCHANGED <<task, disk, vault, excused, events>>

Written(m, saw) ==
  {k \in notes : Place(k) # Place(m) /\ \A x \in saw : Place(k) # Place(x)} \cup {m}

\* The best match is gone, and not to where the note of s belongs
Gone(b, m) == b # NoSource /\ ~ There(b) /\ Place(b) # Place(m)

LostMatch(e) ==
  /\ At(e, "write")
  /\ \E b \in Best(runner[e].s, runner[e].saw) : Gone(b, Target(runner[e].s, "create", b))

WriteNote(e) ==
  /\ At(e, "write")
  /\ LET r == runner[e] IN
     \E b \in IF r.saw = {} THEN {NoSource} ELSE Best(r.s, r.saw) :
       LET m == Target(r.s, "create", b) IN
       /\ ~ Gone(b, m)
       /\ notes' = Written(m, r.saw)
       /\ Goes(e, [r EXCEPT !.at = "commit", !.place = m])
  /\ UNCHANGED <<task, disk, noteRow, state, excused, events>>

\* A note from external data is always a new one
WriteExternal(e) ==
  /\ At(e, "new")
  /\ LET m == Target(runner[e].s, "external", NoSource) IN
     /\ notes' = notes \cup {m}
     /\ Goes(e, [runner[e] EXCEPT !.at = "commit", !.place = m])
  /\ UNCHANGED <<task, disk, noteRow, state, excused, events>>

\* The row of the note and its change set; the row is about what the note says now
CommitNote(e) ==
  /\ At(e, "commit")
  /\ There(runner[e].place)
  /\ noteRow' = Linked(runner[e].place)
  /\ DoneItem(e)
  /\ UNCHANGED <<task, disk, notes, state, excused, events>>

\* Chatgpt-first: the classifier is asked when the document cannot be resolved
FallsBack(e) ==
  /\ At(e, "look")
  /\ runner[e].kind.does = "file" /\ runner[e].kind.note = "first"
  /\ ~ InMirror(e)
  /\ Goes(e, [runner[e] EXCEPT !.kind.note = "fallback"])
  /\ UNCHANGED <<task, disk, vault, excused, events>>

\* classify_file_on_mcp_fallback: the classifier writes the note
Ask(e) ==
  /\ At(e, "look")
  /\ Fallback(e)
  /\ InMirror(e) /\ Unnoted(e)
  /\ LET s   == runner[e].s
         saw == Matches(s, "fallback")
     IN \E b \in IF saw = {} THEN {NoSource} ELSE Best(s, saw) :
          LET m == Target(s, "fallback", b) IN
          /\ notes' = Written(m, saw)
          /\ Goes(e, [runner[e] EXCEPT !.at = "answer", !.place = m])
  /\ UNCHANGED <<task, disk, noteRow, state, excused, events>>

StoreAnswer(e) ==
  /\ At(e, "answer")
  /\ state' = {p \in state : p.of # runner[e].s} \cup {runner[e].place}
  /\ Goes(e, [runner[e] EXCEPT !.at = "commit"])
  /\ UNCHANGED <<task, disk, notes, noteRow, excused, events>>

\* Not ready, rejected, failed, an extension it does not support, a file that is gone
Refused(e) ==
  /\ At(e, "look")
  /\ Fallback(e) /\ Resolved(e) /\ Unnoted(e)
  /\ Excuse(e)
  /\ UNCHANGED <<task, disk, vault, events>>

LostNote(e) == At(e, "commit") /\ ~ There(runner[e].place)

\* Items of a search and answers of the classifier fail on their own
ItemFails(e) ==
  /\ \/ At(e, "look") /\ Searching(e) /\ ~ InMirror(e)
     \/ LostMatch(e) /\ Searching(e)
     \/ LostNote(e) /\ (Searching(e) \/ Fallback(e))
  /\ Excuse(e)
  /\ UNCHANGED <<task, disk, vault, events>>

Reindex ==
  /\ noteRow' = {p \in noteRow : ~ There(p)} \cup {m \in notes : m.of.in = "icloud"}
  /\ UNCHANGED <<task, runner, disk, notes, state, excused, events>>

-----------------------------------------------------------------------------
(* The end of a chunk *)

Chunked(k) == k.does \in {"import", "search"}

\* mistake: the chunk is added to the cursor of the row
ProgressOfRow(r) ==
  LET p == task[r.task].progress
      c == IF p = NoProgress THEN 0 ELSE p.cursor
  IN  [matched |-> r.matched, cursor |-> c + Chunk]

Progress(r) == [matched |-> r.matched, cursor |-> Goal(r)]

\* Progress and, when nothing is left, the end of the task; a request just answers
Stored(row, r) ==
  [row EXCEPT !.progress = IF Chunked(r.kind) THEN Progress(r) ELSE @,
              !.status = IF Progress(r).cursor >= Cardinality(r.matched)
                         THEN "completed" ELSE @]

EndChunk(e) ==
  /\ At(e, "end")
  /\ LET r == runner[e] IN
     task' = IF r.task = NoTask THEN task
             ELSE [task EXCEPT ![r.task] = Stored(@, r)]
  /\ Goes(e, Rest)
  /\ UNCHANGED <<disk, vault, excused, events>>

Fails(e) ==
  /\ Goes(e, Rest)
  /\ task' = IF runner[e].task = NoTask THEN task
             ELSE [task EXCEPT ![runner[e].task].status = "failed"]
  /\ UNCHANGED <<disk, vault, excused>>

\* What an item needs is gone: the task fails, what was done stays
Raises(e) ==
  /\ \/ (At(e, "copy") \/ At(e, "place")) /\ ~ OnServer(e)
     \/ At(e, "look") /\ runner[e].kind.note = "create" /\ ~ Searching(e) /\ ~ InMirror(e)
     \/ LostMatch(e) /\ ~ Searching(e)
     \/ LostNote(e) /\ ~ Searching(e) /\ ~ Fallback(e)
  /\ Fails(e)
  /\ UNCHANGED events

\* Any error nothing here provides for: a full disk, a row that another inserts at once
Fault(e) ==
  /\ runner[e] # Rest
  /\ Event
  /\ Fails(e)

Crash(e) ==
  /\ runner[e] # Rest
  /\ Event
  /\ Goes(e, Rest)
  /\ UNCHANGED <<task, disk, vault, excused>>

-----------------------------------------------------------------------------
(* Scans of the mirror, and what cloud sync does to it *)

\* The folder of the imports is listed
ScanLists ==
  /\ scan.at = "idle"
  /\ scan' = [at |-> "listed", listed |-> mirror]
  /\ UNCHANGED <<task, runner, folder, mirror, bytes, raced, index, vault, excused, events>>

\* A row under the key of an import is of an earlier run, if of any
Older(x) == IF x[2] = "taken" THEN <<x[1], "import">> ELSE x

\* The rows of what is still there are stored under the keys of the crawl
ScanStores ==
  /\ scan.at = "listed"
  /\ scan' = [at |-> "stored", listed |-> scan.listed \cap mirror]
  /\ index' = {Older(x) : x \in index} \cup {<<s, "crawl">> : s \in scan.listed \cap mirror}
  /\ UNCHANGED <<task, runner, folder, mirror, bytes, raced, vault, excused, events>>

\* mistake: rows without a sync run are kept
UnseenWithRun == {x \in index : x[2] = "crawl" /\ x[1] \notin scan.listed}

\* What this scan has not stored
Unseen == {x \in index : x[2] = "import" \/ x[1] \notin scan.listed}

ScanEnds ==
  /\ scan.at = "stored"
  /\ index' = index \ Unseen
  /\ scan' = Idle
  /\ UNCHANGED <<task, runner, folder, mirror, bytes, raced, vault, excused, events>>

Vanish(d) ==
  /\ Event
  /\ Document(d) \in mirror
  /\ mirror' = mirror \ {Document(d)}
  /\ UNCHANGED <<task, runner, folder, bytes, raced, index, scan, vault, excused>>

-----------------------------------------------------------------------------
Item(e) ==
  \/ ChooseName(e) \/ CopyFile(e) \/ Register(e)
  \/ Existing(e) \/ LookCreate(e) \/ WriteNote(e) \/ WriteExternal(e) \/ CommitNote(e)
  \/ FallsBack(e) \/ Ask(e) \/ StoreAnswer(e) \/ Refused(e)
  \/ ItemFails(e) \/ Raises(e) \/ EndChunk(e)

Scan == ScanLists \/ ScanStores \/ ScanEnds

Next ==
  \/ \E t \in Tasks, k \in Kinds : Queue(t, k)
  \/ \E e \in Runners :
       \/ \E t \in Tasks : Load(e, t)
       \/ e \in Api /\ \E k \in Requests : Request(e, k)
       \/ Item(e) \/ Fault(e) \/ Crash(e)
  \/ Reindex \/ Scan
  \/ \E d \in Docs : Vanish(d)

Spec == Init /\ [][Next]_vars

\* The worker starts a refresh whenever the interval has passed
FairSpec == Spec /\ WF_vars(Scan)

-----------------------------------------------------------------------------
Source == [in : {"icloud", "uploads", "external"}, id : Nat, copy : Nat]

(* The types of the variables. *)
TypeOK ==
  /\ \A t \in Tasks : task[t].status \in {"none", "queued", "running", "completed", "failed"}
  /\ \A e \in Runners : runner[e].s \in Source \cup {NoSource}
  /\ folder \subseteq Files
  /\ mirror \subseteq Source /\ scan.listed \subseteq Source
  /\ bytes \subseteq mirror \X Files /\ raced \subseteq Files
  /\ index \subseteq Source \X {"import", "crawl", "taken"}
  /\ \A m \in notes \cup noteRow \cup state : m.of \in Source
  /\ \A m, k \in notes : Place(m) = Place(k) => m = k

\* A document has a note, or one of the same name took it
Noted(s) == \E m \in notes : m.of = s \/ m.name = Title(s)

DeliveredItem(t, x) ==
  LET k == task[t].kind IN
  CASE k.does \in {"import", "importfile"} ->
         \E s \in mirror : /\ s.in = "uploads" /\ s.id = Base[x]
                           /\ x \in raced \/ <<s, x>> \in bytes
                           /\ k.note = "none" \/ <<t, x>> \in excused \/ Noted(s)
    [] k.does = "external" -> Noted(External(x))
    [] OTHER -> <<t, x>> \in excused \/ Noted(Document(x))

\* The items that a task says it has processed
Processed(t) ==
  LET p == task[t].progress IN
  IF Chunked(task[t].kind)
  THEN {Nth(p.matched, i) : i \in 1..(IF p = NoProgress THEN 0 ELSE p.cursor)}
  ELSE IF task[t].status = "completed" THEN task[t].input ELSE {}

(* A task has imported every file and left a note for every document that its progress
   counts as processed and that it did not report as skipped or failed, whoever ran its
   chunks at once, whatever died in between and was done again.  A file that was moved
   before a crash is not in the folder when the task is run again: it fails the item, or
   is not among the items that are looked up.  Only the bytes of a file whose name was
   free for two runners at once may be another file's: nothing reserves the name. *)
Delivered == \A t \in Tasks : \A x \in Processed(t) : DeliveredItem(t, x)

(* Whatever is repeated, a document has no more notes than there are runners that
   may have looked for its note before the first was written. *)
NoteOnce == \A s \in mirror : Cardinality(OwnPath(s)) <= Cardinality(Runners)

(* In the end every document in the mirror has one live row, that of the crawl:
   the rows of imports, which belong to no scan, go, whenever they were stored. *)
Indexed == <>[](index = {<<s, "crawl">> : s \in mirror})

(* No document has two live rows.  The code violates it while a scan runs over
   what was imported. *)
NoTwins == \A x, y \in index : x[1] = y[1] => x = y

(* A task with a key writes one note from external data.  The code violates it when
   the task is run again. *)
KeyedOnce == \A m, k \in notes : m.of.in = "external" /\ m.of = k.of => m = k

(* A completed task that reports a note has one for that very document.  The code
   violates it for documents of the same name. *)
OwnNote ==
  \A t \in Tasks : task[t].status = "completed" /\ task[t].kind.does = "search" =>
    \A x \in Processed(t) : <<t, x>> \in excused \/ OwnPath(Document(x)) # {}
=============================================================================
