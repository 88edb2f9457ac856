------------------------------ MODULE VaultNotes ------------------------------
(***************************************************************************)
(* The generated notes of the vault and the processes that write them:     *)
(*  - the classifier (apps/classifier/classify_to_obsidian.py), one        *)
(*    request at a time (REQUEST_LOCK of api_server.py);                   *)
(*  - the classification worker, which sends the requests, stores the      *)
(*    answers and runs a reconciliation pass after every poll              *)
(*    (services/vault_reconciliation.py);                                  *)
(*  - create_document_vault_note of the API process, which calls the       *)
(*    classifier's note writer without its lock.                           *)
(* Sources move and change, people edit notes, requests time out, workers  *)
(* die between any two steps.                                              *)
(*                                                                         *)
(* Abstractions.                                                           *)
(*  - A note's place is its folder, the title in its name and the number   *)
(*    behind it: 1 for none, 0 for a name of the old scheme with a hash.   *)
(*  - A scan over all notes is one step, and so are an existence check and *)
(*    the read behind it.  Ties of the order of notes are open.            *)
(*  - outdated stands for every owned field that a pass would rewrite;     *)
(*    edited for whatever a person wrote into a note.                      *)
(*  - The manifest record of an answer is never missing.  Extracted texts  *)
(*    and attachments, which follow their note, are left out.              *)
(***************************************************************************)
EXTENDS Integers, Sequences, FiniteSets

CONSTANTS
  Paths,       \* source files, by the id of their row: 1, 2, ...
  Contents,    \* contents of files, by their hash
  Folders,     \* folders of categories, and the one of notes to review
  Names, NameOf,   \* file names, and the name of each path
  TitleOf,     \* the title of a name: without its extension
  CloseOf,     \* a name without case and punctuation
  Present,     \* the content of each path at first, or None
  Legacy,      \* paths an old version has classified: their notes are in LegacyFolder
  LegacyFolder,
  Requests,    \* what callers of the API may ask for: a path, a title and a folder
  Limit,       \* states of a reconciliation pass
  MaxSuffix,   \* bound: numbers behind the titles
  MaxEvents,   \* bound: changes of sources, edits of notes by people, requests to create
               \* a note, timeouts and deaths of the worker, together
  None

ASSUME VaultNotesAssumption ==
  /\ Paths = 1..Cardinality(Paths)
  /\ NameOf \in [Paths -> Names]
  /\ DOMAIN TitleOf = Names /\ DOMAIN CloseOf = Names
  /\ None \notin Contents \cup Paths
  /\ Present \in [Paths -> Contents \cup {None}]
  /\ \A p \in Legacy : p \in Paths /\ Present[p] # None
  /\ \A p, q \in Legacy : TitleOf[NameOf[p]] = TitleOf[NameOf[q]] => p = q
  /\ LegacyFolder \in Folders
  /\ Requests \subseteq [path : Paths, name : Names, folder : Folders]
  /\ Limit \in Nat \ {0} /\ MaxSuffix \in Nat \ {0}
  /\ MaxEvents \in Nat

Titles  == {TitleOf[n] : n \in Names}
Places  == [folder : Folders, title : Titles, number : 0..MaxSuffix]
\* the hash of a created note is one of its path, which no content has
Hashes  == Contents \cup Paths
Notes   == [path : Paths, hash : Hashes, name : Names, outdated : BOOLEAN, edited : BOOLEAN]
Writers == {"classifier", "creator"}

VARIABLES
  source,    \* contents of the mirrored files
  live,      \* paths whose row in the index is not marked deleted
  notes,     \* the notes in the vault: a function from places in use
  state,     \* the rows of classification_states
  noteRow,   \* rows of document_vault_notes: places and the files they are about
  writer,    \* the two runs of write_obsidian_note
  worker,    \* the classification worker
  session,   \* the rows the pass has loaded and changed, and not committed
  stale,     \* history: processes that work on what others have changed since their scan
  events     \* number of changes, edits, requests and faults so far

vars == <<source, live, notes, state, noteRow, writer, worker, session, stale, events>>

Unclassified ==
  [done |-> FALSE, sent |-> None, note |-> None, path |-> None, hash |-> None, name |-> None]
RestWriter   == [at |-> "rest", path |-> None, hash |-> None, name |-> None, folder |-> None,
                 best |-> None, drop |-> {}, target |-> None]
RestWorker   == [at |-> "rest", todo |-> <<>>, place |-> None, text |-> None,
                 hash |-> None, name |-> None, to |-> None]

LegacyPlace(p) == [folder |-> LegacyFolder, title |-> TitleOf[NameOf[p]], number |-> 0]

Init ==
  /\ source = Present
  /\ live = {p \in Paths : Present[p] # None}
  /\ notes = [x \in {LegacyPlace(p) : p \in Legacy} |->
       LET p == CHOOSE q \in Legacy : LegacyPlace(q) = x
       IN  [path |-> p, hash |-> Present[p], name |-> NameOf[p],
            outdated |-> TRUE, edited |-> FALSE]]
  /\ state = [p \in Paths |->
       IF p \in Legacy
       THEN [done |-> TRUE, sent |-> Present[p], note |-> LegacyPlace(p),
             path |-> p, hash |-> Present[p], name |-> NameOf[p]]
       ELSE Unclassified]
  /\ noteRow = <<>>
  /\ writer = [w \in Writers |-> RestWriter]
  /\ worker = RestWorker
  /\ session = state
  /\ stale = {}
  /\ events = 0

Busy == {w \in Writers : writer[w].at # "rest"} \cup (IF worker.at = "rest" THEN {} ELSE {"worker"})

Event == events < MaxEvents /\ events' = events + 1

\* The process a has changed something that the others may have seen
Disturb(a) == stale' = stale \cup (Busy \ {a})

-----------------------------------------------------------------------------
\* Which notes are about a document: by its path, its hash or its name

Rank(note, key) ==
  IF note.path = key.path THEN 0
  ELSE IF note.hash = key.hash THEN 1
  ELSE IF note.name = key.name THEN 2
  ELSE 3

\* names with a hash go last, then higher numbers
Before(x, y, key) ==
  LET Order(z) == 100 * Rank(notes[z], key) + (IF z.number = 0 THEN 99 ELSE z.number)
  IN  Order(x) < Order(y)

Matches(key) == {x \in DOMAIN notes : Rank(notes[x], key) < 3}

Best(key) == {x \in Matches(key) : \A y \in Matches(key) : ~ Before(y, x, key)}

\* ensure_unique_filename: the names in the folder, except the one that is about to be moved
Numbered(folder, title, n) == [folder |-> folder, title |-> title, number |-> n]

\* mistake: names that are taken are not looked at
FirstPlace(folder, title, moved) == Numbered(folder, title, 1)

FreePlace(folder, title, moved) ==
  LET Taken(n) == Numbered(folder, title, n) \in DOMAIN notes \ {moved}
  IN  Numbered(folder, title,
               CHOOSE n \in 1..MaxSuffix : ~ Taken(n) /\ \A k \in 1..(n - 1) : Taken(k))

HasRoom(folder, title, moved) ==
  \E n \in 1..MaxSuffix : Numbered(folder, title, n) \notin DOMAIN notes \ {moved}

Placed(x, note)   == [y \in DOMAIN notes \cup {x} |-> IF y = x THEN note ELSE notes[y]]
Without(X)        == [y \in DOMAIN notes \ X |-> notes[y]]
Moved(x, y)       == [z \in (DOMAIN notes \ {x}) \cup {y} |-> IF z = y THEN notes[x] ELSE notes[z]]

-----------------------------------------------------------------------------
\* write_obsidian_note

Fresh(w) ==
  [path |-> writer[w].path, hash |-> writer[w].hash, name |-> writer[w].name,
   outdated |-> FALSE, edited |-> FALSE]

Look(w) ==
  LET key == writer[w]
      Choose(best) ==
        /\ HasRoom(key.folder, TitleOf[key.name], best)
        /\ LET target == FreePlace(key.folder, TitleOf[key.name], best)
           IN  writer' = [writer EXCEPT ![w] =
                 [@ EXCEPT !.best = best, !.drop = Matches(key) \ {best}, !.target = target,
                           !.at = IF best \in {None, target} THEN "write" ELSE "move"]]
  IN  /\ key.at = "look"
      /\ \/ Matches(key) = {} /\ Choose(None)
         \/ \E best \in Best(key) : Choose(best)
      /\ stale' = stale \ {w}
      /\ UNCHANGED <<source, live, notes, state, noteRow, worker, session, events>>

\* The note found first is renamed to the new name, over whatever is there by now
Move(w) ==
  /\ writer[w].at = "move"
  /\ IF writer[w].best \in DOMAIN notes
     THEN /\ notes' = Moved(writer[w].best, writer[w].target)
          /\ writer' = [writer EXCEPT ![w].at = "write"]
          /\ Disturb(w)
     ELSE /\ writer' = [writer EXCEPT ![w].at = "failed"]
          /\ UNCHANGED <<notes, stale>>
  /\ UNCHANGED <<source, live, state, noteRow, worker, session, events>>

Dropping(w, others) ==
  writer' = [writer EXCEPT ![w].drop = others, ![w].at = IF others = {} THEN "done" ELSE "drop"]

Write(w) ==
  /\ writer[w].at = "write"
  /\ notes' = Placed(writer[w].target, Fresh(w))
  /\ Dropping(w, writer[w].drop \ {writer[w].target})
  /\ Disturb(w)
  /\ UNCHANGED <<source, live, state, noteRow, worker, session, events>>

\* The other notes that matched are removed one by one
Drop(w) ==
  /\ writer[w].at = "drop"
  /\ \E x \in writer[w].drop :
       /\ notes' = Without({x})
       /\ Dropping(w, writer[w].drop \ {x})
  /\ Disturb(w)
  /\ UNCHANGED <<source, live, state, noteRow, worker, session, events>>

-----------------------------------------------------------------------------
\* The worker has a document classified

Due(p) == p \in live /\ source[p] # None /\ state[p].sent # source[p]

Submit(p, folder) ==
  /\ worker.at = "rest"
  /\ writer["classifier"].at = "rest"
  /\ Due(p)
  /\ writer' = [writer EXCEPT !["classifier"] =
       [RestWriter EXCEPT !.at = "look", !.path = p, !.hash = source[p], !.name = NameOf[p],
                          !.folder = folder]]
  /\ worker' = [RestWorker EXCEPT !.at = "await"]
  /\ UNCHANGED <<source, live, notes, state, noteRow, session, stale, events>>

FirstDone ==
  LET done == {p \in Paths : state[p].done}
  IN  {p \in done : Cardinality({q \in done : q < p}) < Limit}

\* run_vault_reconciliation_once loads the first completed states
Pass == [RestWorker EXCEPT !.at = "match",
           !.todo = CHOOSE s \in [1..Cardinality(FirstDone) -> FirstDone] :
                      \A i, k \in DOMAIN s : i < k => s[i] < s[k]]

Answer ==
  LET c == writer["classifier"]
  IN  /\ worker.at = "await"
      /\ c.at \in {"done", "failed"}
      /\ writer' = [writer EXCEPT !["classifier"] = RestWriter]
      /\ state' = IF c.at = "failed" THEN state
                  ELSE [state EXCEPT ![c.path] = [done |-> TRUE, sent |-> c.hash, note |-> c.target,
                                                  path |-> c.path, hash |-> c.hash, name |-> c.name]]
      /\ worker' = [RestWorker EXCEPT !.at = "begin"]
      /\ stale' = stale \ {"classifier"}
      /\ UNCHANGED <<source, live, notes, noteRow, session, events>>

\* The worker gives up while the classifier goes on; nobody reads its answer
TimeOut ==
  /\ worker.at = "await"
  /\ Event
  /\ worker' = [RestWorker EXCEPT !.at = "begin"]
  /\ UNCHANGED <<source, live, notes, state, noteRow, writer, session, stale>>

Unread ==
  /\ worker.at # "await"
  /\ writer["classifier"].at \in {"done", "failed"}
  /\ writer' = [writer EXCEPT !["classifier"] = RestWriter]
  /\ stale' = stale \ {"classifier"}
  /\ UNCHANGED <<source, live, notes, state, noteRow, worker, session, events>>

-----------------------------------------------------------------------------
\* run_vault_reconciliation_once

\* A poll without a job goes on with the pass at once
Begin ==
  /\ worker.at \in {"rest", "begin"}
  /\ session' = state
  /\ worker' = IF FirstDone = {} THEN RestWorker ELSE Pass
  /\ worker' # worker
  /\ UNCHANGED <<source, live, notes, state, noteRow, writer, stale, events>>

Current == Head(worker.todo)

\* to the next state, or to the commit
NextState ==
  [RestWorker EXCEPT !.todo = Tail(worker.todo),
                     !.at = IF Tail(worker.todo) = <<>> THEN "commit" ELSE "match"]

\* mistake: the state keeps the place it knows
KeepPlace(p, place, note) ==
  session' = [session EXCEPT ![p] = [@ EXCEPT !.path = note.path, !.hash = note.hash,
                                              !.name = note.name]]

\* _update_state_note_references
Refer(p, place, note) ==
  session' = [session EXCEPT ![p] = [@ EXCEPT !.note = place, !.path = note.path,
                                              !.hash = note.hash, !.name = note.name]]

\* What the pass looks for: the metadata of the note, or the manifest when it is gone
Key(p) == IF session[p].note \in DOMAIN notes THEN notes[session[p].note] ELSE session[p]

Match ==
  LET p == Current
  IN  /\ worker.at = "match"
      /\ stale' = stale \ {"worker"}
      /\ IF Matches(Key(p)) = {}
         THEN worker' = NextState /\ UNCHANGED session
         ELSE \E best \in Best(Key(p)) :
                /\ worker' = [worker EXCEPT !.at = "open", !.place = best,
                                            !.hash = Key(p).hash, !.name = Key(p).name]
                /\ Refer(p, best, notes[best])
      /\ UNCHANGED <<source, live, notes, state, noteRow, writer, events>>

\* A note whose owned fields are as they should be is not written
Read(place, text) == [worker EXCEPT !.at = IF text.outdated THEN "repair" ELSE "decide",
                                    !.place = place, !.text = text, !.to = None]

\* The note is read; for a name of the old scheme a new one is chosen
Open ==
  /\ worker.at = "open"
  /\ IF worker.place \notin DOMAIN notes
     THEN worker' = NextState
     ELSE IF worker.place.number # 0
     THEN worker' = Read(worker.place, notes[worker.place])
     ELSE LET title == TitleOf[notes[worker.place].name]
          IN  /\ HasRoom(worker.place.folder, title, worker.place)
              /\ worker' = [worker EXCEPT !.at = "rename",
                   !.to = FreePlace(worker.place.folder, title, worker.place)]
  /\ UNCHANGED <<source, live, notes, state, noteRow, writer, session, stale, events>>

\* _normalize_generated_note_filename renames, and the note is read again
Rename ==
  /\ worker.at = "rename"
  /\ worker.place \in DOMAIN notes
  /\ notes' = Moved(worker.place, worker.to)
  /\ worker' = Read(worker.to, notes[worker.place])
  /\ Refer(Current, worker.to, notes[worker.place])
  /\ Disturb("worker")
  /\ UNCHANGED <<source, live, state, noteRow, writer, events>>

\* _repair_note_links: the text that was read is written back with its owned fields renewed
Repaired(text) == [text EXCEPT !.outdated = FALSE]

Repair ==
  /\ worker.at = "repair"
  /\ worker' = [worker EXCEPT !.at = "decide", !.text = Repaired(@)]
  /\ notes' = Placed(worker.place, Repaired(worker.text))
  /\ Refer(Current, worker.place, worker.text)
  /\ Disturb("worker")
  /\ UNCHANGED <<source, live, state, noteRow, writer, events>>

\* _select_replacement_candidate: the file with the hash, or else with the name, or nearly so
Candidates == {q \in live : source[q] # None}

Choices(hash, name) ==
  LET same  == {q \in Candidates : source[q] = hash}
      exact == {q \in Candidates : NameOf[q] = name}
      close == {q \in Candidates : CloseOf[NameOf[q]] = CloseOf[name]}
  IN  IF same # {} THEN same ELSE IF exact # {} THEN exact ELSE close

Decide ==
  LET found == Choices(worker.hash, worker.name)
  IN  /\ worker.at = "decide"
      /\ worker' = IF source[worker.text.path] = None /\ Cardinality(found) = 1
                   THEN [worker EXCEPT !.at = "rewrite", !.to = CHOOSE q \in found : TRUE]
                   ELSE NextState
      /\ UNCHANGED <<source, live, notes, state, noteRow, writer, session, stale, events>>

\* The note is read once more and leads to the replacement from now on
Rewrite ==
  LET note == [notes[worker.place] EXCEPT !.path = worker.to, !.hash = worker.text.hash,
                                          !.name = NameOf[worker.to], !.outdated = FALSE]
  IN  /\ worker.at = "rewrite"
      /\ worker.place \in DOMAIN notes
      /\ notes' = Placed(worker.place, note)
      /\ Refer(Current, worker.place, note)
      /\ worker' = NextState
      /\ Disturb("worker")
      /\ UNCHANGED <<source, live, state, noteRow, writer, events>>

\* A note that vanished before it was renamed or read ends the process: nothing is committed
PassFails ==
  /\ worker.at \in {"rename", "rewrite"}
  /\ worker.place \notin DOMAIN notes
  /\ worker' = RestWorker
  /\ session' = state
  /\ stale' = stale \ {"worker"}
  /\ UNCHANGED <<source, live, notes, state, noteRow, writer, events>>

Commit ==
  /\ worker.at = "commit"
  /\ state' = session
  /\ worker' = RestWorker
  /\ stale' = stale \ {"worker"}
  /\ UNCHANGED <<source, live, notes, noteRow, writer, session, events>>

WorkerDies ==
  /\ worker.at # "rest"
  /\ Event
  /\ worker' = RestWorker
  /\ session' = state
  /\ stale' = stale \ {"worker"}
  /\ UNCHANGED <<source, live, notes, state, noteRow, writer>>

-----------------------------------------------------------------------------
\* create_document_vault_note for a file of the index

\* _upsert_document_vault_note_record
RowFor(x, p) == [y \in DOMAIN noteRow \cup {x} |-> IF y = x THEN p ELSE noteRow[y]]

\* _find_active_document_vault_note_for_file: by the row of a note, else by the state
Known(p) ==
  LET rows == {x \in DOMAIN noteRow : noteRow[x] = p}
  IN  IF rows # {} THEN rows ELSE {state[p].note} \ {None}

Create(r) ==
  LET p == r.path IN
  /\ writer["creator"].at = "rest"
  /\ source[p] # None /\ p \in live
  /\ Event
  /\ \/ \E x \in Known(p) \cap DOMAIN notes :
          /\ noteRow' = RowFor(x, notes[x].path)
          /\ UNCHANGED writer
     \/ /\ Known(p) = {} \/ \E x \in Known(p) : x \notin DOMAIN notes
        /\ writer' = [writer EXCEPT !["creator"] =
             [RestWriter EXCEPT !.at = "look", !.path = p, !.hash = p, !.name = r.name,
                                !.folder = r.folder]]
        /\ UNCHANGED noteRow
  /\ UNCHANGED <<source, live, notes, state, worker, session, stale>>

\* The note is read again for its row; a request that failed changes nothing else
Created ==
  LET c == writer["creator"]
  IN  /\ c.at \in {"done", "failed"}
      /\ noteRow' = IF c.at = "done" /\ c.target \in DOMAIN notes
                    THEN RowFor(c.target, notes[c.target].path) ELSE noteRow
      /\ writer' = [writer EXCEPT !["creator"] = RestWriter]
      /\ stale' = stale \ {"creator"}
      /\ UNCHANGED <<source, live, notes, state, worker, session, events>>

-----------------------------------------------------------------------------
\* The world around

Change(files) ==
  /\ Event
  /\ source' = files
  /\ stale' = stale \cup (Busy \cap {"worker"})
  /\ UNCHANGED <<live, notes, state, noteRow, writer, worker, session>>

\* A file is moved, or replaced, or removed
SourceMoves(p, q) ==
  source[p] # None /\ source[q] = None /\ Change([source EXCEPT ![p] = None, ![q] = source[p]])
SourceChanges(p, c) == c # source[p] /\ Change([source EXCEPT ![p] = c])

\* The scan of the mirror (module RefreshScan) meets one path
Scan(p) ==
  /\ (p \in live) # (source[p] # None)
  /\ live' = IF source[p] = None THEN live \ {p} ELSE live \cup {p}
  /\ stale' = stale \cup (Busy \cap {"worker"})
  /\ UNCHANGED <<source, notes, state, noteRow, writer, worker, session, events>>

Edit(x) ==
  /\ Event
  /\ ~ notes[x].edited
  /\ notes' = [notes EXCEPT ![x].edited = TRUE]
  /\ Disturb("person")
  /\ UNCHANGED <<source, live, state, noteRow, writer, worker, session>>

-----------------------------------------------------------------------------
WriterStep(w) == Look(w) \/ Move(w) \/ Write(w) \/ Drop(w)

PassStep ==
  Begin \/ Match \/ Open \/ Rename \/ Repair \/ Decide \/ Rewrite \/ PassFails \/ Commit

Submits == \E p \in Paths, folder \in Folders : Submit(p, folder)

Next ==
  \/ \E w \in Writers : WriterStep(w)
  \/ Submits \/ Answer \/ TimeOut \/ Unread
  \/ PassStep
  \/ WorkerDies
  \/ \E r \in Requests : Create(r)
  \/ Created
  \/ \E p, q \in Paths : SourceMoves(p, q)
  \/ \E p \in Paths, c \in Contents \cup {None} : SourceChanges(p, c)
  \/ \E p \in Paths : Scan(p)
  \/ \E x \in DOMAIN notes : Edit(x)

Spec == Init /\ [][Next]_vars

\* The worker, the classifier and the request of the API go on; scans come again and again;
\* a document that stays due is sent in the end (module ClassificationQueue).
FairSpec ==
  /\ Spec
  /\ \A w \in Writers : WF_vars(WriterStep(w))
  /\ SF_vars(Submits)
  /\ WF_vars(Answer) /\ WF_vars(Unread)
  /\ WF_vars(PassStep)
  /\ WF_vars(Created)
  /\ \A p \in Paths : WF_vars(Scan(p))

-----------------------------------------------------------------------------
(* Types of all variables. *)
TypeOK ==
  /\ source \in [Paths -> Contents \cup {None}]
  /\ live \subseteq Paths
  /\ DOMAIN notes \subseteq Places /\ \A x \in DOMAIN notes : notes[x] \in Notes
  /\ \A p \in Paths : state[p].note \in Places \cup {None}
  /\ DOMAIN noteRow \subseteq Places

(* A note leaves its place, turns to another document or loses what a person
   wrote only by the process it matched (same path, hash or name), by the pass
   that repairs it, or by one that others have overtaken since its scan. *)
Harmed(x) ==
  \/ x \notin DOMAIN notes'
  \/ notes'[x].path # notes[x].path
  \/ notes[x].edited /\ ~ notes'[x].edited

ByWriter(x) ==
  \E w \in Writers : /\ writer[w].at \in {"move", "write", "drop"}
                     /\ w \in stale \/ Rank(notes[x], writer[w]) < 3

ByPass(x) ==
  \/ "worker" \in stale
  \/ worker.at = "rename" /\ worker.place = x
  \/ worker.at = "rewrite" /\ worker.place = x /\ source[notes[x].path] = None

NotesKept ==
  [][\A x \in DOMAIN notes : Harmed(x) => ByWriter(x) \/ ByPass(x)]_vars

(* A note that a person edited is written anew only by the classifier, or by a
   request that others have overtaken: a request of the API for a document that
   has a note answers with that note. *)
CreateKeepsEdits ==
  [][\A x \in DOMAIN notes :
       notes[x].edited /\ Write("creator") /\ writer["creator"].target = x
         => "creator" \in stale]_vars

(* A pass that nobody overtook gives a note to a file with the note's content,
   unless no file has it. *)
RedirectSound ==
  [][\A x \in DOMAIN notes :
       Rewrite /\ worker.place = x /\ "worker" \notin stale =>
         \/ source[worker.to] = notes[x].hash
         \/ \A q \in Candidates : source[q] # notes[x].hash]_vars

(* When the sources come to rest, the states of a pass lead to notes that lead to
   files, unless there is no file, or more than one, to choose, or no note. *)
Settled(p) ==
  \/ Matches(Key(p)) = {}
  \/ /\ state[p].note \in DOMAIN notes
     /\ LET note == notes[state[p].note]
        IN  source[note.path] # None \/ Cardinality(Choices(note.hash, note.name)) # 1

Converges == <>[](\A p \in FirstDone : Settled(p))
=============================================================================
