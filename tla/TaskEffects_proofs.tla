--------------------------- MODULE TaskEffects_proofs ---------------------------
(***************************************************************************)
(* Proofs about TaskEffects, for every set of documents, files, tasks and  *)
(* runners, all kinds of tasks and requests, and every size of a chunk.    *)
(***************************************************************************)
EXTENDS TaskEffects, TLAPS, FiniteSetTheorems

-----------------------------------------------------------------------------
(* The invariant *)

Imports(k) == k.does \in {"import", "importfile"}

DeliveredBefore(t, S, n) == \A i \in 1..(n - 1) : DeliveredItem(t, Nth(S, i))

\* A note has the title of its document, wherever it is recorded.
Named(m)   == m.name = Title(m.of)
NotesNamed == \A m \in notes \cup noteRow \cup state : Named(m)

\* The documents of icloud are those an earlier scan indexed, and nothing is added
\* to the folder.
OfDocs(s)    == s.in = "icloud" => s.id \in Docs
SourcesKnown ==
  /\ folder \subseteq Files
  /\ \A s \in mirror : OfDocs(s)
  /\ \A s \in scan.listed : OfDocs(s)
  /\ \A x \in index : OfDocs(x[1])

\* A row has its fields and counts no more than was delivered.
RowFields == {"status", "kind", "input", "progress"}

RowFits(row) ==
  /\ DOMAIN row = RowFields
  /\ row.status = "none" => row.progress = NoProgress /\ ~ Chunked(row.kind)
  /\ row.status # "none" =>
       /\ row.kind \in Kinds
       /\ ~ Chunked(row.kind) => row.progress = NoProgress /\ \E x \in Docs \cup Files \cup Tasks : row.input = {x}
  /\ row.progress # NoProgress =>
       row.progress.cursor \in Nat /\ IsFiniteSet(row.progress.matched)

RowDelivered(t) == \A x \in Processed(t) : DeliveredItem(t, x)

\* A runner has its fields and a finite list of items.
RunnerFields == {"at", "task", "kind", "matched", "cursor", "item", "s", "saw", "place"}

RunnerFits(r) ==
  /\ DOMAIN r = RunnerFields
  /\ r.kind \in Kind \cup {NoKind}
  /\ r.task \in Tasks \cup {NoTask}
  /\ r.item \in Nat /\ r.cursor \in Nat /\ IsFiniteSet(r.matched)

\* It does what its task says, and every item before the i-th is delivered.
ForItem(r, i) ==
  r.task # NoTask =>
    /\ task[r.task].status # "none"
    /\ r.kind.does = task[r.task].kind.does
    /\ r.kind.note = "none" => task[r.task].kind.note = "none"
    /\ ~ Chunked(r.kind) => r.matched = task[r.task].input
    /\ DeliveredBefore(r.task, r.matched, i)

\* An import works on a copy of its item, with the item's bytes unless its name was raced
\* for, the others on the document of the item.
OnItem(r) ==
  /\ r.at = "end" => r.item > Goal(r)
  /\ Imports(r.kind) =>
       /\ r.at # "new"
       /\ r.at \in {"place", "register", "look", "write", "answer", "commit"} =>
            r.s.in = "uploads" /\ r.s.id = Base[ItemOf(r)]
       /\ r.at \in {"register", "look", "write", "answer", "commit"} =>
            r.s \in mirror /\ (ItemOf(r) \in raced \/ <<r.s, ItemOf(r)>> \in bytes)
  /\ r.kind.does = "external" =>
       /\ r.at \in {"rest", "new", "commit", "end"} /\ r.kind.note = "create"
       /\ r.at \in {"new", "commit"} => r.s = External(ItemOf(r))
  /\ ~ Imports(r.kind) /\ r.kind.does # "external" =>
       /\ r.at \notin {"copy", "place", "register", "new"}
       /\ r.at \in {"look", "write", "answer", "commit"} => r.s = Document(ItemOf(r))

\* It takes no note of another name for its own, and its note has the right name.
OnNote(r) ==
  /\ r.at = "write" => \A m \in r.saw : m.name = Title(r.s)
  /\ r.at \in {"answer", "commit"} => r.place.name = Title(r.s) /\ r.place.of = r.s

RunnerRight(r) == RunnerFits(r) /\ ForItem(r, r.item) /\ OnItem(r) /\ OnNote(r)

\* Bytes are in the mirror.  Who writes over the bytes of another file, or is about to write
\* where another is, was in a race for that name.
PlacesInv ==
  /\ \A b \in bytes : b = <<b[1], b[2]>> /\ b[1] \in mirror /\ b[1].in = "uploads"
  /\ \A e \in Runners : runner[e].at = "place" =>
       \A b \in bytes : b[1] = runner[e].s => b[2] = ItemOf(runner[e]) \/ b[2] \in raced
  /\ \A e, o \in Runners :
       /\ runner[e].at = "place" /\ runner[o].at = "place" /\ runner[e].s = runner[o].s
       /\ ItemOf(runner[e]) # ItemOf(runner[o])
       => ItemOf(runner[e]) \in raced

EffectsInv ==
  /\ NotesNamed /\ SourcesKnown
  /\ DOMAIN task = Tasks /\ DOMAIN runner = Runners
  /\ \A t \in Tasks : RowFits(task[t]) /\ RowDelivered(t)
  /\ \A e \in Runners : RunnerRight(runner[e])

-----------------------------------------------------------------------------
(* What a step may not undo *)

Keeps ==
  /\ \A m \in notes : \E k \in notes' : k.name = m.name
  /\ \A s \in mirror : s.in = "uploads" => s \in mirror'
  /\ \A b \in bytes : b \in bytes' \/ b[2] \in raced'
  /\ raced \subseteq raced'
  /\ excused \subseteq excused'

KindsStay ==
  \A t \in Tasks : task[t].status # "none" =>
    /\ task'[t].status # "none"
    /\ task'[t].kind = task[t].kind /\ task'[t].input = task[t].input

\* A document is noted when a note has its name.
LEMMA NotedByName ==
  ASSUME NotesNamed, NEW s
  PROVE  Noted(s) <=> \E m \in notes : m.name = Title(s)
  BY DEF NotesNamed, Named, Noted

\* So a step that keeps the names of the notes keeps what is noted.
LEMMA NotedStays ==
  ASSUME NotesNamed, Keeps, NEW s, Noted(s)
  PROVE  Noted(s)'
<1>1. PICK m \in notes : m.name = Title(s)
  BY NotedByName
<1>2. PICK k \in notes' : k.name = m.name
  BY DEF Keeps
<1>. QED  BY <1>1, <1>2 DEF Noted

\* What was delivered stays delivered.
LEMMA ItemStays ==
  ASSUME NotesNamed, Keeps, KindsStay, NEW t \in Tasks, task[t].status # "none",
         NEW x, DeliveredItem(t, x)
  PROVE  DeliveredItem(t, x)'
<1>. DEFINE k == task[t].kind
<1>1. task'[t].kind = k
  BY DEF KindsStay
<1>2. <<t, x>> \in excused => <<t, x>> \in excused'
  BY DEF Keeps
<1>3. CASE k.does \in {"import", "importfile"}
  <2>1. PICK s \in mirror : /\ s.in = "uploads" /\ s.id = Base[x]
                            /\ x \in raced \/ <<s, x>> \in bytes
                            /\ k.note = "none" \/ <<t, x>> \in excused \/ Noted(s)
    BY <1>3 DEF DeliveredItem
  <2>2. s \in mirror' /\ (Noted(s) => Noted(s)')
    BY <2>1, NotedStays DEF Keeps
  <2>3. x \in raced' \/ <<s, x>> \in bytes'
    BY <2>1 DEF Keeps
  <2>. QED  BY <1>1, <1>2, <1>3, <2>1, <2>2, <2>3 DEF DeliveredItem
<1>4. CASE k.does = "external"
  BY <1>1, <1>4, NotedStays DEF DeliveredItem
<1>5. CASE k.does \notin {"import", "importfile", "external"}
  <2>1. <<t, x>> \in excused \/ Noted(Document(x))
    BY <1>5 DEF DeliveredItem
  <2>. QED  BY <1>1, <1>2, <1>5, <2>1, NotedStays DEF DeliveredItem
<1>. QED  BY <1>3, <1>4, <1>5

\* A row that a step does not write stays right.
LEMMA RowStays ==
  ASSUME NotesNamed, Keeps, KindsStay, NEW t \in Tasks, RowFits(task[t]), RowDelivered(t),
         task'[t] = task[t]
  PROVE  RowFits(task[t])' /\ RowDelivered(t)'
<1>1. RowFits(task[t])'
  BY DEF RowFits
<1>2. Processed(t)' = Processed(t)
  BY DEF Processed
<1>3. CASE task[t].status = "none"
  <2>1. Processed(t) = {}
    BY <1>3 DEF Processed, RowFits
  <2>. QED  BY <1>1, <1>2, <2>1 DEF RowDelivered
<1>4. CASE task[t].status # "none"
  BY <1>1, <1>2, <1>4, ItemStays DEF RowDelivered
<1>. QED  BY <1>3, <1>4

\* So does a runner that does not move.
LEMMA RunnerStays ==
  ASSUME NotesNamed, Keeps, KindsStay, NEW r, RunnerRight(r)
  PROVE  RunnerRight(r)'
<1>1. RunnerFits(r)' /\ OnNote(r)'
  BY DEF RunnerRight, RunnerFits, OnNote
<1>2. OnItem(r)'
  <2>1. ASSUME r.s \in mirror, r.s.in = "uploads", ItemOf(r) \in raced \/ <<r.s, ItemOf(r)>> \in bytes
        PROVE  r.s \in mirror' /\ (ItemOf(r) \in raced' \/ <<r.s, ItemOf(r)>> \in bytes')
    BY <2>1 DEF Keeps
  <2>. QED  BY <2>1 DEF RunnerRight, OnItem
<1>3. ForItem(r, r.item)'
  <2>1. SUFFICES ASSUME r.task # NoTask
                 PROVE  ForItem(r, r.item)'
    BY DEF ForItem
  <2>2. r.task \in Tasks /\ task[r.task].status # "none"
    BY <2>1 DEF RunnerRight, RunnerFits, ForItem
  <2>3. DeliveredBefore(r.task, r.matched, r.item)'
    BY <2>1, <2>2, ItemStays DEF RunnerRight, ForItem, DeliveredBefore
  <2>. QED  BY <2>1, <2>2, <2>3 DEF RunnerRight, ForItem, KindsStay
<1>. QED  BY <1>1, <1>2, <1>3 DEF RunnerRight

-----------------------------------------------------------------------------
(* Shapes of a step *)

\* A step that undoes nothing keeps the invariant when every row and runner that it
\* moves is right.
LEMMA StepKeepsInv ==
  ASSUME EffectsInv, Keeps, KindsStay, NotesNamed', SourcesKnown',
         DOMAIN task' = Tasks, DOMAIN runner' = Runners,
         \A t \in Tasks : task'[t] = task[t] \/ (RowFits(task[t])' /\ RowDelivered(t)'),
         \A e \in Runners : runner'[e] = runner[e] \/ RunnerRight(runner[e])'
  PROVE  EffectsInv'
<1>1. \A t \in Tasks : RowFits(task[t])' /\ RowDelivered(t)'
  BY RowStays DEF EffectsInv
<1>2. ASSUME NEW e \in Runners
      PROVE  RunnerRight(runner[e])'
  <2>1. PICK x : x = runner'[e]
    OBVIOUS
  <2>2. CASE runner'[e] = runner[e]
    <3>1. RunnerRight(x)'
      BY <2>1, <2>2, RunnerStays DEF EffectsInv
    <3>. QED  BY <2>1, <3>1
  <2>. QED  BY <2>2
<1>. QED  BY <1>1, <1>2 DEF EffectsInv

\* A step that leaves tasks and runners alone.
LEMMA StillKeepsInv ==
  ASSUME EffectsInv, Keeps, NotesNamed', SourcesKnown', UNCHANGED <<task, runner>>
  PROVE  EffectsInv'
  BY StepKeepsInv DEF EffectsInv, KindsStay

\* One that moves one runner and leaves the rows alone.
LEMMA MoveKeepsInv ==
  ASSUME EffectsInv, Keeps, NotesNamed', SourcesKnown', UNCHANGED task,
         NEW e \in Runners, NEW r, runner' = [runner EXCEPT ![e] = r], RunnerRight(r)'
  PROVE  EffectsInv'
<1>1. KindsStay
  BY DEF KindsStay
<1>2. DOMAIN runner' = Runners /\ runner'[e] = r /\ \A f \in Runners : f # e => runner'[f] = runner[f]
  BY DEF EffectsInv
<1>3. RunnerRight(runner[e])'
  BY <1>2
<1>. QED  BY <1>1, <1>2, <1>3, StepKeepsInv DEF EffectsInv

\* One that moves one runner and writes one row.
LEMMA WriteKeepsInv ==
  ASSUME EffectsInv, Keeps, KindsStay, NotesNamed', SourcesKnown',
         NEW t \in Tasks, NEW row, task' = [task EXCEPT ![t] = row],
         RowFits(row), RowDelivered(t)',
         NEW e \in Runners, NEW r, runner' = [runner EXCEPT ![e] = r], RunnerRight(r)'
  PROVE  EffectsInv'
<1>1. /\ DOMAIN runner' = Runners /\ runner'[e] = r
      /\ \A f \in Runners : f # e => runner'[f] = runner[f]
      /\ DOMAIN task' = Tasks /\ task'[t] = row
      /\ \A u \in Tasks : u # t => task'[u] = task[u]
  BY DEF EffectsInv
<1>2. RunnerRight(runner[e])'
  BY <1>1
<1>3. RowFits(task[t])'
  BY <1>1 DEF RowFits
<1>. QED  BY <1>1, <1>2, <1>3, StepKeepsInv

\* The goal of a chunk is a number.
LEMMA GoalType ==
  ASSUME NEW r, RunnerFits(r)
  PROVE  Goal(r) \in Nat /\ Cardinality(r.matched) \in Nat /\ Goal(r) <= Cardinality(r.matched)
<1>1. Cardinality(r.matched) \in Nat /\ r.cursor \in Nat /\ Chunk \in Nat
  BY FS_CardinalityType, TaskEffectsAssumption DEF RunnerFits
<1>. QED  BY <1>1 DEF Goal

\* A runner that has delivered the items before one may turn to it.
LEMMA Turned ==
  ASSUME NEW r, RunnerFits(r), NEW i \in Nat,
         r.kind.does = "external" => r.kind.note = "create",
         ForItem(r, i)'
  PROVE  RunnerRight(Turn(r, i))'
<1>. DEFINE begun == [r EXCEPT !.item = i, !.s = NoSource, !.saw = {}, !.place = NoSource]
            x     == Nth(r.matched, i)
<1>1. PICK q : q = Turn(r, i)
  OBVIOUS
<1>2. /\ DOMAIN begun = RunnerFields
      /\ begun.item = i /\ begun.task = r.task /\ begun.kind = r.kind
      /\ begun.matched = r.matched /\ begun.cursor = r.cursor
  BY DEF RunnerFits, RunnerFields
<1>3. /\ DOMAIN q = RunnerFields
      /\ q.item = i /\ q.task = r.task /\ q.kind = r.kind
      /\ q.matched = r.matched /\ q.cursor = r.cursor
      /\ \/ q.at = "end" /\ i > Goal(r)
         \/ q.at = "copy" /\ Imports(r.kind)
         \/ q.at = "new" /\ r.kind.does = "external" /\ q.s = External(x)
         \/ q.at = "look" /\ ~ Imports(r.kind) /\ r.kind.does # "external" /\ q.s = Document(x)
  <2>. HIDE DEF begun
  <2>1. CASE i > Goal(r)
    <3>1. q = [begun EXCEPT !.at = "end"]
      BY <1>1, <2>1 DEF Turn, begun
    <3>. QED  BY <1>2, <2>1, <3>1 DEF RunnerFields
  <2>2. CASE ~ (i > Goal(r)) /\ Imports(r.kind)
    <3>1. q = [begun EXCEPT !.at = "copy"]
      BY <1>1, <2>2 DEF Turn, begun, Imports
    <3>. QED  BY <1>2, <2>2, <3>1 DEF RunnerFields
  <2>3. CASE ~ (i > Goal(r)) /\ ~ Imports(r.kind) /\ r.kind.does = "external"
    <3>1. q = [begun EXCEPT !.at = "new", !.s = External(x)]
      BY <1>1, <2>3 DEF Turn, begun, Imports
    <3>. QED  BY <1>2, <2>3, <3>1 DEF RunnerFields
  <2>4. CASE ~ (i > Goal(r)) /\ ~ Imports(r.kind) /\ r.kind.does # "external"
    <3>1. q = [begun EXCEPT !.at = "look", !.s = Document(x)]
      BY <1>1, <2>4 DEF Turn, begun, Imports
    <3>. QED  BY <1>2, <2>4, <3>1 DEF RunnerFields
  <2>. QED  BY <2>1, <2>2, <2>3, <2>4
<1>4. Goal(q) = Goal(r)
  BY <1>3 DEF Goal
<1>5. RunnerFits(q)
  BY <1>3 DEF RunnerFits
<1>6. ForItem(q, q.item)'
  BY <1>3 DEF ForItem
<1>7. OnItem(q)'
  BY <1>3, <1>4 DEF OnItem, ItemOf, Imports
<1>8. OnNote(q)'
  BY <1>3 DEF OnNote
<1>9. RunnerRight(q)'
  BY <1>5, <1>6, <1>7, <1>8 DEF RunnerRight, RunnerFits
<1>. QED  BY <1>1, <1>9

\* A runner whose item is delivered turns to the next.
LEMMA DoneKeepsInv ==
  ASSUME EffectsInv, Keeps, NotesNamed', SourcesKnown', UNCHANGED task,
         NEW e \in Runners, NEW r, r = runner[e], DoneItem(e),
         r.task # NoTask => DeliveredItem(r.task, ItemOf(r))'
  PROVE  EffectsInv'
<1>2. RunnerRight(r) /\ r.item \in Nat
  BY DEF EffectsInv, RunnerRight, RunnerFits
<1>3. PICK n \in Nat : n = r.item + 1
  BY <1>2
<1>4. ForItem(r, n)'
  <2>1. SUFFICES ASSUME r.task # NoTask
                 PROVE  ForItem(r, n)'
    BY DEF ForItem
  <2>2. RunnerRight(r)'
    BY <1>2, RunnerStays DEF EffectsInv, KindsStay
  <2>3. DeliveredItem(r.task, Nth(r.matched, r.item))'
    BY <2>1 DEF ItemOf
  <2>4. \A i \in 1..(n - 1) : i \in 1..(r.item - 1) \/ i = r.item
    BY <1>2, <1>3
  <2>5. DeliveredBefore(r.task, r.matched, n)'
    BY <2>1, <2>2, <2>3, <2>4 DEF RunnerRight, ForItem, DeliveredBefore
  <2>. QED  BY <2>1, <2>2, <2>5 DEF RunnerRight, ForItem
<1>5. RunnerRight(Turn(r, n))'
  <2>1. /\ RunnerFits(r)
        /\ r.kind.does = "external" => r.kind.note = "create"
    BY <1>2 DEF RunnerRight, OnItem
  <2>. QED  BY <1>4, <2>1, Turned
<1>6. runner' = [runner EXCEPT ![e] = Turn(r, n)]
  BY <1>3 DEF DoneItem, Goes
<1>. QED  BY <1>5, <1>6, MoveKeepsInv

-----------------------------------------------------------------------------
(* Notes and items *)

\* A step that leaves these alone undoes nothing.
LEMMA SameKeeps ==
  ASSUME UNCHANGED <<notes, mirror, bytes, raced, excused>>
  PROVE  Keeps
  BY DEF Keeps

\* A note written over those of the same name keeps the names.
LEMMA WrittenKeepsNames ==
  ASSUME NotesNamed, NEW m, Named(m), NEW saw, \A x \in saw : x.name = m.name
  PROVE  /\ \A k \in notes : \E j \in Written(m, saw) : j.name = k.name
         /\ \A j \in Written(m, saw) : Named(j)
<1>1. ASSUME NEW k \in notes
      PROVE  \E j \in Written(m, saw) : j.name = k.name
  <2>1. CASE k \in Written(m, saw)
    BY <2>1
  <2>2. CASE k \notin Written(m, saw)
    <3>1. Place(k) = Place(m) \/ \E x \in saw : Place(k) = Place(x)
      BY <2>2 DEF Written
    <3>2. k.name = m.name
      BY <3>1 DEF Place
    <3>. QED  BY <3>2 DEF Written
  <2>. QED  BY <2>1, <2>2
<1>. QED  BY <1>1 DEF Written, NotesNamed

\* The note a writer makes has the title of its document.
LEMMA TargetNamed ==
  ASSUME NEW s, NEW way, NEW b
  PROVE  LET m == Target(s, way, b) IN Named(m) /\ m.name = Title(s) /\ m.of = s
  BY DEF Target, Named

\* The notes a writer takes for the document's own have its title.
LEMMA MatchesNamed ==
  ASSUME NotesNamed, NEW s, NEW way
  PROVE  \A m \in Matches(s, way) : m.name = Title(s)
  BY DEF NotesNamed, Named, Matches, OwnPath

\* The rows that a note is linked by have the titles of their documents.
LEMMA LinkedNamed ==
  ASSUME NotesNamed, NEW p
  PROVE  \A m \in Linked(p) : Named(m)
  BY DEF NotesNamed, Linked

\* A document whose note is there is noted.
LEMMA ThereIsNoted ==
  ASSUME NEW p, NEW s, There(p), p.name = Title(s)
  PROVE  Noted(s)
  BY DEF There, Place, Noted

\* The item of a runner is delivered when its document is noted or it is excused.
LEMMA ItemDelivered ==
  ASSUME NEW r, RunnerRight(r)', r.task # NoTask,
         r.at \in {"look", "write", "answer", "commit"},
         Noted(r.s)' \/ (r.kind.does # "external" /\ <<r.task, ItemOf(r)>> \in excused')
  PROVE  DeliveredItem(r.task, ItemOf(r))'
<1>1. r.kind.does = task'[r.task].kind.does
  BY DEF RunnerRight, ForItem
<1>2. CASE Imports(r.kind)
  <2>1. /\ r.s \in mirror' /\ r.s.in = "uploads" /\ r.s.id = Base[ItemOf(r)]
        /\ ItemOf(r) \in raced' \/ <<r.s, ItemOf(r)>> \in bytes'
    BY <1>2 DEF RunnerRight, OnItem
  <2>2. Noted(r.s)' \/ <<r.task, ItemOf(r)>> \in excused'
    OBVIOUS
  <2>. QED  BY <1>1, <1>2, <2>1, <2>2 DEF DeliveredItem, Imports
<1>3. CASE r.kind.does = "external"
  <2>1. r.s = External(ItemOf(r))
    BY <1>3 DEF RunnerRight, OnItem
  <2>. QED  BY <1>1, <1>3, <2>1 DEF DeliveredItem
<1>4. CASE ~ Imports(r.kind) /\ r.kind.does # "external"
  <2>1. r.s = Document(ItemOf(r))
    BY <1>4 DEF RunnerRight, OnItem
  <2>. QED  BY <1>1, <1>4, <2>1 DEF DeliveredItem, Imports
<1>. QED  BY <1>2, <1>3, <1>4

\* What the invariant says of one runner, and of the world around it.
LEMMA RunnerOfInv ==
  ASSUME EffectsInv, NEW e \in Runners
  PROVE  /\ RunnerRight(runner[e]) /\ DOMAIN runner[e] = RunnerFields
         /\ runner[e].kind \in Kind \cup {NoKind}
         /\ runner[e].item \in Nat
         /\ NotesNamed /\ SourcesKnown
  BY DEF EffectsInv, RunnerRight, RunnerFits

\* An item that is reported without a note.
LEMMA ExcuseKeepsInv ==
  ASSUME EffectsInv, UNCHANGED <<task, disk, vault>>, NEW e \in Runners, Excuse(e),
         runner[e].at \in {"look", "write", "commit"}, runner[e].kind.does # "external"
  PROVE  EffectsInv'
<1>1. PICK r : r = runner[e]
  OBVIOUS
<1>2. Keeps /\ NotesNamed' /\ SourcesKnown' /\ KindsStay
  BY RunnerOfInv DEF Keeps, Excuse, disk, vault, NotesNamed, SourcesKnown, KindsStay
<1>3. RunnerRight(r)'
  BY <1>1, <1>2, RunnerOfInv, RunnerStays
<1>4. <<r.task, ItemOf(r)>> \in excused'
  BY <1>1 DEF Excuse, ItemOf
<1>5. r.task # NoTask => DeliveredItem(r.task, ItemOf(r))'
  BY <1>1, <1>3, <1>4, ItemDelivered
<1>. QED  BY <1>1, <1>2, <1>5, DoneKeepsInv DEF Excuse

-----------------------------------------------------------------------------
(* One lemma per action *)

\* A task is queued.
LEMMA QueueKeepsInv ==
  ASSUME EffectsInv, NEW t \in Tasks, NEW k \in Kinds, Queue(t, k)
  PROVE  EffectsInv'
<1>1. PICK input \in Inputs(t, k) :
        task' = [task EXCEPT ![t] = [@ EXCEPT !.status = "queued", !.kind = k, !.input = input]]
  BY DEF Queue
<1>2. RowFits(task[t]) /\ task[t].status = "none"
  BY DEF EffectsInv, Queue
<1>3. /\ task'[t].status = "queued" /\ task'[t].kind = k /\ task'[t].input = input
      /\ task'[t].progress = NoProgress /\ DOMAIN task'[t] = RowFields
      /\ \A u \in Tasks : u # t => task'[u] = task[u]
  BY <1>1, <1>2 DEF EffectsInv, RowFits, RowFields
<1>4. ~ Chunked(k) => \E x \in Docs \cup Files \cup Tasks : input = {x}
  <2>1. k.does \in {"importfile", "file", "external"} \/ Chunked(k)
    BY TaskEffectsAssumption DEF Kind, Chunked
  <2>. QED  BY <2>1 DEF Inputs, Chunked
<1>5. RowFits(task[t])'
  BY <1>3, <1>4 DEF RowFits
<1>6. RowDelivered(t)'
  <2>1. Processed(t)' = {}
    BY <1>3 DEF Processed
  <2>. QED  BY <2>1 DEF RowDelivered
<1>7. Keeps /\ NotesNamed' /\ SourcesKnown' /\ KindsStay
  BY <1>2, <1>3, SameKeeps
     DEF EffectsInv, Queue, disk, vault, NotesNamed, SourcesKnown, KindsStay
<1>8. DOMAIN task' = Tasks
  BY <1>1 DEF EffectsInv
<1>. QED  BY <1>3, <1>5, <1>6, <1>7, <1>8, StepKeepsInv DEF Queue, EffectsInv

\* What a task works through is a finite set.
LEMMA ListingFinite ==
  ASSUME EffectsInv, NEW t \in Tasks, task[t].status # "none"
  PROVE  IsFiniteSet(Listing(task[t]))
<1>1. RowFits(task[t]) /\ SourcesKnown
  BY DEF EffectsInv
<1>2. CASE task[t].kind.does = "import"
  BY <1>1, <1>2, FS_Subset, TaskEffectsAssumption DEF Listing, SourcesKnown
<1>3. CASE task[t].kind.does = "search"
  <2>. DEFINE ids == {x[1].id : x \in {y \in index : y[1].in = "icloud"}}
  <2>1. ids \subseteq Docs
    BY <1>1 DEF SourcesKnown, OfDocs
  <2>2. IsFiniteSet(ids)
    BY <2>1, FS_Subset, TaskEffectsAssumption
  <2>. QED  BY <1>3, <2>2 DEF Listing
<1>4. CASE ~ Chunked(task[t].kind)
  <2>1. PICK x : task[t].input = {x}
    BY <1>1, <1>4 DEF RowFits
  <2>2. Listing(task[t]) = {x}
    BY <1>4, <2>1 DEF Listing, Chunked
  <2>. QED  BY <2>2, FS_Singleton
<1>. QED  BY <1>2, <1>3, <1>4 DEF Chunked

\* A runner that begins where the progress of its task ends has nothing to answer for.
LEMMA LoadKeepsInv ==
  ASSUME EffectsInv, NEW e \in Runners, NEW t \in Tasks, Load(e, t)
  PROVE  EffectsInv'
<1>0. PICK p, k :
        /\ p = IF task[t].progress = NoProgress
               THEN [matched |-> Listing(task[t]), cursor |-> 0]
               ELSE task[t].progress
        /\ k = task[t].kind
  OBVIOUS
<1>1. /\ RowFits(task[t]) /\ RowDelivered(t) /\ task[t].status # "none" /\ k \in Kinds
  BY <1>0 DEF EffectsInv, Load, RowFits
<1>2. p.cursor \in Nat /\ IsFiniteSet(p.matched)
  BY <1>0, <1>1, ListingFinite DEF RowFits
<1>3. /\ task'[t].status = "running" /\ task'[t].kind = k /\ task'[t].input = task[t].input
      /\ task'[t].progress = task[t].progress /\ DOMAIN task'[t] = RowFields
      /\ \A u \in Tasks : u # t => task'[u] = task[u]
      /\ DOMAIN task' = Tasks
  BY <1>0, <1>1 DEF Load, EffectsInv, RowFits, RowFields
<1>4. Keeps /\ NotesNamed' /\ SourcesKnown' /\ KindsStay
  BY <1>0, <1>3, SameKeeps DEF EffectsInv, Load, disk, vault, NotesNamed, SourcesKnown, KindsStay
<1>5. RowFits(task[t])'
  BY <1>0, <1>1, <1>3 DEF RowFits
<1>6. RowDelivered(t)'
  <2>1. Processed(t)' \subseteq Processed(t)
    BY <1>0, <1>3 DEF Processed
  <2>2. \A x \in Processed(t) : DeliveredItem(t, x)'
    BY <1>1, <1>4, ItemStays DEF RowDelivered, EffectsInv
  <2>. QED  BY <2>1, <2>2 DEF RowDelivered
<1>7. PICK r : r = [Rest EXCEPT !.task = t, !.kind = k, !.matched = p.matched, !.cursor = p.cursor]
  OBVIOUS
<1>8. /\ DOMAIN r = RunnerFields
      /\ r.task = t /\ r.kind = k /\ r.matched = p.matched /\ r.cursor = p.cursor /\ r.item = 0
  BY <1>7 DEF Rest, RunnerFields
<1>9. PICK n \in Nat : n = p.cursor + 1
  BY <1>2
<1>10. RunnerFits(r)
  BY <1>1, <1>2, <1>8, TaskEffectsAssumption DEF RunnerFits
<1>11. ForItem(r, n)'
  <2>1. ~ Chunked(k) => p.matched = task[t].input
    BY <1>0, <1>1 DEF RowFits, Listing, Chunked
  <2>2. \A i \in 1..(n - 1) : Nth(p.matched, i) \in Processed(t)
    <3>1. CASE task[t].progress = NoProgress
      BY <1>0, <1>9, <3>1
    <3>2. CASE task[t].progress # NoProgress
      BY <1>0, <1>1, <1>2, <1>9, <3>2 DEF RowFits, Processed
    <3>. QED  BY <3>1, <3>2
  <2>3. DeliveredBefore(t, p.matched, n)'
    BY <1>1, <1>4, <2>2, ItemStays DEF DeliveredBefore, RowDelivered, EffectsInv
  <2>. QED  BY <1>3, <1>8, <2>1, <2>3 DEF ForItem
<1>12. RunnerRight(Turn(r, n))'
  BY <1>1, <1>8, <1>10, <1>11, Turned, TaskEffectsAssumption
<1>13. runner' = [runner EXCEPT ![e] = Turn(r, n)]
  BY <1>0, <1>7, <1>9 DEF Load, Goes, Begun
<1>14. /\ DOMAIN runner' = Runners /\ RunnerRight(runner[e])'
       /\ \A f \in Runners : f # e => runner'[f] = runner[f]
  <2>1. DOMAIN runner' = Runners /\ runner'[e] = Turn(r, n)
        /\ \A f \in Runners : f # e => runner'[f] = runner[f]
    BY <1>13 DEF EffectsInv
  <2>. QED  BY <1>12, <2>1
<1>. QED  BY <1>3, <1>4, <1>5, <1>6, <1>14, StepKeepsInv

\* A request answers for no task.
LEMMA RequestKeepsInv ==
  ASSUME EffectsInv, NEW e \in Runners, NEW k \in Requests, Request(e, k)
  PROVE  EffectsInv'
<1>1. PICK matched \in Inputs(NoTask, k) :
        runner' = [runner EXCEPT ![e] = Begun(NoTask, k, [matched |-> matched, cursor |-> 0])]
  BY DEF Request, Goes
<1>2. k \in Kind /\ k.does = "batch"
  BY TaskEffectsAssumption
<1>3. IsFiniteSet(matched)
  <2>1. PICK d \in Docs : matched = {d}
    BY <1>1, <1>2 DEF Inputs
  <2>. QED  BY <2>1, FS_Singleton
<1>4. PICK r : r = [Rest EXCEPT !.task = NoTask, !.kind = k, !.matched = matched, !.cursor = 0]
  OBVIOUS
<1>5. RunnerFits(r) /\ r.kind = k /\ ForItem(r, 1)'
  BY <1>2, <1>3, <1>4 DEF RunnerFits, Rest, RunnerFields, ForItem
<1>6. RunnerRight(Turn(r, 1))'
  BY <1>2, <1>5, Turned
<1>7. runner' = [runner EXCEPT ![e] = Turn(r, 1)]
  BY <1>1, <1>4 DEF Begun
<1>8. Keeps /\ NotesNamed' /\ SourcesKnown'
  BY SameKeeps DEF EffectsInv, Request, disk, vault, NotesNamed, SourcesKnown
<1>. QED  BY <1>6, <1>7, <1>8, MoveKeepsInv DEF Request

\* A file of the folder gets a name that is free in the mirror.
LEMMA ChooseNameKeepsInv ==
  ASSUME EffectsInv, NEW e \in Runners, ChooseName(e)
  PROVE  EffectsInv'
<1>0. PICK s \in FreeName(e) : Goes(e, [runner[e] EXCEPT !.at = "place", !.s = s])
  BY DEF ChooseName
<1>1. PICK r : r = runner[e]
  OBVIOUS
<1>2. RunnerRight(r) /\ DOMAIN r = RunnerFields /\ r.at = "copy" /\ NotesNamed /\ SourcesKnown
  BY <1>1, RunnerOfInv DEF ChooseName, At
<1>3. s.in = "uploads" /\ s.id = Base[ItemOf(r)]
  <2>1. PICK b, n : b = Base[ItemOf(r)] /\ s = Copy(b, n)
    BY <1>0, <1>1 DEF FreeName
  <2>. QED  BY <2>1 DEF Copy
<1>4. /\ raced \subseteq raced'
      /\ runner' = [runner EXCEPT ![e] = [r EXCEPT !.at = "place", !.s = s]]
      /\ UNCHANGED <<task, folder, mirror, bytes, index, scan, notes, noteRow, state, excused>>
  BY <1>0, <1>1 DEF ChooseName, Goes, vault
<1>5. Keeps /\ NotesNamed' /\ SourcesKnown'
  BY <1>2, <1>4 DEF Keeps, NotesNamed, SourcesKnown
<1>6. PICK q : q = [r EXCEPT !.at = "place", !.s = s]
  OBVIOUS
<1>7. /\ DOMAIN q = RunnerFields /\ q.at = "place" /\ q.s = s
      /\ q.task = r.task /\ q.kind = r.kind /\ q.matched = r.matched /\ q.item = r.item
      /\ q.cursor = r.cursor
  BY <1>2, <1>6 DEF RunnerFields
<1>8. RunnerRight(r)'
  BY <1>2, <1>4, <1>5, RunnerStays DEF KindsStay
<1>9. RunnerRight(q)'
  <2>1. RunnerFits(q)' /\ ForItem(q, q.item)' /\ OnNote(q)'
    BY <1>7, <1>8 DEF RunnerRight, RunnerFits, ForItem, OnNote
  <2>2. OnItem(q)'
    BY <1>2, <1>3, <1>7 DEF RunnerRight, OnItem, ItemOf
  <2>. QED  BY <2>1, <2>2 DEF RunnerRight
<1>. QED  BY <1>4, <1>5, <1>6, <1>9, MoveKeepsInv

\* It is copied there; whose bytes it writes over was in a race for the name.
LEMMA CopyFileKeepsInv ==
  ASSUME EffectsInv, PlacesInv, NEW e \in Runners, CopyFile(e)
  PROVE  EffectsInv'
<1>1. PICK r, s, f : r = runner[e] /\ s = r.s /\ f = ItemOf(r)
  OBVIOUS
<1>2. RunnerRight(r) /\ DOMAIN r = RunnerFields /\ r.at = "place" /\ NotesNamed /\ SourcesKnown
  BY <1>1, RunnerOfInv DEF CopyFile, At
<1>3. Imports(r.kind) /\ s.in = "uploads" /\ s.id = Base[f]
  BY <1>1, <1>2 DEF RunnerRight, OnItem
<1>4. /\ mirror' = mirror \cup {s}
      /\ bytes' = {b \in bytes : b[1] # s} \cup {<<s, f>>}
      /\ folder' \subseteq folder
      /\ runner' = [runner EXCEPT ![e] = [r EXCEPT !.at = "register"]]
      /\ UNCHANGED <<task, raced, index, scan, notes, noteRow, state, excused>>
  BY <1>1 DEF CopyFile, Goes, vault
<1>5. ASSUME NEW b \in bytes
      PROVE  b \in bytes' \/ b[2] \in raced'
  <2>1. CASE b[1] = s
    <3>1. b[2] = f \/ b[2] \in raced
      BY <1>1, <1>2, <2>1 DEF PlacesInv
    <3>2. b = <<s, b[2]>>
      BY <2>1 DEF PlacesInv
    <3>. QED  BY <1>4, <3>1, <3>2
  <2>2. CASE b[1] # s
    BY <1>4, <2>2
  <2>. QED  BY <2>1, <2>2
<1>6. Keeps /\ NotesNamed'
  BY <1>2, <1>4, <1>5 DEF Keeps, NotesNamed
<1>7. SourcesKnown'
  BY <1>2, <1>3, <1>4 DEF SourcesKnown, OfDocs
<1>8. PICK q : q = [r EXCEPT !.at = "register"]
  OBVIOUS
<1>9. /\ DOMAIN q = RunnerFields /\ q.at = "register" /\ q.s = s /\ ItemOf(q) = f
      /\ q.task = r.task /\ q.kind = r.kind /\ q.matched = r.matched /\ q.item = r.item
      /\ q.cursor = r.cursor
  BY <1>1, <1>2, <1>8 DEF RunnerFields, ItemOf
<1>10. RunnerRight(r)'
  BY <1>2, <1>4, <1>6, RunnerStays DEF KindsStay
<1>11. RunnerRight(q)'
  <2>1. RunnerFits(q)' /\ ForItem(q, q.item)' /\ OnNote(q)'
    BY <1>9, <1>10 DEF RunnerRight, RunnerFits, ForItem, OnNote
  <2>2. OnItem(q)'
    BY <1>3, <1>4, <1>9 DEF OnItem, Imports
  <2>. QED  BY <2>1, <2>2 DEF RunnerRight
<1>. QED  BY <1>4, <1>6, <1>7, <1>8, <1>11, MoveKeepsInv

\* The copy gets its row; without a note the item is done.
LEMMA RegisterKeepsInv ==
  ASSUME EffectsInv, NEW e \in Runners, Register(e)
  PROVE  EffectsInv'
<1>1. PICK r : r = runner[e]
  OBVIOUS
<1>2. /\ RunnerRight(r) /\ DOMAIN r = RunnerFields /\ r.at = "register"
      /\ NotesNamed /\ SourcesKnown
  BY <1>1, RunnerOfInv DEF Register, At
<1>3. /\ Imports(r.kind) /\ r.s \in mirror /\ r.s.in = "uploads" /\ r.s.id = Base[ItemOf(r)]
      /\ ItemOf(r) \in raced \/ <<r.s, ItemOf(r)>> \in bytes
  BY <1>2 DEF RunnerRight, OnItem
<1>4. Keeps /\ NotesNamed' /\ KindsStay /\ UNCHANGED <<task, mirror, bytes, raced>>
  BY <1>2, SameKeeps DEF Register, vault, NotesNamed, KindsStay
<1>5. SourcesKnown'
  <2>1. \A x \in index' : x \in index \/ x[1] = r.s
    BY <1>1 DEF Register, Registered
  <2>. QED  BY <1>2, <1>3, <2>1 DEF Register, SourcesKnown, OfDocs
<1>6. RunnerRight(r)'
  BY <1>2, <1>4, RunnerStays
<1>7. CASE r.kind.note = "none"
  <2>1. r.task # NoTask => DeliveredItem(r.task, ItemOf(r))'
    BY <1>3, <1>4, <1>6, <1>7 DEF RunnerRight, ForItem, DeliveredItem, Imports
  <2>. QED  BY <1>1, <1>4, <1>5, <1>7, <2>1, DoneKeepsInv DEF Register
<1>8. CASE r.kind.note # "none"
  <2>1. PICK q : q = [r EXCEPT !.at = "look"]
    OBVIOUS
  <2>2. /\ DOMAIN q = RunnerFields /\ q.at = "look" /\ q.s = r.s
        /\ q.task = r.task /\ q.kind = r.kind /\ q.matched = r.matched /\ q.item = r.item
        /\ q.cursor = r.cursor
    BY <1>2, <2>1 DEF RunnerFields
  <2>3. RunnerFits(q)' /\ ForItem(q, q.item)' /\ OnNote(q)'
    BY <1>6, <2>2 DEF RunnerRight, RunnerFits, ForItem, OnNote
  <2>4. OnItem(q)'
    BY <1>2, <1>3, <1>4, <2>2 DEF RunnerRight, OnItem, ItemOf, Imports
  <2>5. RunnerRight(q)'
    BY <2>3, <2>4 DEF RunnerRight
  <2>6. runner' = [runner EXCEPT ![e] = q]
    BY <1>1, <1>8, <2>1 DEF Register, Goes
  <2>. QED  BY <1>4, <1>5, <2>5, <2>6, MoveKeepsInv
<1>. QED  BY <1>7, <1>8

\* A runner that only goes on with its item, with new notes in the vault or not.
LEMMA GoesOn ==
  ASSUME NEW r, RunnerRight(r)', NEW q, DOMAIN q = RunnerFields,
         r.at \in {"look", "write", "answer", "new"},
         q.at \in {"look", "write", "answer", "commit"},
         r.at = "new" => q.at = "commit",
         q.at \notin {"commit"} => r.kind.does # "external",
         q.s = r.s, q.task = r.task, q.matched = r.matched, q.item = r.item, q.cursor = r.cursor,
         q.kind \in Kind \cup {NoKind}, q.kind.does = r.kind.does,
         q.kind.note = "none" => r.kind.note = "none", r.kind.does = "external" => q.kind.note = "create",
         OnNote(q)
  PROVE  RunnerRight(q)'
<1>1. RunnerFits(q)'
  BY DEF RunnerRight, RunnerFits
<1>2. ForItem(q, q.item)'
  BY DEF RunnerRight, ForItem, Chunked
<1>3. OnItem(q)'
  BY DEF RunnerRight, OnItem, ItemOf, Imports
<1>4. OnNote(q)'
  BY DEF OnNote
<1>. QED  BY <1>1, <1>2, <1>3, <1>4 DEF RunnerRight

\* The invariant with new notes, rows and answers in the vault.
LEMMA VaultKeepsInv ==
  ASSUME EffectsInv, NEW e \in Runners, NEW q, NEW r, r = runner[e],
         UNCHANGED <<task, disk, excused>>,
         \A m \in notes' \cup noteRow' \cup state' : Named(m),
         \A m \in notes : \E k \in notes' : k.name = m.name,
         runner' = [runner EXCEPT ![e] = q], RunnerRight(r)' => RunnerRight(q)'
  PROVE  EffectsInv'
<1>1. Keeps /\ NotesNamed' /\ SourcesKnown' /\ KindsStay
  BY RunnerOfInv DEF Keeps, disk, NotesNamed, SourcesKnown, KindsStay
<1>2. RunnerRight(r)'
  BY <1>1, RunnerOfInv, RunnerStays
<1>. QED  BY <1>1, <1>2, MoveKeepsInv

\* An existing note is the note of the document.
LEMMA ExistingKeepsInv ==
  ASSUME EffectsInv, NEW e \in Runners, Existing(e)
  PROVE  EffectsInv'
<1>1. PICK r : r = runner[e]
  OBVIOUS
<1>2. RunnerRight(r) /\ r.at = "look" /\ NotesNamed /\ SourcesKnown
  BY <1>1, RunnerOfInv DEF Existing, At
<1>3. PICK p \in Recorded(r.s) : There(p) /\ noteRow' = Linked(p)
  BY <1>1 DEF Existing
<1>4. Keeps /\ SourcesKnown' /\ KindsStay
  BY <1>2, SameKeeps DEF Existing, disk, SourcesKnown, KindsStay
<1>5. NotesNamed'
  BY <1>2, <1>3, LinkedNamed DEF Existing, NotesNamed
<1>6. p.name = Title(r.s)
  BY <1>2, <1>3 DEF Recorded, NotesNamed, Named
<1>7. Noted(r.s)'
  BY <1>2, <1>3, <1>4, <1>6, ThereIsNoted, NotedStays
<1>8. RunnerRight(r)'
  BY <1>2, <1>4, RunnerStays
<1>9. r.task # NoTask => DeliveredItem(r.task, ItemOf(r))'
  BY <1>2, <1>7, <1>8, ItemDelivered
<1>. QED  BY <1>1, <1>4, <1>5, <1>9, DoneKeepsInv DEF Existing

\* A writer looks for the notes that match.
LEMMA LookCreateKeepsInv ==
  ASSUME EffectsInv, NEW e \in Runners, LookCreate(e)
  PROVE  EffectsInv'
<1>1. PICK r, saw : r = runner[e] /\ saw = Matches(r.s, "create")
  OBVIOUS
<1>2. /\ RunnerRight(r) /\ DOMAIN r = RunnerFields /\ r.at = "look" /\ NotesNamed
      /\ r.kind \in Kind \cup {NoKind}
  BY <1>1, RunnerOfInv DEF LookCreate, At
<1>3. PICK q : q = [r EXCEPT !.at = "write", !.saw = saw]
  OBVIOUS
<1>4. /\ DOMAIN q = RunnerFields /\ q.at = "write" /\ q.s = r.s /\ q.saw = saw
      /\ q.task = r.task /\ q.kind = r.kind /\ q.matched = r.matched /\ q.item = r.item
      /\ q.cursor = r.cursor
  BY <1>2, <1>3 DEF RunnerFields
<1>5. OnNote(q)
  BY <1>1, <1>2, <1>4, MatchesNamed DEF OnNote
<1>6. r.kind.does # "external"
  BY <1>2 DEF RunnerRight, OnItem
<1>7. RunnerRight(r)' => RunnerRight(q)'
  BY <1>2, <1>4, <1>5, <1>6, GoesOn
<1>8. runner' = [runner EXCEPT ![e] = q]
  BY <1>1, <1>3 DEF LookCreate, Goes
<1>. QED  BY <1>1, <1>2, <1>7, <1>8, VaultKeepsInv DEF LookCreate, vault, NotesNamed

\* A writer replaces the notes it saw by its own.
LEMMA WriteNoteKeepsInv ==
  ASSUME EffectsInv, NEW e \in Runners, WriteNote(e)
  PROVE  EffectsInv'
<1>1. PICK r : r = runner[e]
  OBVIOUS
<1>2. PICK b : /\ notes' = Written(Target(r.s, "create", b), r.saw)
               /\ runner' = [runner EXCEPT ![e] =
                    [r EXCEPT !.at = "commit", !.place = Target(r.s, "create", b)]]
  BY <1>1 DEF WriteNote, Goes
<1>3. PICK m : m = Target(r.s, "create", b)
  OBVIOUS
<1>4. /\ RunnerRight(r) /\ DOMAIN r = RunnerFields /\ r.at = "write" /\ NotesNamed
      /\ r.kind \in Kind \cup {NoKind}
  BY <1>1, RunnerOfInv DEF WriteNote, At
<1>5. Named(m) /\ m.name = Title(r.s) /\ m.of = r.s
  BY <1>3, TargetNamed
<1>6. \A x \in r.saw : x.name = m.name
  BY <1>4, <1>5 DEF RunnerRight, OnNote
<1>7. /\ \A k \in notes : \E j \in notes' : j.name = k.name
      /\ \A j \in notes' : Named(j)
  BY <1>2, <1>3, <1>4, <1>5, <1>6, WrittenKeepsNames
<1>8. PICK q : q = [r EXCEPT !.at = "commit", !.place = m]
  OBVIOUS
<1>9. /\ DOMAIN q = RunnerFields /\ q.at = "commit" /\ q.s = r.s /\ q.place = m
      /\ q.task = r.task /\ q.kind = r.kind /\ q.matched = r.matched /\ q.item = r.item
      /\ q.cursor = r.cursor
  BY <1>4, <1>8 DEF RunnerFields
<1>10. r.kind.does # "external"
  BY <1>4 DEF RunnerRight, OnItem
<1>11. RunnerRight(r)' => RunnerRight(q)'
  BY <1>4, <1>5, <1>9, <1>10, GoesOn DEF OnNote
<1>12. runner' = [runner EXCEPT ![e] = q]
  BY <1>2, <1>3, <1>8
<1>. QED  BY <1>1, <1>4, <1>7, <1>11, <1>12, VaultKeepsInv DEF WriteNote, NotesNamed

\* A note from external data is added.
LEMMA WriteExternalKeepsInv ==
  ASSUME EffectsInv, NEW e \in Runners, WriteExternal(e)
  PROVE  EffectsInv'
<1>1. PICK r, m : r = runner[e] /\ m = Target(r.s, "external", NoSource)
  OBVIOUS
<1>2. /\ notes' = notes \cup {m}
      /\ runner' = [runner EXCEPT ![e] = [r EXCEPT !.at = "commit", !.place = m]]
  BY <1>1 DEF WriteExternal, Goes
<1>3. /\ RunnerRight(r) /\ DOMAIN r = RunnerFields /\ r.at = "new" /\ NotesNamed
      /\ r.kind \in Kind \cup {NoKind}
  BY <1>1, RunnerOfInv DEF WriteExternal, At
<1>4. Named(m) /\ m.name = Title(r.s) /\ m.of = r.s
  BY <1>1, TargetNamed
<1>5. PICK q : q = [r EXCEPT !.at = "commit", !.place = m]
  OBVIOUS
<1>6. /\ DOMAIN q = RunnerFields /\ q.at = "commit" /\ q.s = r.s /\ q.place = m
      /\ q.task = r.task /\ q.kind = r.kind /\ q.matched = r.matched /\ q.item = r.item
      /\ q.cursor = r.cursor
  BY <1>3, <1>5 DEF RunnerFields
<1>7. r.kind.does = "external" => r.kind.note = "create"
  BY <1>3 DEF RunnerRight, OnItem
<1>8. RunnerRight(r)' => RunnerRight(q)'
  BY <1>3, <1>4, <1>6, <1>7, GoesOn DEF OnNote
<1>9. runner' = [runner EXCEPT ![e] = q]
  BY <1>2, <1>5
<1>10. UNCHANGED <<task, disk, noteRow, state, excused>>
  BY DEF WriteExternal
<1>11. /\ \A k \in notes : \E j \in notes' : j.name = k.name
       /\ \A k \in notes' \cup noteRow' \cup state' : Named(k)
  BY <1>2, <1>3, <1>4, <1>10 DEF NotesNamed
<1>. QED  BY <1>1, <1>8, <1>9, <1>10, <1>11, VaultKeepsInv

\* The note that is there when its row is stored is the note of the document.
LEMMA CommitNoteKeepsInv ==
  ASSUME EffectsInv, NEW e \in Runners, CommitNote(e)
  PROVE  EffectsInv'
<1>1. PICK r : r = runner[e]
  OBVIOUS
<1>2. /\ RunnerRight(r) /\ r.at = "commit" /\ NotesNamed /\ SourcesKnown
      /\ There(r.place) /\ noteRow' = Linked(r.place)
  BY <1>1, RunnerOfInv DEF CommitNote, At
<1>3. Keeps /\ SourcesKnown' /\ KindsStay
  BY <1>2, SameKeeps DEF CommitNote, disk, SourcesKnown, KindsStay
<1>4. NotesNamed'
  BY <1>2, LinkedNamed DEF CommitNote, NotesNamed
<1>5. r.place.name = Title(r.s)
  BY <1>2 DEF RunnerRight, OnNote
<1>6. Noted(r.s)'
  BY <1>2, <1>3, <1>5, ThereIsNoted, NotedStays
<1>7. RunnerRight(r)'
  BY <1>2, <1>3, RunnerStays
<1>8. r.task # NoTask => DeliveredItem(r.task, ItemOf(r))'
  BY <1>2, <1>6, <1>7, ItemDelivered
<1>. QED  BY <1>1, <1>3, <1>4, <1>8, DoneKeepsInv DEF CommitNote

\* A document that is gone is left to the fallback.
LEMMA FallsBackKeepsInv ==
  ASSUME EffectsInv, NEW e \in Runners, FallsBack(e)
  PROVE  EffectsInv'
<1>1. PICK r : r = runner[e]
  OBVIOUS
<1>2. /\ RunnerRight(r) /\ DOMAIN r = RunnerFields /\ r.at = "look" /\ NotesNamed
      /\ r.kind \in Kind \cup {NoKind} /\ r.kind.does = "file"
  BY <1>1, RunnerOfInv DEF FallsBack, At
<1>3. PICK kind : kind = [r.kind EXCEPT !.note = "fallback"]
  OBVIOUS
<1>4. kind \in Kind /\ kind.does = "file" /\ kind.note = "fallback"
  BY <1>2, <1>3 DEF Kind, NoKind
<1>5. PICK q : q = [r EXCEPT !.kind = kind]
  OBVIOUS
<1>6. /\ DOMAIN q = RunnerFields /\ q.at = "look" /\ q.s = r.s /\ q.kind = kind
      /\ q.task = r.task /\ q.matched = r.matched /\ q.item = r.item /\ q.cursor = r.cursor
  BY <1>2, <1>5 DEF RunnerFields
<1>7. RunnerRight(r)' => RunnerRight(q)'
  BY <1>2, <1>4, <1>6, GoesOn DEF OnNote
<1>8. runner' = [runner EXCEPT ![e] = q]
  BY <1>1, <1>3, <1>5 DEF FallsBack, Goes
<1>. QED  BY <1>1, <1>2, <1>7, <1>8, VaultKeepsInv DEF FallsBack, vault, NotesNamed

\* The classifier writes a note and answers with its place.
LEMMA AskKeepsInv ==
  ASSUME EffectsInv, NEW e \in Runners, Ask(e)
  PROVE  EffectsInv'
<1>1. PICK r, saw : r = runner[e] /\ saw = Matches(r.s, "fallback")
  OBVIOUS
<1>2. PICK b : /\ notes' = Written(Target(r.s, "fallback", b), saw)
               /\ runner' = [runner EXCEPT ![e] =
                    [r EXCEPT !.at = "answer", !.place = Target(r.s, "fallback", b)]]
  BY <1>1 DEF Ask, Goes
<1>3. PICK m : m = Target(r.s, "fallback", b)
  OBVIOUS
<1>4. /\ RunnerRight(r) /\ DOMAIN r = RunnerFields /\ r.at = "look" /\ NotesNamed
      /\ r.kind \in Kind \cup {NoKind}
  BY <1>1, RunnerOfInv DEF Ask, At
<1>5. Named(m) /\ m.name = Title(r.s) /\ m.of = r.s
  BY <1>3, TargetNamed
<1>6. \A x \in saw : x.name = m.name
  BY <1>1, <1>4, <1>5, MatchesNamed
<1>7. /\ \A k \in notes : \E j \in notes' : j.name = k.name
      /\ \A j \in notes' : Named(j)
  BY <1>2, <1>3, <1>4, <1>5, <1>6, WrittenKeepsNames
<1>8. PICK q : q = [r EXCEPT !.at = "answer", !.place = m]
  OBVIOUS
<1>9. /\ DOMAIN q = RunnerFields /\ q.at = "answer" /\ q.s = r.s /\ q.place = m
      /\ q.task = r.task /\ q.kind = r.kind /\ q.matched = r.matched /\ q.item = r.item
      /\ q.cursor = r.cursor
  BY <1>4, <1>8 DEF RunnerFields
<1>10. r.kind.does # "external"
  BY <1>4 DEF RunnerRight, OnItem
<1>11. RunnerRight(r)' => RunnerRight(q)'
  BY <1>4, <1>5, <1>9, <1>10, GoesOn DEF OnNote
<1>12. runner' = [runner EXCEPT ![e] = q]
  BY <1>2, <1>3, <1>8
<1>. QED  BY <1>1, <1>4, <1>7, <1>11, <1>12, VaultKeepsInv DEF Ask, NotesNamed

\* Its answer is stored.
LEMMA StoreAnswerKeepsInv ==
  ASSUME EffectsInv, NEW e \in Runners, StoreAnswer(e)
  PROVE  EffectsInv'
<1>1. PICK r : r = runner[e]
  OBVIOUS
<1>2. /\ RunnerRight(r) /\ DOMAIN r = RunnerFields /\ r.at = "answer" /\ NotesNamed
      /\ r.kind \in Kind \cup {NoKind}
  BY <1>1, RunnerOfInv DEF StoreAnswer, At
<1>3. r.place.name = Title(r.s) /\ r.place.of = r.s /\ Named(r.place)
  BY <1>2 DEF RunnerRight, OnNote, Named
<1>4. PICK q : q = [r EXCEPT !.at = "commit"]
  OBVIOUS
<1>5. /\ DOMAIN q = RunnerFields /\ q.at = "commit" /\ q.s = r.s /\ q.place = r.place
      /\ q.task = r.task /\ q.kind = r.kind /\ q.matched = r.matched /\ q.item = r.item
      /\ q.cursor = r.cursor
  BY <1>2, <1>4 DEF RunnerFields
<1>6. r.kind.does # "external"
  BY <1>2 DEF RunnerRight, OnItem
<1>7. RunnerRight(r)' => RunnerRight(q)'
  BY <1>2, <1>3, <1>5, <1>6, GoesOn DEF OnNote
<1>8. runner' = [runner EXCEPT ![e] = q]
  BY <1>1, <1>4 DEF StoreAnswer, Goes
<1>9. state' \subseteq state \cup {r.place}
  BY <1>1 DEF StoreAnswer
<1>. QED  BY <1>1, <1>2, <1>3, <1>7, <1>8, <1>9, VaultKeepsInv DEF StoreAnswer, NotesNamed

\* An item that cannot be noted is reported.
LEMMA ItemFailsKeepsInv ==
  ASSUME EffectsInv, NEW e \in Runners, Refused(e) \/ ItemFails(e)
  PROVE  EffectsInv'
<1>1. RunnerRight(runner[e])
  BY RunnerOfInv
<1>2. UNCHANGED <<task, disk, vault>> /\ Excuse(e)
  BY DEF Refused, ItemFails
<1>3. runner[e].at \in {"look", "write", "commit"}
  BY DEF Refused, ItemFails, At, LostMatch, LostNote
<1>4. runner[e].kind.does # "external"
  <2>1. CASE runner[e].at \in {"look", "write"}
    BY <1>1, <2>1 DEF RunnerRight, OnItem
  <2>2. CASE runner[e].at = "commit"
    <3>1. Searching(e) \/ Fallback(e)
      BY <2>2 DEF Refused, ItemFails, At, LostMatch, LostNote
    <3>. QED  BY <1>1, <3>1 DEF RunnerRight, OnItem, Searching, Fallback
  <2>. QED  BY <1>3, <2>1, <2>2
<1>. QED  BY <1>2, <1>3, <1>4, ExcuseKeepsInv

\* The rows of the notes are brought up to date.
LEMMA ReindexKeepsInv ==
  ASSUME EffectsInv, Reindex
  PROVE  EffectsInv'
<1>1. NotesNamed /\ SourcesKnown
  BY DEF EffectsInv
<1>2. Keeps /\ SourcesKnown'
  BY <1>1, SameKeeps DEF Reindex, disk, SourcesKnown
<1>3. NotesNamed'
  BY <1>1 DEF Reindex, NotesNamed
<1>. QED  BY <1>2, <1>3, StillKeepsInv DEF Reindex

\* What a step does to the rows of the mirror's files stays among known sources.
LEMMA ScanKeepsInv ==
  ASSUME EffectsInv, Scan
  PROVE  EffectsInv'
<1>1. NotesNamed /\ SourcesKnown
  BY DEF EffectsInv
<1>2. Keeps /\ NotesNamed' /\ UNCHANGED <<task, runner>>
  BY <1>1, SameKeeps DEF Scan, ScanLists, ScanStores, ScanEnds, vault, NotesNamed
<1>3. SourcesKnown'
  <2>1. CASE ScanLists
    BY <1>1, <2>1 DEF ScanLists, SourcesKnown
  <2>2. CASE ScanStores
    <3>1. \A x \in index' : (\E y \in index : x[1] = y[1]) \/ x[1] \in mirror
      BY <2>2 DEF ScanStores, Older
    <3>2. scan'.listed \subseteq scan.listed
      BY <2>2 DEF ScanStores
    <3>. QED  BY <1>1, <2>2, <3>1, <3>2 DEF ScanStores, SourcesKnown, OfDocs
  <2>3. CASE ScanEnds
    BY <1>1, <2>3 DEF ScanEnds, SourcesKnown, Idle
  <2>. QED  BY <2>1, <2>2, <2>3 DEF Scan
<1>. QED  BY <1>2, <1>3, StillKeepsInv

\* Cloud sync takes documents of icloud, not copies.
LEMMA VanishKeepsInv ==
  ASSUME EffectsInv, NEW d \in Docs, Vanish(d)
  PROVE  EffectsInv'
<1>1. NotesNamed /\ SourcesKnown
  BY DEF EffectsInv
<1>2. /\ mirror' = mirror \ {Document(d)}
      /\ UNCHANGED <<task, runner, folder, bytes, raced, index, scan, notes, noteRow, state, excused>>
  BY DEF Vanish, vault
<1>3. Keeps
  BY <1>2 DEF Keeps, Document
<1>4. NotesNamed' /\ SourcesKnown'
  BY <1>1, <1>2 DEF NotesNamed, SourcesKnown
<1>. QED  BY <1>2, <1>3, <1>4, StillKeepsInv

\* The first of one number is that number.
LEMMA NthOnly ==
  ASSUME NEW x \in Nat
  PROVE  Nth({x}, 1) = x
<1>1. {y \in {x} : y < x} = {}
  OBVIOUS
<1>2. Cardinality({y \in {x} : y < x}) = 1 - 1
  BY <1>1, FS_EmptySet
<1>. QED  BY <1>2 DEF Nth

\* A runner at rest is right.
LEMMA RestRight ==
  /\ RunnerRight(Rest)
  /\ RunnerRight(Rest)'
<1>1. RunnerFits(Rest)
  BY FS_EmptySet DEF Rest, RunnerFits, RunnerFields
<1>2. ForItem(Rest, Rest.item) /\ ForItem(Rest, Rest.item)'
  BY DEF Rest, ForItem
<1>3. OnItem(Rest) /\ OnItem(Rest)' /\ OnNote(Rest) /\ OnNote(Rest)'
  BY DEF Rest, NoKind, OnItem, OnNote, Imports
<1>. QED  BY <1>1, <1>2, <1>3 DEF RunnerRight, RunnerFits

\* A runner that stops, and a row whose status alone changes to one not completed.
LEMMA StopKeepsInv ==
  ASSUME EffectsInv, UNCHANGED <<disk, vault, excused>>, NEW e \in Runners,
         runner' = [runner EXCEPT ![e] = Rest],
         \/ UNCHANGED task
         \/ runner[e].task # NoTask /\ task' = [task EXCEPT ![runner[e].task].status = "failed"]
  PROVE  EffectsInv'
<1>1. PICK r, t : r = runner[e] /\ t = r.task
  OBVIOUS
<1>2. Keeps /\ NotesNamed' /\ SourcesKnown'
  BY RunnerOfInv, SameKeeps DEF disk, vault, NotesNamed, SourcesKnown
<1>3. CASE UNCHANGED task
  BY <1>2, <1>3, RestRight, MoveKeepsInv
<1>4. CASE t # NoTask /\ task' = [task EXCEPT ![t].status = "failed"]
  <2>1. t \in Tasks /\ task[t].status # "none" /\ RowFits(task[t]) /\ RowDelivered(t)
    BY <1>1, <1>4 DEF EffectsInv, RunnerRight, RunnerFits, ForItem
  <2>2. PICK row : row = [task[t] EXCEPT !.status = "failed"]
    OBVIOUS
  <2>3. /\ DOMAIN row = RowFields /\ row.status = "failed" /\ row.kind = task[t].kind
        /\ row.input = task[t].input /\ row.progress = task[t].progress
    BY <2>1, <2>2 DEF RowFits, RowFields
  <2>4. task' = [task EXCEPT ![t] = row] /\ task'[t] = row
    BY <1>4, <2>1, <2>2 DEF EffectsInv
  <2>5. RowFits(row)
    BY <2>1, <2>3 DEF RowFits
  <2>6. KindsStay
    BY <2>1, <2>3, <2>4 DEF KindsStay, EffectsInv
  <2>7. RowDelivered(t)'
    <3>1. Processed(t)' \subseteq Processed(t)
      BY <2>3, <2>4 DEF Processed
    <3>2. \A x \in Processed(t) : DeliveredItem(t, x)'
      BY <1>2, <2>1, <2>6, ItemStays DEF RowDelivered, EffectsInv
    <3>. QED  BY <3>1, <3>2 DEF RowDelivered
  <2>. QED  BY <1>2, <2>1, <2>4, <2>5, <2>6, <2>7, RestRight, WriteKeepsInv
<1>. QED  BY <1>1, <1>3, <1>4

\* The progress that is stored counts the items before the one the runner is at.
LEMMA EndChunkKeepsInv ==
  ASSUME EffectsInv, NEW e \in Runners, EndChunk(e)
  PROVE  EffectsInv'
<1>1. PICK r, t : r = runner[e] /\ t = r.task
  OBVIOUS
<1>2. RunnerRight(r) /\ r.at = "end" /\ runner' = [runner EXCEPT ![e] = Rest]
  BY <1>1, RunnerOfInv DEF EndChunk, At, Goes
<1>3. Keeps /\ NotesNamed' /\ SourcesKnown'
  BY RunnerOfInv, SameKeeps DEF EndChunk, disk, vault, NotesNamed, SourcesKnown
<1>4. CASE t = NoTask
  BY <1>1, <1>2, <1>3, <1>4, RestRight, MoveKeepsInv DEF EndChunk
<1>5. CASE t # NoTask
  <2>1. PICK row : row = Stored(task[t], r)
    OBVIOUS
  <2>2. /\ t \in Tasks /\ task[t].status # "none" /\ RowFits(task[t]) /\ RowDelivered(t)
        /\ r.kind.does = task[t].kind.does /\ (Chunked(r.kind) <=> Chunked(task[t].kind))
        /\ RunnerFits(r)
    BY <1>1, <1>2, <1>5 DEF EffectsInv, RunnerRight, RunnerFits, ForItem, Chunked
  <2>3. /\ Goal(r) \in Nat /\ r.item > Goal(r) /\ r.item \in Nat
        /\ Cardinality(r.matched) \in Nat
    BY <1>2, <2>2, GoalType DEF RunnerRight, RunnerFits, OnItem
  <2>4. /\ DOMAIN row = RowFields /\ row.kind = task[t].kind /\ row.input = task[t].input
        /\ row.progress = (IF Chunked(r.kind) THEN Progress(r) ELSE task[t].progress)
        /\ row.status = (IF Goal(r) >= Cardinality(r.matched) THEN "completed" ELSE task[t].status)
    BY <2>1, <2>2 DEF RowFits, RowFields, Progress, Stored
  <2>5. task' = [task EXCEPT ![t] = row] /\ task'[t] = row
    <3>1. task' = [task EXCEPT ![t] = Stored(task[t], r)]
      BY <1>1, <1>5 DEF EndChunk
    <3>2. task' = [task EXCEPT ![t] = row]
      BY <2>1, <3>1
    <3>. QED  BY <2>2, <3>2 DEF EffectsInv
  <2>6. RowFits(row)
    <3>1. Progress(r).cursor \in Nat /\ IsFiniteSet(Progress(r).matched)
      BY <2>2, <2>3 DEF Progress, RunnerFits
    <3>2. row.status # "none" /\ row.kind \in Kinds
      BY <2>2, <2>4 DEF RowFits
    <3>3. CASE Chunked(r.kind)
      <4>1. row.progress = Progress(r) /\ (Chunked(row.kind) <=> Chunked(r.kind))
        BY <2>2, <2>4, <3>3
      <4>. QED  BY <2>4, <3>1, <3>2, <3>3, <4>1 DEF RowFits
    <3>4. CASE ~ Chunked(r.kind)
      <4>1. row.progress = task[t].progress
        BY <2>4, <3>4
      <4>. QED  BY <2>2, <2>4, <3>2, <3>4, <4>1 DEF RowFits
    <3>. QED  BY <3>3, <3>4
  <2>7. KindsStay
    BY <2>2, <2>4, <2>5 DEF KindsStay, EffectsInv
  <2>8. \A i \in 1..Goal(r) : DeliveredItem(t, Nth(r.matched, i))'
    <3>1. RunnerRight(r)'
      BY <1>2, <1>3, <2>7, RunnerStays DEF EffectsInv
    <3>2. DeliveredBefore(t, r.matched, r.item)'
      BY <1>1, <1>5, <3>1 DEF RunnerRight, ForItem
    <3>3. \A i \in 1..Goal(r) : i \in 1..(r.item - 1)
      BY <2>3
    <3>. QED  BY <3>2, <3>3 DEF DeliveredBefore
  <2>9. RowDelivered(t)'
    <3>1. CASE Chunked(r.kind)
      <4>1. \A x \in Processed(t)' : \E i \in 1..Goal(r) : x = Nth(r.matched, i)
        <5>1. row.progress = Progress(r) /\ Progress(r).cursor = Goal(r)
              /\ Progress(r).matched = r.matched /\ Chunked(row.kind)
          BY <2>2, <2>4, <3>1 DEF Progress, Chunked
        <5>2. Processed(t)' = {Nth(row.progress.matched, i) :
                                 i \in 1..(IF row.progress = NoProgress THEN 0 ELSE row.progress.cursor)}
          BY <2>5, <5>1 DEF Processed
        <5>3. CASE row.progress = NoProgress
          BY <5>2, <5>3
        <5>4. CASE row.progress # NoProgress
          BY <5>1, <5>2, <5>4
        <5>. QED  BY <5>3, <5>4
      <4>. QED  BY <2>8, <4>1 DEF RowDelivered
    <3>2. CASE ~ Chunked(r.kind) /\ task[t].status = "completed"
      <4>1. Processed(t)' \subseteq Processed(t)
        BY <2>2, <2>4, <2>5, <3>2 DEF Processed
      <4>2. \A x \in Processed(t) : DeliveredItem(t, x)'
        BY <1>3, <2>2, <2>7, ItemStays DEF RowDelivered, EffectsInv
      <4>. QED  BY <4>1, <4>2 DEF RowDelivered
    <3>3. CASE ~ Chunked(r.kind) /\ task[t].status # "completed"
      <4>1. CASE Goal(r) >= Cardinality(r.matched)
        <5>1. PICK x \in Nat : r.matched = {x} /\ task[t].input = {x}
          BY <1>1, <1>2, <1>5, <2>2, <3>3, TaskEffectsAssumption DEF RunnerRight, ForItem, RowFits
        <5>2. Cardinality(r.matched) = 1 /\ Nth(r.matched, 1) = x
          BY <5>1, FS_Singleton, NthOnly
        <5>3. DeliveredItem(t, x)'
          BY <2>3, <2>8, <4>1, <5>2
        <5>4. Processed(t)' \subseteq {x}
          BY <2>2, <2>4, <2>5, <3>3, <5>1 DEF Processed
        <5>. QED  BY <5>3, <5>4 DEF RowDelivered
      <4>2. CASE ~ (Goal(r) >= Cardinality(r.matched))
        <5>1. Processed(t)' = {}
          BY <2>2, <2>4, <2>5, <3>3, <4>2 DEF Processed
        <5>. QED  BY <5>1 DEF RowDelivered
      <4>. QED  BY <4>1, <4>2
    <3>. QED  BY <3>1, <3>2, <3>3
  <2>. QED  BY <1>2, <1>3, <2>2, <2>5, <2>6, <2>7, <2>9, RestRight, WriteKeepsInv
<1>. QED  BY <1>4, <1>5

-----------------------------------------------------------------------------
(* The invariant holds *)

\* The initial states satisfy the invariant.
LEMMA InitEffects == Init => EffectsInv
<1>. SUFFICES ASSUME Init PROVE EffectsInv
  OBVIOUS
<1>1. NotesNamed
  BY DEF Init, NotesNamed
<1>2. SourcesKnown
  BY DEF Init, SourcesKnown, OfDocs, Document, Idle
<1>3. DOMAIN task = Tasks /\ DOMAIN runner = Runners
  BY DEF Init
<1>4. ASSUME NEW t \in Tasks
      PROVE  RowFits(task[t]) /\ RowDelivered(t)
  <2>1. task[t] = [status |-> "none", kind |-> NoKind, input |-> {}, progress |-> NoProgress]
    BY DEF Init
  <2>2. ~ Chunked(NoKind)
    BY DEF NoKind, Chunked
  <2>3. Processed(t) = {}
    BY <2>1, <2>2 DEF Processed
  <2>. QED  BY <2>1, <2>2, <2>3 DEF RowFits, RowFields, RowDelivered
<1>5. \A e \in Runners : RunnerRight(runner[e])
  BY RestRight DEF Init
<1>. QED  BY <1>1, <1>2, <1>3, <1>4, <1>5 DEF EffectsInv

\* Each step keeps it.
LEMMA EffectsStep ==
  ASSUME EffectsInv, PlacesInv, [Next]_vars
  PROVE  EffectsInv'
<1>1. ASSUME NEW t \in Tasks, NEW k \in Kinds, Queue(t, k) PROVE EffectsInv'
  BY <1>1, QueueKeepsInv
<1>2. ASSUME NEW e \in Runners, NEW t \in Tasks, Load(e, t) PROVE EffectsInv'
  BY <1>2, LoadKeepsInv
<1>3. ASSUME NEW e \in Runners, NEW k \in Requests, Request(e, k) PROVE EffectsInv'
  BY <1>3, RequestKeepsInv
<1>4. ASSUME NEW e \in Runners, Item(e) PROVE EffectsInv'
  <2>1. CASE Raises(e)
    BY <2>1, StopKeepsInv DEF Raises, Fails, Goes
  <2>. QED  BY <1>4, <2>1, ChooseNameKeepsInv, CopyFileKeepsInv, RegisterKeepsInv, ExistingKeepsInv,
            LookCreateKeepsInv, WriteNoteKeepsInv, WriteExternalKeepsInv, CommitNoteKeepsInv,
            FallsBackKeepsInv, AskKeepsInv, StoreAnswerKeepsInv, ItemFailsKeepsInv,
            EndChunkKeepsInv DEF Item
<1>5. ASSUME NEW e \in Runners, Fault(e) \/ Crash(e) PROVE EffectsInv'
  BY <1>5, StopKeepsInv DEF Fault, Crash, Fails, Goes
<1>6. CASE UNCHANGED vars
  <2>1. Keeps /\ NotesNamed' /\ SourcesKnown'
    BY <1>6, SameKeeps DEF vars, EffectsInv, NotesNamed, SourcesKnown
  <2>. QED  BY <1>6, <2>1, StillKeepsInv DEF vars
<1>. QED  BY <1>1, <1>2, <1>3, <1>4, <1>5, <1>6, ReindexKeepsInv, ScanKeepsInv, VanishKeepsInv
          DEF Next

-----------------------------------------------------------------------------
(* Notes of one document, and places of imports                             *)
(*                                                                          *)
(* A writer removes what it saw, and it sees all it wrote before: of the    *)
(* notes of a document no two are of the same runner.  A runner that has a  *)
(* name for its file waits at it until it writes or stops.                  *)

\* Who wrote a note last.  What a runner about to write has written before of its document
\* it has seen.
WroteOnce(author) ==
  \A m, k \in notes :
    m.of = k.of /\ m.of.in # "external" /\ author[m] = author[k] => m = k

SawOwn(author) ==
  \A e \in Runners : runner[e].at = "write" =>
    \A m \in notes : m.of = runner[e].s /\ author[m] = e =>
      \E x \in runner[e].saw : Place(x) = Place(m)

NotesInv ==
  /\ \E author \in [notes -> Runners] : WroteOnce(author) /\ SawOwn(author)
  /\ \A s \in mirror : s.in # "external"

\* Whoever is about to write was about to, or has seen all notes of its document.
Looked ==
  \A e \in Runners : runner'[e].at = "write" =>
    \/ runner[e].at = "write" /\ runner'[e] = runner[e]
    \/ OwnPath(runner'[e].s) \subseteq runner'[e].saw

\* Whoever has a name for its file had it.
Waits == \A e \in Runners : runner'[e].at = "place" => runner'[e] = runner[e]

\* A turn to the next item is not to a write.
LEMMA TurnsAway ==
  ASSUME NEW r, "at" \in DOMAIN r, NEW i
  PROVE  Turn(r, i).at \notin {"write", "place"}
<1>. DEFINE begun == [r EXCEPT !.item = i, !.s = NoSource, !.saw = {}, !.place = NoSource]
            x     == Nth(r.matched, i)
<1>1. "at" \in DOMAIN begun
  OBVIOUS
<1>2. Turn(r, i) \in {[begun EXCEPT !.at = "end"], [begun EXCEPT !.at = "copy"],
                      [begun EXCEPT !.at = "new", !.s = External(x)],
                      [begun EXCEPT !.at = "look", !.s = Document(x)]}
  BY DEF Turn
<1>. HIDE DEF begun
<1>. QED  BY <1>1, <1>2

\* A runner has a place in its work.
LEMMA RunnerAt ==
  ASSUME EffectsInv, NEW e \in Runners
  PROVE  "at" \in DOMAIN runner[e]
BY DEF EffectsInv, RunnerRight, RunnerFits, RunnerFields

\* A runner that goes anywhere but to a write leaves the others where they are.
LEMMA GoesElsewhere ==
  ASSUME EffectsInv, NEW e \in Runners, NEW q, Goes(e, q), q.at \notin {"write", "place"}
  PROVE  Looked /\ Waits
<1>1. runner'[e] = q /\ \A f \in Runners : f # e => runner'[f] = runner[f]
  BY DEF EffectsInv, Goes
<1>. QED  BY <1>1 DEF Looked, Waits

\* So does one that is done with its item, reports it or fails.
LEMMA DoneElsewhere ==
  ASSUME EffectsInv, NEW e \in Runners, DoneItem(e) \/ Goes(e, Rest)
  PROVE  Looked /\ Waits
<1>1. "at" \in DOMAIN runner[e]
  BY RunnerAt
<1>2. CASE DoneItem(e)
  BY <1>1, <1>2, TurnsAway, GoesElsewhere DEF DoneItem
<1>3. CASE Goes(e, Rest)
  <2>1. Rest.at \notin {"write", "place"}
    BY DEF Rest
  <2>. QED  BY <1>3, <2>1, GoesElsewhere
<1>. QED  BY <1>2, <1>3

\* A step that writes no note.
LEMMA SameNotes ==
  ASSUME NotesInv, Looked, UNCHANGED notes, \A s \in mirror' : s.in # "external"
  PROVE  NotesInv'
<1>1. PICK author \in [notes -> Runners] : WroteOnce(author) /\ SawOwn(author)
  BY DEF NotesInv
<1>2. WroteOnce(author)'
  BY <1>1 DEF WroteOnce
<1>3. SawOwn(author)'
  <2>. SUFFICES ASSUME NEW e \in Runners, runner'[e].at = "write",
                       NEW m \in notes, m.of = runner'[e].s, author[m] = e
                PROVE  \E x \in runner'[e].saw : Place(x) = Place(m)
    BY DEF SawOwn, Place
  <2>1. CASE runner[e].at = "write" /\ runner'[e] = runner[e]
    BY <1>1, <2>1 DEF SawOwn
  <2>2. CASE OwnPath(runner'[e].s) \subseteq runner'[e].saw
    BY <2>2 DEF OwnPath
  <2>. QED  BY <2>1, <2>2 DEF Looked
<1>4. author \in [notes' -> Runners]
  OBVIOUS
<1>. QED  BY <1>2, <1>3, <1>4 DEF NotesInv

\* A step in which no file gets a name or a place.
LEMMA SamePlaces ==
  ASSUME PlacesInv, Waits, UNCHANGED <<bytes, raced>>,
         \A s \in mirror : s.in = "uploads" => s \in mirror'
  PROVE  PlacesInv'
<1>1. \A b \in bytes' : b = <<b[1], b[2]>> /\ b[1] \in mirror' /\ b[1].in = "uploads"
  BY DEF PlacesInv
<1>2. ASSUME NEW e \in Runners, runner'[e].at = "place", NEW b \in bytes', b[1] = runner'[e].s
      PROVE  b[2] = ItemOf(runner'[e]) \/ b[2] \in raced'
  BY <1>2 DEF PlacesInv, Waits
<1>3. ASSUME NEW e \in Runners, NEW o \in Runners,
             runner'[e].at = "place", runner'[o].at = "place", runner'[e].s = runner'[o].s,
             ItemOf(runner'[e]) # ItemOf(runner'[o])
      PROVE  ItemOf(runner'[e]) \in raced'
  <2>1. runner'[e] = runner[e] /\ runner'[o] = runner[o]
    BY <1>3 DEF Waits
  <2>. QED  BY <1>3, <2>1 DEF PlacesInv
<1>. QED  BY <1>1, <1>2, <1>3 DEF PlacesInv, ItemOf

\* A name that is chosen is free, and in a race for it both files are noticed.
LEMMA ChooseNamePlaces ==
  ASSUME EffectsInv, PlacesInv, NEW e \in Runners, ChooseName(e)
  PROVE  PlacesInv'
<1>0. PICK s \in FreeName(e) :
        /\ raced' = raced \cup UNION {{ItemOf(runner[e]), ItemOf(runner[o])} : o \in Rivals(e, s)}
        /\ Goes(e, [runner[e] EXCEPT !.at = "place", !.s = s])
  BY DEF ChooseName
<1>1. PICK r, q : r = runner[e] /\ q = [r EXCEPT !.at = "place", !.s = s]
  OBVIOUS
<1>2. /\ q.at = "place" /\ q.s = s /\ ItemOf(q) = ItemOf(r)
      /\ runner'[e] = q /\ \A o \in Runners : o # e => runner'[o] = runner[o]
      /\ UNCHANGED <<mirror, bytes>> /\ raced \subseteq raced'
      /\ \A o \in Rivals(e, s) : ItemOf(r) \in raced' /\ ItemOf(runner[o]) \in raced'
  <2>1. DOMAIN r = RunnerFields /\ DOMAIN runner = Runners
    BY <1>1, RunnerOfInv DEF EffectsInv
  <2>2. runner' = [runner EXCEPT ![e] = q] /\ UNCHANGED <<mirror, bytes>>
    BY <1>0, <1>1 DEF ChooseName, Goes
  <2>3. raced' = raced \cup UNION {{ItemOf(r), ItemOf(runner[o])} : o \in Rivals(e, s)}
    BY <1>0, <1>1
  <2>4. q.at = "place" /\ q.s = s /\ ItemOf(q) = ItemOf(r)
    BY <1>1, <2>1 DEF RunnerFields, ItemOf
  <2>. QED  BY <2>1, <2>2, <2>3, <2>4
<1>3. s \notin mirror
  BY DEF FreeName
<1>4. ASSUME NEW o \in Runners, o # e, runner[o].at = "place", runner[o].s = s,
             ItemOf(runner[o]) # ItemOf(r)
      PROVE  o \in Rivals(e, s)
  BY <1>1, <1>4 DEF Rivals, At
<1>5. \A b \in bytes' : b = <<b[1], b[2]>> /\ b[1] \in mirror' /\ b[1].in = "uploads"
  BY <1>2 DEF PlacesInv
<1>6. ASSUME NEW o \in Runners, runner'[o].at = "place", NEW b \in bytes', b[1] = runner'[o].s
      PROVE  b[2] = ItemOf(runner'[o]) \/ b[2] \in raced'
  <2>1. CASE o = e
    BY <1>2, <1>3, <1>6, <2>1 DEF PlacesInv
  <2>2. CASE o # e
    BY <1>2, <1>6, <2>2 DEF PlacesInv
  <2>. QED  BY <2>1, <2>2
<1>7. ASSUME NEW o \in Runners, NEW u \in Runners,
             runner'[o].at = "place", runner'[u].at = "place", runner'[o].s = runner'[u].s,
             ItemOf(runner'[o]) # ItemOf(runner'[u])
      PROVE  ItemOf(runner'[o]) \in raced'
  <2>1. CASE o # e /\ u # e
    BY <1>2, <1>7, <2>1 DEF PlacesInv
  <2>2. CASE o = e /\ u # e
    BY <1>2, <1>4, <1>7, <2>2
  <2>3. CASE o # e /\ u = e
    BY <1>2, <1>4, <1>7, <2>3
  <2>. QED  BY <1>7, <2>1, <2>2, <2>3
<1>. QED  BY <1>5, <1>6, <1>7 DEF PlacesInv, ItemOf

\* Whoever else waits at the place that is written was in a race for it.
LEMMA CopyFilePlaces ==
  ASSUME EffectsInv, PlacesInv, NEW e \in Runners, CopyFile(e)
  PROVE  PlacesInv'
<1>1. PICK r, s, f : r = runner[e] /\ s = r.s /\ f = ItemOf(r)
  OBVIOUS
<1>2. /\ r.at = "place" /\ UNCHANGED raced
      /\ mirror' = mirror \cup {s} /\ bytes' = {b \in bytes : b[1] # s} \cup {<<s, f>>}
      /\ Goes(e, [r EXCEPT !.at = "register"])
  BY <1>1 DEF CopyFile, At
<1>3. s.in = "uploads"
  BY <1>1, <1>2, RunnerOfInv DEF RunnerRight, OnItem
<1>4. Waits
  <2>1. PICK q : q = [r EXCEPT !.at = "register"]
    OBVIOUS
  <2>2. q.at = "register"
    BY <1>1, <2>1, RunnerAt
  <2>. QED  BY <1>2, <2>1, <2>2, GoesElsewhere
<1>5. \A b \in bytes' : b = <<b[1], b[2]>> /\ b[1] \in mirror' /\ b[1].in = "uploads"
  BY <1>2, <1>3 DEF PlacesInv
<1>6. ASSUME NEW o \in Runners, runner'[o].at = "place", NEW b \in bytes', b[1] = runner'[o].s
      PROVE  b[2] = ItemOf(runner'[o]) \/ b[2] \in raced'
  <2>1. runner'[o] = runner[o]
    BY <1>4, <1>6 DEF Waits
  <2>2. CASE b \in bytes
    BY <1>2, <1>6, <2>1, <2>2 DEF PlacesInv
  <2>3. CASE b = <<s, f>>
    BY <1>1, <1>2, <1>6, <2>1, <2>3 DEF PlacesInv
  <2>. QED  BY <1>2, <2>2, <2>3
<1>7. ASSUME NEW o \in Runners, NEW u \in Runners,
             runner'[o].at = "place", runner'[u].at = "place", runner'[o].s = runner'[u].s,
             ItemOf(runner'[o]) # ItemOf(runner'[u])
      PROVE  ItemOf(runner'[o]) \in raced'
  <2>1. runner'[o] = runner[o] /\ runner'[u] = runner[u]
    BY <1>4, <1>7 DEF Waits
  <2>. QED  BY <1>2, <1>7, <2>1 DEF PlacesInv
<1>. QED  BY <1>5, <1>6, <1>7 DEF PlacesInv, ItemOf

\* A step of a runner that writes one, over what it has seen.
LEMMA OneMoreNote ==
  ASSUME EffectsInv, NotesInv, PlacesInv, UNCHANGED <<mirror, bytes, raced>>,
         NEW e \in Runners, NEW q, Goes(e, q), q.at \notin {"write", "place"},
         NEW m, m \in notes', \A k \in notes' : k = m \/ k \in notes,
         m.of.in # "external" =>
           \A author \in [notes -> Runners] : SawOwn(author) =>
             \A k \in notes' : k # m /\ k.of = m.of => author[k] # e
  PROVE  NotesInv' /\ PlacesInv'
<1>1. PICK author \in [notes -> Runners] : WroteOnce(author) /\ SawOwn(author)
  BY DEF NotesInv
<1>2. PICK new \in [notes' -> Runners] :
        new[m] = e /\ \A k \in notes' : k # m => new[k] = author[k]
  <2>1. [k \in notes' |-> IF k = m THEN e ELSE author[k]] \in [notes' -> Runners]
    OBVIOUS
  <2>. QED  BY <2>1
<1>3. new[m] = e /\ \A k \in notes' : k # m => new[k] = author[k] /\ k \in notes
  BY <1>2
<1>6. m.of.in # "external" => \A k \in notes' : k # m /\ k.of = m.of => new[k] # e
  BY <1>1, <1>3
<1>4. WroteOnce(new)'
  <2>. SUFFICES ASSUME NEW k \in notes', NEW n \in notes',
                       k.of = n.of, k.of.in # "external", new[k] = new[n]
                PROVE  k = n
    BY DEF WroteOnce
  <2>1. CASE k # m /\ n # m
    BY <1>1, <1>3, <2>1 DEF WroteOnce
  <2>2. CASE k = m \/ n = m
    BY <1>3, <1>6, <2>2
  <2>. QED  BY <2>1, <2>2
<1>5. SawOwn(new)'
  <2>1. runner'[e] = q /\ \A f \in Runners : f # e => runner'[f] = runner[f]
    BY DEF EffectsInv, Goes
  <2>. SUFFICES ASSUME NEW f \in Runners, runner'[f].at = "write",
                       NEW k \in notes', k.of = runner'[f].s, new[k] = f
                PROVE  \E x \in runner'[f].saw : Place(x) = Place(k)
    BY DEF SawOwn, Place
  <2>2. f # e /\ runner'[f] = runner[f] /\ k # m
    BY <1>3, <2>1
  <2>. QED  BY <1>1, <1>3, <2>2 DEF SawOwn
<1>7. PlacesInv'
  BY GoesElsewhere, SamePlaces
<1>. QED  BY <1>2, <1>4, <1>5, <1>7 DEF NotesInv

\* A note over what was seen leaves no other of the same document and runner.
LEMMA WrittenOver ==
  ASSUME NEW author \in [notes -> Runners], NEW e \in Runners, NEW saw, NEW m,
         \A k \in notes : k.of = m.of /\ author[k] = e => \E x \in saw : Place(x) = Place(k),
         NEW k \in Written(m, saw), k # m, k.of = m.of
  PROVE  author[k] # e
BY DEF Written

LEMMA WriteNoteOnce ==
  ASSUME EffectsInv, NotesInv, PlacesInv, NEW e \in Runners, WriteNote(e)
  PROVE  NotesInv' /\ PlacesInv'
<1>. DEFINE r == runner[e]
<1>1. r.at = "write" /\ r.s = runner[e].s
  BY DEF WriteNote, At
<1>2. PICK b : LET m == Target(r.s, "create", b)
               IN  /\ notes' = Written(m, r.saw)
                   /\ Goes(e, [r EXCEPT !.at = "commit", !.place = m])
  BY DEF WriteNote
<1>8. PICK m : m = Target(r.s, "create", b)
  OBVIOUS
<1>9. PICK q : q = [r EXCEPT !.at = "commit", !.place = m]
  OBVIOUS
<1>3. m.of = r.s /\ notes' = Written(m, r.saw) /\ Goes(e, q)
  BY <1>2, <1>8, <1>9 DEF Target
<1>4. q.at \notin {"write", "place"}
  BY <1>9, RunnerAt
<1>5. m \in notes' /\ \A k \in notes' : k = m \/ k \in notes
  BY <1>3 DEF Written
<1>6. ASSUME NEW author \in [notes -> Runners], SawOwn(author),
             NEW k \in notes', k # m, k.of = m.of
      PROVE  author[k] # e
  <2>1. \A n \in notes : n.of = m.of /\ author[n] = e => \E x \in r.saw : Place(x) = Place(n)
    BY <1>1, <1>3, <1>6 DEF SawOwn
  <2>. HIDE DEF r
  <2>. QED  BY <1>3, <1>6, <2>1, WrittenOver
<1>7. UNCHANGED <<mirror, bytes, raced>>
  BY DEF WriteNote, disk
<1>. QED  BY <1>3, <1>4, <1>5, <1>6, <1>7, OneMoreNote

LEMMA AskOnce ==
  ASSUME EffectsInv, NotesInv, PlacesInv, NEW e \in Runners, Ask(e)
  PROVE  NotesInv' /\ PlacesInv'
<1>. DEFINE s   == runner[e].s
            saw == Matches(s, "fallback")
<1>1. PICK b : LET m == Target(s, "fallback", b)
               IN  /\ notes' = Written(m, saw)
                   /\ Goes(e, [runner[e] EXCEPT !.at = "answer", !.place = m])
  BY DEF Ask
<1>8. PICK m : m = Target(s, "fallback", b)
  OBVIOUS
<1>9. PICK q : q = [runner[e] EXCEPT !.at = "answer", !.place = m]
  OBVIOUS
<1>2. m.of = s /\ notes' = Written(m, saw) /\ Goes(e, q)
  BY <1>1, <1>8, <1>9 DEF Target
<1>3. q.at \notin {"write", "place"}
  BY <1>9, RunnerAt
<1>4. m \in notes' /\ \A k \in notes' : k = m \/ k \in notes
  BY <1>2 DEF Written
<1>5. ASSUME NEW author \in [notes -> Runners], NEW k \in notes', k # m, k.of = m.of
      PROVE  author[k] # e
  <2>1. \A n \in notes : n.of = m.of => n \in saw
    BY <1>2 DEF Matches, OwnPath
  <2>. HIDE DEF saw
  <2>. QED  BY <1>2, <1>5, <2>1, WrittenOver
<1>6. UNCHANGED <<mirror, bytes, raced>>
  BY DEF Ask, disk
<1>. QED  BY <1>2, <1>3, <1>4, <1>5, <1>6, OneMoreNote

\* Notes from external data are of no document of the mirror.
LEMMA WriteExternalOnce ==
  ASSUME EffectsInv, NotesInv, PlacesInv, NEW e \in Runners, WriteExternal(e)
  PROVE  NotesInv' /\ PlacesInv'
<1>6. PICK m : m = Target(runner[e].s, "external", NoSource)
  OBVIOUS
<1>1. /\ m.of = runner[e].s /\ notes' = notes \cup {m}
      /\ Goes(e, [runner[e] EXCEPT !.at = "commit", !.place = m])
  BY <1>6 DEF WriteExternal, Target
<1>2. [runner[e] EXCEPT !.at = "commit", !.place = m].at \notin {"write", "place"}
  BY RunnerAt
<1>3. m.of.in = "external"
  <2>1. runner[e].at = "new" /\ RunnerRight(runner[e])
    BY DEF EffectsInv, WriteExternal, At
  <2>. QED  BY <1>1, <2>1 DEF RunnerRight, OnItem, External
<1>4. m \in notes' /\ \A k \in notes' : k = m \/ k \in notes
  BY <1>1
<1>5. UNCHANGED <<mirror, bytes, raced>>
  BY DEF WriteExternal, disk
<1>. QED  BY <1>1, <1>2, <1>3, <1>4, <1>5, OneMoreNote

\* The steps of a runner that write no note.
LEMMA ItemOnce ==
  ASSUME EffectsInv, NotesInv, PlacesInv, NEW e \in Runners, Item(e)
  PROVE  NotesInv' /\ PlacesInv'
<1>1. \A s \in mirror : s.in # "external"
  BY DEF NotesInv
<1>2. "at" \in DOMAIN runner[e]
  BY RunnerAt
<1>3. CASE ChooseName(e)
  <2>0. PICK s : Goes(e, [runner[e] EXCEPT !.at = "place", !.s = s])
    BY <1>3 DEF ChooseName
  <2>1. PICK q : q = [runner[e] EXCEPT !.at = "place", !.s = s]
    OBVIOUS
  <2>2. q.at = "place" /\ Goes(e, q)
    BY <2>0, <2>1, RunnerOfInv DEF RunnerFields
  <2>3. runner'[e] = q /\ \A f \in Runners : f # e => runner'[f] = runner[f]
    BY <2>2 DEF EffectsInv, Goes
  <2>4. Looked
    BY <2>2, <2>3 DEF Looked
  <2>. QED  BY <1>1, <1>3, <2>4, SameNotes, ChooseNamePlaces DEF ChooseName, vault
<1>12. CASE CopyFile(e)
  <2>1. PICK q : q = [runner[e] EXCEPT !.at = "register"]
    OBVIOUS
  <2>2. q.at \notin {"write", "place"} /\ Goes(e, q)
    BY <1>2, <1>12, <2>1 DEF CopyFile
  <2>3. Looked
    BY <2>2, GoesElsewhere
  <2>4. runner[e].s.in = "uploads" /\ mirror' = mirror \cup {runner[e].s}
    BY <1>12, RunnerOfInv DEF CopyFile, At, RunnerRight, OnItem
  <2>. QED  BY <1>1, <1>12, <2>3, <2>4, SameNotes, CopyFilePlaces DEF CopyFile, vault
<1>4. CASE Register(e)
  <2>1. [runner[e] EXCEPT !.at = "look"].at \notin {"write", "place"}
    BY <1>2
  <2>2. Looked /\ Waits
    BY <1>4, <2>1, DoneElsewhere, GoesElsewhere DEF Register
  <2>. QED  BY <1>1, <1>4, <2>2, SameNotes, SamePlaces DEF Register, vault
<1>5. CASE Existing(e) \/ CommitNote(e)
  <2>1. Looked /\ Waits
    BY <1>5, DoneElsewhere DEF Existing, CommitNote
  <2>. QED  BY <1>1, <1>5, <2>1, SameNotes, SamePlaces DEF Existing, CommitNote, disk
<1>6. CASE LookCreate(e)
  <2>1. PICK q : q = [runner[e] EXCEPT !.at = "write", !.saw = Matches(runner[e].s, "create")]
    OBVIOUS
  <2>2. /\ q.s = runner[e].s /\ q.saw = Matches(runner[e].s, "create") /\ q.at = "write"
        /\ Goes(e, q)
    BY <1>6, <2>1 DEF LookCreate, EffectsInv, RunnerRight, RunnerFits, RunnerFields
  <2>3. runner'[e] = q /\ \A f \in Runners : f # e => runner'[f] = runner[f]
    BY <2>2 DEF EffectsInv, Goes
  <2>4. Looked /\ Waits
    BY <2>2, <2>3 DEF Looked, Waits, Matches
  <2>. QED  BY <1>1, <1>6, <2>4, SameNotes, SamePlaces DEF LookCreate, disk, vault
<1>7. CASE WriteNote(e) \/ WriteExternal(e) \/ Ask(e)
  BY <1>7, WriteNoteOnce, WriteExternalOnce, AskOnce
<1>8. CASE FallsBack(e)
  <2>1. [runner[e] EXCEPT !.kind.note = "fallback"].at = "look"
    BY <1>2, <1>8 DEF FallsBack, At
  <2>2. Looked /\ Waits
    BY <1>8, <2>1, GoesElsewhere DEF FallsBack
  <2>. QED  BY <1>1, <1>8, <2>2, SameNotes, SamePlaces DEF FallsBack, disk, vault
<1>9. CASE StoreAnswer(e)
  <2>1. [runner[e] EXCEPT !.at = "commit"].at \notin {"write", "place"}
    BY <1>2
  <2>2. Looked /\ Waits
    BY <1>9, <2>1, GoesElsewhere DEF StoreAnswer
  <2>. QED  BY <1>1, <1>9, <2>2, SameNotes, SamePlaces DEF StoreAnswer, disk
<1>10. CASE Refused(e) \/ ItemFails(e)
  <2>1. Looked /\ Waits
    BY <1>10, DoneElsewhere DEF Refused, ItemFails, Excuse
  <2>. QED  BY <1>1, <1>10, <2>1, SameNotes, SamePlaces DEF Refused, ItemFails, disk, vault
<1>11. CASE Raises(e) \/ EndChunk(e)
  <2>1. Looked /\ Waits
    BY <1>11, DoneElsewhere DEF Raises, Fails, EndChunk
  <2>. QED  BY <1>1, <1>11, <2>1, SameNotes, SamePlaces DEF Raises, Fails, EndChunk, disk, vault
<1>. QED  BY <1>3, <1>4, <1>5, <1>6, <1>7, <1>8, <1>9, <1>10, <1>11, <1>12 DEF Item

\* Each step keeps it.
LEMMA NotesStep ==
  ASSUME EffectsInv, NotesInv, PlacesInv, [Next]_vars
  PROVE  NotesInv' /\ PlacesInv'
<1>1. \A s \in mirror : s.in # "external"
  BY DEF NotesInv
<1>2. ASSUME UNCHANGED <<runner, notes, bytes, raced>>, mirror' \subseteq mirror,
             \A s \in mirror : s.in = "uploads" => s \in mirror'
      PROVE  NotesInv' /\ PlacesInv'
  <2>1. Looked /\ Waits
    BY <1>2 DEF Looked, Waits
  <2>. QED  BY <1>1, <1>2, <2>1, SameNotes, SamePlaces
<1>3. ASSUME NEW e \in Runners, NEW t, NEW k, NEW p, Goes(e, Begun(t, k, p)),
             UNCHANGED <<notes, mirror, bytes, raced>>
      PROVE  NotesInv' /\ PlacesInv'
  <2>. DEFINE q == [Rest EXCEPT !.task = t, !.kind = k, !.matched = p.matched, !.cursor = p.cursor]
  <2>1. "at" \in DOMAIN q
    BY DEF Rest
  <2>2. Goes(e, Turn(q, p.cursor + 1))
    BY <1>3 DEF Begun
  <2>. HIDE DEF q
  <2>3. Looked /\ Waits
    BY <2>1, <2>2, TurnsAway, GoesElsewhere
  <2>. QED  BY <1>1, <1>3, <2>3, SameNotes, SamePlaces
<1>4. ASSUME NEW t \in Tasks, NEW k \in Kinds, Queue(t, k) PROVE NotesInv' /\ PlacesInv'
  BY <1>2, <1>4 DEF Queue, disk, vault
<1>5. ASSUME NEW e \in Runners, NEW t \in Tasks, Load(e, t) PROVE NotesInv' /\ PlacesInv'
  BY <1>3, <1>5 DEF Load, disk, vault
<1>6. ASSUME NEW e \in Runners, NEW k \in Requests, Request(e, k) PROVE NotesInv' /\ PlacesInv'
  BY <1>3, <1>6 DEF Request, disk, vault
<1>7. ASSUME NEW e \in Runners, Fault(e) \/ Crash(e) PROVE NotesInv' /\ PlacesInv'
  <2>1. Looked /\ Waits
    BY <1>7, DoneElsewhere DEF Fault, Fails, Crash
  <2>. QED  BY <1>1, <1>7, <2>1, SameNotes, SamePlaces DEF Fault, Fails, Crash, disk, vault
<1>8. CASE Reindex \/ Scan
  BY <1>2, <1>8 DEF Reindex, Scan, ScanLists, ScanStores, ScanEnds, disk, vault
<1>9. ASSUME NEW d \in Docs, Vanish(d) PROVE NotesInv' /\ PlacesInv'
  BY <1>2, <1>9 DEF Vanish, vault, Document
<1>10. CASE UNCHANGED vars
  BY <1>2, <1>10 DEF vars
<1>. QED  BY <1>4, <1>5, <1>6, <1>7, <1>8, <1>9, <1>10, ItemOnce DEF Next

\* Nothing is written at first.
LEMMA InitNotes == Init => NotesInv /\ PlacesInv
<1>. SUFFICES ASSUME Init PROVE NotesInv /\ PlacesInv
  OBVIOUS
<1>1. PICK author \in [notes -> Runners] : TRUE
  <2>1. [m \in notes |-> CHOOSE e \in Runners : TRUE] \in [notes -> Runners]
    BY DEF Init
  <2>. QED  BY <2>1
<1>2. WroteOnce(author) /\ SawOwn(author)
  BY DEF Init, WroteOnce, SawOwn
<1>3. \A s \in mirror : s.in # "external"
  BY DEF Init, Document
<1>4. PlacesInv
  BY DEF Init, PlacesInv, Rest
<1>. QED  BY <1>1, <1>2, <1>3, <1>4 DEF NotesInv

\* A task has imported every file and left a note for every document that its
\* progress counts (continue_cloud_vault_task and the handlers it calls); only a file in
\* a race for its name (_destination_source_path) may have been written over.
THEOREM TasksDeliver == Spec => []Delivered
<1>1. /\ EffectsInv /\ NotesInv /\ PlacesInv /\ [Next]_vars
      => EffectsInv' /\ NotesInv' /\ PlacesInv'
  BY EffectsStep, NotesStep
<1>2. EffectsInv => Delivered
  BY DEF EffectsInv, RowDelivered, Delivered
<1>3. Init => EffectsInv /\ NotesInv /\ PlacesInv
  BY InitEffects, InitNotes
<1>. QED  BY <1>1, <1>2, <1>3, PTL DEF Spec

\* However often create_document_vault_note and the fallback are repeated for a document, by
\* whatever tasks and requests, it has no more notes than there are runners.
THEOREM NotesAreFew ==
  ASSUME IsFiniteSet(Runners)
  PROVE  Spec => []NoteOnce
<1>1. /\ EffectsInv /\ NotesInv /\ PlacesInv /\ [Next]_vars
      => EffectsInv' /\ NotesInv' /\ PlacesInv'
  BY EffectsStep, NotesStep
<1>2. NotesInv => NoteOnce
  <2>. SUFFICES ASSUME NotesInv, NEW s \in mirror
                PROVE  Cardinality(OwnPath(s)) <= Cardinality(Runners)
    BY DEF NoteOnce
  <2>1. PICK author \in [notes -> Runners] : WroteOnce(author)
    BY DEF NotesInv
  <2>. DEFINE of == [m \in OwnPath(s) |-> author[m]]
  <2>2. of \in [OwnPath(s) -> Runners]
    BY DEF OwnPath
  <2>3. ASSUME NEW m \in OwnPath(s), NEW k \in OwnPath(s), of[m] = of[k]
        PROVE  m = k
    BY <2>1, <2>3 DEF WroteOnce, OwnPath, NotesInv
  <2>. HIDE DEF of
  <2>4. of \in Injection(OwnPath(s), Runners)
    BY <2>2, <2>3 DEF Injection, IsInjective
  <2>. QED  BY <2>4, FS_Injection
<1>3. Init => EffectsInv /\ NotesInv /\ PlacesInv
  BY InitEffects, InitNotes
<1>. QED  BY <1>1, <1>2, <1>3, PTL DEF Spec
=============================================================================
