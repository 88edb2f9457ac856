------------------------------ MODULE ChangeSets ------------------------------
(***************************************************************************)
(* Reversible mutations (services/file_mutation_service.py and the apply   *)
(* step of services/dedupe_workflow_service.py): a file leaves the mirror  *)
(* for _CHANGES_BACKUP/<change set>/payload/<file name>, change-set.json   *)
(* says where it came from, the notes that point at the file are marked,   *)
(* the change set is committed to the database, and a restore moves it     *)
(* all back.  Nothing is locked, and only the database is transactional.   *)
(*                                                                         *)
(* Abstractions.                                                           *)
(*  - A payload stands for one copy of a file's bytes, wherever it is.     *)
(*  - A path is a namespace and a relative path; every path of a mirror    *)
(*    has one generated note.  The classifier keeps rewriting the notes and *)
(*    the vault reconciliation keeps renaming them.                        *)
(*  - The live tree and its backup are one file system: a move is atomic   *)
(*    and replaces what it finds, as rename does.                          *)
(*  - The row of a note is left out: it follows its frontmatter.           *)
(***************************************************************************)
EXTENDS Integers, Sequences, FiniteSets, SequencesExt

CONSTANTS
  Paths,       \* paths of the mirror
  Internal,    \* those below an underscore-prefixed directory (the quarantine)
  Slot,        \* namespace and file name of a path: its place in a payload
  Payloads,    \* copies of files
  Ids,         \* change set ids: a bound on how many are made
  Requests,    \* requests and tasks served at once
  Groups,      \* reviewed dedupe groups: the paths to move, in order
  MaxFaults,   \* bound: processes that die, markings that fail or miss, notes rewritten
  None

ASSUME ChangeSetsAssumption ==
  /\ Internal \subseteq Paths
  /\ DOMAIN Slot = Paths
  /\ Groups \subseteq Seq(Paths \ Internal) \ {<<>>}
  /\ MaxFaults \in Nat
  /\ None \notin Payloads \cup Ids

VARIABLES
  live,     \* the file at each path
  backup,   \* the payload directory of each change set
  record,   \* change-set.json of each change set
  row,      \* the committed row of each change set
  note,     \* source_status of the note of each path, and the change set it names
  request,  \* what is left to do of each request
  faults,   \* of those that MaxFaults bounds, so far
  kept,     \* history: the copies nobody but this code may remove
  taken,    \* history: what each change set took from each path
  fate,     \* history: how far the use of each id has come
  alone,    \* history: one request at a time so far, and none has died
  cut,      \* history: ids whose record was written by a request that failed before its commit
  astray    \* history: paths whose note was missed by a request that took or restored the
            \* file, or rewritten since

vars == <<live, backup, record, row, note, request, faults, kept, taken, fate, alone, cut, astray>>

Places == {Slot[p] : p \in Paths}

\* The record of a dedupe is a list of items, any other is about one file
NoRecord == [status |-> "none", list |-> FALSE, items |-> <<>>]
Idle     == [op |-> "none", id |-> None, items |-> <<>>, plan |-> <<>>]

\* source_status of the notes after each operation
Marks == [delete |-> "deleted", dedupe |-> "deleted", restore |-> "active"]

\* status of the change set after each operation
Ends == [delete |-> "deleted", dedupe |-> "moved", import |-> "imported",
         restore |-> "restored"]

Init ==
  /\ live \in {f \in [Paths -> Payloads] : IsInjective(f)}
  /\ backup = [id \in Ids |-> [s \in Places |-> None]]
  /\ record = [id \in Ids |-> NoRecord]
  /\ row = [id \in Ids |-> "none"]
  /\ note = [p \in Paths |-> [status |-> "active", by |-> None]]
  /\ request = [r \in Requests |-> Idle]
  /\ faults = 0
  /\ kept = {live[p] : p \in Paths}
  /\ taken = [id \in Ids |-> [p \in Paths |-> None]]
  /\ fate = [id \in Ids |-> "unused"]
  /\ alone = TRUE
  /\ cut = {}
  /\ astray = {}

Stored == ({live[p] : p \in Paths} \cup {backup[id][s] : id \in Ids, s \in Places}) \ {None}

\* No two of the items share a place in a payload directory
Apart(items) == \A i, k \in DOMAIN items : Slot[items[i]] = Slot[items[k]] => i = k

-----------------------------------------------------------------------------
\* The order in which the code works through each operation

\* The steps of each of the items, one item after the other
Each(items, steps) ==
  [n \in 1..(Len(steps) * Len(items)) |->
     <<steps[((n - 1) % Len(steps)) + 1], items[((n - 1) \div Len(steps)) + 1]>>]

DeletePlan(items) == Each(items, <<"move", "record", "mark", "commit">>)

\* mistake: the notes of a group are forgotten
DedupePlanUnmarked(items) ==
  << <<"record", items[1]>> >> \o Each(items, <<"move">>) \o << <<"commit", items[1]>> >>

DedupePlan(items) ==
  << <<"record", items[1]>> >> \o Each(items, <<"move", "mark">>) \o << <<"commit", items[1]>> >>

\* mistake: the record of a restore is only rewritten for a batch
RestorePlanUnrecorded(items, list) ==
  Each(items, <<"move", "mark", "hash">>)
    \o << <<IF list THEN "record" ELSE "hash", items[1]>>, <<"commit", items[1]>> >>

RestorePlan(items, list) ==
  IF list
  THEN Each(items, <<"move", "mark", "hash">>) \o << <<"record", items[1]>>, <<"commit", items[1]>> >>
  ELSE Each(items, <<"move", "record", "mark", "hash", "commit">>)

\* mistake: the record is written by the import only when it ends
ImportPlanUnrecorded(items) == Each(items, <<"move">>)

ImportPlan(items) == Each(items, <<"move", "record">>)

Start(r, op, id, items, plan) ==
  /\ request' = [request EXCEPT ![r] = [op |-> op, id |-> id, items |-> items, plan |-> plan]]
  /\ fate' = [fate EXCEPT ![id] = IF op = "restore" THEN "tried" ELSE "issued"]
  /\ alone' = (alone /\ \A q \in Requests \ {r} : request[q] = Idle)
  /\ UNCHANGED <<live, backup, record, row, note, faults, kept, taken, cut, astray>>

StartDelete(r, p) ==
  /\ request[r] = Idle
  /\ p \notin Internal
  /\ live[p] # None
  /\ \E id \in Ids : fate[id] = "unused" /\ Start(r, "delete", id, <<p>>, DeletePlan(<<p>>))

\* The file to keep is only compared with the recommendation of the analysis
StartDedupe(r, items) ==
  /\ request[r] = Idle
  /\ \A i \in DOMAIN items : live[items[i]] # None
  /\ \E id \in Ids : fate[id] = "unused" /\ Start(r, "dedupe", id, items, DedupePlan(items))

\* The operator's script walks the quarantine: one change set for each file
StartImport(r) ==
  /\ \/ request[r] = Idle
     \/ request[r].op = "import" /\ request[r].plan = <<>>
  /\ \E p \in Internal, id \in Ids :
       /\ live[p] # None
       /\ fate[id] = "unused"
       /\ Start(r, "import", id, <<p>>, ImportPlan(<<p>>))

\* An id is known to others once the request that made it has ended
StartRestore(r, id) ==
  /\ request[r] = Idle
  /\ record[id].status # "none"
  /\ \A q \in Requests : request[q].id = id => request[q].op = "restore"
  /\ Start(r, "restore", id, record[id].items, RestorePlan(record[id].items, record[id].list))

-----------------------------------------------------------------------------
\* The steps of a request

Next1(r)   == Head(request[r].plan)
Doing(r, step) == request[r].plan # <<>> /\ Next1(r)[1] = step
Advance(r) == request' = [request EXCEPT ![r].plan = Tail(@)]

\* The paths whose notes a request has yet to mark; those it restores are in use again
Unmarked(r) ==
  {p \in Paths : request[r].op # "restore" /\ <<"mark", p>> \in Range(request[r].plan)}

\* Nothing takes back what an error ends: neither the files it moved, nor the
\* record it wrote, nor the notes it marked
Stop(r) ==
  /\ request' = [request EXCEPT ![r] = Idle]
  /\ cut' = IF \E p \in Paths : <<"record", p>> \in Range(request[r].plan)
            THEN cut
            ELSE cut \cup {request[r].id}

\* An error ends a request and rolls its transaction back
Fail(r) ==
  /\ Stop(r)
  /\ astray' = astray \cup Unmarked(r)
  /\ UNCHANGED <<live, backup, record, row, note, faults, kept, taken, fate, alone>>

\* What a move finds at its source
Source(r, p) ==
  CASE request[r].op # "restore" -> live[p]
    [] request[r].op = "restore" /\ p \in Internal -> None  \* resolve_live_path refuses the path
    [] OTHER -> backup[request[r].id][Slot[p]]

\* mistake: the payload directory is emptied before each move
TakeCleared(r, p) ==
  LET id == request[r].id IN
  /\ backup' = [backup EXCEPT ![id] = [s \in Places |-> IF s = Slot[p] THEN live[p] ELSE None]]
  /\ live' = [live EXCEPT ![p] = None]
  /\ taken' = [taken EXCEPT ![id][p] = live[p]]

Take(r, p) ==
  LET id == request[r].id IN
  /\ backup' = [backup EXCEPT ![id][Slot[p]] = live[p]]
  /\ live' = [live EXCEPT ![p] = None]
  /\ taken' = [taken EXCEPT ![id][p] = live[p]]

\* mistake: every file of a batch is restored from the backup path of the first
GiveBackFirst(r, p) ==
  LET id == request[r].id
      s  == Slot[request[r].items[1]]
  IN /\ live' = [live EXCEPT ![p] = backup[id][s]]
     /\ backup' = [backup EXCEPT ![id][s] = None]
     /\ UNCHANGED taken

GiveBack(r, p) ==
  LET id == request[r].id IN
  /\ live' = [live EXCEPT ![p] = backup[id][Slot[p]]]
  /\ backup' = [backup EXCEPT ![id][Slot[p]] = None]
  /\ UNCHANGED taken

\* mistake: a file that vanished is skipped
SkipMissing(r) ==
  /\ Doing(r, "move")
  /\ LET p == Next1(r)[2] IN
     /\ IF request[r].op = "restore" THEN GiveBack(r, p) ELSE Take(r, p)
     /\ Advance(r)
     /\ UNCHANGED <<record, row, note, faults, kept, fate, alone, cut, astray>>

Move(r) ==
  /\ Doing(r, "move")
  /\ LET p == Next1(r)[2] IN
     IF Source(r, p) = None
     THEN Fail(r)
     ELSE /\ IF request[r].op = "restore" THEN GiveBack(r, p) ELSE Take(r, p)
          /\ Advance(r)
          /\ UNCHANGED <<record, row, note, faults, kept, fate, alone, cut, astray>>

WriteRecord(r) ==
  /\ Doing(r, "record")
  /\ record' = [record EXCEPT ![request[r].id] =
                  [status |-> Ends[request[r].op], items |-> request[r].items,
                   list |-> @.list \/ request[r].op = "dedupe"]]
  /\ Advance(r)
  /\ UNCHANGED <<live, backup, row, note, faults, kept, taken, fate, alone, cut, astray>>

Mark(r, p) ==
  note' = [note EXCEPT ![p] = [status |-> Marks[request[r].op], by |-> request[r].id]]

\* Every note of the vault is read to find those of the file; each is rewritten
MarkNote(r) ==
  /\ Doing(r, "mark")
  /\ LET p == Next1(r)[2] IN
     /\ Mark(r, p)
     /\ astray' = astray \ {p}
  /\ Advance(r)
  /\ UNCHANGED <<live, backup, record, row, faults, kept, taken, fate, alone, cut>>

\* The listing passes by a note that is being renamed
MissNote(r) ==
  /\ Doing(r, "mark")
  /\ faults < MaxFaults
  /\ faults' = faults + 1
  /\ astray' = astray \cup (Unmarked(r) \cap {Next1(r)[2]})
  /\ Advance(r)
  /\ UNCHANGED <<live, backup, record, row, note, kept, taken, fate, alone, cut>>

\* A note is gone between the listing and the read: the one of the file may be marked by then
MarkFails(r) ==
  /\ Doing(r, "mark")
  /\ faults < MaxFaults
  /\ faults' = faults + 1
  /\ Stop(r)
  /\ \/ /\ astray' = astray \cup Unmarked(r)
        /\ UNCHANGED note
     \/ LET p == Next1(r)[2] IN
        /\ Mark(r, p)
        /\ astray' = (astray \cup Unmarked(r)) \ {p}
  /\ UNCHANGED <<live, backup, record, row, kept, taken, fate, alone>>

\* The classifier writes a note anew, with a source_status of its own making: none
Rewritten(p) ==
  /\ note[p].by # None
  /\ faults < MaxFaults
  /\ faults' = faults + 1
  /\ note' = [note EXCEPT ![p] = [status |-> "active", by |-> None]]
  /\ astray' = astray \cup {p}
  /\ UNCHANGED <<live, backup, record, row, request, kept, taken, fate, alone, cut>>

HashRestored(r) ==
  /\ Doing(r, "hash")
  /\ IF live[Next1(r)[2]] = None
     THEN Fail(r)
     ELSE /\ Advance(r)
          /\ UNCHANGED <<live, backup, record, row, note, faults, kept, taken, fate, alone, cut, astray>>

\* The answer gives the id to the caller
Answered(r) ==
  fate' = [fate EXCEPT ![request[r].id] = IF @ = "issued" THEN "returned" ELSE @]

Commit(r) ==
  /\ Doing(r, "commit")
  /\ row' = [row EXCEPT ![request[r].id] = Ends[request[r].op]]
  /\ request' = [request EXCEPT ![r] = Idle]
  /\ Answered(r)
  /\ cut' = cut \ {request[r].id}
  /\ UNCHANGED <<live, backup, record, note, faults, kept, taken, alone, astray>>

\* The script has no session: it commits nothing
EndImport(r) ==
  /\ request[r].op = "import"
  /\ request[r].plan = <<>>
  /\ request' = [request EXCEPT ![r] = Idle]
  /\ Answered(r)
  /\ UNCHANGED <<live, backup, record, row, note, faults, kept, taken, alone, cut, astray>>

Crash(r) ==
  /\ request[r] # Idle
  /\ faults < MaxFaults
  /\ faults' = faults + 1
  /\ request' = [request EXCEPT ![r] = Idle]
  /\ fate' = [fate EXCEPT ![request[r].id] = "crashed"]
  /\ alone' = FALSE
  /\ UNCHANGED <<live, backup, record, row, note, kept, taken, cut, astray>>

\* A user, the cloud sync or an import puts a file at a path
Put(p) ==
  \E c \in Payloads \ (kept \cup Stored) :
    /\ p \notin Internal
    /\ live' = [live EXCEPT ![p] = c]
    /\ kept' = (kept \ {live[p]}) \cup {c}
    /\ UNCHANGED <<backup, record, row, note, request, faults, taken, fate, alone, cut, astray>>

Next ==
  \/ \E r \in Requests :
       \/ \E p \in Paths : StartDelete(r, p)
       \/ \E items \in Groups : StartDedupe(r, items)
       \/ StartImport(r)
       \/ \E id \in Ids : StartRestore(r, id)
       \/ Move(r) \/ WriteRecord(r) \/ MarkNote(r) \/ MissNote(r) \/ MarkFails(r)
       \/ HashRestored(r) \/ Commit(r) \/ EndImport(r) \/ Crash(r)
  \/ \E p \in Paths : Put(p) \/ Rewritten(p)

Spec == Init /\ [][Next]_vars

-----------------------------------------------------------------------------
Steps == {"move", "record", "mark", "hash", "commit"} \X Paths

(* The types of the variables. *)
TypeOK ==
  /\ live \in [Paths -> Payloads \cup {None}]
  /\ backup \in [Ids -> [Places -> Payloads \cup {None}]]
  /\ record \in [Ids -> [status : {"none", "deleted", "moved", "imported", "restored"},
                         items : Seq(Paths), list : BOOLEAN]]
  /\ row \in [Ids -> {"none", "deleted", "moved", "restored"}]
  /\ note \in [Paths -> [status : {"active", "deleted"}, by : Ids \cup {None}]]
  /\ request \in [Requests -> [op : {"none", "delete", "dedupe", "import", "restore"},
                               id : Ids \cup {None}, items : Seq(Paths), plan : Seq(Steps)]]
  /\ faults \in 0..MaxFaults
  /\ kept \subseteq Payloads
  /\ taken \in [Ids -> [Paths -> Payloads \cup {None}]]
  /\ fate \in [Ids -> {"unused", "issued", "returned", "tried", "crashed"}]
  /\ alone \in BOOLEAN
  /\ cut \subseteq Ids
  /\ astray \subseteq Paths

InFlight(id) == \E r \in Requests : request[r].id = id
AllIdle == \A r \in Requests : request[r] = Idle

(* No copy of a file is ever destroyed by this code. *)
NothingLost == kept \subseteq Stored

\* r is about to move a backup onto a path that holds the copy c
Overwrites(r, c) ==
  /\ Doing(r, "move") /\ request[r].op = "restore"
  /\ Source(r, Next1(r)[2]) # None
  /\ live[Next1(r)[2]] = c

\* r is about to move a file onto the payload c of another file of its group
Collides(r, c) ==
  /\ Doing(r, "move") /\ request[r].op = "dedupe" /\ ~Apart(request[r].items)
  /\ backup[request[r].id][Slot[Next1(r)[2]]] = c

(* Whatever the requests, their failures and their crashes, a copy leaves  *)
(* the disk in two ways only: a restore moves a backup onto a path that is *)
(* in use again, or a dedupe moves two files of one name (or one path      *)
(* twice) into its payload.  Deletes and imports never destroy anything.   *)
OnlyKnownLosses ==
  [][\A c \in Stored \ Stored' :
       c \in kept' => \E r \in Requests : Overwrites(r, c) \/ Collides(r, c)]_vars

(* A restore puts at a path exactly what its change set took from it, if   *)
(* the files of the change set have places of their own in its payload.    *)
RestoresWhatItTook ==
  [][\A r \in Requests :
       Doing(r, "move") /\ request[r].op = "restore" /\ Apart(request[r].items) =>
         \/ request'[r] \in {Idle, request[r]}
         \/ live'[Next1(r)[2]] = taken[request[r].id][Next1(r)[2]]]_vars

\* Would a restore of id find all it needs?
Restorable(id) ==
  \A p \in Range(record[id].items) :
    p \notin Internal /\ backup[id][Slot[p]] = taken[id][p] /\ taken[id][p] # None

(* A change set of a delete or of a dedupe that was reported to its caller, *)
(* and that nobody has tried to restore, can be restored in full, whatever *)
(* other requests did, if its files have places of their own in its payload. *)
Undoable ==
  \A id \in Ids : fate[id] = "returned" /\ record[id].status # "imported"
                   => record[id].items # <<>> /\ (Apart(record[id].items) => Restorable(id))

(* Everything in a backup directory is accounted for in the change-set.json *)
(* next to it, which names the path the payload came from; only a process  *)
(* that died leaves a payload without a change-set.json.                   *)
Listed ==
  \A id \in Ids, s \in Places :
    backup[id][s] # None /\ ~InFlight(id)
      => \/ \E p \in Range(record[id].items) : Slot[p] = s /\ taken[id][p] = backup[id][s]
         \/ record[id].status = "none" /\ fate[id] = "crashed"

(* At rest, as long as no two requests overlapped and none died, the       *)
(* database and change-set.json agree on every change set but those of the *)
(* quarantine import, which runs without a database, and those whose last  *)
(* request failed between its record and its commit: while it marked the   *)
(* notes, or at a file that is gone.                                       *)
Agreement ==
  AllIdle /\ alone =>
    \A id \in Ids \ cut : record[id].status # "imported" => row[id] = record[id].status

(* At rest, as long as no two requests overlapped and none died, the note  *)
(* of a file that is gone says so and names the change set that brings it  *)
(* back, unless the request that took the file missed the note or failed   *)
(* before it, or the classifier rewrote the note since.                    *)
NotesLead ==
  AllIdle /\ alone => \A p \in Paths \ (Internal \cup astray) :
    live[p] = None =>
      /\ note[p].status = "deleted"
      /\ note[p].by # None
      /\ record[note[p].by].status \in {"deleted", "moved"}
      /\ p \in Range(record[note[p].by].items)
      /\ Apart(record[note[p].by].items) => backup[note[p].by][Slot[p]] # None
=============================================================================
