------------------------------ MODULE DedupeJobs ------------------------------
(***************************************************************************)
(* Dedupe analysis (services/dedupe_workflow_service.py) and the task of   *)
(* the cloud-vault queue that drives it (_run_dedupe_analysis).  A job     *)
(* walks over the candidates in the order of their ids, a chunk at a time, *)
(* and puts each into the group of its fingerprint.  The sync worker, for  *)
(* the task, and API callers continue the same job without a lease.        *)
(*                                                                         *)
(* Abstractions.                                                           *)
(*  - A file has one fingerprint: the job has one strategy.                *)
(*  - Rank stands for the order of _pick_recommended_keep behind the       *)
(*    existence of the source: newer, not in a backup, shorter path.       *)
(*  - A commit writes the columns that differ from what the session last   *)
(*    knew (expire_on_commit is off); groups are loaded anew per record,   *)
(*    since nothing holds on to them.                                      *)
(***************************************************************************)
EXTENDS Integers, Sequences, FiniteSets

CONSTANTS
  Files,        \* ids of rows of the file index
  Fingerprint,  \* fingerprint of each file, NoPrint when it has none
  Internal,     \* files below a directory that starts with _
  Sources,      \* files whose source exists on the disk
  Deleted,      \* rows that are marked deleted at first
  Rank,         \* files that are better to keep have a lower rank
  Chunk,        \* rows of a chunk
  MaxGroups,    \* groups after which a job stops
  Worker,       \* the sync worker, which runs the task
  Callers,      \* API requests that continue jobs
  MaxJobs,      \* bound: jobs the task starts; each crash may leave one behind
  MaxEvents,    \* bound: faults, crashes, rows removed and rows revived, together
  NoPrint

ASSUME DedupeJobsAssumption ==
  /\ IsFiniteSet(Files) /\ Files \subseteq Nat \ {0}
  /\ Internal \cup Sources \cup Deleted \subseteq Files
  /\ Rank \in [Files -> Nat]
  /\ {Chunk, MaxGroups, MaxJobs} \subseteq Nat \ {0}
  /\ MaxEvents \in Nat
  /\ Worker \notin Callers

Runners == {Worker} \cup Callers
Prints  == {Fingerprint[f] : f \in Files} \ {NoPrint}

VARIABLES
  live,      \* rows of files that are not marked deleted
  job,       \* rows of dedupe_jobs
  group,     \* dedupe_groups and their items, per job and fingerprint
  task,      \* the dedupe task: its status and the job in its progress
  runner,    \* what each runner has loaded and has not committed
  missing,   \* history: candidates of each job at its start, still live and not among the
             \* files that runners have visited and committed
  overlap,   \* history: two runners were at work on one job
  raced,     \* history: groups that two runners had read at once
  spent      \* faults, crashes, removed and revived rows so far

history == <<missing, overlap, raced>>
vars == <<live, job, group, task, runner, missing, overlap, raced, spent>>

Jobs == 1..MaxJobs

Events == spent.faults + spent.crashes + spent.removed + spent.revived

NoJob   == [status |-> "none", cursor |-> 0, processed |-> 0, total |-> 0, found |-> 0]
NoGroup == [items |-> <<>>, duplicates |-> -1, keep |-> 0]
Rest    == [at |-> "rest", job |-> 0, known |-> NoJob, mine |-> NoJob, rows |-> <<>>,
            seen |-> {}, empty |-> FALSE, idle |-> TRUE, item |-> {}]

Init ==
  /\ live = Files \ Deleted
  /\ job = [j \in Jobs |-> NoJob]
  /\ group = [j \in Jobs |-> [p \in Prints |-> NoGroup]]
  /\ task = [status |-> "queued", job |-> 0]
  /\ runner = [e \in Runners |-> Rest]
  /\ missing = [j \in Jobs |-> {}]
  /\ overlap = FALSE
  /\ raced = {}
  /\ spent = [faults |-> 0, crashes |-> 0, removed |-> 0, revived |-> 0]

-----------------------------------------------------------------------------
\* start_dedupe_job

CandidateRows == live

Fresh(j) == job[j].status = "none" /\ \A k \in 1..(j - 1) : job[k].status # "none"

StartJob(j) ==
  /\ Fresh(j)
  /\ job' = [job EXCEPT ![j] = [NoJob EXCEPT !.status = "queued", !.total = Cardinality(CandidateRows)]]
  /\ missing' = [missing EXCEPT ![j] = CandidateRows]

-----------------------------------------------------------------------------
\* continue_dedupe_job

Candidates(j) == {f \in CandidateRows : f > job[j].cursor}

\* s holds the first candidates, in the order of their ids
IsChunk(s, candidates) ==
  /\ \A i, k \in DOMAIN s : i < k => s[i] < s[k]
  /\ \A f \in candidates :
       (\A i \in DOMAIN s : s[i] # f) => Len(s) = Chunk /\ \A i \in DOMAIN s : s[i] < f

Chunks(candidates) ==
  {s \in UNION {[1..n -> candidates] : n \in 0..Chunk} : IsChunk(s, candidates)}

\* The job and its next chunk are loaded
Continue(e, j) ==
  /\ job[j].status \in {"queued", "running"}
  /\ \E rows \in Chunks(Candidates(j)) :
       runner' = [runner EXCEPT ![e] =
         [Rest EXCEPT !.at = "rows", !.job = j, !.known = job[j], !.rows = rows,
                      !.mine = [job[j] EXCEPT !.status = "running"], !.empty = rows = <<>>]]
  /\ overlap' = (overlap \/ \E o \in Runners \ {e} : runner[o].job = j)
  /\ UNCHANGED <<live, job, group, task, missing, raced, spent>>

\* An API request for the job that the progress of the task names; a job that ended only
\* answers.  Jobs that callers start themselves share nothing with this one.
CallerContinues(e) ==
  /\ e \in Callers
  /\ runner[e].at = "rest"
  /\ task.job # 0
  /\ Continue(e, task.job)

\* _pick_recommended_keep: 0 when there is no item
Better(a, b) ==
  \/ a.exists /\ ~ b.exists
  \/ a.exists = b.exists /\ Rank[a.file] < Rank[b.file]
  \/ a.exists = b.exists /\ Rank[a.file] = Rank[b.file] /\ a.file < b.file

Keep(items) ==
  (CHOOSE a \in {items[k] : k \in DOMAIN items} :
     \A k \in DOMAIN items : items[k].file # a.file => ~ Better(items[k], a)).file

\* mistake: a file analysed again joins its group again
JoinedAgain(g, item) == TRUE

\* _upsert_group_membership: a file joins a group once, as far as the session sees
Joins(g, item) == \A k \in DOMAIN g.items : g.items[k].file # item.file

\* _refresh_group_summary
Summary(items) == [items |-> items, duplicates |-> Len(items) - 1, keep |-> Keep(items)]

\* The group of a record after it, from what is committed now
GroupAfter(g, item) == Summary(IF Joins(g, item) THEN Append(g.items, item) ELSE g.items)

\* An internal path is counted and left alone; what is counted waits for a commit
SkipInternal(e) ==
  /\ runner[e].at = "rows" /\ runner[e].rows # <<>> /\ Head(runner[e].rows) \in Internal
  /\ runner' = [runner EXCEPT ![e].rows = Tail(@), ![e].mine.processed = @ + 1,
                              ![e].mine.cursor = Head(runner[e].rows),
                              ![e].seen = @ \cup {Head(runner[e].rows)}]
  /\ UNCHANGED <<live, job, group, task, history, spent>>

\* _fingerprints_for_record: nothing, or the fingerprint and what the group shall hold
Items(f) ==
  IF Fingerprint[f] = NoPrint THEN {} ELSE {[file |-> f, exists |-> f \in Sources]}

\* What the file brings to its group, as it is read now
ChangeOf(j, f) ==
  LET p == Fingerprint[f]
  IN {[print |-> p, old |-> group[j][p], new |-> GroupAfter(group[j][p], i)] : i \in Items(f)}

\* history: the other runners that have read the group and not committed
Readers(e, j, p) ==
  {o \in Runners \ {e} : runner[o].job = j /\ \E i \in runner[o].item : i.print = p}

\* The fingerprint is computed, the group and its items are read
Analyse(e) ==
  /\ runner[e].at = "rows" /\ runner[e].rows # <<>> /\ Head(runner[e].rows) \notin Internal
  /\ LET f == Head(runner[e].rows)
         j == runner[e].job
     IN /\ runner' = [runner EXCEPT ![e].at = "analysed", ![e].rows = Tail(@),
                        ![e].mine.processed = @ + 1, ![e].mine.cursor = f,
                        ![e].seen = @ \cup {f}, ![e].item = ChangeOf(j, f)]
        /\ raced' = raced \cup {<<j, Fingerprint[f]>> : o \in Readers(e, j, Fingerprint[f])}
  /\ UNCHANGED <<live, job, group, task, missing, overlap, spent>>

\* A commit writes the columns that differ from what the session knew
Flushed(row, known, mine) ==
  [c \in DOMAIN row |-> IF mine[c] # known[c] THEN mine[c] ELSE row[c]]

\* The new item is inserted, the summary is written where it differs
GroupWritten(g, old, new) ==
  [items |-> g.items \o SubSeq(new.items, Len(old.items) + 1, Len(new.items)),
   duplicates |-> IF new.duplicates # old.duplicates THEN new.duplicates ELSE g.duplicates,
   keep |-> IF new.keep # old.keep THEN new.keep ELSE g.keep]

\* _refresh_job_counts counts what is flushed: not yet the change of this record (autoflush is off)
Found(j) == Cardinality({p \in Prints : group[j][p].duplicates >= 1})

\* The insert of a group that another runner has created meanwhile breaks its unique key
Collides(j, item) ==
  \E i \in item : i.old = NoGroup /\ group[j][i.print] # NoGroup

LimitReached(mine) == mine.found >= MaxGroups

CommitRecord(e) ==
  /\ runner[e].at = "analysed"
  /\ LET r == runner[e]
         j == r.job
         mine == [r.mine EXCEPT !.found = Found(j)]
     IN /\ ~ Collides(j, r.item)
        /\ job' = [job EXCEPT ![j] = Flushed(@, r.known, mine)]
        /\ group' = [group EXCEPT ![j] =
             [p \in Prints |-> IF \E i \in r.item : i.print = p
                              THEN LET i == CHOOSE i \in r.item : TRUE
                                   IN GroupWritten(@[p], i.old, i.new)
                              ELSE @[p]]]
        /\ runner' = [runner EXCEPT ![e] =
             [r EXCEPT !.at = IF LimitReached(mine) THEN "limit" ELSE "rows",
                       !.known = mine, !.mine = mine, !.seen = {}, !.item = {}, !.idle = FALSE]]
        /\ missing' = [missing EXCEPT ![j] = @ \ r.seen]
  /\ UNCHANGED <<live, task, overlap, raced, spent>>

\* The worker goes on with its task, a caller has its answer
Return(e, mine) ==
  runner' = [runner EXCEPT ![e] =
    IF e = Worker THEN [Rest EXCEPT !.at = "report", !.job = runner[e].job, !.mine.status = mine.status] ELSE Rest]

StopAtLimit(e) ==
  /\ runner[e].at = "limit"
  /\ LET r == runner[e]
         mine == [r.mine EXCEPT !.status = "complete", !.found = Found(r.job)]
     IN /\ job' = [job EXCEPT ![r.job] = Flushed(@, r.known, mine)]
        /\ Return(e, mine)
  /\ UNCHANGED <<live, group, task, history, spent>>

\* mistake: the job is complete at the end of any chunk
DoneByChunk(r) == TRUE

\* mistake: a job is only complete when every candidate it counted was visited
DoneByCount(r) == r.mine.processed >= r.mine.total

AllDone(r) == r.empty \/ r.mine.processed >= r.mine.total

\* The chunk is through, or the time budget of the call is spent after a record
EndChunk(e) ==
  /\ runner[e].at = "rows"
  /\ runner[e].rows # <<>> => ~ runner[e].idle
  /\ LET r == runner[e]
         mine == [r.mine EXCEPT !.found = Found(r.job),
                                !.status = IF AllDone(r) THEN "complete" ELSE "running"]
     IN /\ job' = [job EXCEPT ![r.job] = Flushed(@, r.known, mine)]
        /\ Return(e, mine)
        /\ missing' = [missing EXCEPT ![r.job] = @ \ r.seen]
  /\ UNCHANGED <<live, group, task, overlap, raced, spent>>

\* A source cannot be read: the job has failed for good, without the last cursor
AnalysisFails(e) ==
  /\ Events < MaxEvents
  /\ runner[e].at = "rows" /\ runner[e].rows # <<>>
  /\ Head(runner[e].rows) \in Sources \ Internal
  /\ LET r == runner[e]
         mine == [r.mine EXCEPT !.status = "failed", !.cursor = r.known.cursor]
     IN /\ job' = [job EXCEPT ![r.job] = Flushed(@, r.known, mine)]
        /\ Return(e, mine)
  /\ spent' = [spent EXCEPT !.faults = @ + 1]
  /\ UNCHANGED <<live, group, task, history>>

\* The flush raises and so does the commit that should store the failure: nothing of the
\* record is stored, a caller gets the error and the worker's task has failed
InsertCollides(e) ==
  /\ runner[e].at = "analysed"
  /\ Collides(runner[e].job, runner[e].item)
  /\ runner' = [runner EXCEPT ![e] = Rest]
  /\ task' = IF e = Worker THEN [task EXCEPT !.status = "failed"] ELSE task
  /\ UNCHANGED <<live, job, group, history, spent>>

-----------------------------------------------------------------------------
\* _run_dedupe_analysis, the slice of the worker

Active == task.status \in {"queued", "running"}

NeedsJob == task.job = 0

\* The job of a new task is committed before the task knows it
BeginSlice ==
  /\ Active /\ runner[Worker].at = "rest"
  /\ task' = [task EXCEPT !.status = "running"]
  /\ \/ /\ NeedsJob
        /\ \E j \in Jobs :
             /\ StartJob(j)
             /\ runner' = [runner EXCEPT ![Worker] = [Rest EXCEPT !.at = "begun", !.job = j]]
     \/ /\ ~ NeedsJob
        /\ runner' = [runner EXCEPT ![Worker] = [Rest EXCEPT !.at = "begun", !.job = task.job]]
        /\ UNCHANGED <<job, missing>>
  /\ UNCHANGED <<live, group, overlap, raced, spent>>

\* A job that has ended answers with its status
AnswerEnded ==
  /\ runner[Worker].at = "begun"
  /\ job[runner[Worker].job].status \in {"complete", "failed"}
  /\ Return(Worker, job[runner[Worker].job])
  /\ UNCHANGED <<live, job, group, task, history, spent>>

\* The task is done with its job; a failed job leaves it running
Report ==
  /\ runner[Worker].at = "report"
  /\ task' = [status |-> IF runner[Worker].mine.status = "complete" THEN "completed" ELSE "running",
              job |-> runner[Worker].job]
  /\ runner' = [runner EXCEPT ![Worker] = Rest]
  /\ UNCHANGED <<live, job, group, history, spent>>

WorkerContinues == runner[Worker].at = "begun" /\ Continue(Worker, runner[Worker].job)

-----------------------------------------------------------------------------
\* What happens around the runners

\* What is not committed is lost with the process
Crash(e) ==
  /\ runner[e].at # "rest"
  /\ Events < MaxEvents /\ spent.crashes + 1 < MaxJobs
  /\ runner' = [runner EXCEPT ![e] = Rest]
  /\ spent' = [spent EXCEPT !.crashes = @ + 1]
  /\ UNCHANGED <<live, job, group, task, history>>

\* A scan or a change set marks the row deleted
RowRemoved(f) ==
  /\ f \in live
  /\ Events < MaxEvents
  /\ live' = live \ {f}
  /\ missing' = [j \in Jobs |-> missing[j] \ {f}]
  /\ spent' = [spent EXCEPT !.removed = @ + 1]
  /\ UNCHANGED <<job, group, task, runner, overlap, raced>>

\* A file is new or comes back
RowRevived(f) ==
  /\ f \notin live
  /\ Events < MaxEvents
  /\ live' = live \cup {f}
  /\ spent' = [spent EXCEPT !.revived = @ + 1]
  /\ UNCHANGED <<job, group, task, runner, history>>

RunnerStep(e) ==
  \/ SkipInternal(e) \/ Analyse(e) \/ CommitRecord(e) \/ InsertCollides(e)
  \/ StopAtLimit(e) \/ EndChunk(e)

WorkerStep == BeginSlice \/ WorkerContinues \/ AnswerEnded \/ Report \/ RunnerStep(Worker)

Next ==
  \/ WorkerStep
  \/ \E e \in Callers : RunnerStep(e) \/ CallerContinues(e)
  \/ \E e \in Runners : AnalysisFails(e) \/ Crash(e)
  \/ \E f \in Files : RowRemoved(f) \/ RowRevived(f)

Spec == Init /\ [][Next]_vars

\* The worker's loop takes up the task for as long as it is active
FairSpec == Spec /\ WF_vars(WorkerStep)

-----------------------------------------------------------------------------
Rows == [status : {"none", "queued", "running", "complete", "failed"}, cursor : Files \cup {0},
         processed : Nat, total : 0..Cardinality(Files), found : 0..Cardinality(Prints)]

\* Every variable keeps its shape; the items of a group carry its fingerprint
TypeOK ==
  /\ live \subseteq Files
  /\ job \in [Jobs -> Rows]
  /\ \A j \in Jobs, p \in Prints : \A k \in DOMAIN group[j][p].items :
       Fingerprint[group[j][p].items[k].file] = p
  /\ task \in [status : {"queued", "running", "completed", "failed"}, job : Jobs \cup {0}]
  /\ \A e \in Runners : /\ runner[e].at \in {"rest", "begun", "rows", "analysed", "limit", "report"}
                        /\ runner[e].known \in Rows /\ runner[e].mine \in Rows
  /\ missing \in [Jobs -> SUBSET live]
  /\ raced \subseteq Jobs \X (Prints \cup {NoPrint})

\* A job that is complete without having reached its limit has visited every file that was a
\* candidate when it started and still is one, but for as many as there are rows that came back
\* or were new meanwhile: continue_dedupe_job ends when as many files are visited as were
\* counted at the start, whichever files these are.  Several runners, lost chunks and stale
\* commits do not add to this.
JobCovers ==
  \A j \in Jobs : job[j].status = "complete" /\ job[j].found < MaxGroups
                    => Cardinality(missing[j]) <= spent.revived

\* A group that no two runners had read at once holds a file at most once, counts its
\* duplicates and keeps its best file, however often a file is analysed
\* (_upsert_group_membership, _refresh_group_summary).
GroupsSound ==
  \A j \in Jobs, p \in Prints : LET g == group[j][p] IN
    <<j, p>> \notin raced /\ g # NoGroup =>
      /\ g.duplicates = Cardinality(DOMAIN g.items) - 1
      /\ \A k, n \in DOMAIN g.items :
           /\ g.items[k].file = g.items[n].file => k = n
           /\ g.items[k].file = g.keep => ~ Better(g.items[n], g.items[k])

\* The task ends, or its job has failed and it runs on without an end.
TaskEnds == Active ~> (~ Active \/ (task.job # 0 /\ job[task.job].status = "failed"))
=============================================================================
