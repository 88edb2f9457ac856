------------------------------ MODULE RefreshScan ------------------------------
(***************************************************************************)
(* What the refresh jobs do to the index: a traversal of the mirror in     *)
(* batches, the rows of the files table it upserts, and the deletions that *)
(* end a sync run (run_next_job, _persist_refresh_results and              *)
(* _finalize_sync_run_snapshot of services/job_runner.py, and the crawl of *)
(* services/icloud_web_client.py).                                         *)
(*                                                                         *)
(* RefreshJobs has the protocol by which workers own a job; it shows that  *)
(* only the holder of the lease commits anything.  So here one worker acts *)
(* at a time, losing the lease ends its batch, and pause and resume are    *)
(* single steps.                                                           *)
(*                                                                         *)
(* Abstractions.                                                           *)
(*  - A job that ended leaves the sequence jobs, which is sorted by id.    *)
(*  - Sync runs are only compared with each other: a run id may be used    *)
(*    again once no row and no job refers to it.                           *)
(*  - A version stands for a file's name, size and modification time.      *)
(*    Extracted text is not modelled.                                      *)
(*  - The frontier is a set.  The mirror client takes its oldest entry,    *)
(*    the iCloud client its newest; any order is allowed here.             *)
(***************************************************************************)
EXTENDS Integers, Sequences, FiniteSets

CONSTANTS
  Files, Folders, Root,
  Parent,         \* the folder each file and each folder but Root is in
  Versions,       \* of a file that exists
  BatchLimit,     \* ICLOUD_REFRESH_BATCH_FILE_LIMIT
  Runs,           \* sync run ids
  MaxLive,        \* bound: jobs that have not ended
  MaxEdits,       \* bound: changes of the mirror
  MaxFaults,      \* bound: batches that fail or are interrupted
  PauseAllowed,   \* are pause and resume called?
  Absent, NoRun

ASSUME RefreshScanAssumption ==
  /\ IsFiniteSet(Files) /\ IsFiniteSet(Folders)
  /\ Files \cap Folders = {} /\ Root \in Folders
  /\ Parent \in [(Files \cup Folders) \ {Root} -> Folders]
  /\ \A S \in (SUBSET (Files \cup Folders)) \ {{}} : \* every walk up ends in Root
       (\A x \in S \ {Root} : Parent[x] \in S) => Root \in S
  /\ BatchLimit \in Nat \ {0}
  /\ MaxLive \in Nat \ {0} /\ MaxEdits \in Nat /\ MaxFaults \in Nat
  /\ PauseAllowed \in BOOLEAN
  /\ Absent \notin Versions /\ NoRun \notin Runs

VARIABLES
  mirror,     \* version of each file on disk, or Absent
  edits,      \* number of changes made to the mirror
  faults,     \* number of batches that did not end
  records,    \* rows of the files table, by external id
  jobs,       \* jobs that have not ended, by id
  paused,     \* "paused" of the refresh-control file
  batch,      \* the batch the worker is in
  settled     \* history: files unchanged since the last completed scan began

vars == <<mirror, edits, faults, records, jobs, paused, batch, settled>>

Entries == Files \cup Folders
NoRecord == [state |-> "none", version |-> Absent, seen |-> NoRun]
Record   == [state : {"none", "live", "deleted"},
             version : Versions \cup {Absent}, seen : Runs \cup {NoRun}]

\* "still" is history: the files unchanged since the scan of this job began.
Job == [status : {"queued", "running", "paused"}, frontier : SUBSET Entries,
        run : Runs \cup {NoRun}, still : SUBSET Files]
NewJob == [status |-> "queued", frontier |-> {Root}, run |-> NoRun, still |-> {}]

Stage == {"none", "crawling", "extracting"}
Batch == [stage : Stage, frontier : SUBSET Entries,
          items : SUBSET (Files \X Versions)]
NoBatch == [stage |-> "none", frontier |-> {}, items |-> {}]

With(status) == {i \in 1..Len(jobs) : jobs[i].status = status}
RunsInUse    == {jobs[i].run : i \in 1..Len(jobs)} \cup {records[f].seen : f \in Files}
Present      == {f \in Files : mirror[f] # Absent}

Init ==
  /\ mirror \in [Files -> Versions \cup {Absent}]
  /\ edits = 0
  /\ faults = 0
  /\ records = [f \in Files |-> NoRecord]
  /\ jobs = <<>>
  /\ paused = FALSE
  /\ batch = NoBatch
  /\ settled = {}

-----------------------------------------------------------------------------
(* Jobs *)

Active == With("queued") \cup With("running")

\* POST /refresh at any time, or the background scan.
Enqueue ==
  /\ Active = {}
  /\ Len(jobs) < MaxLive
  /\ jobs' = Append(jobs, NewJob)
  /\ UNCHANGED <<mirror, edits, faults, records, paused, batch, settled>>

\* _ensure_running_sync_run: the job has no sync_run_id yet.
NeedsRun(job) == job.run = NoRun

Claim ==
  /\ ~paused
  /\ batch = NoBatch
  /\ \E i \in With("queued") :
       /\ \/ /\ ~NeedsRun(jobs[i])
             /\ jobs' = [jobs EXCEPT ![i].status = "running"]
          \/ /\ NeedsRun(jobs[i])
             /\ \E r \in Runs \ RunsInUse :
                  /\ r = CHOOSE q \in Runs : q \notin RunsInUse
                  /\ jobs' = [jobs EXCEPT ![i].status = "running",
                                          ![i].run = r, ![i].still = Files]
       /\ batch' = [stage |-> "crawling", frontier |-> jobs[i].frontier, items |-> {}]
  /\ UNCHANGED <<mirror, edits, faults, records, paused, settled>>

Pause ==
  /\ PauseAllowed
  /\ paused' = TRUE
  /\ jobs' = [i \in 1..Len(jobs) |-> IF i \in Active
                                     THEN [jobs[i] EXCEPT !.status = "paused"]
                                     ELSE jobs[i]]
  /\ batch' = NoBatch
  /\ UNCHANGED <<mirror, edits, faults, records, settled>>

\* The paused job with the highest id is queued again, unless another job is
\* active; with no paused job a refresh is enqueued, unless one is active.
Resume ==
  /\ PauseAllowed
  /\ \/ /\ Active = {}
        /\ \E i \in With("paused") :
             /\ \A k \in With("paused") : k <= i
             /\ jobs' = [jobs EXCEPT ![i].status = "queued"]
     \/ With("paused") = {} /\ Active = {} /\ jobs' = Append(jobs, NewJob)
     \/ With("paused") = {} /\ Active # {} /\ UNCHANGED jobs
  /\ paused' = FALSE
  /\ UNCHANGED <<mirror, edits, faults, records, batch, settled>>

-----------------------------------------------------------------------------
(* One batch *)

Children(d) == {e \in Folders \ {Root} : Parent[e] = d}
               \cup {f \in Present : Parent[f] = d}

Room == Cardinality(batch.items) < BatchLimit

\* list_drive_items_batch: one entry of the frontier.  A file that is gone is
\* skipped; one that is there is read now.
Crawl ==
  /\ batch.stage = "crawling"
  /\ Room
  /\ \E e \in batch.frontier :
       batch' = [batch EXCEPT
         !.frontier = IF e \in Folders THEN (@ \ {e}) \cup Children(e) ELSE @ \ {e},
         !.items    = IF e \in Present THEN @ \cup {<<e, mirror[e]>>} ELSE @]
  /\ UNCHANGED <<mirror, edits, faults, records, jobs, paused, settled>>

EndCrawl ==
  /\ batch.stage = "crawling"
  /\ batch.frontier = {} \/ Cardinality(batch.items) >= BatchLimit
  /\ batch' = [batch EXCEPT !.stage = "extracting"]
  /\ UNCHANGED <<mirror, edits, faults, records, jobs, paused, settled>>

\* Mutant: an upsert leaves is_deleted alone.
UpsertKeepingState(f, version, run) ==
  [state |-> IF records[f].state = "none" THEN "live" ELSE records[f].state,
   version |-> version, seen |-> run]

\* _upsert_file_record: a row that was deleted is live again.
Upsert(f, version, run) == [state |-> "live", version |-> version, seen |-> run]

\* The upserts that persist_mid_batch_progress commits together.
Persist ==
  /\ batch.stage = "extracting"
  /\ \E i \in With("running"), S \in (SUBSET batch.items) \ {{}} :
       /\ records' = [f \in Files |->
            IF \E v \in Versions : <<f, v>> \in S
            THEN Upsert(f, CHOOSE v \in Versions : <<f, v>> \in S, jobs[i].run)
            ELSE records[f]]
       /\ batch' = [batch EXCEPT !.items = @ \ S]
  /\ UNCHANGED <<mirror, edits, faults, jobs, paused, settled>>

\* Mutant: nothing is deleted.
FinalizedNothing(run) == records

\* _finalize_sync_run_snapshot: every live row this run has not seen.
Finalized(run) ==
  [f \in Files |-> IF records[f].state = "live" /\ records[f].seen # run
                   THEN [records[f] EXCEPT !.state = "deleted"] ELSE records[f]]

\* The commit that ends a batch; the last batch ends the job and its sync run.
EndBatch ==
  /\ batch.stage = "extracting"
  /\ batch.items = {}
  /\ \E i \in With("running") :
       \/ /\ batch.frontier # {}
          /\ jobs' = [jobs EXCEPT ![i].status = "queued",
                                  ![i].frontier = batch.frontier]
          /\ UNCHANGED <<records, settled>>
       \/ /\ batch.frontier = {}
          /\ jobs' = SubSeq(jobs, 1, i - 1) \o SubSeq(jobs, i + 1, Len(jobs))
          /\ records' = Finalized(jobs[i].run)
          /\ settled' = jobs[i].still
  /\ batch' = NoBatch
  /\ UNCHANGED <<mirror, edits, faults, paused>>

\* Mutant: an interrupted batch leaves its frontier behind.
RequeuedAt(job) == [job EXCEPT !.status = "queued", !.frontier = batch.frontier]

\* A batch that is interrupted is done again from the saved frontier.
Requeued(job) == [job EXCEPT !.status = "queued"]

\* A failed batch that is retried, or a crash and the recovery of the lease: what
\* was not committed is rolled back.
InterruptBatch ==
  /\ batch.stage # "none"
  /\ faults < MaxFaults
  /\ faults' = faults + 1
  /\ \E i \in With("running") : jobs' = [jobs EXCEPT ![i] = Requeued(jobs[i])]
  /\ batch' = NoBatch
  /\ UNCHANGED <<mirror, edits, records, paused, settled>>

\* A failed batch that exhausts the retry budget, or a client not ready.
FailJob ==
  /\ batch.stage # "none"
  /\ faults < MaxFaults
  /\ faults' = faults + 1
  /\ \E i \in With("running") :
       jobs' = SubSeq(jobs, 1, i - 1) \o SubSeq(jobs, i + 1, Len(jobs))
  /\ batch' = NoBatch
  /\ UNCHANGED <<mirror, edits, records, paused, settled>>

-----------------------------------------------------------------------------
(* The mirror: the sync service and users create, change and delete files *)

Edit(f) ==
  /\ edits < MaxEdits
  /\ edits' = edits + 1
  /\ \E v \in (Versions \cup {Absent}) \ {mirror[f]} : mirror' = [mirror EXCEPT ![f] = v]
  /\ jobs' = [i \in 1..Len(jobs) |-> [jobs[i] EXCEPT !.still = @ \ {f}]]
  /\ settled' = settled \ {f}
  /\ UNCHANGED <<faults, records, paused, batch>>

Work == Claim \/ Crawl \/ EndCrawl \/ Persist \/ EndBatch

Next ==
  \/ Enqueue \/ Work \/ InterruptBatch \/ FailJob \/ Pause \/ Resume
  \/ \E f \in Files : Edit(f)

Spec == Init /\ [][Next]_vars

\* Workers poll, background scans are enqueued when the interval has elapsed and
\* a batch is bounded by its file limit.
Fairness == WF_vars(Enqueue) /\ WF_vars(Work)

FairSpec == Spec /\ Fairness

-----------------------------------------------------------------------------
(* Properties *)

\* The types of the variables of the scan.
TypeOK ==
  /\ mirror \in [Files -> Versions \cup {Absent}]
  /\ edits \in 0..MaxEdits
  /\ faults \in 0..MaxFaults
  /\ records \in [Files -> Record]
  /\ paused \in BOOLEAN
  /\ jobs \in Seq(Job) /\ Len(jobs) <= MaxLive
  /\ batch \in Batch /\ Cardinality(batch.items) <= BatchLimit
  /\ settled \subseteq Files

\* An entry is under a frontier when the walk from it to the root meets the
\* frontier, that is, when every set that holds it and the parents of its
\* members does.
Under(frontier, e) ==
  \A S \in SUBSET Entries :
    e \in S /\ (\A x \in S \ {Root} : Parent[x] \in S) => S \cap frontier # {}

Recorded(f, run) ==
  records[f] = [state |-> "live", version |-> mirror[f], seen |-> run]

\* No crash, retry, pause or resume makes a scan skip a file: one that stays on
\* disk unchanged is always recorded by the scan's sync run, or still under the
\* frontier it would continue from, or among the items of the batch at work.
NothingLost ==
  \A i \in 1..Len(jobs) : jobs[i].run # NoRun =>
    \A f \in jobs[i].still \cap Present :
      /\ Recorded(f, jobs[i].run) \/ Under(jobs[i].frontier, f)
      /\ jobs[i].status = "running" =>
           \/ Recorded(f, jobs[i].run)
           \/ Under(batch.frontier, f)
           \/ <<f, mirror[f]>> \in batch.items

\* The index tells the truth about what it had time to see: a file that has not
\* changed since the last completed scan began has a live row, of its present
\* version, exactly when it exists; whatever later scans do.
IndexAgrees ==
  \A f \in settled :
    IF f \in Present THEN records[f].state = "live" /\ records[f].version = mirror[f]
    ELSE records[f].state # "live"

\* When the mirror stops changing, batches stop failing and refreshes are no
\* longer paused, the index comes to describe the mirror and stays so.
IndexConverges ==
  <>[]~paused =>
    <>[](\A f \in Files :
           IF f \in Present THEN records[f].state = "live" /\ records[f].version = mirror[f]
           ELSE records[f].state # "live")

\* README.md: deletions are applied only after the full sync run completes, and
\* docs/operations.md: a resumed job continues from the saved progress.  A file
\* that exists, and did not change during a scan, is not deleted by that scan.
PresentFilesKept ==
  [][\A f \in Files : \A i \in With("running") :
       records'[f].state = "deleted" /\ records[f].state = "live"
         => f \notin jobs[i].still \cap Present]_vars
=============================================================================
