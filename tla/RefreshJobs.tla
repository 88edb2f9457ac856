------------------------------ MODULE RefreshJobs ------------------------------
(***************************************************************************)
(* The metadata-refresh job protocol of services/job_runner.py: the rows   *)
(* of the jobs table, the refresh-control file, the workers that poll the  *)
(* table and the API calls POST /refresh, /refresh/pause, /refresh/resume. *)
(*                                                                         *)
(* Every action is one database transaction, or one access of the control  *)
(* file; what a process read in an earlier transaction it keeps as a       *)
(* snapshot in its local state and may act on it after others have moved.  *)
(*                                                                         *)
(* Abstractions.                                                           *)
(*  - payload_json is a record [worker, stamp, pos, attempts].  "stamp"    *)
(*    stands for all the timestamps of the payload: two payloads written   *)
(*    by different lease updates never have the same text.                 *)
(*  - The frontier is the number pos of batches committed so far of the    *)
(*    Batches a traversal takes (RefreshScan models its content).          *)
(*  - Whether heartbeat_at is older than the stale cutoff is the set       *)
(*    stale; whether the last completed sync run is older than the         *)
(*    background interval is the flag overdue.                             *)
(***************************************************************************)
EXTENDS Integers, FiniteSets

CONSTANTS
  Workers,        \* worker processes (worker.py), each with its own worker_id
  Callers,        \* API requests that may be in progress at the same time
  Endpoints,      \* the control endpoints called: refresh, pause, resume
  MaxJobs,        \* bound: rows ever inserted into jobs
  Batches,        \* batches of one complete traversal
  MaxAttempts,    \* DEFAULT_MAX_ATTEMPTS
  Stamps,         \* values of the payload's timestamps
  MaxTroubles,    \* bound: crashes of workers and of the API service, and pauses
  PauseCost,      \* how many crashes a pause counts for; 0 leaves them unbounded
  SlowWorkers,    \* may a live worker let its lease go stale?
  NoWorker, NoStamp

ASSUME RefreshJobsAssumption ==
  /\ MaxJobs \in Nat \ {0}
  /\ Batches \in Nat \ {0}
  /\ MaxAttempts \in Nat \ {0}
  /\ MaxTroubles \in Nat
  /\ PauseCost \in Nat
  /\ SlowWorkers \in BOOLEAN
  /\ Endpoints \subseteq {"refresh", "pause", "resume"}
  /\ NoWorker \notin Workers
  /\ NoStamp \notin Stamps

VARIABLES
  jobs,       \* the rows of type metadata-refresh
  paused,     \* "paused" of the refresh-control file
  stale,      \* jobs whose heartbeat_at is older than the stale cutoff
  overdue,    \* no sync run completed within the background interval
  worker,     \* local state of each worker
  caller,     \* local state of each API request
  troubles,   \* the crashes so far, and the pauses at their cost
  covered,    \* history: batches committed by each job
  failures,   \* history: failed batches of each job, saturating
  refused     \* history: jobs that met ICloudWebClientNotReadyError

table   == <<jobs, stale, overdue>>
history == <<covered, failures, refused>>
vars == <<jobs, paused, stale, overdue, worker, caller, troubles,
          covered, failures, refused>>

Jobs  == 1..MaxJobs
NoJob == 0

Status  == {"none", "queued", "running", "paused", "completed", "failed"}
Payload == [worker : Workers \cup {NoWorker}, stamp : Stamps \cup {NoStamp},
            pos : 0..(Batches - 1), attempts : 0..MaxAttempts]
Row     == [status : Status, payload : Payload, run : BOOLEAN]

NewPayload == [worker |-> NoWorker, stamp |-> NoStamp, pos |-> 0, attempts |-> 0]
NoRow      == [status |-> "none", payload |-> NewPayload, run |-> FALSE]

BatchPC   == {"claimed", "crawling", "extracting"}
WorkerPC  == {"idle", "enqueue", "recover", "recovering", "claim", "select",
              "claiming"} \cup BatchPC
CallerPC  == {"idle", "pausing", "pauseFlag", "resuming", "resumeEnqueue",
              "resumeFlag"}

Local(P)  == [pc : P, job : Jobs \cup {NoJob}, payload : Payload]
At(pc, j, p) == [pc |-> pc, job |-> j, payload |-> p]
Idle      == At("idle", NoJob, NewPayload)
Go(pc)    == At(pc, NoJob, NewPayload)

Request == [pc : CallerPC, job : Jobs \cup {NoJob}, payload : Payload,
            reply : {"ok", "integrity-error"}]
Calling(pc, j, p) == [pc |-> pc, job |-> j, payload |-> p, reply |-> "ok"]
IdleCall == Calling("idle", NoJob, NewPayload)

-----------------------------------------------------------------------------
(* Rows and payloads *)

With(st)    == {j \in Jobs : jobs[j].status = st}
IsActive(j) == jobs[j].status \in {"queued", "running"}
Active      == {j \in Jobs : IsActive(j)}

HasLease(p)   == p.stamp # NoStamp
ClearLease(p) == [p EXCEPT !.worker = NoWorker, !.stamp = NoStamp]

\* A timestamp that no row and no snapshot contains.
StampsInUse == {jobs[j].payload.stamp : j \in Jobs}
               \cup {worker[w].payload.stamp : w \in Workers}
               \cup {caller[c].payload.stamp : c \in Callers}
FreshStamp  == IF Stamps \subseteq StampsInUse THEN {}
               ELSE {CHOOSE s \in Stamps : s \notin StampsInUse}

\* INSERT INTO jobs; the first unused id.
InsertJob ==
  /\ \/ \E j \in With("none") :
          /\ \A i \in With("none") : j <= i
          /\ jobs' = [jobs EXCEPT ![j] = [NoRow EXCEPT !.status = "queued"]]
     \/ With("none") = {} /\ UNCHANGED jobs
  /\ UNCHANGED <<stale, overdue>>

\* enqueue_metadata_refresh_with_source: coalesces with the active job.
EnqueueOrCoalesce ==
  \/ Active = {} /\ InsertJob
  \/ Active # {} /\ UNCHANGED table

Init ==
  /\ jobs = [j \in Jobs |-> NoRow]
  /\ paused = FALSE
  /\ stale = {}
  /\ overdue = TRUE
  /\ worker = [w \in Workers |-> Idle]
  /\ caller = [c \in Callers |-> IdleCall]
  /\ troubles = 0
  /\ covered = [j \in Jobs |-> {}]
  /\ failures = [j \in Jobs |-> 0]
  /\ refused = {}

-----------------------------------------------------------------------------
(* One poll of a worker: enqueue, recover, claim *)

\* maybe_enqueue_background_refresh reads the control file first.
WakeUp(w) ==
  /\ worker[w].pc = "idle"
  /\ worker' = [worker EXCEPT ![w] = Go(IF paused THEN "recover" ELSE "enqueue")]
  /\ UNCHANGED <<table, paused, caller, troubles, history>>

BackgroundEnqueue(w) ==
  /\ worker[w].pc = "enqueue"
  /\ \/ overdue /\ EnqueueOrCoalesce
     \/ ~overdue /\ UNCHANGED table
  /\ worker' = [worker EXCEPT ![w] = Go("recover")]
  /\ UNCHANGED <<paused, caller, troubles, history>>

\* Mutant: recovery looks for a missing heartbeat only, not for an old one.
IsStaleMissing(j) == ~HasLease(jobs[j].payload)

IsStale(j) == j \in stale \/ ~HasLease(jobs[j].payload)

\* recover_stale_running_jobs: the SELECT and the decision on what it read.
RecoverScan(w) ==
  /\ worker[w].pc = "recover"
  /\ \/ \E j \in With("running") :
          /\ IsStale(j)
          /\ worker' = [worker EXCEPT ![w] = At("recovering", j, jobs[j].payload)]
     \/ /\ \A j \in With("running") : ~IsStale(j)
        /\ worker' = [worker EXCEPT ![w] = Go("claim")]
  /\ UNCHANGED <<table, paused, caller, troubles, history>>

\* Mutant: a lease update does not compare the payload.
HoldsByStatus(w) == jobs[worker[w].job].status = "running"

\* The compare-and-swap of apply_running_job_lease_update.
Holds(w) ==
  /\ jobs[worker[w].job].status = "running"
  /\ jobs[worker[w].job].payload = worker[w].payload

\* attempt_count + 1, saturating: it is only compared with max_attempts.
Incremented(n) == IF n < MaxAttempts THEN n + 1 ELSE n

\* Mutant: recovery counts as a failed attempt.
RequeuedCounting(p) == [ClearLease(p) EXCEPT !.attempts = Incremented(@)]

\* What a recovered job keeps: the frontier and the attempts.
Requeued(p) == ClearLease(p)

RecoverCommit(w) ==
  LET j == worker[w].job IN
  /\ worker[w].pc = "recovering"
  /\ \/ /\ Holds(w)
        /\ jobs' = [jobs EXCEPT ![j].status = "queued",
                                ![j].payload = Requeued(worker[w].payload)]
        /\ stale' = stale \ {j}
     \/ ~Holds(w) /\ UNCHANGED <<jobs, stale>>
  /\ worker' = [worker EXCEPT ![w] = Go("claim")]
  /\ UNCHANGED <<overdue, paused, caller, troubles, history>>

\* claim_next_metadata_refresh_job reads the control file once...
CheckPaused(w) ==
  /\ worker[w].pc = "claim"
  /\ worker' = [worker EXCEPT ![w] = IF paused THEN Idle ELSE Go("select")]
  /\ UNCHANGED <<table, paused, caller, troubles, history>>

\* ... then selects the queued row with the lowest id and reads its payload.
SelectQueued(w) ==
  /\ worker[w].pc = "select"
  /\ \/ /\ With("queued") = {}
        /\ worker' = [worker EXCEPT ![w] = Idle]
     \/ \E j \in With("queued") :
          /\ \A i \in With("queued") : j <= i
          /\ worker' = [worker EXCEPT ![w] = At("claiming", j, jobs[j].payload)]
  /\ UNCHANGED <<table, paused, caller, troubles, history>>

\* The UPDATE compares the status only and writes the payload read before.
ClaimCommit(w) ==
  LET j == worker[w].job IN
  /\ worker[w].pc = "claiming"
  /\ \/ /\ jobs[j].status = "queued"
        /\ \E s \in FreshStamp :
             LET p == [worker[w].payload EXCEPT !.worker = w, !.stamp = s] IN
             /\ jobs' = [jobs EXCEPT ![j].status = "running", ![j].payload = p]
             /\ worker' = [worker EXCEPT ![w] = At("claimed", j, p)]
        /\ stale' = stale \ {j}
     \/ /\ jobs[j].status # "queued"
        /\ worker' = [worker EXCEPT ![w] = Go("select")]
        /\ UNCHANGED <<jobs, stale>>
  /\ UNCHANGED <<overdue, paused, caller, troubles, history>>

-----------------------------------------------------------------------------
(* One batch: run_next_job after the claim *)

\* update_running_payload: a lost lease raises LostLeaseError and ends the poll.
LeaseUpdate(w, next) ==
  LET j == worker[w].job IN
  \/ /\ Holds(w)
     /\ \E s \in FreshStamp :
          LET p == [worker[w].payload EXCEPT !.stamp = s] IN
          /\ jobs' = [jobs EXCEPT ![j].payload = p,
                                  ![j].run = @ \/ worker[w].pc # "claimed"]
          /\ worker' = [worker EXCEPT ![w] = At(next, j, p)]
  \/ /\ ~Holds(w)
     /\ worker' = [worker EXCEPT ![w] = Idle]
     /\ UNCHANGED jobs

\* mark_batch_started: a new payload, but heartbeat_at keeps its value.
StartBatch(w) ==
  /\ worker[w].pc = "claimed"
  /\ LeaseUpdate(w, "crawling")
  /\ UNCHANGED <<stale, overdue, paused, caller, troubles, history>>

\* heartbeat() while crawling, persist_mid_batch_progress while extracting.
Heartbeat(w) ==
  /\ worker[w].pc \in {"crawling", "extracting"}
  /\ LeaseUpdate(w, worker[w].pc)
  /\ stale' = IF Holds(w) THEN stale \ {worker[w].job} ELSE stale
  /\ UNCHANGED <<overdue, paused, caller, troubles, history>>

\* mark_batch_extracting: heartbeat_at keeps its value.
StartExtract(w) ==
  /\ worker[w].pc = "crawling"
  /\ LeaseUpdate(w, "extracting")
  /\ UNCHANGED <<stale, overdue, paused, caller, troubles, history>>

\* Mutant: the traversal ends one batch early.
IsLastEarly(p) == p.pos + 2 >= Batches

\* No directory is left in the frontier after this batch.
IsLast(p) == p.pos + 1 = Batches

\* The final lease update of a batch: the upserts, the frontier and, when the
\* frontier is empty, the deletions and the end of the sync run, in one commit.
CommitBatch(w) ==
  LET j    == worker[w].job
      p    == ClearLease(worker[w].payload)
      last == IsLast(p)
  IN
  /\ worker[w].pc = "extracting"
  /\ \/ /\ Holds(w)
        /\ jobs' = [jobs EXCEPT
                     ![j].status  = IF last THEN "completed" ELSE "queued",
                     ![j].payload = IF last THEN NewPayload
                                    ELSE [p EXCEPT !.pos = @ + 1]]
        /\ covered' = [covered EXCEPT ![j] = @ \cup {p.pos + 1}]
        /\ stale' = stale \ {j}
        /\ overdue' = (overdue /\ ~last)
     \/ ~Holds(w) /\ UNCHANGED <<table, covered>>
  /\ worker' = [worker EXCEPT ![w] = Idle]
  /\ UNCHANGED <<paused, caller, troubles, failures, refused>>

\* The exception handler of run_next_job.
FailBatch(w) ==
  LET j == worker[w].job
      n == Incremented(worker[w].payload.attempts)
      p == [ClearLease(worker[w].payload) EXCEPT !.attempts = n]
  IN
  /\ worker[w].pc \in BatchPC
  /\ \E notReady \in BOOLEAN :
       LET final == notReady \/ n = MaxAttempts IN
       /\ notReady => worker[w].pc # "extracting"
       /\ \/ /\ Holds(w)
             /\ jobs' = [jobs EXCEPT
                          ![j].status  = IF final THEN "failed" ELSE "queued",
                          ![j].payload = p]
             /\ stale' = stale \ {j}
             /\ overdue' = (overdue /\ ~(final /\ jobs[j].run))
             /\ failures' = [failures EXCEPT ![j] = Incremented(@)]
             /\ refused' = IF notReady THEN refused \cup {j} ELSE refused
          \/ ~Holds(w) /\ UNCHANGED <<table, failures, refused>>
  /\ worker' = [worker EXCEPT ![w] = Idle]
  /\ UNCHANGED <<paused, caller, troubles, covered>>

-----------------------------------------------------------------------------
(* The control endpoints of api/refresh.py *)

RequestRefresh(c) ==
  /\ "refresh" \in Endpoints
  /\ caller[c].pc = "idle"
  /\ EnqueueOrCoalesce
  /\ caller' = [caller EXCEPT ![c] = IdleCall]
  /\ UNCHANGED <<paused, worker, troubles, history>>

\* pause_background_refresh: SELECT the active rows...
PauseRead(c) ==
  /\ "pause" \in Endpoints
  /\ troubles + PauseCost <= MaxTroubles
  /\ caller[c].pc = "idle"
  /\ caller' = [caller EXCEPT ![c] =
       IF Active = {} THEN Calling("pauseFlag", NoJob, NewPayload)
       ELSE LET j == CHOOSE i \in Active : TRUE
            IN  Calling("pausing", j, jobs[j].payload)]
  /\ troubles' = troubles + PauseCost
  /\ UNCHANGED <<table, paused, worker, history>>

\* ... then UPDATE by id what was read.  The ORM writes payload_json only when
\* clearing the lease changed its text.
Overwrite(c, status) ==
  LET j == caller[c].job
      p == caller[c].payload
  IN  jobs' = [jobs EXCEPT
                ![j].status  = status,
                ![j].payload = IF HasLease(p) THEN ClearLease(p) ELSE @]

PauseCommit(c) ==
  /\ caller[c].pc = "pausing"
  /\ Overwrite(c, "paused")
  /\ stale' = stale \ {caller[c].job}
  /\ caller' = [caller EXCEPT ![c] = Calling("pauseFlag", NoJob, NewPayload)]
  /\ UNCHANGED <<overdue, paused, worker, troubles, history>>

PauseFlag(c) ==
  /\ caller[c].pc = "pauseFlag"
  /\ paused' = TRUE
  /\ caller' = [caller EXCEPT ![c] = IdleCall]
  /\ UNCHANGED <<table, worker, troubles, history>>

\* resume_background_refresh: the paused row with the highest id.
ResumeRead(c) ==
  /\ "resume" \in Endpoints
  /\ caller[c].pc = "idle"
  /\ \/ \E j \in With("paused") :
          /\ \A i \in With("paused") : i <= j
          /\ caller' = [caller EXCEPT ![c] = Calling("resuming", j, jobs[j].payload)]
     \/ /\ With("paused") = {}
        /\ caller' = [caller EXCEPT ![c] = Calling("resumeEnqueue", NoJob, NewPayload)]
  /\ UNCHANGED <<table, paused, worker, troubles, history>>

\* Mutant: the rows have no unique index, and nothing else is checked.
ResumeUnindexed(c) ==
  /\ caller[c].pc = "resuming"
  /\ Overwrite(c, "queued")
  /\ stale' = stale \ {caller[c].job}
  /\ caller' = [caller EXCEPT ![c] = Calling("resumeFlag", NoJob, NewPayload)]
  /\ UNCHANGED <<overdue, paused, worker, troubles, history>>

\* uq_jobs_active_metadata_refresh: the UPDATE raises IntegrityError when
\* another row is active, and the control file is not written.
ResumeCommit(c) ==
  LET j == caller[c].job IN
  /\ caller[c].pc = "resuming"
  /\ \/ /\ Active \subseteq {j}
        /\ Overwrite(c, "queued")
        /\ stale' = stale \ {j}
        /\ caller' = [caller EXCEPT ![c] = Calling("resumeFlag", NoJob, NewPayload)]
     \/ /\ ~(Active \subseteq {j})
        /\ caller' = [caller EXCEPT ![c] = [IdleCall EXCEPT !.reply = "integrity-error"]]
        /\ UNCHANGED <<jobs, stale>>
  /\ UNCHANGED <<overdue, paused, worker, troubles, history>>

ResumeEnqueue(c) ==
  /\ caller[c].pc = "resumeEnqueue"
  /\ EnqueueOrCoalesce
  /\ caller' = [caller EXCEPT ![c] = Calling("resumeFlag", NoJob, NewPayload)]
  /\ UNCHANGED <<paused, worker, troubles, history>>

ResumeFlag(c) ==
  /\ caller[c].pc = "resumeFlag"
  /\ paused' = FALSE
  /\ caller' = [caller EXCEPT ![c] = IdleCall]
  /\ UNCHANGED <<table, worker, troubles, history>>

-----------------------------------------------------------------------------
(* The environment: crashes and the passing of time *)

WorkerCrash(w) ==
  /\ troubles < MaxTroubles
  /\ worker[w].pc # "idle"
  /\ worker' = [worker EXCEPT ![w] = Idle]
  /\ troubles' = troubles + 1
  /\ UNCHANGED <<table, paused, caller, history>>

ServiceCrash(c) ==
  /\ troubles < MaxTroubles
  /\ caller[c].pc # "idle"
  /\ caller' = [caller EXCEPT ![c] = IdleCall]
  /\ troubles' = troubles + 1
  /\ UNCHANGED <<table, paused, worker, history>>

\* More than stale_after_seconds pass without a heartbeat of job j.
LeaseAges(j) ==
  /\ jobs[j].status = "running"
  /\ j \notin stale
  /\ SlowWorkers \/ \A w \in Workers : ~(worker[w].pc \in BatchPC
                                         /\ worker[w].job = j /\ Holds(w))
  /\ stale' = stale \cup {j}
  /\ UNCHANGED <<jobs, overdue, paused, worker, caller, troubles, history>>

IntervalElapses ==
  /\ ~overdue
  /\ overdue' = TRUE
  /\ UNCHANGED <<jobs, stale, paused, worker, caller, troubles, history>>

WorkerNext(w) ==
  \/ WakeUp(w) \/ BackgroundEnqueue(w)
  \/ RecoverScan(w) \/ RecoverCommit(w)
  \/ CheckPaused(w) \/ SelectQueued(w) \/ ClaimCommit(w)
  \/ StartBatch(w) \/ Heartbeat(w) \/ StartExtract(w)
  \/ CommitBatch(w) \/ FailBatch(w)

CallerNext(c) ==
  \/ RequestRefresh(c)
  \/ PauseRead(c) \/ PauseCommit(c) \/ PauseFlag(c)
  \/ ResumeRead(c) \/ ResumeCommit(c) \/ ResumeEnqueue(c) \/ ResumeFlag(c)

Environment ==
  \/ \E w \in Workers : WorkerCrash(w)
  \/ \E c \in Callers : ServiceCrash(c)
  \/ \E j \in Jobs : LeaseAges(j)
  \/ IntervalElapses

Next ==
  \/ \E w \in Workers : WorkerNext(w)
  \/ \E c \in Callers : CallerNext(c)
  \/ Environment

Spec == Init /\ [][Next]_vars

\* The worker loop polls for ever and is restarted when it dies, a batch is
\* bounded by its file limit, and a lease nobody renews ages.
EndBatch(w) == CommitBatch(w) \/ FailBatch(w)

Fairness ==
  /\ \A w \in Workers :
       /\ WF_vars(WakeUp(w))      /\ WF_vars(BackgroundEnqueue(w))
       /\ WF_vars(RecoverScan(w)) /\ WF_vars(RecoverCommit(w))
       /\ WF_vars(CheckPaused(w)) /\ WF_vars(SelectQueued(w))
       /\ WF_vars(ClaimCommit(w)) /\ WF_vars(StartBatch(w))
       /\ WF_vars(StartExtract(w)) /\ WF_vars(EndBatch(w))
  /\ \A j \in Jobs : WF_vars(LeaseAges(j))

FairSpec == Spec /\ Fairness

-----------------------------------------------------------------------------
(* Properties *)

\* The types of the variables of the job protocol.
TypeOK ==
  /\ jobs \in [Jobs -> Row]
  /\ paused \in BOOLEAN
  /\ stale \subseteq Jobs
  /\ overdue \in BOOLEAN
  /\ worker \in [Workers -> Local(WorkerPC)]
  /\ caller \in [Callers -> Request]
  /\ troubles \in 0..MaxTroubles
  /\ covered \in [Jobs -> SUBSET (1..Batches)]
  /\ failures \in [Jobs -> 0..MaxAttempts]
  /\ refused \subseteq Jobs

\* At most one refresh job is queued or running, although only the INSERT and
\* the UPDATE of resume are guarded by the index: no lease update, recovery or
\* claim ever makes a second one active.
OneActiveJob == \A i, j \in Active : i = j

\* Of all the workers in the middle of a batch, however slow or late, at most
\* one still holds the lease its next lease update is checked against.
LeaseExclusive ==
  \A v, w \in Workers :
    worker[v].pc \in BatchPC /\ worker[w].pc \in BatchPC /\ Holds(v) /\ Holds(w)
      => v = w

\* A payload saved in a row, or in any snapshot that may still be written back
\* over it (a lease, a claim, a recovery, a pause or a resume), never claims
\* more than the batches whose files were committed, nor more attempts than
\* batches that failed.
Sound(j, p) == 1..p.pos \subseteq covered[j] /\ p.attempts <= failures[j]

SnapshotsSound ==
  /\ \A j \in Jobs : Sound(j, jobs[j].payload)
  /\ \A w \in Workers : worker[w].job # NoJob => Sound(worker[w].job, worker[w].payload)
  /\ \A c \in Callers : caller[c].job # NoJob => Sound(caller[c].job, caller[c].payload)

\* A job is completed (and the deletions of its sync run applied) only after
\* every batch of the traversal was committed, through all crashes, recoveries,
\* lost leases, pauses and resumes.
CompletedCovers ==
  \A j \in With("completed") : covered[j] = 1..Batches

\* Recovery and lost leases do not consume the retry budget: a job fails only
\* after MaxAttempts failed batches or a client that is not ready.
RetryBudget ==
  \A j \in With("failed") : j \in refused \/ failures[j] = MaxAttempts

\* Who acts on a job knows it, and a lease carries the worker's own id.
Assigned ==
  /\ \A w \in Workers :
       /\ worker[w].pc \in {"recovering", "claiming"} \cup BatchPC
            => worker[w].job # NoJob /\ jobs[worker[w].job].status # "none"
       /\ worker[w].pc \in BatchPC => worker[w].payload.worker = w
  /\ \A c \in Callers :
       caller[c].pc \in {"pausing", "resuming"}
         => caller[c].job # NoJob /\ jobs[caller[c].job].status # "none"

\* The inductive invariant of the protocol: what a job, a worker and a caller
\* know is sound, one job is active, and ended jobs ended for a reason.
RefreshInv ==
  /\ TypeOK
  /\ OneActiveJob
  /\ SnapshotsSound
  /\ Assigned
  /\ CompletedCovers
  /\ RetryBudget

\* A batch is committed only by the worker that holds the lease of its job, and
\* only while the job is running: a worker whose lease was recovered, paused or
\* taken over writes nothing.
OnlyHolderCommits ==
  [][\A j \in Jobs : covered'[j] # covered[j] =>
       \E w \in Workers : /\ worker'[w] # worker[w]
                          /\ worker[w].job = j
                          /\ jobs[j].status = "running"
                          /\ jobs[j].payload.worker = w]_vars

\* Every refresh that is queued ends or is paused: it completes or fails, although
\* workers crash in the middle of its batches and hold leases that only age out.
RefreshEnds ==
  \A j \in Jobs : jobs[j].status = "queued"
                     ~> jobs[j].status \in {"completed", "failed", "paused"} \/ paused

-----------------------------------------------------------------------------
(* Refinement *)

PhaseOf(status) ==
  CASE status = "none" -> "absent"
    [] status \in {"queued", "running"} -> "active"
    [] status = "paused" -> "parked"
    [] status = "completed" -> "done"
    [] status = "failed" -> "failed"

phases == [j \in Jobs |-> PhaseOf(jobs[j].status)]

Lifecycle == INSTANCE RefreshLifecycle WITH phase <- phases

\* The job protocol implements RefreshLifecycle: batches are committed in order,
\* one job is active at a time, a job is done when all its batches are committed.
ImplementsLifecycle == Lifecycle!Spec

-----------------------------------------------------------------------------
(* What the documentation says and the code does not do *)

\* docs/operations.md: operators can pause and resume refresh work.  A resume
\* never ends in an uncaught IntegrityError.
ResumeSucceeds == \A c \in Callers : caller[c].reply = "ok"

\* docs/operations.md: pausing moves the refresh jobs to paused and releases
\* their lease.  Once no pause or resume is in progress and the control file
\* says paused, no job is running.
PausedMeansIdle ==
  paused /\ (\A c \in Callers : caller[c].pc = "idle") => With("running") = {}

\* docs/operations.md and README.md: work resumes from the saved frontier,
\* which is never discarded: the saved position of a job only moves back when
\* the job completes, and a completed job stays completed.
FrontierKept ==
  [][\A j \in Jobs :
       /\ jobs'[j].payload.pos < jobs[j].payload.pos => jobs'[j].status = "completed"
       /\ jobs[j].status = "completed" => jobs'[j].status = "completed"]_vars
=============================================================================
