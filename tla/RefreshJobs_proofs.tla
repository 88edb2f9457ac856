--------------------------- MODULE RefreshJobs_proofs ---------------------------
(***************************************************************************)
(* Proofs about RefreshJobs, for every set of workers and callers and all  *)
(* values of the bounds.                                                   *)
(***************************************************************************)
EXTENDS RefreshJobs, TLAPS

\* A stamp not in use is a stamp.
LEMMA FreshStampType == FreshStamp \subseteq Stamps
  BY DEF FreshStamp

\* The constants the actions write are of the right types.
LEMMA RowTypes ==
  /\ NewPayload \in Payload
  /\ NoRow \in Row
  /\ Idle \in Local(WorkerPC)
  /\ IdleCall \in Request
  BY RefreshJobsAssumption
     DEF NewPayload, Payload, NoRow, Row, Status, Idle, Local, At, NoJob,
         WorkerPC, BatchPC, IdleCall, Calling, Request, CallerPC

\* Clearing the lease keeps the frontier and the attempts of a payload.
LEMMA ClearLeaseType ==
  ASSUME NEW p \in Payload
  PROVE  /\ ClearLease(p) \in Payload
         /\ ClearLease(p).pos = p.pos
         /\ ClearLease(p).attempts = p.attempts
  BY DEF ClearLease, Payload

\* An insertion keeps the table well typed.
LEMMA InsertJobType ==
  ASSUME TypeOK, InsertJob
  PROVE  jobs' \in [Jobs -> Row] /\ stale' \subseteq Jobs /\ overdue' \in BOOLEAN
<1>1. [NoRow EXCEPT !.status = "queued"] \in Row
  BY RowTypes DEF Row, Status
<1>2. jobs' \in [Jobs -> Row]
  BY <1>1 DEF TypeOK, InsertJob, With
<1>. QED  BY <1>2 DEF TypeOK, InsertJob

\* So does an enqueue, whether it inserts or finds an active job.
LEMMA EnqueueType ==
  ASSUME TypeOK, EnqueueOrCoalesce
  PROVE  jobs' \in [Jobs -> Row] /\ stale' \subseteq Jobs /\ overdue' \in BOOLEAN
  BY InsertJobType DEF TypeOK, EnqueueOrCoalesce, table

\* A lease update writes a well-typed row and leaves a well-typed worker.
LEMMA LeaseUpdateType ==
  ASSUME TypeOK, NEW w \in Workers, NEW next \in BatchPC, LeaseUpdate(w, next),
         worker[w].job # NoJob
  PROVE  jobs' \in [Jobs -> Row] /\ worker' \in [Workers -> Local(WorkerPC)]
<1>. DEFINE j == worker[w].job
<1>1. /\ worker[w] \in Local(WorkerPC)
      /\ j \in Jobs
      /\ worker[w].payload \in Payload
      /\ jobs[j] \in Row
  BY DEF TypeOK, Local, NoJob
<1>2. CASE Holds(w)
  <2>1. PICK s \in FreshStamp :
          LET p == [worker[w].payload EXCEPT !.stamp = s]
          IN  /\ jobs' = [jobs EXCEPT ![j].payload = p,
                                      ![j].run = @ \/ worker[w].pc # "claimed"]
              /\ worker' = [worker EXCEPT ![w] = At(next, j, p)]
    BY <1>2 DEF LeaseUpdate
  <2>. DEFINE p == [worker[w].payload EXCEPT !.stamp = s]
  <2>2. p \in Payload
    BY <1>1, FreshStampType DEF Payload
  <2>3. At(next, j, p) \in Local(WorkerPC)
    BY <1>1, <2>2 DEF At, Local, WorkerPC
  <2>4. [jobs[j] EXCEPT !.payload = p, !.run = @ \/ worker[w].pc # "claimed"] \in Row
    BY <1>1, <2>2 DEF Row
  <2>. HIDE DEF p
  <2>. QED  BY <1>1, <2>1, <2>3, <2>4 DEF TypeOK, p
<1>3. CASE ~Holds(w)
  BY <1>3, RowTypes DEF LeaseUpdate, TypeOK
<1>. QED  BY <1>2, <1>3
-----------------------------------------------------------------------------
(* The invariant, split by the process or row it is about *)

RowOK(j) ==
  /\ Sound(j, jobs[j].payload)
  /\ jobs[j].status = "completed" => covered[j] = 1..Batches
  /\ jobs[j].status = "failed" => j \in refused \/ failures[j] = MaxAttempts

Named(x, pcs) ==
  /\ x.pc \in pcs => x.job # NoJob /\ jobs[x.job].status # "none"
  /\ x.job # NoJob => Sound(x.job, x.payload)

WorkerOK(w) ==
  /\ Named(worker[w], {"recovering", "claiming"} \cup BatchPC)
  /\ worker[w].pc \in BatchPC => worker[w].payload.worker = w

CallerOK(c) == Named(caller[c], {"pausing", "resuming"})

\* The invariant is the conjunction of its parts.
LEMMA InvParts ==
  RefreshInv <=> /\ TypeOK
                 /\ OneActiveJob
                 /\ \A j \in Jobs : RowOK(j)
                 /\ \A w \in Workers : WorkerOK(w)
                 /\ \A c \in Callers : CallerOK(c)
  BY DEF RefreshInv, SnapshotsSound, Assigned, CompletedCovers, RetryBudget,
         RowOK, WorkerOK, CallerOK, Named, With

\* What no step undoes: a row that exists, a committed batch, a failure.
Grows ==
  \A j \in Jobs :
    /\ jobs[j].status # "none" => jobs'[j].status # "none"
    /\ covered[j] \subseteq covered'[j]
    /\ failures[j] <= failures'[j]
    /\ j \in refused => j \in refused'

\* A payload that is fixed stays sound.
SoundNext(j, p) == 1..p.pos \subseteq covered'[j] /\ p.attempts <= failures'[j]

\* What a snapshot claims stays true: batches and failures are never undone.
LEMMA SoundGrows ==
  ASSUME TypeOK, TypeOK', Grows, NEW j \in Jobs, NEW p \in Payload, Sound(j, p)
  PROVE  SoundNext(j, p)
<1>1. /\ p.attempts \in Nat
      /\ failures[j] \in Nat
      /\ failures'[j] \in Nat
  BY RefreshJobsAssumption DEF TypeOK, Payload
<1>. QED  BY <1>1 DEF Grows, Sound, SoundNext

\* A worker that did not move is still right after a step that only grows.
LEMMA WorkerUnmoved ==
  ASSUME TypeOK, TypeOK', Grows, NEW w \in Workers, WorkerOK(w),
         worker'[w] = worker[w]
  PROVE  WorkerOK(w)'
<1>1. worker[w] \in Local(WorkerPC)
  BY DEF TypeOK
<1>2. worker[w].job # NoJob => worker[w].job \in Jobs /\ worker[w].payload \in Payload
  BY <1>1 DEF Local
<1>3. worker[w].job # NoJob => Sound(worker[w].job, worker[w].payload)'
  BY <1>2, SoundGrows DEF WorkerOK, Named, Sound, SoundNext
<1>. QED  BY <1>2, <1>3 DEF WorkerOK, Named, Grows

\* A caller that did not move is still right after a step that only grows.
LEMMA CallerUnmoved ==
  ASSUME TypeOK, TypeOK', Grows, NEW c \in Callers, CallerOK(c),
         caller'[c] = caller[c]
  PROVE  CallerOK(c)'
<1>1. caller[c] \in Request
  BY DEF TypeOK
<1>2. caller[c].job # NoJob => caller[c].job \in Jobs /\ caller[c].payload \in Payload
  BY <1>1 DEF Request
<1>3. caller[c].job # NoJob => Sound(caller[c].job, caller[c].payload)'
  BY <1>2, SoundGrows DEF CallerOK, Named, Sound, SoundNext
<1>. QED  BY <1>2, <1>3 DEF CallerOK, Named, Grows

\* A row that was not written is still right after a step that only grows.
LEMMA RowUnmoved ==
  ASSUME TypeOK, TypeOK', Grows, NEW j \in Jobs, RowOK(j), jobs'[j] = jobs[j]
  PROVE  RowOK(j)'
<1>1. jobs[j] \in Row /\ jobs[j].payload \in Payload
  BY DEF TypeOK, Row
<1>2. Sound(j, jobs[j].payload)'
  BY <1>1, SoundGrows DEF RowOK, Sound, SoundNext
<1>3. covered'[j] \subseteq 1..Batches
  BY DEF TypeOK
<1>4. failures[j] \in 0..MaxAttempts /\ failures'[j] \in 0..MaxAttempts
  BY DEF TypeOK
<1>5. failures[j] = MaxAttempts => failures'[j] = MaxAttempts
  BY <1>4, RefreshJobsAssumption DEF Grows
<1>. QED  BY <1>2, <1>3, <1>5 DEF RowOK, Grows

\* The invariant of the next state, in the same parts.
LEMMA InvPartsNext ==
  RefreshInv' <=> /\ TypeOK'
                  /\ OneActiveJob'
                  /\ \A j \in Jobs : RowOK(j)'
                  /\ \A w \in Workers : WorkerOK(w)'
                  /\ \A c \in Callers : CallerOK(c)'
  BY DEF RefreshInv, SnapshotsSound, Assigned, CompletedCovers, RetryBudget,
         RowOK, WorkerOK, CallerOK, Named, With

\* A step keeps the invariant when the rows and processes it moves are right
\* afterwards and it undoes nothing the others rely on.
LEMMA StepKeepsInv ==
  ASSUME RefreshInv, TypeOK', OneActiveJob', Grows,
         \A j \in Jobs : jobs'[j] = jobs[j] \/ RowOK(j)',
         \A w \in Workers : worker'[w] = worker[w] \/ WorkerOK(w)',
         \A c \in Callers : caller'[c] = caller[c] \/ CallerOK(c)'
  PROVE  RefreshInv'
<1>1. TypeOK
  BY DEF RefreshInv
<1>2. ASSUME NEW j \in Jobs PROVE RowOK(j)'
  BY <1>1, InvParts, RowUnmoved
<1>3. ASSUME NEW w \in Workers PROVE WorkerOK(w)'
  BY <1>1, InvParts, WorkerUnmoved
<1>4. ASSUME NEW c \in Callers PROVE CallerOK(c)'
  BY <1>1, InvParts, CallerUnmoved
<1>. QED  BY <1>2, <1>3, <1>4, InvPartsNext

\* A step that changes no row and no history grows, and keeps one job active.
LEMMA GrowsByStuttering ==
  ASSUME TypeOK, UNCHANGED <<jobs, covered, failures, refused>>
  PROVE  Grows /\ (OneActiveJob => OneActiveJob')
<1>1. \A j \in Jobs : failures[j] \in Int
  BY RefreshJobsAssumption DEF TypeOK
<1>. QED  BY <1>1 DEF Grows, OneActiveJob, Active, IsActive

\* A worker sent to a step outside recovery, claim and batch holds no job.
LEMMA GoOK ==
  ASSUME NEW pc \in WorkerPC \ ({"recovering", "claiming"} \cup BatchPC)
  PROVE  /\ Go(pc) \in Local(WorkerPC)
         /\ Go(pc).pc = pc
         /\ Go(pc).job = NoJob
  BY RowTypes DEF Go, At, Local, NoJob

\* An idle worker holds no job.
LEMMA IdleOK == Idle.pc = "idle" /\ Idle.job = NoJob
  BY DEF Idle, At

\* A caller sent to a step without a row holds no job.
LEMMA CallingOK ==
  ASSUME NEW pc \in CallerPC
  PROVE  /\ Calling(pc, NoJob, NewPayload) \in Request
         /\ Calling(pc, NoJob, NewPayload).pc = pc
         /\ Calling(pc, NoJob, NewPayload).job = NoJob
  BY RowTypes DEF Calling, Request, NoJob

\* A worker that only moves on, taking no job.
LEMMA WorkerGoes ==
  ASSUME RefreshInv, NEW w \in Workers,
         NEW x \in Local(WorkerPC),
         x.pc \notin {"recovering", "claiming"} \cup BatchPC, x.job = NoJob,
         worker' = [worker EXCEPT ![w] = x],
         UNCHANGED <<jobs, covered, failures, refused, paused, stale, caller>>,
         overdue' \in BOOLEAN, troubles' \in 0..MaxTroubles
  PROVE  RefreshInv'
<1>1. TypeOK /\ OneActiveJob
  BY DEF RefreshInv
<1>2. TypeOK'
  BY <1>1 DEF TypeOK
<1>3. worker'[w] = x
  BY <1>1 DEF TypeOK
<1>4. WorkerOK(w)'
  BY <1>3 DEF WorkerOK, Named
<1>5. \A v \in Workers : worker'[v] = worker[v] \/ WorkerOK(v)'
  BY <1>1, <1>4 DEF TypeOK
<1>. QED  BY <1>1, <1>2, <1>5, GrowsByStuttering, StepKeepsInv

\* A worker that reads a row and keeps what it read.
LEMMA WorkerReads ==
  ASSUME RefreshInv, NEW w \in Workers, NEW j \in Jobs,
         NEW pc \in {"recovering", "claiming"}, jobs[j].status # "none",
         worker' = [worker EXCEPT ![w] = At(pc, j, jobs[j].payload)],
         UNCHANGED <<table, paused, caller, troubles, history>>
  PROVE  RefreshInv'
<1>1. TypeOK /\ OneActiveJob /\ RowOK(j)
  BY InvParts
<1>2. jobs[j].payload \in Payload
  BY <1>1 DEF TypeOK, Row
<1>3. At(pc, j, jobs[j].payload) \in Local(WorkerPC)
  BY <1>2 DEF At, Local, WorkerPC
<1>4. TypeOK'
  BY <1>1, <1>3 DEF TypeOK, table, history
<1>5. worker'[w] = At(pc, j, jobs[j].payload)
  BY <1>1 DEF TypeOK
<1>6. pc \notin BatchPC /\ j # NoJob
  BY DEF BatchPC, Jobs, NoJob
<1>7. WorkerOK(w)'
  BY <1>1, <1>5, <1>6 DEF WorkerOK, Named, At, RowOK, Sound, table, history
<1>8. \A v \in Workers : worker'[v] = worker[v] \/ WorkerOK(v)'
  BY <1>1, <1>7 DEF TypeOK
<1>. QED  BY <1>1, <1>4, <1>8, GrowsByStuttering, StepKeepsInv DEF table, history

\* maybe_enqueue_background_refresh, its checks: the worker only moves on.
LEMMA WakeUpInv ==
  ASSUME RefreshInv, NEW w \in Workers, WakeUp(w)
  PROVE  RefreshInv'
<1>1. Go("recover") \in Local(WorkerPC) /\ Go("enqueue") \in Local(WorkerPC)
  BY GoOK DEF WorkerPC, BatchPC
<1>. QED  BY <1>1, GoOK, WorkerGoes
          DEF WakeUp, WorkerPC, BatchPC, RefreshInv, TypeOK, table, history

\* recover_stale_running_jobs, its query: the worker keeps a row it read.
LEMMA RecoverScanInv ==
  ASSUME RefreshInv, NEW w \in Workers, RecoverScan(w)
  PROVE  RefreshInv'
<1>1. CASE \E j \in With("running") :
             worker' = [worker EXCEPT ![w] = At("recovering", j, jobs[j].payload)]
  BY <1>1, WorkerReads DEF RecoverScan, With
<1>2. CASE worker' = [worker EXCEPT ![w] = Go("claim")]
  BY <1>2, GoOK, WorkerGoes
     DEF RecoverScan, WorkerPC, BatchPC, RefreshInv, TypeOK, table, history
<1>. QED  BY <1>1, <1>2 DEF RecoverScan

\* The claim's look at the control file: the worker only moves on.
LEMMA CheckPausedInv ==
  ASSUME RefreshInv, NEW w \in Workers, CheckPaused(w)
  PROVE  RefreshInv'
<1>1. CASE worker' = [worker EXCEPT ![w] = Idle]
  BY <1>1, IdleOK, RowTypes, WorkerGoes
     DEF CheckPaused, BatchPC, RefreshInv, TypeOK, table, history
<1>2. CASE worker' = [worker EXCEPT ![w] = Go("select")]
  BY <1>2, GoOK, WorkerGoes
     DEF CheckPaused, WorkerPC, BatchPC, RefreshInv, TypeOK, table, history
<1>. QED  BY <1>1, <1>2 DEF CheckPaused

\* The claim's query: the worker keeps a queued row it read.
LEMMA SelectQueuedInv ==
  ASSUME RefreshInv, NEW w \in Workers, SelectQueued(w)
  PROVE  RefreshInv'
<1>1. CASE worker' = [worker EXCEPT ![w] = Idle]
  BY <1>1, IdleOK, RowTypes, WorkerGoes
     DEF SelectQueued, BatchPC, RefreshInv, TypeOK, table, history
<1>2. CASE \E j \in With("queued") :
             worker' = [worker EXCEPT ![w] = At("claiming", j, jobs[j].payload)]
  BY <1>2, WorkerReads DEF SelectQueued, With
<1>. QED  BY <1>1, <1>2 DEF SelectQueued

\* A crash of the worker forgets what it held.
LEMMA WorkerCrashInv ==
  ASSUME RefreshInv, NEW w \in Workers, WorkerCrash(w)
  PROVE  RefreshInv'
<1>1. troubles' \in 0..MaxTroubles
  BY RefreshJobsAssumption DEF WorkerCrash, RefreshInv, TypeOK
<1>. QED  BY <1>1, IdleOK, RowTypes, WorkerGoes
          DEF WorkerCrash, BatchPC, RefreshInv, TypeOK, table, history

-----------------------------------------------------------------------------
(* Steps that write a row *)

\* One row is rewritten and stays a row; if it ends up active, no other was.
LEMMA RowWritten ==
  ASSUME RefreshInv, NEW j \in Jobs, NEW r \in Row,
         jobs' = [jobs EXCEPT ![j] = r], r.status # "none",
         r.status \in {"queued", "running"} => Active \subseteq {j},
         UNCHANGED history
  PROVE  /\ Grows
         /\ OneActiveJob'
         /\ jobs' \in [Jobs -> Row]
         /\ jobs'[j] = r
         /\ \A i \in Jobs : i # j => jobs'[i] = jobs[i]
<1>1. TypeOK /\ OneActiveJob
  BY DEF RefreshInv
<1>2. /\ jobs' \in [Jobs -> Row]
      /\ jobs'[j] = r
      /\ \A i \in Jobs : i # j => jobs'[i] = jobs[i]
  BY <1>1 DEF TypeOK
<1>3. Grows
  <2>1. \A i \in Jobs : failures[i] \in Int
    BY <1>1, RefreshJobsAssumption DEF TypeOK
  <2>. QED  BY <1>2, <2>1 DEF Grows, history
<1>4. OneActiveJob'
  BY <1>1, <1>2 DEF OneActiveJob, Active, IsActive
<1>. QED  BY <1>2, <1>3, <1>4

\* Writing a payload known to be sound into a row that was active leaves the
\* invariant true, whatever the worker or the caller that did it does next.
LEMMA SoundRowWritten ==
  ASSUME RefreshInv, NEW j \in Jobs, NEW r \in Row,
         jobs' = [jobs EXCEPT ![j] = r],
         r.status \in {"queued", "running", "paused"},
         r.status \in {"queued", "running"} => Active \subseteq {j},
         Sound(j, r.payload),
         UNCHANGED history,
         paused' \in BOOLEAN, overdue' \in BOOLEAN, stale' \subseteq Jobs,
         troubles' \in 0..MaxTroubles,
         worker' \in [Workers -> Local(WorkerPC)],
         caller' \in [Callers -> Request],
         \A w \in Workers : worker'[w] = worker[w] \/ WorkerOK(w)',
         \A c \in Callers : caller'[c] = caller[c] \/ CallerOK(c)'
  PROVE  RefreshInv'
<1>1. TypeOK /\ OneActiveJob
  BY DEF RefreshInv
<1>2. /\ Grows
      /\ OneActiveJob'
      /\ jobs' \in [Jobs -> Row]
      /\ jobs'[j] = r
      /\ \A i \in Jobs : i # j => jobs'[i] = jobs[i]
  BY RowWritten
<1>3. TypeOK'
  BY <1>1, <1>2 DEF TypeOK, history
<1>4. RowOK(j)'
  BY <1>2 DEF RowOK, Sound, history
<1>. QED  BY <1>2, <1>3, <1>4, StepKeepsInv

\* A worker in a recovery, a claim or a batch holds a known job, soundly read.
LEMMA HeldJob ==
  ASSUME RefreshInv, NEW w \in Workers,
         worker[w].pc \in {"recovering", "claiming"} \cup BatchPC
  PROVE  /\ worker[w].job \in Jobs
         /\ worker[w].payload \in Payload
         /\ jobs[worker[w].job] \in Row
         /\ jobs[worker[w].job].status # "none"
         /\ Sound(worker[w].job, worker[w].payload)
         /\ worker[w].pc \in BatchPC => worker[w].payload.worker = w
<1>1. TypeOK /\ WorkerOK(w)
  BY InvParts
<1>2. worker[w] \in Local(WorkerPC)
  BY <1>1 DEF TypeOK
<1>. QED  BY <1>1, <1>2 DEF WorkerOK, Named, Local, TypeOK

\* A queued or running job is the only active one.
LEMMA OnlyActive ==
  ASSUME RefreshInv, NEW j \in Jobs, jobs[j].status \in {"queued", "running"}
  PROVE  Active \subseteq {j}
  BY DEF RefreshInv, OneActiveJob, Active, IsActive

\* Recovery requeues a running row with its frontier: the snapshot is sound.
LEMMA RecoverCommitInv ==
  ASSUME RefreshInv, NEW w \in Workers, RecoverCommit(w)
  PROVE  RefreshInv'
<1>. DEFINE j == worker[w].job
            r == [jobs[j] EXCEPT !.status = "queued",
                                 !.payload = ClearLease(worker[w].payload)]
<1>1. worker[w].pc = "recovering"
  BY DEF RecoverCommit
<1>2. j \in Jobs /\ worker[w].payload \in Payload /\ jobs[j] \in Row
      /\ Sound(j, worker[w].payload)
  BY <1>1, HeldJob
<1>3. TypeOK
  BY DEF RefreshInv
<1>g. Go("claim") \in Local(WorkerPC) /\ Go("claim").pc = "claim" /\ Go("claim").job = NoJob
  BY GoOK DEF WorkerPC, BatchPC
<1>4. CASE Holds(w) /\ jobs' = [jobs EXCEPT ![j].status = "queued",
                                  ![j].payload = Requeued(worker[w].payload)]
                    /\ stale' = stale \ {j}
  <2>1. r \in Row /\ r.status = "queued"
    BY <1>2, ClearLeaseType DEF Row, Status
  <2>2. Sound(j, r.payload)
    BY <1>2, ClearLeaseType DEF Sound, Row
  <2>3. jobs' = [jobs EXCEPT ![j] = r]
    BY <1>3, <1>2, <1>4 DEF TypeOK, Requeued
  <2>4. Active \subseteq {j}
    BY <1>2, <1>4, OnlyActive DEF Holds
  <2>5. worker' = [worker EXCEPT ![w] = Go("claim")]
    BY DEF RecoverCommit
  <2>6. worker' \in [Workers -> Local(WorkerPC)] /\ worker'[w] = Go("claim")
    BY <1>3, <1>g, <2>5 DEF TypeOK
  <2>7. WorkerOK(w)'
    BY <1>g, <2>6 DEF WorkerOK, Named, BatchPC
  <2>8. \A v \in Workers : worker'[v] = worker[v] \/ WorkerOK(v)'
    BY <1>3, <2>5, <2>7 DEF TypeOK
  <2>9. /\ paused' \in BOOLEAN /\ overdue' \in BOOLEAN /\ stale' \subseteq Jobs
        /\ troubles' \in 0..MaxTroubles /\ caller' \in [Callers -> Request]
        /\ caller' = caller /\ UNCHANGED history
    BY <1>3, <1>4 DEF TypeOK, RecoverCommit
  <2>. HIDE DEF r
  <2>. QED  BY <1>2, <2>1, <2>2, <2>3, <2>4, <2>6, <2>8, <2>9, SoundRowWritten
<1>5. CASE UNCHANGED <<jobs, stale>>
  BY <1>3, <1>5, <1>g, WorkerGoes
     DEF RecoverCommit, BatchPC, TypeOK, history
<1>. QED  BY <1>4, <1>5 DEF RecoverCommit

\* A claim makes a queued row running, with the payload it read.
LEMMA ClaimCommitInv ==
  ASSUME RefreshInv, NEW w \in Workers, ClaimCommit(w)
  PROVE  RefreshInv'
<1>. DEFINE j == worker[w].job
<1>1. worker[w].pc = "claiming"
  BY DEF ClaimCommit
<1>2. j \in Jobs /\ worker[w].payload \in Payload /\ jobs[j] \in Row
      /\ Sound(j, worker[w].payload)
  BY <1>1, HeldJob
<1>3. TypeOK
  BY DEF RefreshInv
<1>4. CASE jobs[j].status = "queued"
  <2>1. PICK s \in FreshStamp :
          LET p == [worker[w].payload EXCEPT !.worker = w, !.stamp = s] IN
             /\ jobs' = [jobs EXCEPT ![j].status = "running", ![j].payload = p]
             /\ worker' = [worker EXCEPT ![w] = At("claimed", j, p)]
    BY <1>4 DEF ClaimCommit
  <2>. DEFINE p == [worker[w].payload EXCEPT !.worker = w, !.stamp = s]
              r == [jobs[j] EXCEPT !.status = "running", !.payload = p]
  <2>2. p \in Payload /\ Sound(j, p) /\ p.worker = w
    BY <1>2, FreshStampType DEF Payload, Sound
  <2>3. r \in Row /\ r.status = "running" /\ r.payload = p
    BY <1>2, <2>2 DEF Row, Status
  <2>4. jobs' = [jobs EXCEPT ![j] = r]
    BY <1>3, <1>2, <2>1 DEF TypeOK
  <2>5. At("claimed", j, p) \in Local(WorkerPC)
    BY <1>2, <2>2 DEF At, Local, WorkerPC, BatchPC
  <2>6. worker' \in [Workers -> Local(WorkerPC)] /\ worker'[w] = At("claimed", j, p)
    BY <1>3, <2>1, <2>5 DEF TypeOK
  <2>7. jobs'[j].status = "running"
    BY <1>2, <1>3, <2>3, <2>4 DEF TypeOK
  <2>8s. SoundNext(j, p)
    BY <2>2 DEF Sound, SoundNext, ClaimCommit, history
  <2>8t. worker'[w].job = j /\ worker'[w].payload = p /\ j # NoJob
    BY <1>2, <2>6 DEF At, NoJob, Jobs
  <2>8u. Sound(worker[w].job, worker[w].payload)'
    BY <2>8s, <2>8t DEF Sound, SoundNext
  <2>8. WorkerOK(w)'
    BY <2>2, <2>7, <2>8t, <2>8u DEF WorkerOK, Named
  <2>9. \A v \in Workers : worker'[v] = worker[v] \/ WorkerOK(v)'
    BY <1>3, <2>1, <2>8 DEF TypeOK
  <2>10. Active \subseteq {j}
    BY <1>2, <1>4, OnlyActive
  <2>11. /\ paused' \in BOOLEAN /\ overdue' \in BOOLEAN /\ stale' \subseteq Jobs
         /\ troubles' \in 0..MaxTroubles /\ caller' \in [Callers -> Request]
         /\ caller' = caller /\ UNCHANGED history
    BY <1>3, <1>4 DEF TypeOK, ClaimCommit
  <2>. HIDE DEF r, p
  <2>. QED  BY <1>2, <2>2, <2>3, <2>4, <2>6, <2>9, <2>10, <2>11, SoundRowWritten
<1>5. CASE jobs[j].status # "queued"
  BY <1>3, <1>5, GoOK, WorkerGoes
     DEF ClaimCommit, WorkerPC, BatchPC, TypeOK, history
<1>. QED  BY <1>4, <1>5

\* Every lease update of a batch.
LEMMA LeaseUpdateInv ==
  ASSUME RefreshInv, NEW w \in Workers, NEW next \in BatchPC,
         worker[w].pc \in BatchPC, LeaseUpdate(w, next), stale' \subseteq Jobs,
         UNCHANGED <<overdue, paused, caller, troubles, history>>
  PROVE  RefreshInv'
<1>. DEFINE j == worker[w].job
<1>2. j \in Jobs /\ worker[w].payload \in Payload /\ jobs[j] \in Row
      /\ Sound(j, worker[w].payload) /\ worker[w].payload.worker = w
  BY HeldJob
<1>3. TypeOK
  BY DEF RefreshInv
<1>4. CASE Holds(w)
  <2>1. PICK s \in FreshStamp :
          LET p == [worker[w].payload EXCEPT !.stamp = s]
          IN  /\ jobs' = [jobs EXCEPT ![j].payload = p,
                                      ![j].run = @ \/ worker[w].pc # "claimed"]
              /\ worker' = [worker EXCEPT ![w] = At(next, j, p)]
    BY <1>4 DEF LeaseUpdate
  <2>. DEFINE p == [worker[w].payload EXCEPT !.stamp = s]
              r == [jobs[j] EXCEPT !.payload = p,
                                   !.run = @ \/ worker[w].pc # "claimed"]
  <2>2. p \in Payload /\ Sound(j, p) /\ p.worker = w
    BY <1>2, FreshStampType DEF Payload, Sound
  <2>3. r \in Row /\ r.status = "running" /\ r.payload = p
    BY <1>2, <1>4, <2>2 DEF Row, Holds
  <2>4. jobs' = [jobs EXCEPT ![j] = r]
    BY <1>3, <1>2, <2>1 DEF TypeOK
  <2>5. At(next, j, p) \in Local(WorkerPC)
    BY <1>2, <2>2 DEF At, Local, WorkerPC
  <2>6. worker' \in [Workers -> Local(WorkerPC)] /\ worker'[w] = At(next, j, p)
    BY <1>3, <2>1, <2>5 DEF TypeOK
  <2>7. jobs'[j].status = "running"
    BY <1>2, <1>3, <2>3, <2>4 DEF TypeOK
  <2>8s. SoundNext(j, p)
    BY <2>2 DEF Sound, SoundNext, history
  <2>8t. worker'[w].job = j /\ worker'[w].payload = p /\ j # NoJob
    BY <1>2, <2>6 DEF At, NoJob, Jobs
  <2>8u. Sound(worker[w].job, worker[w].payload)'
    BY <2>8s, <2>8t DEF Sound, SoundNext
  <2>8. WorkerOK(w)'
    BY <2>2, <2>7, <2>8t, <2>8u DEF WorkerOK, Named
  <2>9. \A v \in Workers : worker'[v] = worker[v] \/ WorkerOK(v)'
    BY <1>3, <2>1, <2>8 DEF TypeOK
  <2>10. Active \subseteq {j}
    BY <1>2, <1>4, OnlyActive DEF Holds
  <2>11. /\ paused' \in BOOLEAN /\ overdue' \in BOOLEAN
         /\ troubles' \in 0..MaxTroubles /\ caller' \in [Callers -> Request]
    BY <1>3 DEF TypeOK
  <2>. HIDE DEF r, p
  <2>. QED  BY <1>2, <2>2, <2>3, <2>4, <2>6, <2>9, <2>10, <2>11, SoundRowWritten
<1>5. CASE ~Holds(w)
  <2>1. worker' = [worker EXCEPT ![w] = Idle] /\ UNCHANGED jobs
    BY <1>5 DEF LeaseUpdate
  <2>2. worker' \in [Workers -> Local(WorkerPC)] /\ worker'[w] = Idle
    BY <1>3, <2>1, RowTypes DEF TypeOK
  <2>3. WorkerOK(w)'
    BY <2>2, IdleOK DEF WorkerOK, Named, BatchPC
  <2>4. \A v \in Workers : worker'[v] = worker[v] \/ WorkerOK(v)'
    BY <1>3, <2>1, <2>3 DEF TypeOK
  <2>5. TypeOK'
    BY <1>3, <2>1, <2>2 DEF TypeOK, history
  <2>6. Grows /\ OneActiveJob'
    BY <1>3, <2>1, GrowsByStuttering DEF RefreshInv, history
  <2>. QED  BY <2>1, <2>4, <2>5, <2>6, StepKeepsInv
<1>. QED  BY <1>4, <1>5

\* mark_batch_started is a lease update.
LEMMA StartBatchInv ==
  ASSUME RefreshInv, NEW w \in Workers, StartBatch(w)
  PROVE  RefreshInv'
  BY LeaseUpdateInv DEF StartBatch, BatchPC, RefreshInv, TypeOK

\* The heartbeat is a lease update.
LEMMA HeartbeatInv ==
  ASSUME RefreshInv, NEW w \in Workers, Heartbeat(w)
  PROVE  RefreshInv'
  BY LeaseUpdateInv DEF Heartbeat, BatchPC, RefreshInv, TypeOK

\* mark_batch_extracting is a lease update.
LEMMA StartExtractInv ==
  ASSUME RefreshInv, NEW w \in Workers, StartExtract(w)
  PROVE  RefreshInv'
  BY LeaseUpdateInv DEF StartExtract, BatchPC, RefreshInv, TypeOK

\* A caller that only moves on, taking no job.
LEMMA CallerGoes ==
  ASSUME RefreshInv, NEW c \in Callers, NEW x \in Request,
         x.pc \notin {"pausing", "resuming"}, x.job = NoJob,
         caller' = [caller EXCEPT ![c] = x], paused' \in BOOLEAN,
         UNCHANGED <<jobs, covered, failures, refused, stale, overdue, worker>>,
         troubles' \in 0..MaxTroubles
  PROVE  RefreshInv'
<1>1. TypeOK /\ OneActiveJob
  BY DEF RefreshInv
<1>2. TypeOK'
  BY <1>1 DEF TypeOK
<1>3. caller'[c] = x
  BY <1>1 DEF TypeOK
<1>4. CallerOK(c)'
  BY <1>3 DEF CallerOK, Named
<1>5. \A d \in Callers : caller'[d] = caller[d] \/ CallerOK(d)'
  BY <1>1, <1>4 DEF TypeOK
<1>. QED  BY <1>1, <1>2, <1>5, GrowsByStuttering, StepKeepsInv

\* A caller that reads a row and keeps what it read.
LEMMA CallerReads ==
  ASSUME RefreshInv, NEW c \in Callers, NEW j \in Jobs,
         NEW pc \in {"pausing", "resuming"}, jobs[j].status # "none",
         caller' = [caller EXCEPT ![c] = Calling(pc, j, jobs[j].payload)],
         troubles' \in 0..MaxTroubles,
         UNCHANGED <<table, paused, worker, history>>
  PROVE  RefreshInv'
<1>1. TypeOK /\ OneActiveJob /\ RowOK(j)
  BY InvParts
<1>2. jobs[j].payload \in Payload
  BY <1>1 DEF TypeOK, Row
<1>3. Calling(pc, j, jobs[j].payload) \in Request
  BY <1>2 DEF Calling, Request, CallerPC
<1>4. TypeOK'
  BY <1>1, <1>3 DEF TypeOK, table, history
<1>5. caller'[c] = Calling(pc, j, jobs[j].payload)
  BY <1>1 DEF TypeOK
<1>6. j # NoJob
  BY DEF Jobs, NoJob
<1>7. CallerOK(c)'
  BY <1>1, <1>5, <1>6 DEF CallerOK, Named, Calling, RowOK, Sound, table, history
<1>8. \A d \in Callers : caller'[d] = caller[d] \/ CallerOK(d)'
  BY <1>1, <1>7 DEF TypeOK
<1>. QED  BY <1>1, <1>4, <1>8, GrowsByStuttering, StepKeepsInv DEF table, history

\* The pause's query: the caller keeps an active row it read.
LEMMA PauseReadInv ==
  ASSUME RefreshInv, NEW c \in Callers, PauseRead(c)
  PROVE  RefreshInv'
<1>3. troubles' \in 0..MaxTroubles
  BY RefreshJobsAssumption DEF PauseRead, RefreshInv, TypeOK
<1>1. CASE Active = {}
  BY <1>1, <1>3, CallingOK, CallerGoes
     DEF PauseRead, CallerPC, RefreshInv, TypeOK, table, history
<1>2. CASE Active # {}
  <2>. DEFINE j == CHOOSE i \in Active : TRUE
  <2>1. j \in Jobs /\ jobs[j].status # "none"
    BY <1>2 DEF Active, IsActive
  <2>2. caller' = [caller EXCEPT ![c] = Calling("pausing", j, jobs[j].payload)]
    BY <1>2 DEF PauseRead
  <2>. HIDE DEF j
  <2>. QED  BY <1>3, <2>1, <2>2, CallerReads DEF PauseRead
<1>. QED  BY <1>1, <1>2

\* The pause's write of the control file touches no row.
LEMMA PauseFlagInv ==
  ASSUME RefreshInv, NEW c \in Callers, PauseFlag(c)
  PROVE  RefreshInv'
  BY RowTypes, CallerGoes
     DEF PauseFlag, RefreshInv, TypeOK, table, history, IdleCall, Calling

\* The resume's write of the control file touches no row.
LEMMA ResumeFlagInv ==
  ASSUME RefreshInv, NEW c \in Callers, ResumeFlag(c)
  PROVE  RefreshInv'
  BY RowTypes, CallerGoes
     DEF ResumeFlag, RefreshInv, TypeOK, table, history, IdleCall, Calling

\* The resume's query: the caller keeps a paused row it read.
LEMMA ResumeReadInv ==
  ASSUME RefreshInv, NEW c \in Callers, ResumeRead(c)
  PROVE  RefreshInv'
<1>1. CASE \E j \in With("paused") :
             caller' = [caller EXCEPT ![c] = Calling("resuming", j, jobs[j].payload)]
  BY <1>1, CallerReads DEF ResumeRead, With, RefreshInv, TypeOK
<1>2. CASE caller' = [caller EXCEPT ![c] = Calling("resumeEnqueue", NoJob, NewPayload)]
  BY <1>2, CallingOK, CallerGoes
     DEF ResumeRead, CallerPC, RefreshInv, TypeOK, table, history
<1>. QED  BY <1>1, <1>2 DEF ResumeRead

\* A crash of the API forgets the request.
LEMMA ServiceCrashInv ==
  ASSUME RefreshInv, NEW c \in Callers, ServiceCrash(c)
  PROVE  RefreshInv'
<1>1. troubles' \in 0..MaxTroubles
  BY RefreshJobsAssumption DEF ServiceCrash, RefreshInv, TypeOK
<1>. QED  BY <1>1, RowTypes, CallerGoes
          DEF ServiceCrash, RefreshInv, TypeOK, table, history, IdleCall, Calling

\* A caller between its read and its write names a known job, soundly read.
LEMMA NamedJob ==
  ASSUME RefreshInv, NEW c \in Callers, caller[c].pc \in {"pausing", "resuming"}
  PROVE  /\ caller[c].job \in Jobs
         /\ caller[c].payload \in Payload
         /\ jobs[caller[c].job] \in Row
         /\ jobs[caller[c].job].status # "none"
         /\ Sound(caller[c].job, caller[c].payload)
         /\ Sound(caller[c].job, jobs[caller[c].job].payload)
<1>1. TypeOK /\ CallerOK(c) /\ \A j \in Jobs : RowOK(j)
  BY InvParts
<1>2. caller[c] \in Request
  BY <1>1 DEF TypeOK
<1>. QED  BY <1>1, <1>2 DEF CallerOK, Named, Request, TypeOK, RowOK

\* The write of a pause or a resume, whatever happened to the row since the read.
LEMMA OverwriteInv ==
  ASSUME RefreshInv, NEW c \in Callers, NEW status \in {"paused", "queued"},
         caller[c].pc \in {"pausing", "resuming"}, Overwrite(c, status),
         status = "queued" => Active \subseteq {caller[c].job},
         stale' = stale \ {caller[c].job},
         NEW x \in Request, x.pc \notin {"pausing", "resuming"}, x.job = NoJob,
         caller' = [caller EXCEPT ![c] = x],
         UNCHANGED <<overdue, paused, worker, troubles, history>>
  PROVE  RefreshInv'
<1>. DEFINE j == caller[c].job
            q == caller[c].payload
            p == IF HasLease(q) THEN ClearLease(q) ELSE jobs[j].payload
            r == [jobs[j] EXCEPT !.status = status, !.payload = p]
<1>1. /\ j \in Jobs /\ q \in Payload /\ jobs[j] \in Row
      /\ Sound(j, q) /\ Sound(j, jobs[j].payload)
  BY NamedJob
<1>2. TypeOK
  BY DEF RefreshInv
<1>3. p \in Payload /\ Sound(j, p)
  BY <1>1, ClearLeaseType DEF Sound, Row
<1>4. r \in Row /\ r.status = status /\ r.payload = p
  BY <1>1, <1>3 DEF Row, Status
<1>5. jobs' = [jobs EXCEPT ![j] = r]
  BY <1>1, <1>2 DEF Overwrite, TypeOK
<1>6. caller' \in [Callers -> Request] /\ caller'[c] = x
  BY <1>2 DEF TypeOK
<1>7. CallerOK(c)'
  BY <1>6 DEF CallerOK, Named
<1>8. \A d \in Callers : caller'[d] = caller[d] \/ CallerOK(d)'
  BY <1>2, <1>7 DEF TypeOK
<1>9. /\ paused' \in BOOLEAN /\ overdue' \in BOOLEAN /\ stale' \subseteq Jobs
      /\ troubles' \in 0..MaxTroubles /\ worker' \in [Workers -> Local(WorkerPC)]
  BY <1>2 DEF TypeOK
<1>. HIDE DEF r, p
<1>. QED  BY <1>1, <1>3, <1>4, <1>5, <1>6, <1>8, <1>9, SoundRowWritten

\* A pause overwrites the row with status paused.
LEMMA PauseCommitInv ==
  ASSUME RefreshInv, NEW c \in Callers, PauseCommit(c)
  PROVE  RefreshInv'
<1>1. Calling("pauseFlag", NoJob, NewPayload) \in Request
  BY CallingOK DEF CallerPC
<1>. QED  BY <1>1, OverwriteInv DEF PauseCommit, Calling

\* A resume overwrites the row with status queued when no other is active.
LEMMA ResumeCommitInv ==
  ASSUME RefreshInv, NEW c \in Callers, ResumeCommit(c)
  PROVE  RefreshInv'
<1>1. Calling("resumeFlag", NoJob, NewPayload) \in Request
  BY CallingOK DEF CallerPC
<1>2. CASE Active \subseteq {caller[c].job}
  BY <1>1, <1>2, OverwriteInv DEF ResumeCommit, Calling
<1>3. CASE ~(Active \subseteq {caller[c].job})
  <2>. DEFINE x == [IdleCall EXCEPT !.reply = "integrity-error"]
  <2>1. x \in Request /\ x.pc = "idle" /\ x.job = NoJob
    BY RowTypes DEF IdleCall, Calling, Request
  <2>2. /\ caller' = [caller EXCEPT ![c] = x]
        /\ UNCHANGED <<jobs, covered, failures, refused, stale, overdue, worker,
                       paused, troubles>>
    BY <1>3 DEF ResumeCommit, history
  <2>. HIDE DEF x
  <2>. QED  BY <2>1, <2>2, CallerGoes DEF RefreshInv, TypeOK
<1>. QED  BY <1>2, <1>3

\* A new row has no progress and no failures to account for.
LEMMA EnqueueInv ==
  ASSUME RefreshInv, EnqueueOrCoalesce,
         UNCHANGED <<paused, troubles, history>>,
         worker' \in [Workers -> Local(WorkerPC)],
         caller' \in [Callers -> Request],
         \A w \in Workers : worker'[w] = worker[w] \/ WorkerOK(w)',
         \A c \in Callers : caller'[c] = caller[c] \/ CallerOK(c)'
  PROVE  RefreshInv'
<1>1. TypeOK /\ OneActiveJob
  BY DEF RefreshInv
<1>2. TypeOK'
  BY <1>1, EnqueueType DEF TypeOK, history
<1>3. CASE Active = {} /\ \E j \in With("none") :
             jobs' = [jobs EXCEPT ![j] = [NoRow EXCEPT !.status = "queued"]]
  <2>. DEFINE r == [NoRow EXCEPT !.status = "queued"]
  <2>1. PICK j \in Jobs : jobs' = [jobs EXCEPT ![j] = r]
    BY <1>3 DEF With
  <2>2. r \in Row /\ r.status = "queued" /\ r.payload = NewPayload
    BY RowTypes DEF Row, Status, NoRow
  <2>3. Sound(j, r.payload)
    <3>1. 1..0 = {} /\ failures[j] \in Nat
      BY <1>1, RefreshJobsAssumption DEF TypeOK
    <3>. QED  BY <2>2, <3>1 DEF Sound, NewPayload
  <2>4. Active \subseteq {j}
    BY <1>3
  <2>. HIDE DEF r
  <2>. QED  BY <1>1, <1>2, <2>1, <2>2, <2>3, <2>4, SoundRowWritten DEF TypeOK
<1>4. CASE UNCHANGED table
  BY <1>1, <1>2, <1>4, GrowsByStuttering, StepKeepsInv DEF table, history
<1>. QED  BY <1>3, <1>4 DEF EnqueueOrCoalesce, InsertJob, table

\* The background scan's enqueue.
LEMMA BackgroundEnqueueInv ==
  ASSUME RefreshInv, NEW w \in Workers, BackgroundEnqueue(w)
  PROVE  RefreshInv'
<1>1. Go("recover") \in Local(WorkerPC) /\ Go("recover").pc = "recover"
      /\ Go("recover").job = NoJob
  BY GoOK DEF WorkerPC, BatchPC
<1>2. TypeOK
  BY DEF RefreshInv
<1>3. worker' = [worker EXCEPT ![w] = Go("recover")]
  BY DEF BackgroundEnqueue
<1>4. CASE EnqueueOrCoalesce
  <2>1. worker' \in [Workers -> Local(WorkerPC)] /\ worker'[w] = Go("recover")
    BY <1>1, <1>2, <1>3 DEF TypeOK
  <2>2. WorkerOK(w)'
    BY <1>1, <2>1 DEF WorkerOK, Named, BatchPC
  <2>3. \A v \in Workers : worker'[v] = worker[v] \/ WorkerOK(v)'
    BY <1>2, <1>3, <2>2 DEF TypeOK
  <2>. QED  BY <1>2, <1>4, <2>1, <2>3, EnqueueInv DEF BackgroundEnqueue, TypeOK
<1>5. CASE UNCHANGED table
  BY <1>1, <1>2, <1>3, <1>5, WorkerGoes
     DEF BackgroundEnqueue, BatchPC, TypeOK, table, history
<1>. QED  BY <1>4, <1>5 DEF BackgroundEnqueue

\* POST /refresh enqueues.
LEMMA RequestRefreshInv ==
  ASSUME RefreshInv, NEW c \in Callers, RequestRefresh(c)
  PROVE  RefreshInv'
<1>1. TypeOK
  BY DEF RefreshInv
<1>2. caller' \in [Callers -> Request] /\ caller'[c] = IdleCall
  BY <1>1, RowTypes DEF RequestRefresh, TypeOK
<1>3. CallerOK(c)'
  BY <1>2 DEF CallerOK, Named, IdleCall, Calling
<1>4. \A d \in Callers : caller'[d] = caller[d] \/ CallerOK(d)'
  BY <1>1, <1>3 DEF RequestRefresh, TypeOK
<1>. QED  BY <1>1, <1>2, <1>4, EnqueueInv DEF RequestRefresh, TypeOK

\* A resume with no paused job enqueues.
LEMMA ResumeEnqueueInv ==
  ASSUME RefreshInv, NEW c \in Callers, ResumeEnqueue(c)
  PROVE  RefreshInv'
<1>. DEFINE x == Calling("resumeFlag", NoJob, NewPayload)
<1>1. TypeOK
  BY DEF RefreshInv
<1>2. x \in Request /\ x.pc = "resumeFlag" /\ x.job = NoJob
  BY CallingOK DEF CallerPC
<1>3. caller' = [caller EXCEPT ![c] = x]
  BY DEF ResumeEnqueue
<1>4. caller' \in [Callers -> Request] /\ caller'[c] = x
  BY <1>1, <1>2, <1>3 DEF TypeOK
<1>5. CallerOK(c)'
  BY <1>2, <1>4 DEF CallerOK, Named
<1>6. \A d \in Callers : caller'[d] = caller[d] \/ CallerOK(d)'
  BY <1>1, <1>3, <1>5 DEF TypeOK
<1>. QED  BY <1>1, <1>4, <1>6, EnqueueInv DEF ResumeEnqueue, TypeOK

-----------------------------------------------------------------------------
(* The end of a batch *)

\* The worker that ends a batch goes idle; the row it ends is right afterwards
\* because what it relies on was recorded in the same step.
LEMMA EndBatchInv ==
  ASSUME RefreshInv, NEW w \in Workers, worker[w].pc \in BatchPC, Holds(w),
         NEW j \in Jobs, worker[w].job = j, NEW r \in Row, r.status \in {"queued", "completed", "failed"},
         jobs' = [jobs EXCEPT ![j] = r],
         worker' = [worker EXCEPT ![w] = Idle],
         stale' = stale \ {j}, overdue' \in BOOLEAN,
         UNCHANGED <<paused, caller, troubles>>,
         covered' \in [Jobs -> SUBSET (1..Batches)],
         failures' \in [Jobs -> 0..MaxAttempts],
         refused' \subseteq Jobs,
         \A i \in Jobs : /\ covered[i] \subseteq covered'[i]
                         /\ failures[i] <= failures'[i]
                         /\ i \in refused => i \in refused',
         RowOK(j)'
  PROVE  RefreshInv'
<1>1. TypeOK /\ OneActiveJob
  BY DEF RefreshInv
<1>3. jobs' \in [Jobs -> Row] /\ jobs'[j] = r
      /\ \A i \in Jobs : i # j => jobs'[i] = jobs[i]
  BY <1>1 DEF TypeOK
<1>4. worker' \in [Workers -> Local(WorkerPC)] /\ worker'[w] = Idle
      /\ \A v \in Workers : v # w => worker'[v] = worker[v]
  BY <1>1, RowTypes DEF TypeOK
<1>5. TypeOK'
  BY <1>1, <1>3, <1>4 DEF TypeOK
<1>6. Grows
  BY <1>3 DEF Grows
<1>7. OneActiveJob'
  <2>1. Active \subseteq {j}
    BY OnlyActive DEF Holds
  <2>. QED  BY <1>3, <2>1 DEF OneActiveJob, Active, IsActive
<1>8. WorkerOK(w)'
  BY <1>4, IdleOK DEF WorkerOK, Named, BatchPC
<1>. QED  BY <1>3, <1>4, <1>5, <1>6, <1>7, <1>8, StepKeepsInv

\* A batch that finds its lease lost writes nothing.
LEMMA LostBatchInv ==
  ASSUME RefreshInv, NEW w \in Workers, worker' = [worker EXCEPT ![w] = Idle],
         UNCHANGED <<table, paused, caller, troubles, history>>
  PROVE  RefreshInv'
  BY IdleOK, RowTypes, WorkerGoes
     DEF BatchPC, RefreshInv, TypeOK, table, history

\* A committed batch is covered in the step that advances the frontier.
LEMMA CommitBatchInv ==
  ASSUME RefreshInv, NEW w \in Workers, CommitBatch(w)
  PROVE  RefreshInv'
<1>j. PICK j \in Jobs : worker[w].job = j
  BY HeldJob DEF CommitBatch, BatchPC
<1>. DEFINE p == ClearLease(worker[w].payload)
            last == IsLast(p)
            q == IF last THEN NewPayload ELSE [p EXCEPT !.pos = @ + 1]
            r == [jobs[j] EXCEPT !.status = IF last THEN "completed" ELSE "queued",
                                 !.payload = q]
<1>1. TypeOK /\ worker[w].pc \in BatchPC
  BY DEF RefreshInv, CommitBatch, BatchPC
<1>2. j \in Jobs /\ worker[w].payload \in Payload /\ jobs[j] \in Row
      /\ Sound(j, worker[w].payload)
  BY <1>1, <1>j, HeldJob
<1>3. p \in Payload /\ Sound(j, p)
  BY <1>2, ClearLeaseType DEF Sound
<1>4. p.pos \in 0..(Batches - 1) /\ Batches \in Nat \ {0}
  BY <1>3, RefreshJobsAssumption DEF Payload
<1>5. CASE /\ Holds(w)
           /\ jobs' = [jobs EXCEPT
                        ![j].status  = IF last THEN "completed" ELSE "queued",
                        ![j].payload = q]
           /\ covered' = [covered EXCEPT ![j] = @ \cup {p.pos + 1}]
           /\ stale' = stale \ {j}
           /\ overdue' = (overdue /\ ~last)
  <2>1. q \in Payload
    BY <1>3, <1>4, RowTypes DEF Payload, IsLast
  <2>2. r \in Row /\ r.status \in {"queued", "completed"} /\ r.payload = q
        /\ (r.status = "completed" => last)
    BY <1>2, <2>1 DEF Row, Status
  <2>3. jobs' = [jobs EXCEPT ![j] = r]
    BY <1>1, <1>2, <1>5 DEF TypeOK
  <2>4. covered'[j] = covered[j] \cup {p.pos + 1}
    BY <1>1, <1>2, <1>5 DEF TypeOK
  <2>5. covered' \in [Jobs -> SUBSET (1..Batches)]
    BY <1>1, <1>2, <1>4, <1>5 DEF TypeOK
  <2>6. 1..(p.pos + 1) \subseteq covered'[j]
    BY <1>3, <1>4, <2>4 DEF Sound
  <2>7. failures' = failures /\ refused' = refused
    BY DEF CommitBatch
  <2>8. SoundNext(j, q)
    <3>1. CASE last
      <4>1. 1..0 = {} /\ failures[j] \in Nat
        BY <1>1, <1>2, RefreshJobsAssumption DEF TypeOK
      <4>. QED  BY <3>1, <4>1, <2>7 DEF SoundNext, NewPayload
    <3>2. CASE ~last
      <4>1. q.pos = p.pos + 1 /\ q.attempts = p.attempts
        BY <1>3, <3>2 DEF Payload
      <4>. QED  BY <1>3, <2>6, <2>7, <4>1 DEF Sound, SoundNext
    <3>. QED  BY <3>1, <3>2
  <2>9. last => covered'[j] = 1..Batches
    BY <1>2, <1>4, <2>5, <2>6 DEF IsLast
  <2>10. jobs'[j] = r
    BY <1>1, <1>2, <2>3 DEF TypeOK
  <2>11. RowOK(j)'
    BY <2>2, <2>8, <2>9, <2>10 DEF RowOK, Sound, SoundNext
  <2>12. \A i \in Jobs : covered[i] \subseteq covered'[i] /\ failures[i] <= failures'[i]
    <3>1. \A i \in Jobs : failures[i] \in Nat
      BY <1>1, RefreshJobsAssumption DEF TypeOK
    <3>2. \A i \in Jobs : covered[i] \subseteq covered'[i]
      BY <1>1, <1>5 DEF TypeOK
    <3>. QED  BY <2>7, <3>1, <3>2
  <2>13. overdue' \in BOOLEAN
    BY <1>5
  <2>14. /\ worker' = [worker EXCEPT ![w] = Idle] /\ stale' = stale \ {j}
         /\ UNCHANGED <<paused, caller, troubles>>
         /\ failures' \in [Jobs -> 0..MaxAttempts] /\ refused' \subseteq Jobs
    BY <1>1, <1>5, <2>7 DEF CommitBatch, TypeOK
  <2>. HIDE DEF r, q, p, last
  <2>. QED  BY <1>j, <1>1, <1>5, <2>2, <2>3, <2>5, <2>7, <2>11, <2>12, <2>13, <2>14,
               EndBatchInv
<1>6. CASE UNCHANGED <<table, covered>>
  BY <1>6, LostBatchInv DEF CommitBatch, history
<1>. QED  BY <1>j, <1>5, <1>6 DEF CommitBatch

\* A failed batch counts in the row and in the history in one step.
LEMMA FailBatchInv ==
  ASSUME RefreshInv, NEW w \in Workers, FailBatch(w)
  PROVE  RefreshInv'
<1>j. PICK j \in Jobs : worker[w].job = j
  BY HeldJob DEF FailBatch, BatchPC
<1>. DEFINE n == Incremented(worker[w].payload.attempts)
            p == [ClearLease(worker[w].payload) EXCEPT !.attempts = n]
<1>1. TypeOK /\ worker[w].pc \in BatchPC
  BY DEF RefreshInv, FailBatch
<1>2. j \in Jobs /\ worker[w].payload \in Payload /\ jobs[j] \in Row
      /\ Sound(j, worker[w].payload)
  BY <1>1, <1>j, HeldJob
<1>3. /\ MaxAttempts \in Nat \ {0}
      /\ worker[w].payload.attempts \in 0..MaxAttempts
      /\ \A i \in Jobs : failures[i] \in 0..MaxAttempts
  BY <1>1, <1>2, RefreshJobsAssumption DEF Payload, TypeOK
<1>4. n \in 0..MaxAttempts /\ n <= Incremented(failures[j])
  BY <1>2, <1>3 DEF Incremented, Sound
<1>5. p \in Payload /\ p.attempts = n /\ p.pos = worker[w].payload.pos
  BY <1>2, <1>4 DEF ClearLease, Payload
<1>6. PICK notReady \in BOOLEAN :
        LET final == notReady \/ n = MaxAttempts IN
        \/ /\ Holds(w)
           /\ jobs' = [jobs EXCEPT
                        ![j].status  = IF final THEN "failed" ELSE "queued",
                        ![j].payload = p]
           /\ stale' = stale \ {j}
           /\ overdue' = (overdue /\ ~(final /\ jobs[j].run))
           /\ failures' = [failures EXCEPT ![j] = Incremented(@)]
           /\ refused' = IF notReady THEN refused \cup {j} ELSE refused
        \/ ~Holds(w) /\ UNCHANGED <<table, failures, refused>>
  BY <1>j DEF FailBatch
<1>. DEFINE final == notReady \/ n = MaxAttempts
            r == [jobs[j] EXCEPT !.status = IF final THEN "failed" ELSE "queued",
                                 !.payload = p]
<1>7. CASE Holds(w) /\ ~UNCHANGED <<table, failures, refused>>
  <2>1. /\ jobs' = [jobs EXCEPT
                        ![j].status  = IF final THEN "failed" ELSE "queued",
                        ![j].payload = p]
        /\ stale' = stale \ {j}
        /\ overdue' = (overdue /\ ~(final /\ jobs[j].run))
        /\ failures' = [failures EXCEPT ![j] = Incremented(@)]
        /\ refused' = IF notReady THEN refused \cup {j} ELSE refused
    BY <1>6, <1>7
  <2>2. r \in Row /\ r.status \in {"queued", "failed"} /\ r.payload = p
        /\ (r.status = "failed" => final)
    BY <1>2, <1>5 DEF Row, Status
  <2>3. jobs' = [jobs EXCEPT ![j] = r]
    BY <1>1, <1>2, <2>1 DEF TypeOK
  <2>4. failures'[j] = Incremented(failures[j])
        /\ \A i \in Jobs : i # j => failures'[i] = failures[i]
    BY <1>1, <1>2, <2>1 DEF TypeOK
  <2>5. failures' \in [Jobs -> 0..MaxAttempts]
    <3>1. Incremented(failures[j]) \in 0..MaxAttempts
      BY <1>2, <1>3 DEF Incremented
    <3>. QED  BY <1>1, <2>1, <3>1 DEF TypeOK
  <2>6. covered' = covered
    BY DEF FailBatch
  <2>7. SoundNext(j, p)
    BY <1>2, <1>4, <1>5, <2>4, <2>6 DEF Sound, SoundNext
  <2>8. final => j \in refused' \/ failures'[j] = MaxAttempts
    <3>1. n = MaxAttempts => failures'[j] = MaxAttempts
      BY <1>2, <1>3, <1>4, <2>4, <2>5
    <3>. QED  BY <2>1, <3>1
  <2>9. jobs'[j] = r
    BY <1>1, <1>2, <2>3 DEF TypeOK
  <2>10. RowOK(j)'
    BY <2>2, <2>7, <2>8, <2>9 DEF RowOK, Sound, SoundNext
  <2>11. refused' \subseteq Jobs
    BY <1>1, <1>2, <2>1 DEF TypeOK
  <2>12. \A i \in Jobs : failures[i] <= failures'[i]
    BY <1>3, <2>4 DEF Incremented
  <2>13. \A i \in Jobs : i \in refused => i \in refused'
    BY <2>1
  <2>14. overdue' \in BOOLEAN
    BY <2>1
  <2>15. /\ worker' = [worker EXCEPT ![w] = Idle] /\ stale' = stale \ {j}
         /\ UNCHANGED <<paused, caller, troubles>>
         /\ covered' \in [Jobs -> SUBSET (1..Batches)]
    BY <1>1, <2>1, <2>6 DEF FailBatch, TypeOK
  <2>. HIDE DEF r, p, final, n
  <2>. QED  BY <1>j, <1>1, <1>7, <2>2, <2>3, <2>5, <2>6, <2>10, <2>11, <2>12, <2>13,
               <2>14, <2>15, EndBatchInv
<1>8. CASE UNCHANGED <<table, failures, refused>>
  BY <1>8, LostBatchInv DEF FailBatch, history
<1>. QED  BY <1>6, <1>7, <1>8

\* The age of a lease is no part of the invariant.
LEMMA LeaseAgesInv ==
  ASSUME RefreshInv, NEW i \in Jobs, LeaseAges(i)
  PROVE  RefreshInv'
<1>1. TypeOK'
  BY DEF LeaseAges, RefreshInv, TypeOK, history
<1>. QED  BY <1>1, GrowsByStuttering, StepKeepsInv
          DEF LeaseAges, RefreshInv, history

\* Nor is the background interval.
LEMMA IntervalElapsesInv ==
  ASSUME RefreshInv, IntervalElapses
  PROVE  RefreshInv'
<1>1. TypeOK'
  BY DEF IntervalElapses, RefreshInv, TypeOK, history
<1>. QED  BY <1>1, GrowsByStuttering, StepKeepsInv
          DEF IntervalElapses, RefreshInv, history

\* A stuttering step keeps the invariant.
LEMMA StutterInv ==
  ASSUME RefreshInv, UNCHANGED vars
  PROVE  RefreshInv'
<1>1. TypeOK'
  BY DEF vars, RefreshInv, TypeOK
<1>. QED  BY <1>1, GrowsByStuttering, StepKeepsInv DEF vars, RefreshInv

-----------------------------------------------------------------------------
(* The theorems *)

\* The initial states satisfy the invariant.
LEMMA InitInv == Init => RefreshInv
<1>. SUFFICES ASSUME Init PROVE RefreshInv
  OBVIOUS
<1>1. TypeOK
  <2>1. jobs \in [Jobs -> Row]
    BY RowTypes DEF Init
  <2>2. worker \in [Workers -> Local(WorkerPC)]
    BY RowTypes DEF Init
  <2>3. caller \in [Callers -> Request]
    BY RowTypes DEF Init
  <2>4. troubles \in 0..MaxTroubles
    BY RefreshJobsAssumption DEF Init
  <2>5. covered \in [Jobs -> SUBSET (1..Batches)]
    BY DEF Init
  <2>6. failures \in [Jobs -> 0..MaxAttempts]
    BY RefreshJobsAssumption DEF Init
  <2>. QED  BY <2>1, <2>2, <2>3, <2>4, <2>5, <2>6 DEF Init, TypeOK
<1>2. \A j \in Jobs : Sound(j, NewPayload)
  <2>1. 1..0 = {}
    OBVIOUS
  <2>. QED  BY <2>1 DEF Init, Sound, NewPayload
<1>3. \A j \in Jobs : jobs[j] = NoRow /\ NoRow.status = "none"
                      /\ NoRow.payload = NewPayload
  BY DEF Init, NoRow
<1>4. OneActiveJob
  BY <1>3 DEF OneActiveJob, Active, IsActive
<1>5. \A j \in Jobs : RowOK(j)
  BY <1>2, <1>3 DEF RowOK
<1>6. \A w \in Workers : WorkerOK(w)
  BY IdleOK DEF Init, WorkerOK, Named, BatchPC
<1>7. \A c \in Callers : CallerOK(c)
  BY DEF Init, CallerOK, Named, IdleCall, Calling
<1>. QED  BY <1>1, <1>4, <1>5, <1>6, <1>7, InvParts

\* Every step keeps the invariant, one lemma for each action.
LEMMA NextInv == RefreshInv /\ [Next]_vars => RefreshInv'
<1>. SUFFICES ASSUME RefreshInv, [Next]_vars PROVE RefreshInv'
  OBVIOUS
<1>1. ASSUME NEW w \in Workers, WorkerNext(w) PROVE RefreshInv'
  BY <1>1, WakeUpInv, BackgroundEnqueueInv, RecoverScanInv, RecoverCommitInv,
     CheckPausedInv, SelectQueuedInv, ClaimCommitInv, StartBatchInv,
     HeartbeatInv, StartExtractInv, CommitBatchInv, FailBatchInv DEF WorkerNext
<1>2. ASSUME NEW c \in Callers, CallerNext(c) PROVE RefreshInv'
  BY <1>2, RequestRefreshInv, PauseReadInv, PauseCommitInv, PauseFlagInv,
     ResumeReadInv, ResumeCommitInv, ResumeEnqueueInv, ResumeFlagInv
     DEF CallerNext
<1>3. CASE Environment
  BY <1>3, WorkerCrashInv, ServiceCrashInv, LeaseAgesInv, IntervalElapsesInv
     DEF Environment
<1>4. CASE UNCHANGED vars
  BY <1>4, StutterInv
<1>. QED  BY <1>1, <1>2, <1>3, <1>4 DEF Next

\* RefreshInv holds in every reachable state, with any number of workers and
\* callers, however slow the workers and however many crashes.
THEOREM RefreshInvariant == Spec => []RefreshInv
<1>. QED  BY InitInv, NextInv, PTL DEF Spec

\* The enqueue lock, the index and the compare-and-swap of the lease updates
\* keep at most one refresh job queued or running.
THEOREM OneActive == Spec => []OneActiveJob
<1>1. RefreshInv => OneActiveJob
  BY DEF RefreshInv
<1>. QED  BY <1>1, RefreshInvariant, PTL

\* No snapshot that may be written back claims progress that was not committed.
THEOREM SnapshotsAreSound == Spec => []SnapshotsSound
<1>1. RefreshInv => SnapshotsSound
  BY DEF RefreshInv
<1>. QED  BY <1>1, RefreshInvariant, PTL

\* A job completes only when every batch of its traversal was committed.
THEOREM CompletionIsEarned == Spec => []CompletedCovers
<1>1. RefreshInv => CompletedCovers
  BY DEF RefreshInv
<1>. QED  BY <1>1, RefreshInvariant, PTL

\* A job fails only after MaxAttempts failed batches or a client not ready.
THEOREM FailureIsEarned == Spec => []RetryBudget
<1>1. RefreshInv => RetryBudget
  BY DEF RefreshInv
<1>. QED  BY <1>1, RefreshInvariant, PTL

\* Two workers in the middle of a batch never both hold a lease: both leases
\* would be the payload of the one running job, which names one worker.
THEOREM OneLeaseHolder == Spec => []LeaseExclusive
<1>1. RefreshInv => LeaseExclusive
  <2>. SUFFICES ASSUME RefreshInv, NEW v \in Workers, NEW w \in Workers,
                       worker[v].pc \in BatchPC, worker[w].pc \in BatchPC,
                       Holds(v), Holds(w)
                PROVE  v = w
    BY DEF LeaseExclusive
  <2>1. /\ worker[v].job \in Jobs /\ worker[v].payload.worker = v
        /\ worker[w].job \in Jobs /\ worker[w].payload.worker = w
    BY HeldJob
  <2>2. worker[v].job = worker[w].job
    BY <2>1, OnlyActive DEF Holds, Active, IsActive
  <2>. QED  BY <2>1, <2>2 DEF Holds
<1>. QED  BY <1>1, RefreshInvariant, PTL

\* Only the holder of the lease of a running job commits a batch of that job.
THEOREM HolderCommits == Spec => OnlyHolderCommits
<1>. DEFINE Allowed(j) == covered'[j] # covered[j] =>
              \E w \in Workers : /\ worker'[w] # worker[w]
                                 /\ worker[w].job = j
                                 /\ jobs[j].status = "running"
                                 /\ jobs[j].payload.worker = w
<1>1. RefreshInv /\ [Next]_vars => [\A j \in Jobs : Allowed(j)]_vars
  <2>. SUFFICES ASSUME RefreshInv, Next, NEW j \in Jobs, covered'[j] # covered[j]
                PROVE  \E w \in Workers : /\ worker'[w] # worker[w]
                                 /\ worker[w].job = j
                                          /\ jobs[j].status = "running"
                                          /\ jobs[j].payload.worker = w
    OBVIOUS
  <2>1. PICK w \in Workers : CommitBatch(w)
    BY DEF Next, WorkerNext, CallerNext, Environment, WakeUp, BackgroundEnqueue,
           RecoverScan, RecoverCommit, CheckPaused, SelectQueued, ClaimCommit,
           StartBatch, Heartbeat, StartExtract, FailBatch, RequestRefresh,
           PauseRead, PauseCommit, PauseFlag, ResumeRead, ResumeCommit,
           ResumeEnqueue, ResumeFlag, WorkerCrash, ServiceCrash, LeaseAges,
           IntervalElapses, history
  <2>2. worker[w].pc \in BatchPC
    BY <2>1 DEF CommitBatch, BatchPC
  <2>3. worker[w].job \in Jobs /\ worker[w].payload.worker = w
    BY <2>2, HeldJob
  <2>4. Holds(w) /\ covered' = [covered EXCEPT ![worker[w].job] =
                      @ \cup {ClearLease(worker[w].payload).pos + 1}]
    BY <2>1 DEF CommitBatch
  <2>5. worker[w].job = j
    BY <2>3, <2>4 DEF RefreshInv, TypeOK
  <2>6. worker'[w] # worker[w]
    BY <2>1, IdleOK DEF CommitBatch, RefreshInv, TypeOK
  <2>. QED  BY <2>3, <2>4, <2>5, <2>6 DEF Holds
<1>. QED  BY <1>1, RefreshInvariant, PTL DEF Spec, OnlyHolderCommits

-----------------------------------------------------------------------------
(* RefreshJobs implements RefreshLifecycle *)

AbstractStep == Lifecycle!Next \/ UNCHANGED <<phases, covered>>

\* Writing one row moves one phase.
LEMMA PhaseMoves ==
  ASSUME TypeOK, NEW j \in Jobs, NEW r \in Row, jobs' = [jobs EXCEPT ![j] = r]
  PROVE  phases' = [phases EXCEPT ![j] = PhaseOf(r.status)]
  BY DEF phases, TypeOK

\* The active phase stands for queued and running, the absent one for no row.
LEMMA ActivePhase ==
  ASSUME TypeOK, NEW j \in Jobs
  PROVE  /\ phases[j] = "active" <=> jobs[j].status \in {"queued", "running"}
         /\ phases[j] = "absent" <=> jobs[j].status = "none"
<1>1. jobs[j].status \in Status
  BY DEF TypeOK, Row
<1>2. phases[j] = PhaseOf(jobs[j].status)
  BY DEF phases
<1>. QED  BY <1>1, <1>2 DEF Status, PhaseOf

\* The only active row is the only job in the active phase.
LEMMA AloneInPhase ==
  ASSUME TypeOK, NEW j \in Jobs, Active \subseteq {j}
  PROVE  Lifecycle!NoneActiveBut(j)
  BY ActivePhase DEF Lifecycle!NoneActiveBut, Active, IsActive

\* Steps that change neither a row nor the committed batches.
LEMMA Stutters ==
  ASSUME UNCHANGED <<jobs, covered>>
  PROVE  AbstractStep
  BY DEF AbstractStep, phases

\* Steps that change no phase: a claim, a lease update, a recovery.
LEMMA SamePhase ==
  ASSUME TypeOK, NEW j \in Jobs, NEW r \in Row, jobs' = [jobs EXCEPT ![j] = r],
         PhaseOf(r.status) = PhaseOf(jobs[j].status), UNCHANGED covered
  PROVE  AbstractStep
<1>1. phases' = [phases EXCEPT ![j] = PhaseOf(jobs[j].status)]
  BY PhaseMoves
<1>2. phases' = phases
  BY <1>1 DEF phases
<1>. QED  BY <1>2 DEF AbstractStep

\* An enqueue is a Start, or a stutter when it finds an active job.
LEMMA EnqueueStep ==
  ASSUME TypeOK, EnqueueOrCoalesce, UNCHANGED covered
  PROVE  AbstractStep
<1>1. CASE Active = {} /\ \E j \in With("none") :
             jobs' = [jobs EXCEPT ![j] = [NoRow EXCEPT !.status = "queued"]]
  <2>. DEFINE r == [NoRow EXCEPT !.status = "queued"]
  <2>1. PICK j \in Jobs : jobs[j].status = "none" /\ jobs' = [jobs EXCEPT ![j] = r]
    BY <1>1 DEF With
  <2>2. r \in Row /\ PhaseOf(r.status) = "active"
    BY RowTypes DEF Row, Status, NoRow, PhaseOf
  <2>. HIDE DEF r
  <2>3. phases' = [phases EXCEPT ![j] = "active"]
    BY <2>1, <2>2, PhaseMoves
  <2>4. phases[j] = "absent" /\ Lifecycle!NoneActiveBut(j)
    BY <1>1, <2>1, ActivePhase, AloneInPhase
  <2>5. Lifecycle!Start(j)
    BY <2>3, <2>4 DEF Lifecycle!Start
  <2>. QED  BY <2>5 DEF AbstractStep, Lifecycle!Next
<1>2. CASE UNCHANGED table
  BY <1>2, Stutters DEF table
<1>. QED  BY <1>1, <1>2 DEF EnqueueOrCoalesce, InsertJob, table

\* A lease update changes no phase.
LEMMA LeaseUpdateStep ==
  ASSUME RefreshInv, NEW w \in Workers, NEW next \in BatchPC,
         worker[w].pc \in BatchPC, LeaseUpdate(w, next), UNCHANGED covered
  PROVE  AbstractStep
<1>. DEFINE j == worker[w].job
<1>1. TypeOK /\ j \in Jobs /\ jobs[j] \in Row /\ worker[w].payload \in Payload
  BY HeldJob DEF RefreshInv
<1>2. CASE Holds(w)
  <2>1. PICK s \in FreshStamp :
          jobs' = [jobs EXCEPT ![j].payload = [worker[w].payload EXCEPT !.stamp = s],
                               ![j].run = @ \/ worker[w].pc # "claimed"]
    BY <1>2 DEF LeaseUpdate
  <2>. DEFINE p == [worker[w].payload EXCEPT !.stamp = s]
              r == [jobs[j] EXCEPT !.payload = p, !.run = @ \/ worker[w].pc # "claimed"]
  <2>2. p \in Payload
    BY <1>1, FreshStampType DEF Payload
  <2>3. r \in Row /\ r.status = jobs[j].status
    BY <1>1, <2>2 DEF Row
  <2>4. jobs' = [jobs EXCEPT ![j] = r]
    BY <1>1, <2>1 DEF TypeOK
  <2>. HIDE DEF r
  <2>. QED  BY <1>1, <2>3, <2>4, SamePhase
<1>3. CASE ~Holds(w)
  BY <1>3, Stutters DEF LeaseUpdate
<1>. QED  BY <1>2, <1>3

\* A recovery takes a running row back to queued: both are active.
LEMMA RecoverStep ==
  ASSUME RefreshInv, NEW w \in Workers, RecoverCommit(w)
  PROVE  AbstractStep
<1>. DEFINE j == worker[w].job
            r == [jobs[j] EXCEPT !.status = "queued",
                                 !.payload = ClearLease(worker[w].payload)]
<1>1. TypeOK /\ j \in Jobs /\ jobs[j] \in Row /\ worker[w].payload \in Payload
  BY HeldJob DEF RefreshInv, RecoverCommit
<1>2. CASE Holds(w) /\ jobs' = [jobs EXCEPT ![j].status = "queued",
                                  ![j].payload = ClearLease(worker[w].payload)]
  <2>1. r \in Row /\ r.status = "queued"
    BY <1>1, ClearLeaseType DEF Row, Status
  <2>2. jobs' = [jobs EXCEPT ![j] = r]
    BY <1>1, <1>2 DEF TypeOK
  <2>3. PhaseOf(r.status) = PhaseOf(jobs[j].status)
    BY <1>2, <2>1 DEF Holds, PhaseOf
  <2>. HIDE DEF r
  <2>. QED  BY <1>1, <2>1, <2>2, <2>3, SamePhase DEF RecoverCommit, history
<1>3. CASE UNCHANGED jobs
  BY <1>3, Stutters DEF RecoverCommit, history
<1>. QED  BY <1>2, <1>3 DEF RecoverCommit, Requeued

\* A claim takes a queued row to running: both are active.
LEMMA ClaimStep ==
  ASSUME RefreshInv, NEW w \in Workers, ClaimCommit(w)
  PROVE  AbstractStep
<1>. DEFINE j == worker[w].job
<1>1. TypeOK /\ j \in Jobs /\ jobs[j] \in Row /\ worker[w].payload \in Payload
  BY HeldJob DEF RefreshInv, ClaimCommit
<1>2. CASE jobs[j].status = "queued"
  <2>1. PICK s \in FreshStamp :
          jobs' = [jobs EXCEPT ![j].status = "running",
                    ![j].payload = [worker[w].payload EXCEPT !.worker = w, !.stamp = s]]
    BY <1>2 DEF ClaimCommit
  <2>. DEFINE p == [worker[w].payload EXCEPT !.worker = w, !.stamp = s]
              r == [jobs[j] EXCEPT !.status = "running", !.payload = p]
  <2>2. p \in Payload
    BY <1>1, FreshStampType DEF Payload
  <2>3. r \in Row /\ PhaseOf(r.status) = PhaseOf(jobs[j].status)
    BY <1>1, <1>2, <2>2 DEF Row, Status, PhaseOf
  <2>4. jobs' = [jobs EXCEPT ![j] = r]
    BY <1>1, <2>1 DEF TypeOK
  <2>. HIDE DEF r
  <2>. QED  BY <1>1, <2>3, <2>4, SamePhase DEF ClaimCommit, history
<1>3. CASE jobs[j].status # "queued"
  BY <1>3, Stutters DEF ClaimCommit, history
<1>. QED  BY <1>2, <1>3

\* A committed batch is the abstract Batch, the last one ends the job.
LEMMA CommitStep ==
  ASSUME RefreshInv, NEW w \in Workers, CommitBatch(w)
  PROVE  AbstractStep
<1>. DEFINE j == worker[w].job
            p == ClearLease(worker[w].payload)
            b == p.pos + 1
            q == IF b = Batches THEN NewPayload ELSE [p EXCEPT !.pos = @ + 1]
            r == [jobs[j] EXCEPT !.status = IF b = Batches THEN "completed" ELSE "queued",
                                 !.payload = q]
<1>1. /\ TypeOK /\ j \in Jobs /\ jobs[j] \in Row
      /\ worker[w].payload \in Payload /\ Sound(j, worker[w].payload)
  BY HeldJob DEF RefreshInv, CommitBatch, BatchPC
<1>2. p \in Payload /\ p.pos = worker[w].payload.pos
  BY <1>1, ClearLeaseType
<1>3. p.pos \in 0..(Batches - 1) /\ Batches \in Nat \ {0} /\ b \in 1..Batches
  BY <1>2, RefreshJobsAssumption DEF Payload
<1>4. CASE /\ Holds(w)
           /\ jobs' = [jobs EXCEPT
                        ![j].status  = IF b = Batches THEN "completed" ELSE "queued",
                        ![j].payload = q]
           /\ covered' = [covered EXCEPT ![j] = @ \cup {b}]
  <2>1. q \in Payload
    BY <1>2, <1>3, RowTypes DEF Payload
  <2>2. r \in Row /\ PhaseOf(r.status) = IF b = Batches THEN "done" ELSE "active"
    BY <1>1, <2>1 DEF Row, Status, PhaseOf
  <2>3. jobs' = [jobs EXCEPT ![j] = r]
    BY <1>1, <1>4 DEF TypeOK
  <2>. HIDE DEF r
  <2>4. phases' = [phases EXCEPT ![j] = IF b = Batches THEN "done" ELSE "active"]
    BY <1>1, <2>2, <2>3, PhaseMoves
  <2>5. phases[j] = "active"
    BY <1>1, <1>4, ActivePhase DEF Holds
  <2>6. phases' = IF b = Batches THEN [phases EXCEPT ![j] = "done"] ELSE phases
    BY <1>1, <2>4, <2>5 DEF phases
  <2>7. 1..(b - 1) \subseteq covered[j]
    BY <1>1, <1>2, <1>3 DEF Sound
  <2>. HIDE DEF b
  <2>8. Lifecycle!Batch(j, b)
    BY <1>4, <2>5, <2>6, <2>7 DEF Lifecycle!Batch
  <2>. QED  BY <1>1, <1>3, <2>8 DEF AbstractStep, Lifecycle!Next
<1>5. CASE UNCHANGED <<jobs, covered>>
  BY <1>5, Stutters
<1>. QED  BY <1>4, <1>5 DEF CommitBatch, IsLast, table

\* A failed batch gives the job up or changes no phase.
LEMMA FailStep ==
  ASSUME RefreshInv, NEW w \in Workers, FailBatch(w)
  PROVE  AbstractStep
<1>. DEFINE j == worker[w].job
<1>1. /\ TypeOK /\ j \in Jobs /\ jobs[j] \in Row /\ worker[w].pc \in BatchPC
  BY HeldJob DEF RefreshInv, FailBatch
<1>2. TypeOK'
  BY FailBatchInv DEF RefreshInv
<1>3. UNCHANGED covered
  BY DEF FailBatch
<1>4. CASE Holds(w) /\ \E st \in {"failed", "queued"} : \E p :
             jobs' = [jobs EXCEPT ![j].status = st, ![j].payload = p]
  <2>a. PICK st \in {"failed", "queued"} : \E p :
             jobs' = [jobs EXCEPT ![j].status = st, ![j].payload = p]
    BY <1>4
  <2>1. PICK p : jobs' = [jobs EXCEPT ![j].status = st, ![j].payload = p]
    BY <2>a
  <2>. DEFINE r == [jobs[j] EXCEPT !.status = st, !.payload = p]
  <2>2. jobs' = [jobs EXCEPT ![j] = r]
    BY <1>1, <2>1 DEF TypeOK
  <2>3. r = jobs'[j] /\ r.status = st
    BY <1>1, <2>2 DEF TypeOK, Row
  <2>4. r \in Row
    BY <1>1, <1>2, <2>3 DEF TypeOK
  <2>. HIDE DEF r
  <2>5. CASE st = "failed"
    <3>1. phases' = [phases EXCEPT ![j] = "failed"]
      BY <1>1, <2>2, <2>3, <2>4, <2>5, PhaseMoves DEF PhaseOf
    <3>2. phases[j] = "active"
      BY <1>1, <1>4, ActivePhase DEF Holds
    <3>3. Lifecycle!GiveUp(j)
      BY <1>3, <3>1, <3>2 DEF Lifecycle!GiveUp
    <3>. QED  BY <1>1, <3>3 DEF AbstractStep, Lifecycle!Next
  <2>6. CASE st = "queued"
    <3>1. PhaseOf(r.status) = PhaseOf(jobs[j].status)
      BY <1>4, <2>3, <2>6 DEF PhaseOf, Holds
    <3>. QED  BY <1>1, <1>3, <2>2, <2>4, <3>1, SamePhase
  <2>. QED  BY <2>5, <2>6
<1>5. CASE UNCHANGED jobs
  BY <1>3, <1>5, Stutters
<1>. QED  BY <1>4, <1>5 DEF FailBatch, table

\* The write of a pause or a resume, whatever became of the row it names.
LEMMA OverwriteStep ==
  ASSUME RefreshInv, NEW c \in Callers, NEW status \in {"paused", "queued"},
         caller[c].pc \in {"pausing", "resuming"}, Overwrite(c, status),
         status = "queued" => Active \subseteq {caller[c].job},
         UNCHANGED covered
  PROVE  AbstractStep
<1>. DEFINE j == caller[c].job
            q == caller[c].payload
            p == IF HasLease(q) THEN ClearLease(q) ELSE jobs[j].payload
            r == [jobs[j] EXCEPT !.status = status, !.payload = p]
<1>1. /\ TypeOK /\ j \in Jobs /\ q \in Payload /\ jobs[j] \in Row
      /\ jobs[j].status # "none"
  BY NamedJob DEF RefreshInv
<1>2. p \in Payload
  BY <1>1, ClearLeaseType DEF Row
<1>3. r \in Row /\ r.status = status
  BY <1>1, <1>2 DEF Row, Status
<1>4. jobs' = [jobs EXCEPT ![j] = r]
  BY <1>1 DEF Overwrite, TypeOK
<1>. HIDE DEF r
<1>5. phases' = [phases EXCEPT ![j] = PhaseOf(status)]
  BY <1>1, <1>3, <1>4, PhaseMoves
<1>6. phases[j] # "absent"
  BY <1>1, ActivePhase
<1>7. CASE status = "paused"
  <2>1. Lifecycle!Park(j)
    BY <1>5, <1>6, <1>7 DEF Lifecycle!Park, PhaseOf
  <2>. QED  BY <1>1, <2>1 DEF AbstractStep, Lifecycle!Next
<1>8. CASE status = "queued"
  <2>1. Lifecycle!NoneActiveBut(j)
    BY <1>1, <1>8, AloneInPhase
  <2>2. Lifecycle!Requeue(j)
    BY <1>5, <1>6, <1>8, <2>1 DEF Lifecycle!Requeue, PhaseOf
  <2>. QED  BY <1>1, <2>2 DEF AbstractStep, Lifecycle!Next
<1>. QED  BY <1>7, <1>8

\* Every step of the protocol is a step of the lifecycle or a stutter.
LEMMA EveryStepMaps ==
  ASSUME RefreshInv, [Next]_vars
  PROVE  AbstractStep
<1>1. TypeOK
  BY DEF RefreshInv
<1>2. ASSUME NEW w \in Workers, WorkerNext(w) PROVE AbstractStep
  <2>1. CASE WakeUp(w) \/ RecoverScan(w) \/ CheckPaused(w) \/ SelectQueued(w)
    BY <2>1, Stutters
       DEF WakeUp, RecoverScan, CheckPaused, SelectQueued, table, history
  <2>2. CASE BackgroundEnqueue(w)
    BY <1>1, <2>2, EnqueueStep, Stutters DEF BackgroundEnqueue, table, history
  <2>3. CASE StartBatch(w) \/ Heartbeat(w) \/ StartExtract(w)
    BY <2>3, LeaseUpdateStep DEF StartBatch, Heartbeat, StartExtract, BatchPC, history
  <2>. QED  BY <1>2, <2>1, <2>2, <2>3, RecoverStep, ClaimStep, CommitStep, FailStep
            DEF WorkerNext
<1>3. ASSUME NEW c \in Callers, CallerNext(c) PROVE AbstractStep
  <2>1. CASE PauseRead(c) \/ PauseFlag(c) \/ ResumeRead(c) \/ ResumeFlag(c)
    BY <2>1, Stutters
       DEF PauseRead, PauseFlag, ResumeRead, ResumeFlag, table, history
  <2>2. CASE RequestRefresh(c) \/ ResumeEnqueue(c)
    BY <1>1, <2>2, EnqueueStep DEF RequestRefresh, ResumeEnqueue, history
  <2>3. CASE PauseCommit(c)
    BY <2>3, OverwriteStep DEF PauseCommit, history
  <2>4. CASE ResumeCommit(c)
    BY <2>4, OverwriteStep, Stutters DEF ResumeCommit, history
  <2>. QED  BY <1>3, <2>1, <2>2, <2>3, <2>4 DEF CallerNext
<1>4. CASE Environment
  BY <1>4, Stutters
     DEF Environment, WorkerCrash, ServiceCrash, LeaseAges, IntervalElapses,
         table, history
<1>5. CASE UNCHANGED vars
  BY <1>5, Stutters DEF vars
<1>. QED  BY <1>2, <1>3, <1>4, <1>5 DEF Next

\* RefreshJobs implements RefreshLifecycle: leases, recoveries, stale snapshots
\* and lost workers never commit a batch out of order, make a second job active
\* or end a job before its last batch.
THEOREM Implements == Spec => ImplementsLifecycle
<1>1. Init => Lifecycle!Init
  BY DEF Init, Lifecycle!Init, phases, PhaseOf, NoRow
<1>2. RefreshInv /\ [Next]_vars => [Lifecycle!Next]_<<phases, covered>>
  BY EveryStepMaps DEF AbstractStep
<1>. QED  BY <1>1, <1>2, RefreshInvariant, PTL
          DEF Spec, ImplementsLifecycle, Lifecycle!Spec
=============================================================================
