-------------------------- MODULE ClassificationQueue --------------------------
(***************************************************************************)
(* The queue that feeds the classifier (services/classification_submission *)
(* .py and classification_worker.py): the backfill of new and changed      *)
(* files, the targeted requeues, recovery, claim and submission of a job,  *)
(* the classification states, and the classifications requested one file   *)
(* at a time through the API.                                              *)
(*                                                                         *)
(* Abstractions.                                                           *)
(*  - A version stands for the content of a file; the fingerprint of a     *)
(*    file is the version the index describes.                             *)
(*  - A label is the version of the content it was derived from.           *)
(*  - A job that ended leaves the table when no worker refers to it.       *)
(*  - CLASSIFICATION_RETRY_BACKOFF_SECONDS is 0, its default: a job that   *)
(*    is requeued may be claimed at once.                                  *)
(*  - A poll's reconciliation of the vault is another component's.         *)
(***************************************************************************)
EXTENDS Integers, Sequences, FiniteSets, SequencesExt

CONSTANTS
  Files,           \* ids of the files with a supported extension
  Bucket,          \* priority rank of each file's bucket, 0 and above
  Unlabelled,      \* message-like files that classification leaves in review
  Rejected,        \* files the classifier refuses permanently
  Workers, Callers,
  Jobs,            \* rows the model keeps
  MaxAttempts,     \* CLASSIFICATION_MAX_ATTEMPTS
  Limit,           \* of a backfill: twice the concurrency
  TargetedLimit,   \* CLASSIFICATION_TARGETED_REQUEUE_LIMIT
  Concurrency,     \* CLASSIFICATION_SUBMISSION_CONCURRENCY
  MaxVersion,      \* bound: versions of a file
  MaxCorrections,  \* bound: notes a user moves to another label
  MaxFaults,       \* bound: submissions that fail though the file is accepted
  MaxCrashes,      \* bound: crashes of a worker
  MaxCalls,        \* bound: classifications requested through the API
  SlowWorkers,     \* may a submission outlast the lease of its job?
  NoJob, NoFile

ASSUME ClassificationQueueAssumption ==
  /\ IsFiniteSet(Files) /\ Files \subseteq Nat /\ Bucket \in [Files -> Nat]
  /\ Unlabelled \subseteq Files /\ Rejected \subseteq Files
  /\ IsFiniteSet(Jobs) /\ Jobs \subseteq Nat
  /\ {MaxAttempts, Limit, TargetedLimit, Concurrency, MaxVersion} \subseteq Nat \ {0}
  /\ {MaxCorrections, MaxFaults, MaxCrashes, MaxCalls} \subseteq Nat
  /\ SlowWorkers \in BOOLEAN
  /\ NoJob \notin Jobs /\ NoFile \notin Files

VARIABLES
  disk,         \* version of each file on the mirror
  seen,         \* version of each file in the index
  jobs,         \* rows of classification_jobs
  order,        \* the rows in use, by id
  stale,        \* running rows whose heartbeat is older than the cutoff
  states,       \* rows of classification_states, by file
  corrections,  \* files whose note was moved after the last completion
  worker,       \* what each worker is doing
  caller,       \* what each API request is doing
  spent         \* how many faults, crashes, calls and corrections there were

files   == <<disk, seen>>
table   == <<jobs, order, stale>>
vars    == <<files, table, states, corrections, worker, caller, spent>>

Version == 0..MaxVersion
Urgent  == -1
Row == [status : {"none", "queued", "running", "completed", "failed"},
        file : Files \cup {NoFile}, rank : {Bucket[f] : f \in Files} \cup {Urgent, 0},
        fp : Version, attempts : 0..MaxAttempts]
NoRow == [status |-> "none", file |-> NoFile, rank |-> 0, fp |-> 0,
          attempts |-> 0]

State == [status : {"none", "queued", "completed", "failed"}, fp : Version, label : Version]
NoState == [status |-> "none", fp |-> 0, label |-> 0]

\* Where a worker is in its poll, the job it holds with the attempts and the
\* state it read, the stale jobs it found, and the classifier's answer.
WorkerPC == {"idle", "requeue", "recover", "recovering", "select", "claiming",
             "submitting", "answered", "persisting"}
Outcome  == {"none", "ok", "rejected", "notReady", "error"}
Local == [pc : WorkerPC, left : 0..Concurrency, found : SUBSET Jobs,
          job : Jobs \cup {NoJob}, attempts : 0..MaxAttempts, outcome : Outcome,
          content : Version, read : State]
Idle == [pc |-> "idle", left |-> 0, found |-> {}, job |-> NoJob, attempts |-> 0,
         outcome |-> "none", content |-> 0, read |-> NoState]

Request == [pc : {"idle", "asking", "answered"}, file : Files \cup {NoFile},
            fp : Version, content : Version, read : State]
NoRequest == [pc |-> "idle", file |-> NoFile, fp |-> 0, content |-> 0, read |-> NoState]

ActiveStatus == {"queued", "running"}
Pending(f) == \E j \in Jobs : jobs[j].file = f /\ jobs[j].status \in ActiveStatus

Init ==
  /\ disk = [f \in Files |-> 1] /\ seen = disk
  /\ jobs = [j \in Jobs |-> NoRow] /\ order = <<>> /\ stale = {}
  /\ states = [f \in Files |-> NoState]
  /\ corrections = {}
  /\ worker = [w \in Workers |-> Idle]
  /\ caller = [c \in Callers |-> NoRequest]
  /\ spent = [faults |-> 0, crashes |-> 0, calls |-> 0, corrections |-> 0]

-----------------------------------------------------------------------------
(* Rows *)

Free == {j \in Jobs : jobs[j].status = "none"}

\* Lists of n members of S, or of all of them; those of the first n.
Lists(S, n) ==
  {s \in [1..(IF Cardinality(S) < n THEN Cardinality(S) ELSE n) -> S] : IsInjective(s)}

Firsts(S, n, Less(_, _)) ==
  {s \in Lists(S, n) : \A k \in DOMAIN s, x \in S : Less(x, s[k]) => \E i \in 1..(k - 1) : s[i] = x}

\* _enqueue_reclassification_job_for_file, for the files of a sequence,
\* each at its rank.
Enqueue(s, rank) ==
  \E slots \in Firsts(Free, Len(s), <) :
    LET of(j) == s[CHOOSE k \in DOMAIN s : slots[k] = j]
    IN  /\ Len(slots) = Len(s)
        /\ jobs' = [j \in Jobs |->
                      IF j \in Range(slots)
                      THEN [NoRow EXCEPT !.status = "queued", !.file = of(j),
                                         !.rank = rank[of(j)], !.fp = seen[of(j)]]
                      ELSE jobs[j]]
        /\ order' = order \o slots
        /\ states' = [f \in Files |->
                        IF f \in Range(s)
                        THEN [states[f] EXCEPT !.status = "queued", !.fp = seen[f]]
                        ELSE states[f]]
        /\ UNCHANGED stale

\* What is left of a table: the active rows and those a worker refers to.
Held == {worker'[w].job : w \in Workers} \cup UNION {worker'[w].found : w \in Workers}
Write(rows) ==
  /\ jobs' = [j \in Jobs |-> IF rows[j].status \in ActiveStatus \/ j \in Held
                             THEN rows[j] ELSE NoRow]
  /\ order' = SelectSeq(order, LAMBDA j : jobs'[j] # NoRow)

\* uq_classification_jobs_active_file: some file would have two active rows.
Refused(rows) ==
  \E i, k \in Jobs : /\ i # k /\ rows[i].file = rows[k].file
                     /\ rows[i].status \in ActiveStatus /\ rows[k].status \in ActiveStatus

\* An ORM object writes the columns that differ from what it read.
Merged(row, read, new) == [c \in DOMAIN row |-> IF new[c] = read[c] THEN row[c] ELSE new[c]]

-----------------------------------------------------------------------------
(* Seeding the queue *)

\* Mutants: every completed file is up to date; none is.
UpToDateOnce(f)  == states[f].status = "completed"
UpToDateNever(f) == FALSE

UpToDate(f) == states[f].status = "completed" /\ states[f].fp = seen[f]

Before(f, g) == Bucket[f] < Bucket[g] \/ (Bucket[f] = Bucket[g] /\ f < g)

\* enqueue_classification_backfill: bucket after bucket, file after file.
Backfill(w) ==
  /\ worker[w].pc = "idle"
  /\ \E s \in Firsts({f \in Files : ~Pending(f) /\ ~UpToDate(f)}, Limit, Before) : Enqueue(s, Bucket)
  /\ worker' = [worker EXCEPT ![w].pc = "requeue"]
  /\ UNCHANGED <<files, corrections, caller, spent>>

\* enqueue_targeted_reclassification_from_manual_feedback: notes that a user
\* moved, in the order of the vault, then messages that were left in review.
TargetedRequeue(w) ==
  LET moved  == {f \in corrections : ~Pending(f)}
      review == {f \in Unlabelled \ moved : ~Pending(f) /\ states[f].status = "completed"}
  IN  /\ worker[w].pc = "requeue"
      /\ \E s \in Lists(moved, TargetedLimit) :
           \E rest \in Firsts(review, TargetedLimit - Len(s), <) :
             Enqueue(s \o rest, [f \in Files |-> Urgent])
      /\ worker' = [worker EXCEPT ![w].pc = "recover", ![w].left = Concurrency]
      /\ UNCHANGED <<files, corrections, caller, spent>>

-----------------------------------------------------------------------------
(* run_next_classification_job: recovery and claim *)

RecoverRead(w) ==
  /\ worker[w].pc = "recover"
  /\ worker' = [worker EXCEPT ![w].pc = IF stale = {} THEN "select" ELSE "recovering",
                              ![w].found = stale]
  /\ UNCHANGED <<files, table, states, corrections, caller, spent>>

\* The rows that were found are requeued whatever became of them; a conflict
\* is not caught and the process ends.
RecoverCommit(w) ==
  LET rows == [j \in Jobs |-> IF j \in worker[w].found
                              THEN [jobs[j] EXCEPT !.status = "queued"] ELSE jobs[j]]
  IN  /\ worker[w].pc = "recovering"
      /\ \/ /\ ~Refused(rows)
            /\ worker' = [worker EXCEPT ![w].pc = "select", ![w].found = {}]
            /\ Write(rows)
            /\ stale' = stale \ worker[w].found
         \/ /\ Refused(rows)
            /\ worker' = [worker EXCEPT ![w] = Idle]
            /\ Write(jobs)
            /\ UNCHANGED stale
      /\ UNCHANGED <<files, states, corrections, caller, spent>>

Position(j) == CHOOSE i \in 1..Len(order) : order[i] = j
Ahead(i, k) == \/ jobs[i].rank < jobs[k].rank
               \/ jobs[i].rank = jobs[k].rank /\ Position(i) < Position(k)

\* The poll ends when nothing is queued.
SelectNext(w) ==
  LET queued == {j \in Jobs : jobs[j].status = "queued"}
  IN  /\ worker[w].pc = "select"
      /\ \/ /\ queued = {}
            /\ worker' = [worker EXCEPT ![w] = Idle]
         \/ \E j \in queued :
              /\ \A k \in queued \ {j} : Ahead(j, k)
              /\ worker' = [worker EXCEPT ![w].pc = "claiming", ![w].job = j,
                                          ![w].attempts = jobs[j].attempts]
      /\ UNCHANGED <<files, table, states, corrections, caller, spent>>

\* Mutant: the UPDATE of a claim does not look at the status.
UnclaimedAlways(j) == TRUE

Unclaimed(j) == jobs[j].status = "queued"

\* The poll ends when the row was taken by another worker.
ClaimCommit(w) ==
  LET j == worker[w].job
  IN  /\ worker[w].pc = "claiming"
      /\ \/ /\ Unclaimed(j)
            /\ worker' = [worker EXCEPT ![w].pc = "submitting"]
            /\ Write([jobs EXCEPT ![j].status = "running"])
            /\ stale' = stale \ {j}
         \/ /\ ~Unclaimed(j)
            /\ worker' = [worker EXCEPT ![w] = Idle]
            /\ Write(jobs)
            /\ UNCHANGED stale
      /\ UNCHANGED <<files, states, corrections, caller, spent>>

-----------------------------------------------------------------------------
(* run_next_classification_job: submission and its result *)

\* The classifier reads the file and answers, or does not.
Submit(w) ==
  LET f == jobs[worker[w].job].file
  IN  /\ worker[w].pc = "submitting"
      /\ \/ \E outcome \in {IF f \in Rejected THEN "rejected" ELSE "ok"} :
              /\ worker' = [worker EXCEPT ![w].pc = "answered", ![w].content = disk[f],
                                          ![w].outcome = outcome]
              /\ UNCHANGED spent
         \/ \E outcome \in {"notReady", "error"} :
              /\ spent.faults < MaxFaults
              /\ worker' = [worker EXCEPT ![w].pc = "answered", ![w].outcome = outcome]
              /\ spent' = [spent EXCEPT !.faults = @ + 1]
      /\ UNCHANGED <<files, table, states, corrections, caller>>

\* The SELECT of _upsert_classification_state.
ReadState(w) ==
  /\ worker[w].pc = "answered"
  /\ worker' = [worker EXCEPT ![w].pc = "persisting",
                              ![w].read = states[jobs[worker[w].job].file]]
  /\ UNCHANGED <<files, table, states, corrections, caller, spent>>

\* After a job the poll goes on with the next, up to the concurrency.
AfterJob(w) ==
  IF worker[w].left = 1 THEN Idle
  ELSE [Idle EXCEPT !.pc = "recover", !.left = worker[w].left - 1]

\* Mutant: the result is stored under the fingerprint of the file's row as it
\* is when the answer arrives.
FingerprintNow(j) == seen[jobs[j].file]

\* The fingerprint a result is stored under: the one the job was created with.
Fingerprint(j) == jobs[j].fp

\* _persist_completed_classification.
PersistCompleted(w) ==
  LET j    == worker[w].job
      f    == jobs[j].file
      read == worker[w].read
  IN  /\ worker[w].pc = "persisting"
      /\ worker[w].outcome = "ok"
      /\ states' = [states EXCEPT ![f] = Merged(@, read,
             [status |-> "completed", fp |-> Fingerprint(j), label |-> worker[w].content])]
      /\ worker' = [worker EXCEPT ![w] = AfterJob(w)]
      /\ Write([jobs EXCEPT ![j].status = "completed"])
      /\ stale' = stale \ {j}
      /\ corrections' = corrections \ {f}
      /\ UNCHANGED <<files, caller, spent>>

\* The failures that use an attempt: all but those of a readiness gate.
Counts(outcome) == outcome \in {"error", "rejected"}

Exhausted(n) == n >= MaxAttempts

\* _persist_failed_classification: the attempts are those the claim read; a
\* conflict on requeueing the row is not caught and the process ends.
PersistFailed(w) ==
  LET j    == worker[w].job
      f    == jobs[j].file
      read == worker[w].read
      out  == worker[w].outcome
      n    == worker[w].attempts + (IF Counts(out) THEN 1 ELSE 0)
      status == IF out = "rejected" \/ Exhausted(n) THEN "failed" ELSE "queued"
      rows == [jobs EXCEPT ![j].status = status,
                           ![j].attempts = IF Counts(out) THEN n ELSE @]
  IN  /\ worker[w].pc = "persisting"
      /\ out # "ok"
      /\ \/ /\ ~Refused(rows)
            /\ states' = [states EXCEPT ![f] = Merged(@, read,
                   [status |-> status, fp |-> jobs[j].fp, label |-> read.label])]
            /\ worker' = [worker EXCEPT ![w] = AfterJob(w)]
            /\ Write(rows)
            /\ stale' = stale \ {j}
            /\ corrections' = IF status = "failed" THEN corrections \ {f} ELSE corrections
         \/ /\ Refused(rows)
            /\ worker' = [worker EXCEPT ![w] = Idle]
            /\ Write(jobs)
            /\ UNCHANGED <<states, stale, corrections>>
      /\ UNCHANGED <<files, caller, spent>>

-----------------------------------------------------------------------------
(* classify_file_on_mcp_fallback, called with the file's state already read *)

Ask(c, f) ==
  /\ caller[c].pc = "idle"
  /\ spent.calls < MaxCalls
  /\ spent' = [spent EXCEPT !.calls = @ + 1]
  /\ caller' = [caller EXCEPT ![c] = [NoRequest EXCEPT !.pc = "asking", !.file = f,
                                               !.fp = seen[f], !.read = states[f]]]
  /\ UNCHANGED <<files, table, states, corrections, worker>>

\* A request the classifier does not accept changes nothing.
Answer(c) ==
  LET f == caller[c].file
  IN  /\ caller[c].pc = "asking"
      /\ \/ /\ f \notin Rejected
            /\ caller' = [caller EXCEPT ![c].pc = "answered", ![c].content = disk[f]]
         \/ caller' = [caller EXCEPT ![c] = NoRequest]
      /\ UNCHANGED <<files, table, states, corrections, worker, spent>>

Store(c) ==
  LET f    == caller[c].file
      read == IF caller[c].read = NoState THEN states[f] ELSE caller[c].read
  IN  /\ caller[c].pc = "answered"
      /\ states' = [states EXCEPT ![f] = Merged(@, read,
             [status |-> "completed", fp |-> caller[c].fp, label |-> caller[c].content])]
      /\ corrections' = corrections \ {f}
      /\ caller' = [caller EXCEPT ![c] = NoRequest]
      /\ UNCHANGED <<files, table, worker, spent>>

-----------------------------------------------------------------------------
(* The surroundings *)

\* A file changes on the mirror; a refresh records what is there.
EditFile(f) ==
  /\ disk[f] < MaxVersion
  /\ disk' = [disk EXCEPT ![f] = @ + 1]
  /\ UNCHANGED <<seen, table, states, corrections, worker, caller, spent>>

IndexFile(f) ==
  /\ seen[f] # disk[f]
  /\ seen' = [seen EXCEPT ![f] = disk[f]]
  /\ UNCHANGED <<disk, table, states, corrections, worker, caller, spent>>

\* A user moves the generated note of a file to the folder of another label.
Correct(f) ==
  /\ spent.corrections < MaxCorrections
  /\ states[f].label # 0 /\ f \notin corrections
  /\ corrections' = corrections \cup {f}
  /\ spent' = [spent EXCEPT !.corrections = @ + 1]
  /\ UNCHANGED <<files, table, states, worker, caller>>

\* The heartbeat is written by the claim and never again.
HeartbeatAges(j) ==
  /\ jobs[j].status = "running"
  /\ j \notin stale
  /\ SlowWorkers \/ \A w \in Workers : worker[w].job # j
  /\ stale' = stale \cup {j}
  /\ UNCHANGED <<files, jobs, order, states, corrections, worker, caller, spent>>

\* Also the missing token, which ends a poll with the job claimed.
WorkerCrash(w) ==
  /\ worker[w].pc # "idle"
  /\ spent.crashes < MaxCrashes
  /\ spent' = [spent EXCEPT !.crashes = @ + 1]
  /\ worker' = [worker EXCEPT ![w] = Idle]
  /\ Write(jobs)
  /\ UNCHANGED <<files, stale, states, corrections, caller>>

WorkerStep(w) ==
  \/ Backfill(w) \/ TargetedRequeue(w)
  \/ RecoverRead(w) \/ RecoverCommit(w) \/ SelectNext(w) \/ ClaimCommit(w)
  \/ Submit(w) \/ ReadState(w) \/ PersistCompleted(w) \/ PersistFailed(w)

Next ==
  \/ \E w \in Workers : WorkerStep(w) \/ WorkerCrash(w)
  \/ \E c \in Callers : Answer(c) \/ Store(c) \/ \E f \in Files : Ask(c, f)
  \/ \E f \in Files : EditFile(f) \/ IndexFile(f) \/ Correct(f)
  \/ \E j \in Jobs : HeartbeatAges(j)

Spec == Init /\ [][Next]_vars

\* The worker polls, the classifier answers within its timeout, time passes, and
\* the refresh indexes what is on the mirror.
Fairness ==
  /\ \A w \in Workers : WF_vars(WorkerStep(w))
  /\ \A j \in Jobs : WF_vars(HeartbeatAges(j))
  /\ \A f \in Files : WF_vars(IndexFile(f))

FairSpec == Spec /\ Fairness

-----------------------------------------------------------------------------
(* Properties *)

\* The types of the variables of the queue.
TypeOK ==
  /\ disk \in [Files -> 1..MaxVersion] /\ seen \in [Files -> 1..MaxVersion]
  /\ jobs \in [Jobs -> Row] /\ stale \subseteq Jobs
  /\ order \in Seq(Jobs) /\ Len(order) = Cardinality(Jobs \ Free)
  /\ states \in [Files -> State]
  /\ corrections \subseteq Files
  /\ worker \in [Workers -> Local]
  /\ caller \in [Callers -> Request]

\* The last classification of the file is finished and its index entry is the
\* one it was made for.
Done(f) == states[f].status = "completed" /\ states[f].fp = seen[f] /\ ~Pending(f)

\* A file that backfills will skip as unchanged was classified from the content
\* its fingerprint describes, or from a newer one, however edits of the file and
\* refreshes of the index fall between enqueueing, submission and result.
ResultsCurrent == \A f \in Files : Done(f) => states[f].label >= states[f].fp

\* Two workers never have the same file classified at the same time.
OneSubmission ==
  \A v, w \in Workers :
    /\ v # w
    /\ worker[v].pc = "submitting" /\ worker[w].pc = "submitting"
    => jobs[worker[v].job].file # jobs[worker[w].job].file

\* docs/operations.md: per-file state is persisted so that unchanged files are
\* not resubmitted.  A file whose classification is complete stays so until it
\* changes, its label is corrected or a message is retried.
DoneStaysDone ==
  [][\A f \in Files \ (Unlabelled \cup corrections) :
       Done(f) /\ seen'[f] = seen[f] => Done(f)']_vars

\* docs/operations.md: the worker backfills the indexed corpus and keeps up with
\* new or changed files.  When the edits stop, every file the classifier accepts
\* is in the end classified in its present version.
KeepsUp ==
  \A f \in Files \ Rejected :
    <>[](Done(f) /\ states[f].fp = disk[f] /\ states[f].label = disk[f])
=============================================================================
