--------------------------- MODULE ShadowLearning ---------------------------
(***************************************************************************)
(* The learning loop of the classifier (apps/classifier):                  *)
(*  - requests, which classify a file, leave a job for the teacher in the  *)
(*    queue directory and renew the readiness report that admits requests  *)
(*    (api_server.py, classify_to_obsidian.py, one process per API worker);*)
(*  - runners: the shadow worker and the one-shot maintenance run          *)
(*    (shadow_worker.py, learning_maintenance.py).  A cycle exports the    *)
(*    corrections that people made in the vault, has the teacher review    *)
(*    jobs, updates the rules, retrains the model and renews the report    *)
(*    (hybrid_runtime.py);                                                 *)
(*  - the reset of the runtime (reset_runtime.py).                         *)
(* All state is in files, without locks or atomic replacement.  Processes  *)
(* die between any two steps: containers restart, and a cycle that the API *)
(* started is killed after 1800 seconds.                                   *)
(*                                                                         *)
(* Abstractions.                                                           *)
(*  - A review has a kind: what the teacher says of the live result and    *)
(*    whether it counts for training.                                      *)
(*  - The inputs of one computation are read in one step, together with    *)
(*    the write before it; a readiness report is made and stored at once.  *)
(*    Of the files only those in the queue can be met half-written.        *)
(*  - A model exists from the start, since the image brings one.           *)
(*  - Coverage of extensions, labels and files in the readiness report is  *)
(*    left out; it grows with the approved rows.                           *)
(*  - Nothing reads a row that has left the window: it is forgotten.       *)
(***************************************************************************)
EXTENDS Integers, Sequences, FiniteSets

CONSTANTS
  Runners,     \* processes that run cycles
  Worker,      \* the one that runs for ever
  Requests,    \* processes that classify files
  MaxJobs,     \* bound: files that are classified; jobs are 1, 2, ..., the oldest first
  Keys,        \* parser and heuristic label, as rules name them
  KeyOf,       \* the key of each job
  NoKey,       \* the key of a row without a document
  Kinds,       \* what a review may come to, out of AllKinds
  BadKinds,    \* what a review of nothing may come to
  CorrectedKey,  \* the key of what people correct
  BaseRows,    \* approved rows that the image brings
  FirstRows,   \* rows that the model which the image brings was trained on
  BatchSize,   \* shadow_batch_size
  Recent,      \* rows that the rules are made from
  Window,      \* rows that the model is trained on
  Threshold,   \* auto_inline_disagreement_threshold
  MinRows,     \* auto_retrain_min_rows
  MinNew,      \* auto_retrain_min_new_rows
  MinSamples, MinApproval, MinAgreement,   \* readiness, rates in percent
  MaxDepth,    \* readiness_max_queue_depth
  Steps,       \* how often the fast confidence can be lowered before its floor
  MaxEvents,   \* bound: corrections by people, maintenance runs, resets and deaths, together
  None

AllKinds == {"agreed", "corrected", "doubted", "error"}

ASSUME ShadowLearningAssumption ==
  /\ Worker \in Runners /\ Runners \cap Requests = {}
  /\ KeyOf \in [1..MaxJobs -> Keys] /\ NoKey \in Keys /\ CorrectedKey \in Keys
  /\ Kinds \subseteq AllKinds /\ Kinds # {}
  /\ BadKinds \subseteq AllKinds /\ BadKinds # {}
  /\ {BaseRows, FirstRows, MaxDepth, MinSamples, MinNew, MaxEvents, Steps} \subseteq Nat
  /\ {MaxJobs, BatchSize, Threshold, MinRows, Recent, Window} \subseteq Nat \ {0}
  /\ Recent <= Window
  /\ {MinApproval, MinAgreement} \subseteq 0..100
  /\ None \notin Nat

Jobs == 1..MaxJobs
Row  == [job : Jobs \cup {None}, kind : AllKinds]

VARIABLES
  queue,     \* job files
  torn,      \* those of them that are not written to the end
  nextJob,
  rows,      \* shadow-comparisons.jsonl, the last Window of its rows
  exported,  \* manual-note-feedback.jsonl: the time of each exported correction
  corrected, \* number of corrections that people have made
  synced,    \* manual-note-sync-state.json: how many of them were exported
  rules,     \* force_inline_llm_for
  lowered,   \* how often heuristic_fast_confidence was lowered
  model,     \* the stored model: time of training, and number of corrections in it
  report,    \* its training report: the same, and the number of rows
  ready,     \* real_ingestion_allowed of the stored readiness report
  clock,     \* counts trainings
  runner, request,   \* the processes
  settled,   \* history: jobs that have a row, were read half-written or removed by a reset
  clashes,   \* history: kinds of work that two processes did at once, "both" if one exported
             \* while another trained; and "sync" if one died over an export
  events     \* number of corrections, maintenance runs, resets and deaths so far

files   == <<queue, torn, nextJob, rows>>
sync    == <<exported, corrected, synced>>
learned == <<rules, lowered, model, report, clock>>
history == <<settled, clashes>>
vars    == <<files, sync, learned, ready, runner, request, history, events>>

RestRunner  == [at |-> "rest", todo |-> <<>>, row |-> None, number |-> 0, keys |-> {},
                model |-> None]
RestRequest == [at |-> "rest", job |-> None]

Init ==
  /\ queue = {} /\ torn = {} /\ nextJob = 1 /\ rows = <<>>
  /\ exported = <<>> /\ corrected = 0 /\ synced = 0
  /\ rules = {} /\ lowered = 0 /\ clock = 0
  /\ model = [at |-> 0, notes |-> 0]
  /\ report = [at |-> 0, notes |-> 0, rows |-> FirstRows]
  /\ ready = FALSE
  /\ runner = [r \in Runners |-> RestRunner]
  /\ request = [q \in Requests |-> RestRequest]
  /\ settled = {} /\ clashes = {}
  /\ events = 0

Event == events < MaxEvents /\ events' = events + 1

-----------------------------------------------------------------------------
\* What is made from the rows

Last(n) == {i \in DOMAIN rows : i > Len(rows) - n}

Approved(kind) == kind \in {"agreed", "corrected"}
Differs(kind)  == kind \in {"corrected", "doubted"}

RowKey(row) == IF row.job = None THEN NoKey ELSE KeyOf[row.job]

\* apply_disagreement_updates: rows and corrections that speak against the heuristics
Against(key) ==
  Cardinality({i \in Last(Recent) : Differs(rows[i].kind) /\ RowKey(rows[i]) = key})
    + (IF key = CorrectedKey THEN Len(exported) ELSE 0)

Wanted == {key \in Keys : Against(key) >= Threshold}

\* build_feedback_rows: approved rows in the window, of the image and by people
ApprovedRows == Cardinality({i \in Last(Window) : Approved(rows[i].kind)}) + BaseRows + Len(exported)

\* mistake: corrections wait for enough new rows like all others
EnoughNewRows == report.rows = 0 \/ ApprovedRows - report.rows >= MinNew

\* maybe_retrain_from_shadow_data
EnoughNew ==
  \/ report.rows = 0
  \/ ApprovedRows - report.rows >= MinNew
  \/ \E i \in DOMAIN exported : exported[i] >= report.at

DueToTrain == ApprovedRows >= MinRows /\ EnoughNew

\* build_readiness_report
Depth == Cardinality(queue)

ShallowQueue == Depth <= MaxDepth

Allowed ==
  LET seen   == Cardinality(Last(Window)) + BaseRows + Len(exported)
      agreed == Cardinality({i \in Last(Window) : rows[i].kind = "agreed"}) + BaseRows + Len(exported)
  IN  /\ ApprovedRows >= MinSamples
      /\ 100 * ApprovedRows >= MinApproval * seen
      /\ 100 * agreed >= MinAgreement * ApprovedRows
      /\ ShallowQueue

-----------------------------------------------------------------------------
\* Two processes at work on the same files at once

Work(at) ==
  CASE at \in {"export", "store"}         -> "sync"
    [] at \in {"saveModel", "saveReport"} -> "train"
    [] OTHER                              -> "none"

Meet(rs, kind, other) ==
  \E r \in Runners : \E s \in Runners \ {r} : Work(rs[r].at) = kind /\ Work(rs[s].at) = other

Clash(rs) ==
  {kind \in {"sync", "train"} : Meet(rs, kind, kind)}
    \cup {kind \in {"both"} : Meet(rs, "sync", "train")}

Go(r, new) ==
  /\ runner' = [runner EXCEPT ![r] = new]
  /\ clashes' = clashes \cup Clash(runner')

-----------------------------------------------------------------------------
\* A request

\* classify_source: real-folder requests are refused unless the stored report admits them
Admit(q) ==
  /\ request[q].at = "rest"
  /\ ready
  /\ request' = [request EXCEPT ![q].at = "classify"]
  /\ UNCHANGED <<files, sync, learned, ready, runner, history, events>>

\* enqueue_shadow_job: the file appears empty ...
Enqueue(q) ==
  /\ request[q].at = "classify"
  /\ nextJob \in Jobs
  /\ queue' = queue \cup {nextJob}
  /\ torn' = torn \cup {nextJob}
  /\ nextJob' = nextJob + 1
  /\ request' = [request EXCEPT ![q] = [at |-> "fill", job |-> nextJob]]
  /\ UNCHANGED <<rows, sync, learned, ready, runner, history, events>>

\* ... and is written then
Fill(q) ==
  /\ request[q].at = "fill"
  /\ torn' = torn \ {request[q].job}
  /\ request' = [request EXCEPT ![q] = [RestRequest EXCEPT !.at = "report"]]
  /\ UNCHANGED <<queue, nextJob, rows, sync, learned, ready, runner, history, events>>

\* the classification fails, or no job is left to the teacher
Skip(q) ==
  /\ request[q].at = "classify"
  /\ request' = [request EXCEPT ![q] = [RestRequest EXCEPT !.at = "report"]]
  /\ UNCHANGED <<files, sync, learned, ready, runner, history, events>>

\* write_readiness_report
Report(q) ==
  /\ request[q].at = "report"
  /\ ready' = Allowed
  /\ request' = [request EXCEPT ![q] = RestRequest]
  /\ UNCHANGED <<files, sync, learned, runner, history, events>>

RequestDies(q) ==
  /\ request[q].at # "rest"
  /\ Event
  /\ request' = [request EXCEPT ![q] = RestRequest]
  /\ UNCHANGED <<files, sync, learned, ready, runner, history>>

RequestStep(q) ==
  Admit(q) \/ Enqueue(q) \/ Fill(q) \/ Skip(q) \/ Report(q)

-----------------------------------------------------------------------------
\* A cycle of a runner: sync_manual_note_feedback

\* mistake: what was exported before is not skipped
Unsynced(known) == corrected

NotSynced(known) == corrected - known

\* The state is read and the vault is scanned; the rows get their time here.  The
\* maintenance run is started by people.
Occasion(r) == IF r = Worker THEN UNCHANGED events ELSE Event

StartCycle(r) ==
  /\ runner[r].at = "rest"
  /\ Occasion(r)
  /\ Go(r, [RestRunner EXCEPT !.at = "export",
              !.todo = [i \in 1..NotSynced(synced) |-> clock], !.number = corrected])
  /\ UNCHANGED <<files, sync, learned, ready, request, settled>>

Export(r) ==
  /\ runner[r].at = "export"
  /\ exported' = exported \o runner[r].todo
  /\ Go(r, [runner[r] EXCEPT !.at = "store", !.todo = <<>>])
  /\ UNCHANGED <<files, corrected, synced, learned, ready, request, settled, events>>

-----------------------------------------------------------------------------
\* process_shadow_queue_once

\* the oldest jobs of the listing, at most BatchSize
Oldest == {j \in queue : Cardinality({k \in queue : k < j}) < BatchSize}

InOrder(s) == \A i, k \in DOMAIN s : i < k => s[i] < s[k]

NextJob(todo) == [RestRunner EXCEPT !.at = IF todo = <<>> THEN "tally" ELSE "load", !.todo = todo]

\* The state is written in every cycle, also when nothing is exported; the queue is listed
StoreSync(r) ==
  /\ runner[r].at = "store"
  /\ synced' = runner[r].number
  /\ \E todo \in [1..Cardinality(Oldest) -> Oldest] :
       InOrder(todo) /\ Go(r, NextJob(todo))
  /\ UNCHANGED <<files, exported, corrected, learned, ready, request, settled, events>>

\* A job that is gone or half-written is an empty one; the review takes minutes
LoadJob(r) ==
  LET job   == Head(runner[r].todo)
      whole == job \in queue \ torn
  IN  /\ runner[r].at = "load"
      /\ \E kind \in IF whole THEN Kinds ELSE BadKinds :
           Go(r, [runner[r] EXCEPT !.at = "append",
                    !.row = [job |-> IF whole THEN job ELSE None, kind |-> kind]])
      /\ settled' = settled \cup (torn \cap {job})
      /\ UNCHANGED <<files, sync, learned, ready, request, events>>

Unlinked(r) ==
  /\ queue' = queue \ {Head(runner[r].todo)}
  /\ torn' = torn \cap queue'
  /\ UNCHANGED <<nextJob, rows>>

Appended(r) ==
  /\ rows' = LET all == Append(rows, runner[r].row)
             IN  IF Len(all) > Window THEN Tail(all) ELSE all
  /\ UNCHANGED <<queue, torn, nextJob>>

\* mistake: the job is removed first
First(r)  == Unlinked(r) /\ UNCHANGED settled

\* the review is on record before the job is gone
Recorded(r) ==
  /\ Appended(r)
  /\ settled' = settled \cup ({runner[r].row.job} \ {None})

AppendRow(r) ==
  /\ runner[r].at = "append"
  /\ Recorded(r)
  /\ Go(r, [runner[r] EXCEPT !.at = "unlink"])
  /\ UNCHANGED <<sync, learned, ready, request, events>>

UnlinkJob(r) ==
  /\ runner[r].at = "unlink"
  /\ Unlinked(r)
  /\ Go(r, NextJob(Tail(runner[r].todo)))
  /\ UNCHANGED <<sync, learned, ready, request, settled, events>>

-----------------------------------------------------------------------------
\* apply_disagreement_updates, and the decision of maybe_retrain_from_shadow_data

\* mistake: the report is renewed only after a training
TrainOrRest ==
  IF DueToTrain
  THEN [RestRunner EXCEPT !.at = "saveModel", !.number = ApprovedRows,
                          !.model = [at |-> 0, notes |-> Len(exported)]]
  ELSE RestRunner

AfterRules ==
  IF DueToTrain
  THEN [RestRunner EXCEPT !.at = "saveModel", !.number = ApprovedRows,
                          !.model = [at |-> 0, notes |-> Len(exported)]]
  ELSE [RestRunner EXCEPT !.at = "report"]

WithNew(keys) == keys \cup Wanted

Tally(r) ==
  /\ runner[r].at = "tally"
  /\ Go(r, IF Wanted \subseteq rules
           THEN AfterRules
           ELSE [RestRunner EXCEPT !.at = "saveGating", !.keys = WithNew(rules), !.number = lowered])
  /\ UNCHANGED <<files, sync, learned, ready, request, settled, events>>

Lowered(number) == IF number = Steps THEN Steps ELSE number + 1

SaveGating(r) ==
  /\ runner[r].at = "saveGating"
  /\ lowered' = Lowered(runner[r].number)
  /\ Go(r, [runner[r] EXCEPT !.at = "saveRules"])
  /\ UNCHANGED <<files, sync, rules, model, report, clock, ready, request, settled, events>>

SaveRules(r) ==
  /\ runner[r].at = "saveRules"
  /\ rules' = runner[r].keys
  /\ Go(r, AfterRules)
  /\ UNCHANGED <<files, sync, lowered, model, report, clock, ready, request, settled, events>>

-----------------------------------------------------------------------------
\* train_lightgbm_model, write_readiness_report

\* mistake: the report is written before the model
ReportedFirst(r) ==
  /\ clock' = clock + 1
  /\ report' = [at |-> clock', notes |-> runner[r].model.notes, rows |-> runner[r].number]
  /\ UNCHANGED model

Stored(r) ==
  /\ clock' = clock + 1
  /\ model' = [runner[r].model EXCEPT !.at = clock']
  /\ UNCHANGED report

Reported(r) ==
  /\ report' = [at |-> runner[r].model.at, notes |-> runner[r].model.notes, rows |-> runner[r].number]
  /\ UNCHANGED <<clock, model>>

\* The time is taken when the model is made
SaveModel(r) ==
  /\ runner[r].at = "saveModel"
  /\ Stored(r)
  /\ Go(r, [runner[r] EXCEPT !.at = "saveReport", !.model.at = clock'])
  /\ UNCHANGED <<files, sync, rules, lowered, ready, request, settled, events>>

SaveReport(r) ==
  /\ runner[r].at = "saveReport"
  /\ Reported(r)
  /\ Go(r, [RestRunner EXCEPT !.at = "report"])
  /\ UNCHANGED <<files, sync, rules, lowered, ready, request, settled, events>>

WriteReady(r) ==
  /\ runner[r].at = "report"
  /\ ready' = Allowed
  /\ Go(r, RestRunner)
  /\ UNCHANGED <<files, sync, learned, request, settled, events>>

-----------------------------------------------------------------------------
\* reset_generated_classifier_outputs; then the report is written

StartReset(r) ==
  /\ runner[r].at = "rest" /\ r # Worker
  /\ Event
  /\ Go(r, [RestRunner EXCEPT !.at = "wipeQueue"])
  /\ UNCHANGED <<files, sync, learned, ready, request, settled>>

WipeQueue(r) ==
  /\ runner[r].at = "wipeQueue"
  /\ queue' = {} /\ torn' = {}
  /\ settled' = settled \cup queue
  /\ Go(r, [RestRunner EXCEPT !.at = "wipeRows"])
  /\ UNCHANGED <<nextJob, rows, sync, learned, ready, request, events>>

WipeRows(r) ==
  /\ runner[r].at = "wipeRows"
  /\ rows' = <<>>
  /\ Go(r, [RestRunner EXCEPT !.at = "wipeReady"])
  /\ UNCHANGED <<queue, torn, nextJob, sync, learned, ready, request, settled, events>>

WipeReady(r) ==
  /\ runner[r].at = "wipeReady"
  /\ ready' = FALSE
  /\ Go(r, [RestRunner EXCEPT !.at = "report"])
  /\ UNCHANGED <<files, sync, learned, request, settled, events>>

RunnerDies(r) ==
  /\ runner[r].at # "rest"
  /\ Event
  /\ runner' = [runner EXCEPT ![r] = RestRunner]
  /\ clashes' = clashes \cup ({Work(runner[r].at)} \cap {"sync"})
  /\ UNCHANGED <<files, sync, learned, ready, request, settled>>

\* A person moves a generated note, or labels one
Correct ==
  /\ Event
  /\ corrected' = corrected + 1
  /\ UNCHANGED <<files, exported, synced, learned, ready, runner, request, history>>

-----------------------------------------------------------------------------
CycleStep(r) ==
  \/ Export(r) \/ StoreSync(r)
  \/ LoadJob(r) \/ AppendRow(r) \/ UnlinkJob(r)
  \/ Tally(r) \/ SaveGating(r) \/ SaveRules(r)
  \/ SaveModel(r) \/ SaveReport(r) \/ WriteReady(r)

ResetStep(r) == WipeQueue(r) \/ WipeRows(r) \/ WipeReady(r)

Next ==
  \/ \E q \in Requests : RequestStep(q) \/ RequestDies(q)
  \/ \E r \in Runners : StartCycle(r) \/ CycleStep(r) \/ StartReset(r) \/ ResetStep(r) \/ RunnerDies(r)
  \/ Correct

Spec == Init /\ [][Next]_vars

\* The worker's loop goes on, and a request that has begun its job writes it to the end.
FairSpec ==
  /\ Spec
  /\ WF_vars(StartCycle(Worker) \/ CycleStep(Worker))
  /\ \A q \in Requests : WF_vars(RequestStep(q) /\ request[q].at # "rest")

-----------------------------------------------------------------------------
(* Types of all variables; the fast confidence never falls below its floor. *)
TypeOK ==
  /\ queue \subseteq Jobs /\ torn \subseteq queue /\ nextJob \in 1..(MaxJobs + 1)
  /\ rows \in Seq(Row) /\ exported \in Seq(Nat)
  /\ rules \subseteq Keys /\ lowered \in 0..Steps
  /\ {synced, corrected, clock, model.at, model.notes} \subseteq Nat
  /\ {report.at, report.notes, report.rows} \subseteq Nat
  /\ ready \in BOOLEAN

(* A job is in the queue or was reviewed, unless it was met before it was written
   to the end, or removed by a reset: whoever dies, whoever else takes it. *)
JobsReviewed == 1..(nextJob - 1) \subseteq queue \cup settled

(* A correction is exported once, unless two processes exported at once or one
   died over an export. *)
ExportedOnce == "sync" \in clashes \/ Len(exported) <= corrected

(* Unless two processes trained at once, the training report is about the stored
   model or an older one, whoever dies in between: the next cycle trains rather
   once too often. *)
ReportFollowsModel ==
  "train" \in clashes \/ (report.at <= model.at /\ report.notes <= model.notes)

(* Every correction that people made is in the stored model in the end, unless
   processes met while they exported or trained, or one died over an export. *)
Learns == <>[](clashes # {} \/ model.notes = corrected)

(* In the end the queue is empty, the rules hold whatever the rows call for, and
   the stored report admits requests if and only if it should. *)
Settles == <>[](queue = {} /\ Wanted \subseteq rules /\ (ready <=> Allowed))
=============================================================================
