# Formal model of the iCloud index service

TLA+ specifications of the Python services in `src/icloud_index_service`, which mirror an iCloud
drive into a PostgreSQL index, feed a classifier and let users and MCP clients change the mirrored
files reversibly, and of the classifier in `apps/classifier`, which writes notes into an Obsidian
vault and learns from corrections. Paths below are relative to the repository; `services/…`,
`api/…`, `models/…` and `worker.py` stand for files of `src/icloud_index_service/`.

Contents: 1 inventory, 2 modules and how they correspond to the code, 3 runs, 4 proofs, 5 where the
code and its documentation disagree, 6 what is not modelled, 7 plan, 8 how to run everything.

## 1. Inventory

The processes share one database (PostgreSQL), one control file, two directory trees (the mirror with
its `_CHANGES_BACKUP`, and the Obsidian vault of notes) and the classifier's runtime directory:

| process | code | what it does |
|---|---|---|
| sync worker | `worker.py` | polls for ever: one batch of a refresh job, then a pass over the cloud-vault tasks |
| classification worker(s) | `classification_worker.py` | polls for ever: reconcile the vault, backfill, targeted requeue, then up to *concurrency* submissions; several may run at once (`docs/operations.md` 460-473) |
| classifier | `apps/classifier/api_server.py` | one request at a time per process; classifies a file, writes its note, leaves a job for the learning loop |
| shadow worker, maintenance run | `apps/classifier/shadow_worker.py`, `learning_maintenance.py` | review jobs with a teacher, update rules, retrain, renew the readiness report |
| API | `main.py`, `api/*.py` | synchronous handlers, run concurrently in threads: refresh control, search, file mutations, tasks |
| operator scripts | `scripts/` | one-shot imports and maintenance |

The MCP plugin (`src/icloud_plugin_mcp`) and the hosted proxy (`cloudflare/remote-mcp`) are clients
of the API. The classification worker calls the classifier over HTTP; the API also runs its note
writer in its own process.

| component | state | operations | hard behaviour | what makes it correct |
|---|---|---|---|---|
| Refresh job engine (`services/job_runner.py`, `api/refresh.py`) | rows of `jobs`, `sync_runs`; control file | enqueue, recover, claim, lease updates, commit/fail a batch; pause, resume | leases compared by payload text, transactions interleaved with a second store (the control file), slow and dead workers | one active job; only the lease holder commits; saved progress never claims too much; a job completes only when every batch was committed, fails only for cause, and ends |
| Scan of the mirror (`services/icloud_web_client.py`, `_persist_refresh_results`, `_finalize_sync_run_snapshot`) | rows of `files`, the frontier saved in the job | list a batch, upsert, delete what the run has not seen | the mirror changes during the scan; batches are redone after partial commits | no file is skipped; the index agrees with what had time to be seen, and converges |
| Classification queue (`services/classification_submission.py`) | `classification_jobs`, `classification_states` | backfill, targeted requeue, recovery, claim, submit, persist; classification on request | submissions of up to 30 minutes between two transactions, sessions that keep stale copies, rows updated by id | results belong to the fingerprint they are stored under; finished files are left alone; retries are bounded; everything is classified in the end |
| Change sets (`services/file_mutation_service.py`, `dedupe_workflow_service.apply_dedupe_group`) | mirror, `_CHANGES_BACKUP`, `change-set.json`, notes, `change_sets` | delete, apply a dedupe group, import the quarantine, restore | four stores, one transactional; no locks; requests overlap; crashes between writes | what was taken can be put back, and is put back where it was taken; nothing else is lost; the records agree |
| Cloud-vault tasks (`services/cloud_vault_task_service.py`) | `cloud_vault_tasks` with a progress cursor | queue, pass, run one, cancel | no lease: worker and callers run the same chunk; sessions keep the rows of a pass | progress never runs ahead of effects; a completed task is done; every task ends |
| Dedupe analysis (`services/dedupe_workflow_service.py`) | `dedupe_jobs`, groups, members | start, continue a chunk | no lease, a cursor stored from copies of any age, members inserted after a check, rows that come and go | a complete job missed nothing it need not; groups hold a file once and keep the best; the task that drives a job ends |
| Imports and notes (rest of `file_mutation_service.py`, the handlers of `cloud_vault_task_service.py`) | mirror, vault, rows of files and notes | import, note on request, fallback, reindex | items done again after crashes and by two runners, scans that index imports a second time | what counts as processed was delivered; repetitions do not multiply notes; imports are indexed once |
| Note writer (`apps/classifier/classify_to_obsidian.py`) | notes | find, move, write, remove duplicates | a look followed by writes, in two processes of which one has no lock | a note is only touched by who matched it |
| Vault reconciliation (`services/vault_reconciliation.py`) | notes, states | repair links, rename, export moved notes | file writes before one commit, bounded pass, best match may be another's | notes, states and files agree in the end |
| Label pipeline (`classify_to_obsidian.py`, export and requeue in the services) | a note's folder, reviewed rows, jobs | classify, normalise, export a move, requeue | decisions taken before and after normalisation; three loops of different pace | a correction sticks and is honoured; review follows the model; a file comes to rest |
| Learning loop (`hybrid_runtime.py`, `shadow_worker.py`, …) | queue, comparison rows, rules, model, reports, all files | request, cycle, reset | no locks, read-change-write of whole files, kill after 1800 s | no job or correction is lost; reports describe what is stored; everything is learned |
| Gmail export (`services/gmail_export.py`) | files and a cursor | export | the cursor is the newest date of a truncated page | (not modelled) every message is exported |
| Search, status, auth, parsers, proxies | – | read, translate or compute | – | not modelled, see 6 |

Interactions: the refresh writes `files.source hash/size/mtime`, from which the classification queue
computes fingerprints (`IndexFile` in `ClassificationQueue` is the refresh's upsert seen from there);
the sync worker runs refresh jobs and cloud-vault tasks in one loop; tasks of kind *dedupe* drive a
dedupe job, whose groups are applied by `apply_dedupe_group` as change sets; tasks of the other kinds
import files, which the next scan indexes again, and write notes, which the classifier, a pass of the
reconciliation and people change too; a moved note becomes a reviewed label, which the next
classification looks up and the next training learns; change sets mark the notes that the classifier
wrote. Each module takes the components it does not model as an environment that may act at any point.

## 2. Modules

| module | models | role |
|---|---|---|
| `RefreshLifecycle` | what a refresh job promises | abstract specification |
| `RefreshJobs` | `services/job_runner.py`, `worker.py`, `api/refresh.py` | the protocol; refines `RefreshLifecycle` |
| `RefreshJobs_proofs` | – | proofs about `RefreshJobs` |
| `RefreshScan` | the traversal and the `files` table | what a batch does to the index |
| `RefreshScan_proofs` | – | proofs about `RefreshScan` |
| `ClassificationQueue` | `services/classification_submission.py`, `classification_worker.py` | |
| `ClassificationQueue_proofs` | – | proofs about `ClassificationQueue` |
| `ChangeSets` | delete/restore/import of `file_mutation_service.py`, `apply_dedupe_group` | |
| `ChangeSets_proofs` | – | proofs about `ChangeSets` |
| `CloudVaultTasks` | `services/cloud_vault_task_service.py` | |
| `CloudVaultTasks_proofs` | – | proofs about `CloudVaultTasks` |
| `TaskEffects` | the handlers of the tasks, imports and notes on request, `workflow_index_service.reindex_document_vault_notes` | what the items of `CloudVaultTasks` do, next to scans |
| `TaskEffects_proofs` | – | proofs about `TaskEffects` |
| `DedupeJobs` | analysis of `services/dedupe_workflow_service.py`, `_run_dedupe_analysis` | a job and the task that drives it |
| `DedupeJobs_proofs` | – | proofs about `DedupeJobs` |
| `VaultNotes` | `write_obsidian_note`, `services/vault_reconciliation.py` | writers of notes and the reconciliation pass |
| `FileLabels` | label decisions of `classify_to_obsidian.py`, export and requeue of corrections | one file's label, from classification to correction and back |
| `ShadowLearning` | `hybrid_runtime.py`, `shadow_worker.py`, `learning_maintenance.py`, `reset_runtime.py` | the learning loop |
| `ShadowLearning_proofs` | – | proofs about `ShadowLearning` |
| `MC…` | – | instances for TLC: model values, small functions, symmetry |

**RefreshJobs.** One action is one transaction or one access of the control file; what a process
read in an earlier transaction stays in its local record (`worker[w]`, `caller[c]`) and is written
back later, exactly as in the code. `payload_json` is the record `[worker, stamp, pos, attempts]`:
the compare-and-swap of a lease update compares the whole text, so `stamp` stands for all timestamps
and is fresh at every write (`FreshStamp`; five stamps suffice for two workers, one caller and two rows).
Details kept on purpose: the first and the extraction update of a batch do *not* renew `heartbeat_at`;
a claim compares only the status and writes the payload it selected; pause and resume update by
primary key what they read, and the ORM writes only columns whose text changed (`Overwrite`); a
payload without a lease is stale at once; `LostLeaseError` ends the poll without a write; a client
that is not ready can only be met before the extraction. The retry counter saturates because it is
only compared. The partial unique index and the advisory lock make an enqueue atomic. `covered`,
`failures` and `refused` are history variables, used in properties only; `troubles` (crashes and pauses)
and the number of stamps bound the runs.

**RefreshScan.** The frontier is a set of folders and files, a batch expands entries until it has its
limit of files, upserts are committed in portions (`persist_mid_batch_progress`), and the last batch
marks every row its run has not seen as deleted. One worker at a time acts; that is what
`LeaseExclusive` and `OnlyHolderCommits` of `RefreshJobs` establish. Losing the lease, a failed batch
and a crash are the same step here (`InterruptBatch`): the saved frontier is scanned again. The
mirror client takes the oldest entry first and the iCloud client the newest; any order is allowed.
`settled` (history) is the set of files that did not change since the last completed scan began.

**ClassificationQueue.** Workers go through `requeue → recover → select → claiming → submitting →
answered → persisting`; a submission lies between two transactions. `Merged` is the ORM's diff: a
stale copy of a state row writes only the columns that differ from what was read (the session factory
sets `expire_on_commit=False` and `autoflush=False`). A version number stands for content, fingerprint
and label. A pass puts into the queue the first files of its order (`Firsts`), and moved notes in
whatever order the vault lists them (`Lists`). Rows that ended leave the model when no worker refers
to them. Recovery and results are
written by id without looking at the row, as in the code.

**ChangeSets.** Each operation is a plan, a sequence of steps in the order of the code's file and
database writes (`DeletePlan`, `DedupePlan`, `RestorePlan`, `ImportPlan`); requests interleave at
every step, fail (the transaction is rolled back, files, records and marked notes stay: `Stop`) or
crash. A restore does not look at the status of its change set or at what its path holds. `list` tells
the record of a batch from that of a single file, because the code restores the two in different orders.
The marking lists the notes of the vault and reads each of them, while the classifier and the
reconciliation rewrite and rename them: it marks the note of the file (`MarkNote`), misses it
(`MissNote`), or raises, with or without having marked it (`MarkFails`); and the classifier writes a note
anew without its `source_status` (`Rewritten`). Payloads are told apart by their file name, and a group may
hold files of one name: `Apart` is where that matters. `kept`, `taken`, `fate`, `cut` (ids whose last
request failed between record and commit) and `astray` (paths whose note was missed or rewritten) are
history variables.

**CloudVaultTasks.** A runner holds the copies of the rows its pass loaded; the code's second select
returns the same unrefreshed objects, and a rollback expires them all (`Expired`, `Refreshed`). A
flush writes only changed columns, so a runner that finds `running` in its copy does not overwrite a
`canceled` row until it completes it. An item is a number here; `TaskEffects` says what items do. A
dedupe analysis is excluded: its progress is a dedupe job.

**TaskEffects.** A runner loads a task, marks it running, looks its items up when no progress is stored
and goes through a chunk: `copy → place → register → look → write → commit` for a file that is imported
and noted, with the classifier's answer in place of the write when it falls back; the fallback routes of
the API do the same without a row. An import keeps only the base name of its file (`Base`): `ChooseName`
looks for a suffix that is free (`exists()` in `_destination_source_path`), `CopyFile` copies or moves
later and over whatever is there by then, since nothing reserves the name; `bytes` says whose bytes each
place holds. The other steps are one file operation or one commit each, but for the classifier's note
(one step here, taken apart in `VaultNotes`). `Matches`, `Best` and `Target` are the note writer's choice
of existing notes, `Linked` the row it leaves, and `Recorded` what a later request finds. A scan lists
the folder of imports, stores rows under the keys of the crawl and deletes what it has not seen; it knows
nothing of rows that imports wrote, which `Registered` and `Older` keep apart. Two histories: `excused`
is what a task reported as skipped or failed, `raced` the files for which two runners had chosen one name
before either wrote.

**DedupeJobs.** A chunk reads the job, the rows behind the cursor and, record by record, the group; its
commits write the columns that differ from what the session last knew, so `known` and `mine` are kept
per runner. The unique key of a group turns two inserts into a collision: the record is rolled back,
the job stays as it is, and the worker's task fails. `missing` (history) holds the candidates a job
has not visited yet; a file leaves it when the commit of a record that was really read is made (`seen`
are those since the last commit). The task's part is `BeginSlice`, `WorkerContinues`, `AnswerEnded` and `Report`: it
starts the job, continues it and stores what it has become.

**VaultNotes.** The writer's `move`, `write` and `drop` are separate steps after one scan of the vault,
in the classifier, which handles one request at a time, and in the API, which calls the same function
without that lock. A pass matches, renames, repairs and rewrites note by note and commits its states at
the end. Notes are ranked by path, hash and name as `_existing_generated_note_matches` ranks them.
`stale` (history) holds the processes that others have overtaken since their scan.

**FileLabels.** One file and its note. A classification looks for a reviewed row, then decides
(`trusted`, `asked`, `arbitrated`), is normalised twice against different lists of categories, and
writes the note into the folder of its label or of review. What is offered (`offered`) need not hold
what the fast path is sure of; `cut` remembers when it did not. A person may move and edit the note at any
time; `Export` turns a note whose folder disagrees into a reviewed row, `Seed` queues the file again.

**ShadowLearning.** Runners go through a cycle: export corrections, review a batch, update the rules,
train when enough is new, write the model and then its report, renew readiness. Every file is read and
written back whole. A request classifies, leaves a job and renews readiness. `settled` and
`clashes` are history: the jobs that were reviewed or removed by a reset, and the kinds of work in
which two processes met: both exported (`sync`), both trained (`train`), or one exported while the
other trained (`both`). A death counts as a clash only over an export, of which the corrections are
stored and their number is not; a training may be cut off anywhere.

Operators marked *Mutant* or *mistake* in the modules are plausible errors of the code that the
properties are known to detect; no action uses them. `PROJECT.json` names, for every definition, the
lines it models, and for every property the mistake that breaks it. `TypeOK` is proved of `RefreshJobs`,
`CloudVaultTasks`, `RefreshScan`, `ChangeSets`, `DedupeJobs` and `ShadowLearning`; in the other modules it
documents the types and can be added to any run.

## 3. Runs

All runs pass.

| run | instance | what it shows |
|---|---|---|
| `refresh_races` | 2 workers that may lose their lease at any point, pause/resume, 2 batches | `LeaseExclusive`, `SnapshotsSound`, and refinement of `RefreshLifecycle` (`ImplementsLifecycle`) |
| `refresh_crashes` | 1 worker and the API, requests, pauses and resumes, 2 jobs, 2 batches, 2 attempts, 3 crashes or 1 and a pause, fairness | `OneActiveJob`, `RetryBudget`, `CompletedCovers`; every queued refresh ends (`RefreshEnds`) |
| `scan_index` | 2 files in 2 folders, batch limit 1, 2 edits, 2 faults, pause/resume, fairness | `IndexAgrees`, `NothingLost`; `IndexConverges` |
| `classify_queue` | 2 workers, 1 request on demand, 2 faults, corrections | `OneSubmission` while submissions are faster than the lease |
| `classify_keeps_up` | 1 worker that may crash, 2 files that change, retries, fairness | `ResultsCurrent`, `DoneStaysDone`, `KeepsUp` |
| `change_requests` | 2 concurrent requests, 1 fault (crash, marking that fails or misses, note rewritten), 3 paths of which one in the quarantine, a group of two files and one that names its file twice, files that appear | `Undoable`, `Listed`, `OnlyKnownLosses`, `RestoresWhatItTook`; while requests come one at a time also `Agreement`, `NotesLead` |
| `task_queue` | worker and caller with passes of 2 over the same 2 tasks, fault, crash, cancellations, fairness | `CompletedIsDone`, `CursorIsDone`, `EveryTaskEnds` |
| `dedupe` | worker with its task and an API caller, 5 rows, 2 fingerprints, chunks of 2, 2 events (fault, crash, row removed or revived) | `JobCovers`, `GroupsSound`, `TaskEnds` |
| `vault_notes` | classifier, worker and a request, 3 paths of one title and two of one name, passes of 2 states, 2 events | `NotesKept`, `Converges` |
| `shadow_learning` | request, shadow worker, maintenance run, 2 jobs, 2 events (correction, run, reset, death) | `JobsReviewed`, `ExportedOnce`, `ReportFollowsModel`; `Learns`, `Settles` |
| `file_labels` | one file of each of 5 kinds, with and without the arbiter, two sets of offered labels, 2 events (move, edit, new content, failure) | `Sticks`, `AskedFirst`; `Honoured`, `Settles` |
| `task_effects` | 1 task of each of 9 kinds, 2 runners, 2 documents of one name, 2 files of one base name, 1 event | `Delivered`, `NoteOnce`; `Indexed` |

**Bounds.** Every bound is a constant named in the module (`MaxJobs`, `MaxCrashes`, `MaxFaults`,
`MaxEdits`, …). Two workers are enough for every race of the job protocol, since a lease, a claim and a
recovery each involve one process and one row read earlier. A restarted process keeps nothing, so a
second crash only matters to the recovery of the first; `refresh_crashes` has three, of a worker or of
the API. A pause multiplies the states the old copies can be in: there it counts for two crashes
(`PauseCost`), while `refresh_races` has no crash and any number of pauses. One pause is what two active
jobs would need: a refresh requested, or enqueued in the background, while the first job is paused, and
a resume. Two batches give a job with a saved, non-empty progress. The proofs of section 4 hold without
the bounds. Two files in two
folders with a batch limit of one make a scan of several batches in which a folder may be expanded in
one and its file listed in the next; more files multiply states without new orders. Two attempts
distinguish a retry from a failure for good; two versions of a file give each order of edit, index,
enqueue, submission and result. Task 1 has three items in chunks of two, so its last chunk is short, and
a pass holds both tasks, so the copy of the second is old when its turn comes. A caller that reopens a
failed task (`MaxReopened`) more than doubles the states; it is left to the proofs, which cover it.
`CHECK_DEADLOCK FALSE` is used where the system may stop: when ids of change sets, or tasks, are used
up, or when a file, the vault or the learning loop has come to rest.

The bound `MaxEvents` of the newer modules counts everything the environment may do, together, so that
each run holds every pair (in `task_effects` every one) of events in every order. Five rows of two
fingerprints, one internal, one deleted at first and one not on the disk, give each branch of the
analysis; a limit of one group makes the job stop early. Three paths of one title, of which two share a
name, give each kind of match; a pass of two of three states leaves one out. `MinNew` above what a run
can produce separates a training for corrections from one for rows. In `task_effects` one task and one
event suffice because the interesting orders are of two runners over one task and one fault or request.
Its two files have one base name, so each import competes for its name with the one before it and with
the other runner's. A folder is copied without notes and moved with them, since repeated copies with
notes multiply the states; a single file is copied with a note, and the proofs cover every combination.

**Fairness.** `RefreshJobs` assumes that workers take their enabled steps (the loop of `worker.py` polls
for ever and docker restarts a process that died), that a batch ends (it is bounded by its file limit
and by timeouts), and that a lease nobody renews ages. Nothing is assumed of callers, heartbeats or
crashes. `RefreshScan` assumes that the background scan enqueues when nothing is active and that the
worker works; resume is not fair, so convergence is claimed only when refreshes are not paused for ever.
`ClassificationQueue` assumes that workers poll, that time passes, and that the refresh indexes a
changed file. `CloudVaultTasks` and `DedupeJobs` assume only that the sync worker goes on; callers may
stop anywhere. `VaultNotes` assumes that a writer that began its note ends (weak fairness of its steps,
of the answer and of its absence), that the worker's pass goes on and scans come again and again, and
that a document that stays due is sent in the end (strong fairness of `Submits`, because the worker is
busy in between; `KeepsUp` of `ClassificationQueue` is that promise). `ShadowLearning` assumes the
worker's loop, and that a request that has begun its job writes it to the end. `FileLabels` assumes that
the classifier answers and that requeue and export come round. `TaskEffects` assumes only scans: the
worker starts a refresh whenever its interval has passed. Tasks and requests of these modules may stop
anywhere.

## 4. What is proved

Eight modules `…_proofs` prove, with TLAPS, the safety properties that the runs check, for every value of
the constants. Each rests on an inductive invariant, one lemma per action that the action keeps it, and
an induction over steps; the invariants were model-checked on small instances before they were proved.
What a theorem supposes beyond the assumption of its module is said with it, and is a case in which the
code keeps its promise; what happens outside of it is a row of section 5.

### Refresh jobs

`RefreshJobs_proofs` proves, with TLAPS, for every finite or infinite set of workers, callers and
stamps and all values of `MaxJobs`, `Batches`, `MaxAttempts` and `MaxCrashes` (assumption
`RefreshJobsAssumption`: positive naturals, null values that are not members):

| theorem | statement |
|---|---|
| `RefreshInvariant` | `Spec => []RefreshInv` |
| `OneActive`, `SnapshotsAreSound`, `CompletionIsEarned`, `FailureIsEarned` | the parts of `RefreshInv` that the runs check: `OneActiveJob`, `SnapshotsSound`, `CompletedCovers`, `RetryBudget` |
| `OneLeaseHolder` | `Spec => []LeaseExclusive` |
| `HolderCommits` | `Spec => OnlyHolderCommits` (proved only; no run repeats it) |
| `Implements` | `Spec => ImplementsLifecycle`, the refinement of `RefreshLifecycle` |

The invariant. `CompletedCovers` is not inductive: the completing step only knows that its own batch
is the last, so the *position* it starts from must be sound. The position comes from a lease, the
lease from a claim, the claim from a row read earlier, and pause or resume may have written an older
row back in between. Hence `SnapshotsSound`: every payload in a row or in any snapshot that may still
be written claims only batches that were committed and failures that happened. It is preserved because
`covered` and `failures` only grow (`Grows`, `SoundGrows`), which makes an old snapshot as sound as it
was. `Assigned` adds that whoever acts on a row knows one that exists, and that a lease in a batch
carries its holder's own id; with it, `LeaseExclusive` follows at once: two holders of one row would
have written the same payload, two holders of two rows would make two active jobs. `OneActiveJob`
needs the rows of the index only at the two steps that make a row active from outside, the insert and
the resume. The proof has one lemma per action (`…Inv`); `StepKeepsInv` reduces each to what the
action changes. For the refinement each action is mapped to an abstract step or a stutter (`…Step`),
and a commit is an abstract `Batch` precisely because the position it starts from is sound.

### Cloud-vault tasks

`CloudVaultTasks_proofs` proves, for every finite set of tasks, any size of a task, a chunk and a pass,
and any number of API callers and cancellers (assumption `CloudVaultTasksAssumption`):

| theorem | statement |
|---|---|
| `TaskInvariant` | `Spec => []TaskInv` |
| `CompletedTasksAreDone`, `CursorsAreDone` | its parts that the run checks: `CompletedIsDone`, `CursorIsDone` |

The invariant. No lease keeps two runners off one task, so a cursor is stored from copies of any age
and the stored cursor may even go back. What holds is that *nobody knows of more progress than was
made*: not a row (`CursorIsDone`), not a loaded copy, waiting in a pass or at work (`CopiesAreDone`),
and not the place a runner has reached in its chunk (`RunnersAreDone`). Items are only ever done, never
undone (`Grows`), so an old claim stays true (`DoneGrows`), and each action only moves a claim from
one place to another, adds the item it just did, or drops one. TLC agrees on the instance of `task_queue` when
`TaskInv` is added to it.

### What the tasks do

`TaskEffects_proofs` proves, for any documents (of equal names or not), files, tasks and runners, all kinds
of tasks and requests and every size of a chunk (`TaskEffectsAssumption`):

| theorem | statement |
|---|---|
| `TasksDeliver` | `Spec => []Delivered` |
| `NotesAreFew` | `Spec => []NoteOnce`, the runners being finitely many |

`Delivered` needs to know of every runner what it has loaded: that its list of items is finite, that it
does what its task says, that *every item before its own is delivered*, and that the copy or document it
works on is that of its item (`RunnerRight`). The same of rows is `Delivered` itself. An import is
delivered with a condition, which the code needs: its copy has the bytes of the file unless the file was
in `raced`. So the proof must show that nobody else is ever written over, which is `PlacesInv`: bytes
are in the mirror, a name that is chosen is not (so it holds no bytes then), and of the runners that wait
at one name with different files every file is in `raced`; whoever then writes over bytes had chosen
the name before they were there, as their writer had. What is delivered
stays so although notes are moved, replaced and removed, because a writer removes only notes of the name
it then writes, so that every name keeps a note (`Keeps`, `ItemStays`). This is where the *name* matters:
`Noted` counts a note that another document of the same name took over, and it could not be proved
otherwise (row "documents of one name").

`NoteOnce` counts notes, and the count comes from an injection: every note has a last author, and no
document has two notes of one author (`WroteOnce`), since a runner removes what it saw and it saw all it
had written of this document before (`SawOwn`). The classifier looks and writes in one step and needs
only the first part.

### The scan of the mirror

`RefreshScan_proofs` proves, for every finite tree, any versions and all bounds (`RefreshScanAssumption`:
the entries form a tree under the root):

| theorem | statement |
|---|---|
| `TypeCorrect` | `Spec => []TypeOK` |
| `ScanLosesNothing`, `IndexIsTrue` | `Spec /\ []OneScan => []NothingLost`, `[]IndexAgrees` |
| `ScanKeepsPresentFiles` | `Spec /\ []OneScan => PresentFilesKept` |
| `OneJobIsOneScan` | `MaxLive = 1` implies `Spec => []OneScan` |

The invariant `ScanInv` says of the live job, as saved and as the batch at work has it, that a file which
exists and has not changed since the scan began is recorded by this run, or *under the frontier*, or among
the items in hand. A folder may be taken off the frontier because its children are put on it
(`UnderExpanded`), a file because it is then in hand (`UnderOthers`); an interrupted batch falls back to
the saved frontier, which records made meanwhile only shorten. What is settled did not change since the
scan began, so that at its end the rows it has not seen are those of files that are gone.
`OneScan` (no two scans are live or paused) is what the marks of a run rely on; a second scan while one
is paused breaks `PresentFilesKept` (row "resume of an older job"). The instance of `scan_index` has
`MaxLive = 1`, so that what it shows is what the theorems say.

### The classification queue

`ClassificationQueue_proofs` proves, for any number of files, workers, requests, rows and crashes
(`ClassificationQueueAssumption`):

| theorem | statement |
|---|---|
| `QueueInvariant` | `Spec /\ []OneRecovery => []QueueInv`, workers being faster than the lease (`~ SlowWorkers`) |
| `FilesAreSubmittedOnce` | `[]OneSubmission` under the same conditions |
| `ResultsAreCurrent` | `[]ResultsCurrent`, when also nothing is classified on request (`Callers = {}`) |
| `DoneIsKept` | `DoneStaysDone` under the same conditions |
| `RecoveriesApart` | `Spec => []OneRecovery`, when there is one worker or none dies |

Each condition excludes a way in which the code breaks the property, as section 5 shows: a submission
that outlasts its lease, two workers that recover one row, a request that stores an old label. The invariant
`QueueInv` has three parts besides types. The active rows are of different files (`RowsInv`, the
partial unique index). A worker from its claim to its result holds a running row that is nobody else's,
and a row that is stale, or that somebody is about to requeue, is held by nobody (`HoldInv`); hence two
workers never have one file. What rows, answers and results say of a file's content is ordered: a row's
fingerprint is no newer than the file on disk, an answer no older than its row (`ContentInv`). Rows come
and go and lists are given in any order; `ListRight` and `ListsJoined` say that they hold each file once.
`RecoveriesApart` needs an invariant of its own (`AllHeld`: without deaths each running row has its
worker). It covers both runs of the module.

### Change sets

`ChangeSets_proofs` proves, for any paths, file names, groups, copies, change sets and requests at once, and
any number of crashes, failed or missed markings and rewritten notes (`ChangeSetsAssumption`):

| theorem | statement |
|---|---|
| `ChangeInvariant`, `ChangeTypes` | `Spec => []ChangeInv`, `[]TypeOK` |
| `AnsweredIsUndoable`, `PayloadsAreListed` | `[]Undoable`, `[]Listed` |
| `StoresAgree`, `GoneFilesAreMarked` | `[]Agreement`, `[]NotesLead` |
| `LossesAreKnown`, `RestoresAreExact` | `OnlyKnownLosses`, `RestoresWhatItTook` |

Their conditions are those of the properties: what a change set can give back is promised if its files have
different names (`Apart`; the row "payloads of a dedupe group" is what happens otherwise), `Agreement` and
`NotesLead` at rest and while requests came one at a time and none died, but for what a failed request left
(`cut`) and for notes that were missed or rewritten (`astray`).

A request is a list of steps, and the invariant speaks of those that are left: they come in the order of
the code (`InOrder`), every file that is moved has its note marked afterwards (`MarksFollow`), a request
that takes files has its change set for itself and its payloads came from its files; if names differ
(`Distinct`), a file it has still to move has no payload yet and one it has moved has its payload in place;
the record is there exactly when writing it is not left to do (`TakeRight`). Of a change set at rest it says
that every payload is named by the record, or that its request died first (`Contents`), and that what was
answered has all its payloads or was tried before. While requests come one at a time (`AloneInv`) the row
agrees with the record or the change set is in `cut`, and each missing file has a note that leads to its
change set, or a request that is about to mark it, or is in `astray`. `StopStep` says what a request may
leave that ends in the middle: it is the same for a move, a marking and a hash that fail.

### Dedupe analysis

`DedupeJobs_proofs` proves, for any finite set of files, any fingerprints, ranks, chunks and limits, and any
number of runners (`DedupeJobsAssumption`):

| theorem | statement |
|---|---|
| `DedupeInvariant`, `DedupeTypes` | `Spec => []DedupeInv`, `[]TypeOK` |
| `CompleteJobsCover` | `Spec => []JobCovers` |
| `GroupsAreSound` | `Spec => []GroupsSound` |

`JobCovers` is a matter of counting: a job ends when it has counted as many files as there were when it
began. For every job there is a set `ever` of files that were rows at some time since then, of which
there are at most `total` plus those that came back; whoever stands at a cursor has counted no more files
than this set has up to there (`Counts`, `RunnerCounts`), and what is missing lies behind every stored
cursor (`Covers`). So when the count is reached at most as many files are missing as came back. It is
kept although runners share the cursor without a lease, because a flush stores the position and the count
of one and the same reader, or leaves both as they are (`Local`). For `GroupsSound`, a group that no two
runners had read at once is as its only reader knows it (`ReadRight`), and appending an item or
summarising it again keeps it sound (`Wanted`, `Sound`).

### The learning loop

`ShadowLearning_proofs` proves, for any number of runners and requests, all kinds of reviews and all
thresholds, windows and batches (`ShadowLearningAssumption`):

| theorem | statement |
|---|---|
| `LearningInvariant`, `LearningTypes` | `Spec => []LearningInv`, `[]TypeOK` |
| `NoJobIsLost` | `Spec => []JobsReviewed` |
| `CorrectionsExportOnce` | `Spec => []ExportedOnce` |
| `ReportsFollow` | `Spec => []ReportFollowsModel` |

What a runner has in hand was in the queue, and when it removes a job the job is settled (`InHand`,
`Reviewed`); what it is about to store was true when it was read and has only grown since (`Stores`). As
long as no two exported at once, there is one exporter at most and it adds just what is missing between
the stored number and its own (`SyncFits`); the same of the trainer, whose model has all that the report
says, before and after it is stored (`TrainFits`).

### Only model-checked

- Liveness: every property under fairness (`RefreshEnds`, `IndexConverges`, `KeepsUp`, `EveryTaskEnds`,
  `TaskEnds`, `Converges`, `Learns`, `Settles`, `Honoured`, `Indexed`). It needs `ENABLED`, which TLAPS 1.4.5
  does not reason about.
- `NotesKept` of `VaultNotes`, and `Sticks` and `AskedFirst` of `FileLabels`.
- `TypeOK` of `ClassificationQueue` and `TaskEffects`: the proofs use the part of it that they need, without
  the bounds of numbers and the order of rows in the table.

## 5. Where code and documentation disagree

No run expects a violation. The following were met while the modules were written and checked; where a
property states what the code does not keep, it stays in the module, and the last column tells how to
see it (add it to the cfg named, or change the constants given).

| where | what happens | to see it |
|---|---|---|
| `pause_background_refresh` | reads the active row and updates it by id: a batch or a completion committed in between is undone and done again | `FrontierKept` in `refresh_races` |
| `claim_next_metadata_refresh_job` | compares the status, not the payload: a claim that selected an older frontier writes it back | `FrontierKept`, 2 workers, `Endpoints = {"refresh"}`, `Batches = 3` |
| pause and the control file | the file is written after the rows: a worker that read it before claims a job after the pause was acknowledged | `PausedMeansIdle` in `refresh_races` without its other properties |
| resume of an older job | a job left paused while a second scan completes finds its marks overwritten, and its last batch marks files deleted that exist | `PresentFilesKept`, `RefreshScan` with `MaxLive = 2` |
| classification lease | written by the claim only, stale after 300 s, while a submission may last 1800 s: finished files are queued again | `DoneStaysDone`, `OneSubmission` with `SlowWorkers = TRUE` |
| recovery of classification jobs | two workers recover one row; the slower requeues the row the faster is submitting | `OneSubmission` with 2 workers and `MaxCrashes = 1` |
| classification on request | stores an old label under the newer fingerprint it never read | `ResultsCurrent` with a caller and `MaxVersion = 2` |
| restore | replaces a newer file at its path, which is backed up nowhere | `NothingLost` of `ChangeSets` |
| delete | a crash between the move and `change-set.json` leaves a payload no record names (`Listed` excepts it: `fate = "crashed"`) | drop the exception |
| quarantine import | passes no session, so no row is written; its change sets cannot be restored, their paths are refused as internal | drop the exceptions for `"imported"` in `Agreement` and `Undoable` |
| marking the notes | the vault is listed, then every note is read (`services/file_mutation_service.py` 530-533, 547): one that another process renames or removes in between ends the request after the file was moved and `change-set.json` written, and before the commit; the id is never answered | `Agreement` without `\ cut` in `change_requests` |
| `source_status` of a note | the classifier writes notes anew and drops it, and a note that is being renamed is not listed: the note of a deleted file says nothing, or *active* | `NotesLead` without `astray` in `change_requests` |
| restore of a batch that fails in the middle | what it moved is back, the record still says *moved*, and every retry fails at its first item, which is no longer in the backup | `Undoable` of the ids that were tried (`fate[id] = "tried"`) and whose record says *moved*, at rest |
| restore overlapping a delete | the record says restored, the file is gone, the row is never written | `Agreement` without the condition that requests come one at a time |
| cancel of a running task | its runner completes it over the cancellation | `CanceledStays` in `task_queue` |
| cancel racing completion | a completed task becomes canceled | `CompletedStays` in `task_queue` |
| dedupe analysis whose job failed | its task stays `running`, is first in the queue, and with a limit of one no other task is run | `TaskEnds` without its last clause |
| `POST /refresh` while a refresh is paused | it does not look for paused jobs: from then on resume raises an uncaught `IntegrityError` (`services/job_runner.py` 906), against `docs/operations.md` 276 | `ResumeSucceeds` of `RefreshJobs`, all three endpoints, 2 jobs |
| backfill order | documents that are rejected for good come back at every poll ahead of images, which may never be classified, against `docs/operations.md` 312 | `KeepsUp` with `Files = {1, 2, 3}`, `Rejected = {1, 2}`, no events |
| payloads of a dedupe group | `backup_path = backup_dir / live_path.name`: of two members of one file name the first is overwritten (`Collides`) and cannot be restored, against "leave enough metadata to undo all or part of the batch later" (`docs/superpowers/specs/2026-07-02-vault-crud-plugin-design.md` 589) | `OnlyKnownLosses` without `Collides`, or `Undoable` without `Apart`, in `change_requests` with `Slot <- SameNames` |
| reconciliation, choice of a file | a note is turned to a file of the exact name although another has its content, against "Prefer an exact content-hash match" (`docs/superpowers/specs/2026-05-22-vault-reconciliation-design.md` 53) | `RedirectSound` in `vault_notes` |
| reconciliation, errors | a note that vanishes ends the pass, though the design says to record the failure and continue; states beyond the limit are never repaired | `Converges` with all states |
| create over an edited note | looks for an existing note by rows that uploads and local files never get and that a rename leaves behind, then rewrites what a person edited (`docs/prompts/mcp.md` 12-14) | `CreateKeepsEdits` in `vault_notes` |
| documents of one name | the second note takes over, or removes, the first's, while the task reports both as created (`docs/prompts/mcp.md` 4: "duplicate-safe") | `OwnNote` in `task_effects` |
| external data with an `idempotency_key` | a task that is run again writes its note again | `KeyedOnce` in `task_effects` |
| import during a scan | the row of the import and that of the crawl are live at once; an analysis groups the file with itself, and applying the group moves the only copy. A `file_id` that an import returned dies with the next complete scan | `NoTwins` in `task_effects` |
| imports of one base name | two runners find the same name free and copy or move to it one after the other: the second file is in the mirror, the first is not (and after a move it is nowhere), while both items count as imported under one row | `Delivered` without `x \in raced`, in `task_effects` |
| import in move mode | a crash between move and note leaves the file without its note while the task, which lists the folder anew, completes; in a later chunk the task can never complete | a note for every file of `mirror` that came from the folder, in `task_effects` with `move` |
| progress of a completed task | a slower runner stores its own list and a cursor below it | `task.progress` in `task_effects` |
| fallback results | a task whose fallback was blocked or failed is `completed`; the fallback of *chatgpt first* is reached only when the source is missing, where the classifier fails as well | `excused` in `task_effects` |
| a correction not yet exported | the requeue it causes may come first, find no reviewed row, and write the old label (`docs/prompts/classifier.md` 172-173) | `FollowsMove` in `file_labels` |
| labels that are cut off | the fast path is given all categories, its result is held against the at most 60 of `select_candidate_categories` (`category_manager.py` 393): a label it was sure of, or *text-message*, that is not among them becomes *needs-review* or a hint of confidence 0.69, and the note goes to review without the model, against issue #66 (`docs/prompts/classifier.md` 260-264) | `CutAskedFirst` in `file_labels` |
| pictures read as documents | may go to review from the fast path, without the model, as issue #66 (`docs/prompts/classifier.md` 258-263) fixed it for documents | `ScansAskedFirst` in `file_labels` |
| notes nobody moved | a note in review, with secondary labels or with action *review*, may be exported as a correction (`docs/prompts/classifier.md` 250) | `Rows` of `FileLabels` |
| corrections that are not followed | to labels that are not offered, of messages, of pictures without text, when the arbiter answers otherwise, to *appeal* (becomes *medical*) | drop the parts of `Followable` |
| messages | `state.primary_label` is never set, so completed messages left in review are requeued at every poll (`docs/operations.md` 326, 374) | `Settles` of `FileLabels` without its hypothesis |
| a note that is moved but not edited | keeps its time of change, so the requeue does not notice it; the requeue looks at the first `max(5 * limit, 25)` notes only | `Honoured` without `Urges` |
| rows of the shadow worker | never retrain once the window of 2000 is full, after a reset, or when training from the index used more (`docs/prompts/classifier.md` 56-64) | `Learns` stated of rows |
| overlapping runners of the learning loop | lose rules, store rows twice, export corrections twice, overwrite the report; a half-written job is reviewed as empty and removed | drop the `clashes` in the properties of `ShadowLearning` |
| undoing the move of a note | exports nothing, so the correction stays | – |
| fingerprint of an exported correction | it carries the note's time of change and size (`services/vault_reconciliation.py` 932-946): a repaired link or a changed `source_status` exports the correction again though nobody acted. `ShadowLearning` counts what people do, so its counts do not show it | – |

## 6. What is not modelled

- Contents: extracted text, hashes, metadata and formatting. A version, a copy or a position stands
  for them. Status counters (`items_seen` and the like) are left out.
- Torn writes of `change-set.json` and of notes; removals by the cloud sync during a change set.
- Retry backoff of classification jobs (its default is 0), and the attempts they count from the
  value their claim read.
- A client that is never ready fails its job before a sync run exists, so that nothing marks the
  interval; a mirror root that is unmounted during a scan looks empty, and its rows go: both are
  single assignments of the code that no interleaving adds to.
- The file that a dedupe group keeps is only looked up in the database before its duplicates move.
- Polling by API callers for the result of a task.
- `VaultNotes` has one process of the classifier. `REQUEST_LOCK` is per process, and
  `deploy/roles/classifier/README.md` allows several (`CLASSIFIER_API_WORKERS=4`): what two would do to
  each other's notes is what the unlocked writer of the API does. Attachments, extracted texts, the
  index page and the export of feedback at the end of a note are left out.
- `FileLabels`: scores, prompts, parsers; the window of 1500 rows; which labels the router and the
  taxonomy choose, and so which the cap of 60 cuts off (the run has two sets: all, and one without
  *text-message*, a label of the fast path, *unknown* and *needs-review*); corrections posted to the
  API; notes moved outside the two roots, which the note writer does not find.
- `ShadowLearning`: the maintenance run's second training and readiness write, training from the index,
  `ensure_lightgbm_model`; readiness coverage. Requests admitted by a stale report let the backlog pass
  its limit; no property bounds it.
- `TaskEffects`: searches find documents of iCloud only; the progress and the final status of a chunk are
  one commit; a request takes one document after the other; cancellation is `CloudVaultTasks`. Imports
  go to one folder of one month. A name with a suffix (`report-2.pdf`) is never the base name of another
  file. Of two files written to one place at once the last to begin is taken whole; two `copy2` could
  also mix. That the second of two simultaneous inserts of one path fails is one of the `Fault`s.
- Gmail export: messages come newest first and a run stops after `max_results`, storing the newest date;
  what it did not reach is never exported. A sequential command; planned, see 7.
- Feedback events and duplicate groups of `workflow_index_service.py`: idempotent upserts in one transaction.
- Search, file reading, status and readiness reports: they change no state.
- Authentication, configuration, migrations, parsers and OCR, the MCP proxies: translation and pure
  functions over libraries, with no protocol of their own.
- Deployment: its guarantees appear as fairness and constants.

## 7. Plan

Done: all modules of section 2, and the proofs of section 4: every invariant that a run checks, and the
action properties of `ClassificationQueue` and `ChangeSets`.

Next proofs, in this order: `Sticks` and `AskedFirst` of `FileLabels` (what a task has decided, against what
it read); `NotesKept` of `VaultNotes` (what a writer or a pass has seen, against what is there); then an
abstract specification of the index (what a completed scan promises) that `RefreshScan` implements under
`OneScan`, and one of a reversible mutation for `ChangeSets`, both from the invariants that are proved.

Next models: a small `GmailExport`.

## 8. Running

    tlc -config refresh_races.cfg MCRefreshJobs        # any run: its .cfg and its MC module
    tlapm RefreshJobs_proofs.tla                       # the proofs of a module

Each run finishes within minutes on two cores; `task_effects` takes the longest.
