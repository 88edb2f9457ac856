---------------------------- MODULE CloudVaultTasks ----------------------------
(***************************************************************************)
(* The cloud-vault task queue (services/cloud_vault_task_service.py, and   *)
(* the poll of worker.py that drains it): tasks are queued through the     *)
(* API, run in bounded chunks by the sync worker and by API callers, and   *)
(* may be canceled.  There is no lease: whoever loads a task runs it.      *)
(*                                                                         *)
(* Abstractions.                                                           *)
(*  - A task has items (the files of a folder, the matches of a search, or *)
(*    a single step) that it works through; what was done to each is a     *)
(*    count of effects outside the queue (imports, notes, moves).          *)
(*  - Tasks are numbered in the order of the queue: priority, then age.    *)
(*  - A task is one idempotency key; a second request for the key answers  *)
(*    with the same row, or fails on its unique index.                     *)
(*  - A dedupe analysis is not one of these tasks: its progress is that of *)
(*    a dedupe job, and it stays running for ever when that job failed.    *)
(***************************************************************************)
EXTENDS Integers, Sequences, FiniteSets

CONSTANTS
  Tasks,        \* numbers of the tasks
  Size,         \* items of each task
  Chunk,        \* items of a run (chunk_size, batch_size)
  Limit,        \* tasks of a pass over the queue
  Worker,       \* the sync worker
  Callers,      \* API requests that run tasks
  Cancellers,   \* API requests that cancel tasks
  MaxFaults,    \* bound: items that raise
  MaxCrashes,   \* bound: processes that die while they run a task
  MaxReopened,  \* bound: failed tasks a caller continues
  MaxDone,      \* bound: effects on one item that are told apart
  NoTask

ASSUME CloudVaultTasksAssumption ==
  /\ IsFiniteSet(Tasks) /\ Tasks \subseteq Nat
  /\ Size \in [Tasks -> Nat \ {0}]
  /\ {Chunk, Limit, MaxDone} \subseteq Nat \ {0}
  /\ {MaxFaults, MaxCrashes, MaxReopened} \subseteq Nat
  /\ Worker \notin Callers
  /\ NoTask \notin Tasks

Runners == {Worker} \cup Callers

VARIABLES
  row,        \* rows of cloud_vault_tasks: status and cursor of the progress
  runner,     \* what each runner has loaded and where it is in a chunk
  canceller,  \* what each cancel request has loaded
  done,       \* effects on each item of each task, up to MaxDone
  spent       \* faults, crashes and reopened tasks so far

vars == <<row, runner, canceller, done, spent>>

\* The items of all the tasks, a pair of a task and a number each
Items == UNION {{t} \X (1..Size[t]) : t \in Tasks}

Active == {"queued", "running"}
Ended  == {"completed", "failed", "canceled"}

\* The loaded copy of a row; a rollback expires every copy of the session
Loaded(t)  == [task |-> t, status |-> row[t].status, cursor |-> row[t].cursor]
Expired(copy) == [copy EXCEPT !.status = "expired"]
Refreshed(copy) == IF copy.status = "expired" THEN Loaded(copy.task) ELSE copy

Rest == [at |-> "rest", todo |-> <<>>, item |-> 0]

\* items the current chunk has to reach
Goal(copy) == IF copy.cursor + Chunk < Size[copy.task] THEN copy.cursor + Chunk ELSE Size[copy.task]

Init ==
  /\ row = [t \in Tasks |-> [status |-> "none", cursor |-> 0]]
  /\ runner = [e \in Runners |-> Rest]
  /\ canceller = [c \in Cancellers |-> NoTask]
  /\ done = [x \in Items |-> 0]
  /\ spent = [faults |-> 0, crashes |-> 0, reopened |-> 0]

Queue(t) ==
  /\ row[t].status = "none"
  /\ row' = [row EXCEPT ![t].status = "queued"]
  /\ UNCHANGED <<runner, canceller, done, spent>>

-----------------------------------------------------------------------------
\* continue_cloud_vault_task_queue and continue_cloud_vault_task

\* mistake: a pass only picks up tasks nobody has started
RunnableQueued(t) == row[t].status = "queued"

Runnable(t) == row[t].status \in Active

\* s holds the first tasks of the queue, all of them when they are fewer than Limit
Queued(s) ==
  /\ \A i, k \in DOMAIN s : i < k => s[i] < s[k]
  /\ \A t \in Tasks :
       Runnable(t) /\ (\A i \in DOMAIN s : s[i] # t)
         => Len(s) = Limit /\ \A i \in DOMAIN s : s[i] < t

LoadQueue(e) ==
  /\ runner[e] = Rest
  /\ \E n \in 1..Limit : \E s \in [1..n -> {t \in Tasks : Runnable(t)}] :
       /\ Queued(s)
       /\ runner' = [runner EXCEPT ![e] =
                       [at |-> "loaded", todo |-> [i \in 1..n |-> Loaded(s[i])], item |-> 0]]
  /\ UNCHANGED <<row, canceller, done, spent>>

LoadTask(e, t) ==
  /\ runner[e] = Rest
  /\ row[t].status # "none"
  /\ row[t].status = "failed" => spent.reopened < MaxReopened
  /\ runner' = [runner EXCEPT ![e] = [at |-> "loaded", todo |-> <<Loaded(t)>>, item |-> 0]]
  /\ spent' = [spent EXCEPT !.reopened = IF row[t].status = "failed" THEN @ + 1 ELSE @]
  /\ UNCHANGED <<row, canceller, done>>

\* The next task of the pass, or the end of it
Onward(e, todo) ==
  runner' = [runner EXCEPT ![e] =
               IF todo = <<>> THEN Rest ELSE [at |-> "loaded", todo |-> todo, item |-> 0]]

\* A flush only writes the columns that differ from the loaded copy
StatusWritten(copy, status) ==
  IF copy.status = status
  THEN row
  ELSE [row EXCEPT ![copy.task].status = status]

Begin(e) ==
  /\ runner[e].at = "loaded"
  /\ LET copy == Refreshed(Head(runner[e].todo)) IN
     IF copy.status \in {"completed", "canceled"}
     THEN Onward(e, Tail(runner[e].todo)) /\ UNCHANGED row
     ELSE /\ row' = StatusWritten(copy, "running")
          /\ runner' = [runner EXCEPT ![e] =
               [at |-> "items", item |-> copy.cursor + 1,
                todo |-> [@.todo EXCEPT ![1] = [copy EXCEPT !.status = "running"]]]]
  /\ UNCHANGED <<canceller, done, spent>>

RunItem(e) ==
  /\ runner[e].at = "items"
  /\ LET copy == Head(runner[e].todo)
         i    == runner[e].item
     IN /\ i <= Goal(copy)
        /\ done' = [done EXCEPT ![<<copy.task, i>>] = IF @ < MaxDone THEN @ + 1 ELSE @]
        /\ runner' = [runner EXCEPT ![e].item = i + 1]
  /\ UNCHANGED <<row, canceller, spent>>

\* An item raises: the chunk's progress is rolled back, its effects stay
ItemRaises(e) ==
  /\ runner[e].at = "items"
  /\ spent.faults < MaxFaults
  /\ LET copy == Head(runner[e].todo) IN
     /\ runner[e].item <= Goal(copy)
     /\ row' = [row EXCEPT ![copy.task].status = "failed"]
  /\ LET left == Tail(runner[e].todo)
     IN Onward(e, [i \in DOMAIN left |-> Expired(left[i])])
  /\ spent' = [spent EXCEPT !.faults = @ + 1]
  /\ UNCHANGED <<canceller, done>>

\* mistake: the first chunk's worth of a later chunk is skipped
CursorDoubled(copy) ==
  IF copy.cursor + 2 * Chunk < Size[copy.task] THEN copy.cursor + 2 * Chunk ELSE Size[copy.task]

Cursor(copy) == Goal(copy)

StoreProgress(e) ==
  /\ runner[e].at = "items"
  /\ LET copy == Head(runner[e].todo) IN
     /\ runner[e].item > Goal(copy)
     /\ row' = [row EXCEPT ![copy.task].cursor = Cursor(copy)]
     /\ runner' = [runner EXCEPT ![e] =
                     [at |-> "finish", item |-> 0,
                      todo |-> [@.todo EXCEPT ![1] = [copy EXCEPT !.cursor = Cursor(copy)]]]]
  /\ UNCHANGED <<canceller, done, spent>>

Finish(e) ==
  /\ runner[e].at = "finish"
  /\ LET copy == Head(runner[e].todo) IN
     row' = IF copy.cursor < Size[copy.task] THEN row ELSE StatusWritten(copy, "completed")
  /\ Onward(e, Tail(runner[e].todo))
  /\ UNCHANGED <<canceller, done, spent>>

Crash(e) ==
  /\ runner[e] # Rest
  /\ spent.crashes < MaxCrashes
  /\ runner' = [runner EXCEPT ![e] = Rest]
  /\ spent' = [spent EXCEPT !.crashes = @ + 1]
  /\ UNCHANGED <<row, canceller, done>>

-----------------------------------------------------------------------------
\* cancel_cloud_vault_task

Cancellable(t) == row[t].status \notin {"none", "completed"}

CancelLoads(c, t) ==
  /\ canceller[c] = NoTask
  /\ Cancellable(t)
  /\ canceller' = [canceller EXCEPT ![c] = Loaded(t)]
  /\ UNCHANGED <<row, runner, done, spent>>

CancelCommits(c) ==
  /\ canceller[c] # NoTask
  /\ row' = StatusWritten(canceller[c], "canceled")
  /\ canceller' = [canceller EXCEPT ![c] = NoTask]
  /\ UNCHANGED <<runner, done, spent>>

-----------------------------------------------------------------------------
Run(e) == LoadQueue(e) \/ Begin(e) \/ RunItem(e) \/ StoreProgress(e) \/ Finish(e)

Next ==
  \/ \E t \in Tasks : Queue(t)
  \/ \E e \in Runners : Run(e) \/ ItemRaises(e) \/ Crash(e)
  \/ \E e \in Callers, t \in Tasks : LoadTask(e, t)
  \/ \E c \in Cancellers :
       (\E t \in Tasks : CancelLoads(c, t)) \/ CancelCommits(c)

Spec == Init /\ [][Next]_vars

\* docker restarts the worker, and the worker polls for ever
FairSpec == Spec /\ WF_vars(Run(Worker))

-----------------------------------------------------------------------------
Copy == [task : Tasks, status : Active \cup Ended \cup {"expired"}, cursor : Nat]

(* The types of the variables. *)
TypeOK ==
  /\ row \in [Tasks -> [status : Active \cup Ended \cup {"none"}, cursor : Nat]]
  /\ \A t \in Tasks : row[t].cursor <= Size[t]
  /\ runner \in [Runners -> [at : {"rest", "loaded", "items", "finish"},
                             todo : Seq(Copy), item : Nat]]
  /\ \A e \in Runners :
       /\ Len(runner[e].todo) <= Limit
       /\ (runner[e].at = "rest") = (runner[e].todo = <<>>)
  /\ canceller \in [Cancellers -> Copy \cup {NoTask}]
  /\ done \in [Items -> 0..MaxDone]
  /\ spent \in [faults : 0..MaxFaults, crashes : 0..MaxCrashes, reopened : 0..MaxReopened]

\* The first c items of a task were done
DoneUpTo(t, c) == c <= Size[t] /\ \A i \in 1..c : done[<<t, i>>] > 0

(* A completed task has done all of its items, whoever ran its chunks and  *)
(* whatever copy of the progress each of them had loaded.                  *)
CompletedIsDone ==
  \A t \in Tasks : row[t].status = "completed" => DoneUpTo(t, Size[t])

(* The cursor never runs ahead of the items, not even when a runner stores *)
(* the progress of a stale copy.                                           *)
CursorIsDone == \A t \in Tasks : DoneUpTo(t, row[t].cursor)

\* Nor does the cursor of any loaded copy, nor the item a runner is at
CopiesAreDone ==
  \A e \in Runners : \A k \in 1..Len(runner[e].todo) :
    DoneUpTo(runner[e].todo[k].task, runner[e].todo[k].cursor)

RunnersAreDone ==
  \A e \in Runners : runner[e].at = "items" =>
    LET copy == runner[e].todo[1] IN
    /\ runner[e].item \in (copy.cursor + 1)..(Goal(copy) + 1)
    /\ DoneUpTo(copy.task, runner[e].item - 1)

\* The inductive invariant: nobody knows of more progress than was made
TaskInv ==
  /\ TypeOK
  /\ CompletedIsDone
  /\ CursorIsDone
  /\ CopiesAreDone
  /\ RunnersAreDone

(* A task that is completed stays so.                                      *)
CompletedStays ==
  [][\A t \in Tasks : row[t].status = "completed" => row'[t].status = "completed"]_vars

(* A canceled task stays canceled.                                         *)
CanceledStays ==
  [][\A t \in Tasks : row[t].status = "canceled" => row'[t].status = "canceled"]_vars

(* A task other than a dedupe analysis that is queued or running comes to  *)
(* an end, whatever crashes, fails or is canceled.                         *)
EveryTaskEnds == \A t \in Tasks : row[t].status \in Active ~> row[t].status \in Ended
=============================================================================
