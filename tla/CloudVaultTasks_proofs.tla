------------------------ MODULE CloudVaultTasks_proofs ------------------------
(***************************************************************************)
(* Proofs about CloudVaultTasks, for every set of tasks, callers and       *)
(* cancellers, every size of a task and of a chunk, and all bounds.        *)
(***************************************************************************)
EXTENDS CloudVaultTasks, TLAPS

-----------------------------------------------------------------------------
(* The invariant, split by the row or runner it is about *)

RowIsDone(t) ==
  /\ DoneUpTo(t, row[t].cursor)
  /\ row[t].status = "completed" => DoneUpTo(t, Size[t])

RunnerIsDone(x) ==
  /\ \A k \in 1..Len(x.todo) : DoneUpTo(x.todo[k].task, x.todo[k].cursor)
  /\ x.at = "items" => /\ x.item \in (x.todo[1].cursor + 1)..(Goal(x.todo[1]) + 1)
                       /\ DoneUpTo(x.todo[1].task, x.item - 1)

\* The same of fixed values after a step
DoneUpToNext(t, c) == c <= Size[t] /\ \A i \in 1..c : done'[<<t, i>>] > 0

RowIsDoneNext(t) ==
  /\ DoneUpToNext(t, row'[t].cursor)
  /\ row'[t].status = "completed" => DoneUpToNext(t, Size[t])

RunnerIsDoneNext(x) ==
  /\ \A k \in 1..Len(x.todo) : DoneUpToNext(x.todo[k].task, x.todo[k].cursor)
  /\ x.at = "items" => /\ x.item \in (x.todo[1].cursor + 1)..(Goal(x.todo[1]) + 1)
                       /\ DoneUpToNext(x.todo[1].task, x.item - 1)

Grows == \A x \in Items : done[x] <= done'[x]

\* The invariant is the conjunction of its parts.
LEMMA InvParts ==
  TaskInv <=> /\ TypeOK
              /\ \A t \in Tasks : RowIsDone(t)
              /\ \A e \in Runners : RunnerIsDone(runner[e])
  BY DEF TaskInv, CompletedIsDone, CursorIsDone, CopiesAreDone, RunnersAreDone,
         RowIsDone, RunnerIsDone

\* So is the invariant of the next state.
LEMMA InvPartsNext ==
  TaskInv' <=> /\ TypeOK'
               /\ \A t \in Tasks : RowIsDoneNext(t)
               /\ \A e \in Runners : RunnerIsDoneNext(runner'[e])
  BY DEF TaskInv, CompletedIsDone, CursorIsDone, CopiesAreDone, RunnersAreDone,
         RowIsDoneNext, RunnerIsDoneNext, DoneUpTo, DoneUpToNext, Goal

\* The items of a task up to its size are items.
LEMMA ItemsOfTask ==
  ASSUME NEW t \in Tasks, NEW i \in 1..Size[t]
  PROVE  <<t, i>> \in Items
  BY DEF Items

\* What was done stays done.
LEMMA DoneGrows ==
  ASSUME TypeOK, done' \in [Items -> 0..MaxDone], Grows, NEW t \in Tasks, NEW c \in Nat, DoneUpTo(t, c)
  PROVE  DoneUpToNext(t, c)
<1>1. Size[t] \in Nat
  BY CloudVaultTasksAssumption
<1>2. ASSUME NEW i \in 1..c
      PROVE  done'[<<t, i>>] > 0
  <2>1. <<t, i>> \in Items
    BY <1>1, ItemsOfTask DEF DoneUpTo
  <2>2. done[<<t, i>>] \in Nat /\ done'[<<t, i>>] \in Nat
    BY <2>1, CloudVaultTasksAssumption DEF TypeOK
  <2>. QED  BY <2>1, <2>2 DEF Grows, DoneUpTo
<1>. QED  BY <1>2 DEF DoneUpTo, DoneUpToNext

\* A step that leaves done alone undoes nothing.
LEMMA SameGrows ==
  ASSUME TypeOK, UNCHANGED done
  PROVE  Grows /\ done' \in [Items -> 0..MaxDone]
  BY CloudVaultTasksAssumption DEF TypeOK, Grows

\* The copies of a runner are copies of tasks, of which the first is at work.
LEMMA Copies ==
  ASSUME TypeOK, NEW e \in Runners
  PROVE  /\ runner[e].todo \in Seq(Copy)
         /\ runner[e].item \in Nat
         /\ \A k \in 1..Len(runner[e].todo) :
              /\ runner[e].todo[k] \in Copy
              /\ runner[e].todo[k].task \in Tasks
              /\ runner[e].todo[k].cursor \in Nat
         /\ runner[e].at # "rest" =>
              /\ runner[e].todo # <<>>
              /\ Len(runner[e].todo) >= 1
              /\ Head(runner[e].todo) = runner[e].todo[1]
<1>. DEFINE s == runner[e].todo
<1>1. s \in Seq(Copy) /\ runner[e].item \in Nat
  BY DEF TypeOK
<1>2. ASSUME NEW k \in 1..Len(s)
      PROVE  s[k] \in Copy /\ s[k].task \in Tasks /\ s[k].cursor \in Nat
  <2>1. s[k] \in Copy
    BY <1>1
  <2>. QED  BY <2>1 DEF Copy
<1>3. runner[e].at # "rest" => s # <<>>
  BY DEF TypeOK
<1>4. s # <<>> => Len(s) >= 1 /\ Head(s) = s[1]
  BY <1>1
<1>. QED  BY <1>1, <1>2, <1>3, <1>4

\* The chunk of a copy ends between its cursor and the end of the task.
LEMMA GoalBounds ==
  ASSUME NEW c \in Copy, c.cursor <= Size[c.task]
  PROVE  Goal(c) \in Nat /\ c.cursor <= Goal(c) /\ Goal(c) <= Size[c.task]
<1>1. Size[c.task] \in Nat /\ Chunk \in Nat /\ c.cursor \in Nat
  BY CloudVaultTasksAssumption DEF Copy
<1>. QED  BY <1>1 DEF Goal

\* A row that a step does not write stays right.
LEMMA RowUnmoved ==
  ASSUME TaskInv, done' \in [Items -> 0..MaxDone], Grows, NEW t \in Tasks, row'[t] = row[t]
  PROVE  RowIsDoneNext(t)
<1>1. RowIsDone(t) /\ TypeOK
  BY InvParts
<1>2. row[t].cursor \in Nat /\ Size[t] \in Nat
  BY <1>1, CloudVaultTasksAssumption DEF TypeOK
<1>. QED  BY <1>1, <1>2, DoneGrows DEF RowIsDone, RowIsDoneNext

\* So does a runner that does not move.
LEMMA RunnerUnmoved ==
  ASSUME TaskInv, done' \in [Items -> 0..MaxDone], Grows, NEW e \in Runners, runner'[e] = runner[e]
  PROVE  RunnerIsDoneNext(runner'[e])
<1>1. RunnerIsDone(runner[e]) /\ TypeOK
  BY InvParts
<1>2. ASSUME NEW k \in 1..Len(runner[e].todo)
      PROVE  DoneUpToNext(runner[e].todo[k].task, runner[e].todo[k].cursor)
  BY <1>1, Copies, DoneGrows DEF RunnerIsDone
<1>3. ASSUME runner[e].at = "items"
      PROVE  DoneUpToNext(runner[e].todo[1].task, runner[e].item - 1)
  <2>1. /\ runner[e].todo[1].task \in Tasks
        /\ runner[e].todo[1] \in Copy
        /\ runner[e].todo[1].cursor \in Nat
        /\ runner[e].item \in Nat
    BY <1>1, <1>3, Copies
  <2>2. runner[e].item - 1 \in Nat
    <3>1. runner[e].item >= runner[e].todo[1].cursor + 1
      <4>1. Goal(runner[e].todo[1]) \in Nat
        BY <1>1, <1>3, <2>1, Copies, GoalBounds DEF RunnerIsDone, DoneUpTo
      <4>. QED  BY <1>1, <1>3, <2>1, <4>1 DEF RunnerIsDone
    <3>. QED  BY <2>1, <3>1
  <2>. QED  BY <1>1, <1>3, <2>1, <2>2, DoneGrows DEF RunnerIsDone
<1>. QED  BY <1>1, <1>2, <1>3 DEF RunnerIsDone, RunnerIsDoneNext

-----------------------------------------------------------------------------
(* Two shapes of a step: a request writes rows, or a runner moves *)

RowType    == [status : Active \cup Ended \cup {"none"}, cursor : Nat]
RunnerType == [at : {"rest", "loaded", "items", "finish"}, todo : Seq(Copy), item : Nat]
SpentType  == [faults : 0..MaxFaults, crashes : 0..MaxCrashes, reopened : 0..MaxReopened]
Fits(x)    == Len(x.todo) <= Limit /\ (x.at = "rest") = (x.todo = <<>>)

\* A request that leaves the rows right keeps the invariant.
LEMMA RequestKeepsInv ==
  ASSUME TaskInv, UNCHANGED <<runner, done>>,
         row' \in [Tasks -> RowType], spent' \in SpentType,
         canceller' \in [Cancellers -> Copy \cup {NoTask}],
         \A t \in Tasks : RowIsDoneNext(t)
  PROVE  TaskInv'
<1>1. TypeOK /\ Grows /\ done' \in [Items -> 0..MaxDone]
  BY InvParts, SameGrows
<1>2. TypeOK'
  BY <1>1 DEF TypeOK, RowType, SpentType, RowIsDoneNext, DoneUpToNext
<1>3. \A e \in Runners : RunnerIsDoneNext(runner'[e])
  BY <1>1, RunnerUnmoved
<1>. QED  BY <1>2, <1>3, InvPartsNext

\* So does the move of one runner to a state that knows of no more than was done.
LEMMA MoveKeepsInv ==
  ASSUME TaskInv, Grows, UNCHANGED canceller,
         row' \in [Tasks -> RowType], spent' \in SpentType,
         done' \in [Items -> 0..MaxDone],
         \A t \in Tasks : RowIsDoneNext(t),
         NEW e \in Runners, NEW x \in RunnerType, Fits(x), RunnerIsDoneNext(x),
         runner' = [runner EXCEPT ![e] = x]
  PROVE  TaskInv'
<1>1. TypeOK
  BY InvParts
<1>2. runner' \in [Runners -> RunnerType]
  BY <1>1 DEF TypeOK, RunnerType
<1>3. \A f \in Runners : f # e => runner'[f] = runner[f]
  BY <1>1 DEF TypeOK
<1>4. runner'[e] = x
  BY <1>1 DEF TypeOK
<1>5. \A f \in Runners : Fits(runner'[f])
  BY <1>1, <1>3, <1>4 DEF TypeOK, Fits
<1>6. TypeOK'
  BY <1>1, <1>2, <1>5 DEF TypeOK, RowType, RunnerType, SpentType, Fits, RowIsDoneNext, DoneUpToNext
<1>7. \A f \in Runners : RunnerIsDoneNext(runner'[f])
  BY <1>3, <1>4, RunnerUnmoved
<1>. QED  BY <1>6, <1>7, InvPartsNext

\* The types of what a step leaves alone.
LEMMA Types ==
  ASSUME TaskInv
  PROVE  /\ TypeOK
         /\ row \in [Tasks -> RowType]
         /\ \A e \in Runners : runner[e] \in RunnerType /\ Fits(runner[e])
         /\ canceller \in [Cancellers -> Copy \cup {NoTask}]
         /\ done \in [Items -> 0..MaxDone]
         /\ spent \in SpentType
         /\ \A t \in Tasks : Size[t] \in Nat \ {0}
         /\ Limit \in Nat \ {0} /\ Chunk \in Nat \ {0} /\ MaxDone \in Nat \ {0}
<1>1. TypeOK
  BY InvParts
<1>. QED  BY <1>1, CloudVaultTasksAssumption DEF TypeOK, RowType, RunnerType, SpentType, Fits

\* A row whose cursor stays may take any status but completed.
LEMMA StatusKeeps ==
  ASSUME TaskInv, Grows, done' \in [Items -> 0..MaxDone],
         NEW u \in Tasks, NEW status \in Active \cup Ended,
         status = "completed" => DoneUpToNext(u, Size[u]),
         row' = [row EXCEPT ![u].status = status] \/ row' = row
  PROVE  row' \in [Tasks -> RowType] /\ \A t \in Tasks : RowIsDoneNext(t)
<1>1. row \in [Tasks -> RowType]
  BY Types
<1>2. row' \in [Tasks -> RowType]
  BY <1>1 DEF RowType
<1>3. ASSUME NEW t \in Tasks, row'[t] # row[t]
      PROVE  RowIsDoneNext(t)
  <2>1. t = u /\ row'[t].status = status /\ row'[t].cursor = row[t].cursor
    BY <1>1, <1>3 DEF RowType
  <2>2. row[t].cursor \in Nat /\ DoneUpTo(t, row[t].cursor)
    BY <1>1, InvParts DEF RowType, RowIsDone
  <2>3. DoneUpToNext(t, row[t].cursor)
    BY <2>2, Types, DoneGrows
  <2>. QED  BY <2>1, <2>3 DEF RowIsDoneNext
<1>. QED  BY <1>2, <1>3, RowUnmoved

\* The tail of the copies of a runner.
LEMMA Rests ==
  ASSUME TaskInv, NEW e \in Runners, runner[e].at # "rest"
  PROVE  LET s == runner[e].todo IN
         /\ Tail(s) \in Seq(Copy)
         /\ Len(Tail(s)) = Len(s) - 1
         /\ Len(Tail(s)) <= Limit
         /\ \A k \in 1..Len(Tail(s)) : k + 1 \in 1..Len(s) /\ Tail(s)[k] = s[k + 1]
<1>1. /\ runner[e].todo \in Seq(Copy)
      /\ runner[e].todo # <<>>
      /\ Len(runner[e].todo) >= 1
      /\ Len(runner[e].todo) <= Limit
      /\ Limit \in Nat
  BY Types, Copies DEF Fits
<1>. QED  BY <1>1

\* A pass goes on with the copies that are left, expired or not.
LEMMA GoesOnward ==
  ASSUME TaskInv, Grows, done' \in [Items -> 0..MaxDone],
         NEW e \in Runners, runner[e].at # "rest",
         NEW left \in Seq(Copy), Len(left) = Len(Tail(runner[e].todo)),
         \A k \in 1..Len(left) : /\ left[k].task = Tail(runner[e].todo)[k].task
                                 /\ left[k].cursor = Tail(runner[e].todo)[k].cursor,
         NEW x, x = IF left = <<>> THEN Rest ELSE [at |-> "loaded", todo |-> left, item |-> 0]
  PROVE  x \in RunnerType /\ Fits(x) /\ RunnerIsDoneNext(x)
<1>1. x \in RunnerType /\ Fits(x) /\ x.at # "items" /\ x.todo = left
  BY Types, Rests DEF RunnerType, Fits, Rest
<1>2. ASSUME NEW k \in 1..Len(left)
      PROVE  DoneUpToNext(left[k].task, left[k].cursor)
  <2>1. PICK n \in 1..Len(runner[e].todo) : Tail(runner[e].todo)[k] = runner[e].todo[n]
    BY <1>2, Rests
  <2>2. /\ runner[e].todo[n].task \in Tasks
        /\ runner[e].todo[n].cursor \in Nat
    BY Types, Copies
  <2>3. DoneUpTo(runner[e].todo[n].task, runner[e].todo[n].cursor)
    BY InvParts DEF RunnerIsDone
  <2>. QED  BY <2>1, <2>2, <2>3, Types, DoneGrows
<1>. QED  BY <1>1, <1>2 DEF RunnerIsDoneNext

-----------------------------------------------------------------------------
(* The initial state and each action *)

\* Initially nothing is done and nobody claims anything.
LEMMA InitInv == Init => TaskInv
<1>. SUFFICES ASSUME Init PROVE TaskInv
  OBVIOUS
<1>. USE CloudVaultTasksAssumption
<1>1. TypeOK
  <2>1. \A e \in Runners : runner[e] = Rest
    BY DEF Init
  <2>2. Rest \in RunnerType /\ Rest.todo = <<>> /\ Rest.at = "rest" /\ Len(Rest.todo) = 0
    BY DEF Rest, RunnerType
  <2>3. runner \in [Runners -> RunnerType]
    BY <2>2 DEF Init
  <2>. QED  BY <2>1, <2>2, <2>3 DEF Init, TypeOK, RunnerType
<1>2. \A t \in Tasks : RowIsDone(t)
  BY DEF Init, RowIsDone, DoneUpTo
<1>3. \A e \in Runners : RunnerIsDone(runner[e])
  BY DEF Init, RunnerIsDone, Rest
<1>. QED  BY <1>1, <1>2, <1>3, InvParts

\* queue_cloud_vault_task
LEMMA QueueInv ==
  ASSUME TaskInv, NEW t \in Tasks, Queue(t)
  PROVE  TaskInv'
<1>1. Grows /\ done' \in [Items -> 0..MaxDone]
  BY Types, SameGrows DEF Queue
<1>2. row' \in [Tasks -> RowType] /\ \A u \in Tasks : RowIsDoneNext(u)
  BY <1>1, StatusKeeps DEF Queue, Active
<1>. QED  BY <1>2, Types, RequestKeepsInv DEF Queue

\* cancel_cloud_vault_task, up to the check of the status
LEMMA CancelLoadsInv ==
  ASSUME TaskInv, NEW c \in Cancellers, NEW t \in Tasks, CancelLoads(c, t)
  PROVE  TaskInv'
<1>1. Grows /\ done' \in [Items -> 0..MaxDone]
  BY Types, SameGrows DEF CancelLoads
<1>2. \A u \in Tasks : RowIsDoneNext(u)
  BY <1>1, RowUnmoved DEF CancelLoads
<1>3. Loaded(t) \in Copy
  BY Types DEF CancelLoads, Cancellable, Loaded, Copy, RowType
<1>. QED  BY <1>2, <1>3, Types, RequestKeepsInv DEF CancelLoads

\* cancel_cloud_vault_task, its commit
LEMMA CancelCommitsInv ==
  ASSUME TaskInv, NEW c \in Cancellers, CancelCommits(c)
  PROVE  TaskInv'
<1>1. Grows /\ done' \in [Items -> 0..MaxDone]
  BY Types, SameGrows DEF CancelCommits
<1>2. canceller[c] \in Copy /\ canceller[c].task \in Tasks
  BY Types DEF CancelCommits, Copy
<1>3. row' \in [Tasks -> RowType] /\ \A u \in Tasks : RowIsDoneNext(u)
  BY <1>1, <1>2, StatusKeeps DEF CancelCommits, StatusWritten, Ended
<1>. QED  BY <1>3, Types, RequestKeepsInv DEF CancelCommits

\* What a session loads from the rows claims no more than the rows do.
LEMMA LoadedIsDone ==
  ASSUME TaskInv, Grows, done' \in [Items -> 0..MaxDone], NEW t \in Tasks
  PROVE  /\ Loaded(t).task = t
         /\ Loaded(t).cursor \in Nat
         /\ row[t].status # "none" => Loaded(t) \in Copy
         /\ DoneUpTo(t, Loaded(t).cursor)
         /\ DoneUpToNext(t, Loaded(t).cursor)
<1>1. row[t].cursor \in Nat /\ row[t].status \in Active \cup Ended \cup {"none"}
  BY Types DEF RowType
<1>2. DoneUpTo(t, row[t].cursor)
  BY InvParts DEF RowIsDone
<1>. QED  BY <1>1, <1>2, Types, DoneGrows DEF Loaded, Copy

\* continue_cloud_vault_task_queue, the selection of the pass
LEMMA LoadQueueInv ==
  ASSUME TaskInv, NEW e \in Runners, LoadQueue(e)
  PROVE  TaskInv'
<1>1. Grows /\ done' \in [Items -> 0..MaxDone] /\ Limit \in Nat \ {0}
  BY Types, SameGrows DEF LoadQueue
<1>2. PICK n \in 1..Limit : \E s \in [1..n -> {t \in Tasks : Runnable(t)}] :
        runner' = [runner EXCEPT ![e] =
                     [at |-> "loaded", todo |-> [i \in 1..n |-> Loaded(s[i])], item |-> 0]]
  BY DEF LoadQueue
<1>3. PICK s \in [1..n -> {t \in Tasks : Runnable(t)}] :
        runner' = [runner EXCEPT ![e] =
                     [at |-> "loaded", todo |-> [i \in 1..n |-> Loaded(s[i])], item |-> 0]]
  BY <1>2
<1>. DEFINE todo == [i \in 1..n |-> Loaded(s[i])]
            x == [at |-> "loaded", todo |-> todo, item |-> 0]
<1>4. ASSUME NEW i \in 1..n
      PROVE  /\ todo[i] \in Copy
             /\ DoneUpToNext(todo[i].task, todo[i].cursor)
  <2>1. s[i] \in Tasks /\ row[s[i]].status # "none"
    BY DEF Runnable, Active
  <2>2. todo[i] = Loaded(s[i])
    OBVIOUS
  <2>. QED  BY <1>1, <2>1, <2>2, LoadedIsDone
<1>5. todo \in Seq(Copy) /\ Len(todo) = n /\ n \in Nat
  <2>1. todo \in [1..n -> Copy]
    BY <1>4
  <2>. QED  BY <1>1, <2>1
<1>6. x \in RunnerType /\ Fits(x)
  BY <1>1, <1>5 DEF RunnerType, Fits
<1>7. RunnerIsDoneNext(x)
  BY <1>4, <1>5 DEF RunnerIsDoneNext
<1>8. \A t \in Tasks : RowIsDoneNext(t)
  BY <1>1, RowUnmoved DEF LoadQueue
<1>. QED  BY <1>3, <1>1, <1>6, <1>7, <1>8, Types, MoveKeepsInv DEF LoadQueue

\* continue_cloud_vault_task for one task of a caller
LEMMA LoadTaskInv ==
  ASSUME TaskInv, NEW e \in Runners, NEW t \in Tasks, LoadTask(e, t)
  PROVE  TaskInv'
<1>1. Grows /\ done' \in [Items -> 0..MaxDone] /\ Limit \in Nat \ {0}
  BY Types, SameGrows DEF LoadTask
<1>. DEFINE x == [at |-> "loaded", todo |-> <<Loaded(t)>>, item |-> 0]
<1>2. Loaded(t) \in Copy /\ DoneUpToNext(Loaded(t).task, Loaded(t).cursor)
  BY <1>1, LoadedIsDone DEF LoadTask
<1>3. x \in RunnerType /\ Fits(x)
  BY <1>1, <1>2 DEF RunnerType, Fits
<1>4. RunnerIsDoneNext(x)
  BY <1>2 DEF RunnerIsDoneNext
<1>5. spent' \in SpentType
  <2>1. spent \in SpentType /\ MaxReopened \in Nat
    BY Types, CloudVaultTasksAssumption
  <2>. QED  BY <2>1 DEF LoadTask, SpentType
<1>6. \A u \in Tasks : RowIsDoneNext(u)
  BY <1>1, RowUnmoved DEF LoadTask
<1>. QED  BY <1>1, <1>3, <1>4, <1>5, <1>6, Types, MoveKeepsInv DEF LoadTask

\* The copy a runner begins with, refreshed when it had expired.
LEMMA RefreshedIsDone ==
  ASSUME TaskInv, Grows, done' \in [Items -> 0..MaxDone],
         NEW e \in Runners, runner[e].at # "rest"
  PROVE  LET copy == Refreshed(Head(runner[e].todo)) IN
         /\ copy.task \in Tasks
         /\ copy.cursor \in Nat
         /\ [copy EXCEPT !.status = "running"] \in Copy
         /\ DoneUpTo(copy.task, copy.cursor)
         /\ DoneUpToNext(copy.task, copy.cursor)
<1>. DEFINE head == Head(runner[e].todo)
<1>1. /\ head \in Copy
      /\ head.task \in Tasks
      /\ head.cursor \in Nat
      /\ DoneUpTo(head.task, head.cursor)
  BY Types, Copies, InvParts DEF RunnerIsDone
<1>2. CASE head.status = "expired"
  BY <1>1, <1>2, LoadedIsDone DEF Refreshed, Loaded, Copy, Active
<1>3. CASE head.status # "expired"
  <2>1. DoneUpToNext(head.task, head.cursor)
    BY <1>1, Types, DoneGrows
  <2>. QED  BY <1>1, <1>3, <2>1 DEF Refreshed, Copy, Active
<1>. QED  BY <1>2, <1>3

\* continue_cloud_vault_task, up to the commit of the running status
LEMMA BeginInv ==
  ASSUME TaskInv, NEW e \in Runners, Begin(e)
  PROVE  TaskInv'
<1>. DEFINE copy == Refreshed(Head(runner[e].todo))
            begun == [copy EXCEPT !.status = "running"]
<1>1. /\ Grows /\ done' \in [Items -> 0..MaxDone]
      /\ runner[e].at # "rest"
  BY Types, SameGrows DEF Begin
<1>2. /\ copy.task \in Tasks
      /\ copy.cursor \in Nat
      /\ begun \in Copy
      /\ DoneUpTo(copy.task, copy.cursor)
      /\ DoneUpToNext(copy.task, copy.cursor)
  BY <1>1, RefreshedIsDone
<1>3. CASE copy.status \in {"completed", "canceled"}
  <2>. DEFINE left == Tail(runner[e].todo)
              x == IF left = <<>> THEN Rest ELSE [at |-> "loaded", todo |-> left, item |-> 0]
  <2>1. runner' = [runner EXCEPT ![e] = x] /\ UNCHANGED row
    BY <1>3 DEF Begin, Onward
  <2>2. x \in RunnerType /\ Fits(x) /\ RunnerIsDoneNext(x)
    BY <1>1, Rests, GoesOnward
  <2>3. \A t \in Tasks : RowIsDoneNext(t)
    BY <1>1, <2>1, RowUnmoved
  <2>. QED  BY <1>1, <2>1, <2>2, <2>3, Types, MoveKeepsInv DEF Begin
<1>4. CASE copy.status \notin {"completed", "canceled"}
  <2>. DEFINE todo == [runner[e].todo EXCEPT ![1] = begun]
              x == [at |-> "items", item |-> copy.cursor + 1, todo |-> todo]
  <2>1. runner' = [runner EXCEPT ![e] = x] /\ row' = StatusWritten(copy, "running")
    BY <1>4 DEF Begin
  <2>2. /\ todo \in Seq(Copy)
        /\ Len(todo) = Len(runner[e].todo)
        /\ Len(todo) >= 1
        /\ todo[1] = begun
        /\ \A k \in 1..Len(todo) : k # 1 => todo[k] = runner[e].todo[k]
    BY <1>1, <1>2, Types, Copies
  <2>3. x \in RunnerType /\ Fits(x)
    BY <1>1, <1>2, <2>2, Types DEF RunnerType, Fits
  <2>4. begun.task = copy.task /\ begun.cursor = copy.cursor
    BY DEF Refreshed, Loaded, Copy
  <2>5. ASSUME NEW k \in 1..Len(todo)
        PROVE  DoneUpToNext(todo[k].task, todo[k].cursor)
    <3>1. CASE k = 1
      BY <1>2, <2>2, <2>4, <3>1
    <3>2. CASE k # 1
      <4>1. DoneUpTo(runner[e].todo[k].task, runner[e].todo[k].cursor)
        BY <2>2, InvParts DEF RunnerIsDone
      <4>. QED  BY <1>1, <2>2, <3>2, <4>1, Types, Copies, DoneGrows
    <3>. QED  BY <3>1, <3>2
  <2>6. x.item \in (todo[1].cursor + 1)..(Goal(todo[1]) + 1)
    <3>1. begun.cursor <= Size[begun.task]
      BY <1>2, <2>4 DEF DoneUpTo
    <3>2. Goal(begun) \in Nat /\ begun.cursor <= Goal(begun)
      BY <1>2, <3>1, GoalBounds
    <3>. QED  BY <1>2, <2>2, <2>4, <3>2
  <2>7. DoneUpToNext(todo[1].task, x.item - 1)
    BY <1>2, <2>2, <2>4
  <2>8. RunnerIsDoneNext(x)
    BY <2>5, <2>6, <2>7 DEF RunnerIsDoneNext
  <2>9. row' \in [Tasks -> RowType] /\ \A t \in Tasks : RowIsDoneNext(t)
    BY <1>1, <1>2, <2>1, StatusKeeps DEF StatusWritten, Active
  <2>. QED  BY <1>1, <2>1, <2>3, <2>8, <2>9, Types, MoveKeepsInv DEF Begin
<1>. QED  BY <1>3, <1>4

\* What a runner in the middle of a chunk works on.
LEMMA AtWork ==
  ASSUME TaskInv, NEW e \in Runners, runner[e].at # "rest"
  PROVE  LET copy == Head(runner[e].todo) IN
         /\ copy = runner[e].todo[1]
         /\ copy \in Copy
         /\ copy.task \in Tasks
         /\ copy.cursor \in Nat
         /\ DoneUpTo(copy.task, copy.cursor)
         /\ Goal(copy) \in Nat
         /\ copy.cursor <= Goal(copy)
         /\ Goal(copy) <= Size[copy.task]
         /\ runner[e].at = "items" =>
              /\ runner[e].item \in (copy.cursor + 1)..(Goal(copy) + 1)
              /\ DoneUpTo(copy.task, runner[e].item - 1)
<1>. DEFINE copy == Head(runner[e].todo)
<1>1. /\ copy = runner[e].todo[1]
      /\ copy \in Copy
      /\ copy.task \in Tasks
      /\ copy.cursor \in Nat
      /\ DoneUpTo(copy.task, copy.cursor)
  BY Types, Copies, InvParts DEF RunnerIsDone
<1>2. Goal(copy) \in Nat /\ copy.cursor <= Goal(copy) /\ Goal(copy) <= Size[copy.task]
  BY <1>1, GoalBounds DEF DoneUpTo
<1>3. RunnerIsDone(runner[e])
  BY InvParts
<1>. QED  BY <1>1, <1>2, <1>3 DEF RunnerIsDone

\* One item of the loop of a chunk
LEMMA RunItemInv ==
  ASSUME TaskInv, NEW e \in Runners, RunItem(e)
  PROVE  TaskInv'
<1>. DEFINE copy == Head(runner[e].todo)
            i == runner[e].item
            x == [runner[e] EXCEPT !.item = i + 1]
<1>1. /\ runner[e].at = "items" /\ i <= Goal(copy)
      /\ done' = [done EXCEPT ![<<copy.task, i>>] = IF @ < MaxDone THEN @ + 1 ELSE @]
      /\ runner' = [runner EXCEPT ![e] = x]
      /\ UNCHANGED <<row, canceller, spent>>
  BY DEF RunItem
<1>2. /\ copy = runner[e].todo[1]
      /\ copy.task \in Tasks
      /\ copy.cursor \in Nat
      /\ Goal(copy) \in Nat
      /\ copy.cursor <= Goal(copy)
      /\ Goal(copy) <= Size[copy.task]
      /\ i \in (copy.cursor + 1)..(Goal(copy) + 1)
      /\ DoneUpTo(copy.task, i - 1)
  BY <1>1, AtWork
<1>3. i \in Nat /\ i >= 1 /\ i <= Size[copy.task] /\ Size[copy.task] \in Nat
  BY <1>1, <1>2, Types
<1>4. <<copy.task, i>> \in Items
  BY <1>2, <1>3, ItemsOfTask
<1>5. /\ done \in [Items -> 0..MaxDone] /\ MaxDone \in Nat \ {0}
      /\ done' \in [Items -> 0..MaxDone]
      /\ Grows
      /\ done'[<<copy.task, i>>] > 0
  BY <1>1, <1>4, Types DEF Grows
<1>6. \A t \in Tasks : RowIsDoneNext(t)
  BY <1>1, <1>5, RowUnmoved
<1>7. x \in RunnerType /\ Fits(x) /\ x.at = "items" /\ x.item = i + 1 /\ x.todo = runner[e].todo
  BY <1>1, <1>3, Types DEF RunnerType, Fits
<1>8. RunnerIsDoneNext(x)
  <2>1. ASSUME NEW k \in 1..Len(x.todo)
        PROVE  DoneUpToNext(x.todo[k].task, x.todo[k].cursor)
    <3>1. DoneUpTo(runner[e].todo[k].task, runner[e].todo[k].cursor)
      BY <1>7, InvParts DEF RunnerIsDone
    <3>. QED  BY <1>5, <1>7, <3>1, Types, Copies, DoneGrows
  <2>2. x.item \in (x.todo[1].cursor + 1)..(Goal(x.todo[1]) + 1)
    BY <1>1, <1>2, <1>3, <1>7
  <2>3. DoneUpToNext(copy.task, i - 1)
    BY <1>2, <1>3, <1>5, Types, DoneGrows
  <2>4. DoneUpToNext(copy.task, i)
    <3>1. \A k \in 1..i : k = i \/ k \in 1..(i - 1)
      BY <1>3
    <3>. QED  BY <1>3, <1>5, <2>3, <3>1 DEF DoneUpToNext
  <2>5. DoneUpToNext(x.todo[1].task, x.item - 1)
    BY <1>2, <1>3, <1>7, <2>4
  <2>. QED  BY <2>1, <2>2, <2>5 DEF RunnerIsDoneNext
<1>. QED  BY <1>1, <1>5, <1>6, <1>7, <1>8, Types, MoveKeepsInv

\* _mark_task_failed after an item raised
LEMMA ItemRaisesInv ==
  ASSUME TaskInv, NEW e \in Runners, ItemRaises(e)
  PROVE  TaskInv'
<1>. DEFINE tail == Tail(runner[e].todo)
            left == [i \in DOMAIN tail |-> Expired(tail[i])]
            x == IF left = <<>> THEN Rest ELSE [at |-> "loaded", todo |-> left, item |-> 0]
            copy == Head(runner[e].todo)
<1>1. /\ runner[e].at # "rest"
      /\ Grows /\ done' \in [Items -> 0..MaxDone]
  BY Types, SameGrows DEF ItemRaises
<1>2. runner' = [runner EXCEPT ![e] = x]
  BY DEF ItemRaises, Onward
<1>3. /\ tail \in Seq(Copy)
      /\ \A k \in 1..Len(tail) : tail[k] \in Copy
      /\ DOMAIN tail = 1..Len(tail) /\ Len(tail) \in Nat
  BY <1>1, Rests
<1>4. ASSUME NEW k \in 1..Len(tail)
      PROVE  /\ left[k] \in Copy
             /\ left[k].task = tail[k].task
             /\ left[k].cursor = tail[k].cursor
  BY <1>3 DEF Expired, Copy
<1>5. left \in Seq(Copy) /\ Len(left) = Len(tail)
  <2>1. left \in [1..Len(tail) -> Copy]
    BY <1>3, <1>4
  <2>. QED  BY <1>3, <2>1
<1>6. x \in RunnerType /\ Fits(x) /\ RunnerIsDoneNext(x)
  <2>. HIDE DEF left
  <2>. QED  BY <1>1, <1>4, <1>5, GoesOnward
<1>7. row' \in [Tasks -> RowType] /\ \A t \in Tasks : RowIsDoneNext(t)
  <2>1. copy.task \in Tasks
    BY <1>1, AtWork
  <2>. QED  BY <1>1, <2>1, StatusKeeps DEF ItemRaises, Ended
<1>8. spent' \in SpentType
  <2>1. spent \in SpentType /\ MaxFaults \in Nat
    BY Types, CloudVaultTasksAssumption
  <2>. QED  BY <2>1 DEF ItemRaises, SpentType
<1>. QED  BY <1>1, <1>2, <1>6, <1>7, <1>8, Types, MoveKeepsInv DEF ItemRaises

\* The commit of the progress of a chunk
LEMMA StoreProgressInv ==
  ASSUME TaskInv, NEW e \in Runners, StoreProgress(e)
  PROVE  TaskInv'
<1>. DEFINE copy == Head(runner[e].todo)
            stored == [copy EXCEPT !.cursor = Goal(copy)]
            todo == [runner[e].todo EXCEPT ![1] = stored]
            x == [at |-> "finish", todo |-> todo, item |-> 0]
<1>1. /\ runner[e].at = "items"
      /\ runner[e].item > Goal(copy)
      /\ row' = [row EXCEPT ![copy.task].cursor = Goal(copy)]
      /\ UNCHANGED <<canceller, done, spent>>
      /\ Grows /\ done' \in [Items -> 0..MaxDone]
  BY Types, SameGrows DEF StoreProgress, Cursor
<1>2. /\ copy = runner[e].todo[1]
      /\ copy \in Copy
      /\ copy.task \in Tasks
      /\ copy.cursor \in Nat
      /\ Goal(copy) \in Nat
      /\ Goal(copy) <= Size[copy.task]
      /\ runner[e].item \in (copy.cursor + 1)..(Goal(copy) + 1)
      /\ DoneUpTo(copy.task, runner[e].item - 1)
  BY <1>1, AtWork
<1>3. runner[e].item - 1 = Goal(copy)
  BY <1>1, <1>2
<1>4. DoneUpToNext(copy.task, Goal(copy))
  BY <1>1, <1>2, <1>3, Types, DoneGrows
<1>5. runner' = [runner EXCEPT ![e] = x]
  BY DEF StoreProgress, Cursor
<1>6. stored \in Copy /\ stored.task = copy.task /\ stored.cursor = Goal(copy)
  BY <1>2 DEF Copy
<1>7. /\ todo \in Seq(Copy)
      /\ Len(todo) = Len(runner[e].todo)
      /\ Len(todo) >= 1
      /\ todo[1] = stored
      /\ \A k \in 1..Len(todo) : k # 1 => todo[k] = runner[e].todo[k]
  BY <1>1, <1>6, Types, Copies
<1>8. x \in RunnerType /\ Fits(x)
  BY <1>1, <1>7, Types DEF RunnerType, Fits
<1>9. RunnerIsDoneNext(x)
  <2>1. ASSUME NEW k \in 1..Len(todo)
        PROVE  DoneUpToNext(todo[k].task, todo[k].cursor)
    <3>1. CASE k = 1
      BY <1>4, <1>6, <1>7, <3>1
    <3>2. CASE k # 1
      <4>1. DoneUpTo(runner[e].todo[k].task, runner[e].todo[k].cursor)
        BY <1>7, InvParts DEF RunnerIsDone
      <4>. QED  BY <1>1, <1>7, <3>2, <4>1, Types, Copies, DoneGrows
    <3>. QED  BY <3>1, <3>2
  <2>. QED  BY <2>1 DEF RunnerIsDoneNext
<1>10. row' \in [Tasks -> RowType] /\ \A t \in Tasks : RowIsDoneNext(t)
  <2>1. row \in [Tasks -> RowType]
    BY Types
  <2>2. row' \in [Tasks -> RowType]
    BY <1>1, <1>2, <2>1 DEF RowType
  <2>3. ASSUME NEW t \in Tasks, t # copy.task
        PROVE  RowIsDoneNext(t)
    BY <1>1, <2>1, <2>3, RowUnmoved
  <2>4. RowIsDoneNext(copy.task)
    <3>1. row'[copy.task].cursor = Goal(copy) /\ row'[copy.task].status = row[copy.task].status
      BY <1>1, <1>2, <2>1 DEF RowType
    <3>2. row[copy.task].status = "completed" => DoneUpToNext(copy.task, Size[copy.task])
      BY <1>1, <1>2, Types, InvParts, DoneGrows DEF RowIsDone
    <3>. QED  BY <1>4, <3>1, <3>2 DEF RowIsDoneNext
  <2>. QED  BY <2>2, <2>3, <2>4
<1>. QED  BY <1>1, <1>5, <1>8, <1>9, <1>10, Types, MoveKeepsInv

\* The commit that completes a task, or leaves it running
LEMMA FinishInv ==
  ASSUME TaskInv, NEW e \in Runners, Finish(e)
  PROVE  TaskInv'
<1>. DEFINE left == Tail(runner[e].todo)
            x == IF left = <<>> THEN Rest ELSE [at |-> "loaded", todo |-> left, item |-> 0]
            copy == Head(runner[e].todo)
<1>1. /\ runner[e].at # "rest"
      /\ Grows /\ done' \in [Items -> 0..MaxDone]
  BY Types, SameGrows DEF Finish
<1>2. runner' = [runner EXCEPT ![e] = x]
  BY DEF Finish, Onward
<1>3. x \in RunnerType /\ Fits(x) /\ RunnerIsDoneNext(x)
  BY <1>1, Rests, GoesOnward
<1>4. /\ copy.task \in Tasks /\ copy.cursor \in Nat /\ Size[copy.task] \in Nat
      /\ DoneUpTo(copy.task, copy.cursor)
  BY <1>1, AtWork, Types
<1>5. CASE copy.cursor < Size[copy.task]
  <2>1. row' = row
    BY <1>5 DEF Finish
  <2>2. \A t \in Tasks : RowIsDoneNext(t)
    BY <1>1, <2>1, RowUnmoved
  <2>. QED  BY <1>1, <1>2, <1>3, <2>1, <2>2, Types, MoveKeepsInv DEF Finish
<1>6. CASE ~ copy.cursor < Size[copy.task]
  <2>1. copy.cursor = Size[copy.task]
    BY <1>4, <1>6 DEF DoneUpTo
  <2>2. DoneUpToNext(copy.task, Size[copy.task])
    BY <1>1, <1>4, <2>1, Types, DoneGrows
  <2>3. row' \in [Tasks -> RowType] /\ \A t \in Tasks : RowIsDoneNext(t)
    BY <1>1, <1>4, <1>6, <2>2, StatusKeeps DEF Finish, StatusWritten, Ended
  <2>. QED  BY <1>1, <1>2, <1>3, <2>3, Types, MoveKeepsInv DEF Finish
<1>. QED  BY <1>5, <1>6

\* A process dies: what it had loaded is gone.
LEMMA CrashInv ==
  ASSUME TaskInv, NEW e \in Runners, Crash(e)
  PROVE  TaskInv'
<1>1. Grows /\ done' \in [Items -> 0..MaxDone] /\ Limit \in Nat
  BY Types, SameGrows DEF Crash
<1>2. Rest \in RunnerType /\ Fits(Rest) /\ RunnerIsDoneNext(Rest)
  BY <1>1 DEF Rest, RunnerType, Fits, RunnerIsDoneNext
<1>3. spent' \in SpentType
  <2>1. spent \in SpentType /\ MaxCrashes \in Nat
    BY Types, CloudVaultTasksAssumption
  <2>. QED  BY <2>1 DEF Crash, SpentType
<1>4. \A t \in Tasks : RowIsDoneNext(t)
  BY <1>1, RowUnmoved DEF Crash
<1>. QED  BY <1>1, <1>2, <1>3, <1>4, Types, MoveKeepsInv DEF Crash

-----------------------------------------------------------------------------
(* The theorems *)

\* Every step, and a stuttering one, keeps the invariant.
LEMMA NextInv == TaskInv /\ [Next]_vars => TaskInv'
<1>. SUFFICES ASSUME TaskInv, [Next]_vars PROVE TaskInv'
  OBVIOUS
<1>1. ASSUME NEW t \in Tasks, Queue(t) PROVE TaskInv'
  BY <1>1, QueueInv
<1>2. ASSUME NEW e \in Runners, Run(e) \/ ItemRaises(e) \/ Crash(e) PROVE TaskInv'
  BY <1>2, LoadQueueInv, BeginInv, RunItemInv, StoreProgressInv, FinishInv, ItemRaisesInv, CrashInv DEF Run
<1>3. ASSUME NEW e \in Callers, NEW t \in Tasks, LoadTask(e, t) PROVE TaskInv'
  BY <1>3, LoadTaskInv DEF Runners
<1>4. ASSUME NEW c \in Cancellers, NEW t \in Tasks, CancelLoads(c, t) PROVE TaskInv'
  BY <1>4, CancelLoadsInv
<1>5. ASSUME NEW c \in Cancellers, CancelCommits(c) PROVE TaskInv'
  BY <1>5, CancelCommitsInv
<1>6. CASE UNCHANGED vars
  <2>1. Grows /\ done' \in [Items -> 0..MaxDone]
    BY <1>6, Types, SameGrows DEF vars
  <2>2. \A t \in Tasks : RowIsDoneNext(t)
    BY <1>6, <2>1, RowUnmoved DEF vars
  <2>. QED  BY <1>6, <2>2, Types, RequestKeepsInv DEF vars
<1>. QED  BY <1>1, <1>2, <1>3, <1>4, <1>5, <1>6 DEF Next

(* The inductive invariant holds in every reachable state: no row, no      *)
(* loaded copy and no runner knows of more progress than was made.         *)
THEOREM TaskInvariant == Spec => []TaskInv
<1>. QED  BY InitInv, NextInv, PTL DEF Spec

(* A completed task has done all of its items, for any number of runners   *)
(* that work on it at once from copies of any age.                         *)
THEOREM CompletedTasksAreDone == Spec => []CompletedIsDone
<1>1. TaskInv => CompletedIsDone
  BY DEF TaskInv
<1>. QED  BY <1>1, TaskInvariant, PTL

(* The cursor in a task's progress never runs ahead of the items done,     *)
(* whoever stores it.                                                      *)
THEOREM CursorsAreDone == Spec => []CursorIsDone
<1>1. TaskInv => CursorIsDone
  BY DEF TaskInv
<1>. QED  BY <1>1, TaskInvariant, PTL
=============================================================================
