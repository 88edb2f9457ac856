--------------------------- MODULE RefreshScan_proofs ---------------------------
(***************************************************************************)
(* Proofs about RefreshScan, for every tree of files and folders, every    *)
(* set of versions and all bounds.                                         *)
(***************************************************************************)
EXTENDS RefreshScan, TLAPS, FiniteSetTheorems, SequenceTheorems

-----------------------------------------------------------------------------
(* Types *)

TypeInv == TypeOK /\ IsFiniteSet(batch.items)

\* The bounds are numbers, and a batch and the job sequence have room for one.
LEMMA Bounds ==
  /\ BatchLimit \in Nat /\ BatchLimit >= 1
  /\ MaxLive \in Nat /\ MaxLive >= 1
  /\ MaxEdits \in Nat /\ MaxFaults \in Nat
  BY RefreshScanAssumption

\* The constants the actions write are of the right types.
LEMMA ConstantTypes ==
  NoBatch \in Batch /\ NewJob \in Job /\ NoRecord \in Record /\ Root \in Entries
  BY RefreshScanAssumption DEF NoBatch, Batch, Stage, NewJob, Job, NoRecord, Record, Entries

\* Nothing is in the batch of no work.
LEMMA NoBatchFits ==
  IsFiniteSet(NoBatch.items) /\ Cardinality(NoBatch.items) <= BatchLimit
  BY FS_EmptySet, Bounds DEF NoBatch

\* A sequence of jobs is written one element at a time.
LEMMA JobsWritten ==
  ASSUME TypeOK, NEW i \in 1..Len(jobs), NEW j \in Job, jobs' = [jobs EXCEPT ![i] = j]
  PROVE  jobs' \in Seq(Job) /\ Len(jobs') = Len(jobs)
  BY DEF TypeOK

\* A job leaves the sequence.
LEMMA JobRemoved ==
  ASSUME TypeOK, NEW i \in 1..Len(jobs),
         jobs' = SubSeq(jobs, 1, i - 1) \o SubSeq(jobs, i + 1, Len(jobs))
  PROVE  jobs' \in Seq(Job) /\ Len(jobs') = Len(jobs) - 1 /\ Len(jobs') <= MaxLive
<1>1. jobs \in Seq(Job) /\ Len(jobs) \in Nat /\ i \in Nat /\ i >= 1 /\ i <= Len(jobs)
  BY DEF TypeOK
<1>2. SubSeq(jobs, 1, i - 1) \in Seq(Job) /\ Len(SubSeq(jobs, 1, i - 1)) = i - 1
  BY <1>1
<1>3. /\ SubSeq(jobs, i + 1, Len(jobs)) \in Seq(Job)
      /\ Len(SubSeq(jobs, i + 1, Len(jobs))) = Len(jobs) - i
  BY <1>1
<1>. DEFINE left == SubSeq(jobs, 1, i - 1)
             right == SubSeq(jobs, i + 1, Len(jobs))
<1>4. left \o right \in Seq(Job) /\ Len(left \o right) = Len(left) + Len(right)
  <2>. HIDE DEF left, right
  <2>1. left \in Seq(Job) /\ right \in Seq(Job)
    BY <1>2, <1>3 DEF left, right
  <2>. QED  BY <2>1, ConcatProperties
<1>5. Len(left \o right) = (i - 1) + (Len(jobs) - i)
  BY <1>2, <1>3, <1>4
<1>6. Len(jobs) <= MaxLive
  BY DEF TypeOK
<1>7. jobs' = left \o right
  OBVIOUS
<1>. HIDE DEF left, right
<1>8. Len(left \o right) = Len(jobs) - 1
  BY <1>1, <1>5
<1>9. Len(left \o right) <= MaxLive
  BY <1>1, <1>6, <1>8, Bounds
<1>. QED  BY ONLY <1>4, <1>7, <1>8, <1>9

\* Every job is queued, running or paused.
LEMMA JobTypes ==
  ASSUME TypeOK, NEW i \in 1..Len(jobs)
  PROVE  /\ jobs[i] \in Job
         /\ i \in With("queued") \/ i \in With("running") \/ i \in With("paused")
<1>1. jobs \in Seq(Job)
  BY DEF TypeOK
<1>2. jobs[i] \in Job
  BY <1>1
<1>. QED  BY <1>2 DEF Job, With

\* The initial states are well typed.
LEMMA InitTypes == Init => TypeInv
<1>. SUFFICES ASSUME Init PROVE TypeInv
  OBVIOUS
<1>1. jobs \in Seq(Job) /\ Len(jobs) <= MaxLive
  BY Bounds DEF Init
<1>2. records \in [Files -> Record] /\ settled \subseteq Files
  BY ConstantTypes DEF Init
<1>3. mirror \in [Files -> Versions \cup {Absent}] /\ paused \in BOOLEAN
  BY DEF Init
<1>4. edits \in 0..MaxEdits /\ faults \in 0..MaxFaults
  BY Bounds DEF Init
<1>. QED  BY <1>1, <1>2, <1>3, <1>4, ConstantTypes, NoBatchFits DEF Init, TypeInv, TypeOK

\* Each step keeps the types.
LEMMA TypeStep ==
  ASSUME TypeInv, [Next]_vars
  PROVE  TypeInv'
<1>. USE DEF TypeInv, TypeOK
<1>1. CASE Enqueue
  <2>1. Append(jobs, NewJob) \in Seq(Job) /\ Len(Append(jobs, NewJob)) = Len(jobs) + 1
    BY ConstantTypes
  <2>. QED  BY <1>1, <2>1, Bounds DEF Enqueue
<1>2. CASE Claim
  <2>1. PICK i \in With("queued") :
          /\ \/ jobs' = [jobs EXCEPT ![i].status = "running"]
             \/ \E r \in Runs : jobs' = [jobs EXCEPT ![i].status = "running",
                                                     ![i].run = r, ![i].still = Files]
          /\ batch' = [stage |-> "crawling", frontier |-> jobs[i].frontier, items |-> {}]
    BY <1>2 DEF Claim
  <2>2. i \in 1..Len(jobs) /\ jobs[i] \in Job
    BY JobTypes DEF With
  <2>3. batch' \in Batch
    BY <2>1, <2>2 DEF Batch, Stage, Job
  <2>4. IsFiniteSet(batch'.items) /\ Cardinality(batch'.items) <= BatchLimit
    <3>1. batch'.items = {}
      BY <2>1
    <3>. QED  BY <3>1, FS_EmptySet, Bounds
  <2>5. jobs' \in Seq(Job) /\ Len(jobs') = Len(jobs)
    <3>1. CASE jobs' = [jobs EXCEPT ![i].status = "running"]
      <4>1. [jobs[i] EXCEPT !.status = "running"] \in Job
        BY <2>2 DEF Job
      <4>2. jobs' = [jobs EXCEPT ![i] = [jobs[i] EXCEPT !.status = "running"]]
        BY <3>1, <2>2
      <4>. QED  BY <2>2, <4>1, <4>2, JobsWritten
    <3>2. CASE \E r \in Runs : jobs' = [jobs EXCEPT ![i].status = "running",
                                                    ![i].run = r, ![i].still = Files]
      <4>1. PICK r \in Runs : jobs' = [jobs EXCEPT ![i].status = "running",
                                                   ![i].run = r, ![i].still = Files]
        BY <3>2
      <4>. DEFINE j == [jobs[i] EXCEPT !.status = "running", !.run = r, !.still = Files]
      <4>2. j \in Job
        BY <2>2 DEF Job
      <4>3. jobs' = [jobs EXCEPT ![i] = j]
        BY <4>1, <2>2
      <4>. QED  BY <2>2, <4>2, <4>3, JobsWritten
    <3>. QED  BY <2>1, <3>1, <3>2
  <2>. QED  BY <1>2, <2>3, <2>4, <2>5 DEF Claim
<1>3. CASE Crawl
  <2>1. PICK e \in batch.frontier :
          batch' = [batch EXCEPT
            !.frontier = IF e \in Folders THEN (@ \ {e}) \cup Children(e) ELSE @ \ {e},
            !.items    = IF e \in Present THEN @ \cup {<<e, mirror[e]>>} ELSE @]
    BY <1>3 DEF Crawl
  <2>2. batch.frontier \subseteq Entries /\ batch.items \subseteq Files \X Versions
    BY DEF Batch
  <2>3. Children(e) \subseteq Entries
    BY DEF Children, Entries, Present
  <2>4. batch' \in Batch
    <3>1. e \in Present => <<e, mirror[e]>> \in Files \X Versions
      BY DEF Present
    <3>. QED  BY <2>1, <2>2, <2>3, <3>1 DEF Batch
  <2>5. IsFiniteSet(batch'.items) /\ Cardinality(batch'.items) <= BatchLimit
    <3>1. Cardinality(batch.items) < BatchLimit /\ Cardinality(batch.items) \in Nat
      BY <1>3, FS_CardinalityType DEF Crawl, Room
    <3>2. batch'.items = batch.items \/ batch'.items = batch.items \cup {<<e, mirror[e]>>}
      BY <2>1 DEF Batch
    <3>3. /\ IsFiniteSet(batch.items \cup {<<e, mirror[e]>>})
          /\ Cardinality(batch.items \cup {<<e, mirror[e]>>}) <= Cardinality(batch.items) + 1
      <4>. DEFINE n == Cardinality(batch.items)
                  m == Cardinality(batch.items \cup {<<e, mirror[e]>>})
      <4>1. m = n \/ m = n + 1
        BY FS_AddElement
      <4>2. IsFiniteSet(batch.items \cup {<<e, mirror[e]>>})
        BY FS_AddElement
      <4>. QED  BY <3>1, <4>1, <4>2
    <3>4. Cardinality(batch.items \cup {<<e, mirror[e]>>}) \in Nat
      BY <3>3, FS_CardinalityType
    <3>5. Cardinality(batch.items \cup {<<e, mirror[e]>>}) <= BatchLimit
      BY <3>1, <3>3, <3>4, Bounds
    <3>6. CASE batch'.items = batch.items
      BY <3>6
    <3>7. CASE batch'.items = batch.items \cup {<<e, mirror[e]>>}
      BY <3>3, <3>5, <3>7
    <3>. QED  BY <3>2, <3>6, <3>7
  <2>. QED  BY <1>3, <2>4, <2>5 DEF Crawl
<1>4. CASE EndCrawl
  BY <1>4 DEF EndCrawl, Batch, Stage
<1>5. CASE Persist
  <2>1. PICK i \in With("running"), S \in SUBSET batch.items :
          /\ records' = [f \in Files |->
               IF \E v \in Versions : <<f, v>> \in S
               THEN Upsert(f, CHOOSE v \in Versions : <<f, v>> \in S, jobs[i].run)
               ELSE records[f]]
          /\ batch' = [batch EXCEPT !.items = @ \ S]
    BY <1>5 DEF Persist
  <2>2. jobs[i].run \in Runs \cup {NoRun}
    BY JobTypes DEF With, Job
  <2>3. records' \in [Files -> Record]
    <3>1. ASSUME NEW f \in Files, \E v \in Versions : <<f, v>> \in S
          PROVE  (CHOOSE v \in Versions : <<f, v>> \in S) \in Versions
      BY <3>1
    <3>. QED  BY <2>1, <2>2, <3>1 DEF Upsert, Record
  <2>4. batch' \in Batch /\ batch'.items \subseteq batch.items
    BY <2>1 DEF Batch
  <2>5. IsFiniteSet(batch'.items) /\ Cardinality(batch'.items) <= Cardinality(batch.items)
    BY <2>4, FS_Subset
  <2>6. Cardinality(batch'.items) <= BatchLimit
    BY <2>4, <2>5, FS_CardinalityType, Bounds
  <2>. QED  BY <1>5, <2>3, <2>4, <2>5, <2>6 DEF Persist
<1>6. CASE EndBatch
  <2>1. PICK i \in With("running") :
          \/ /\ jobs' = [jobs EXCEPT ![i].status = "queued", ![i].frontier = batch.frontier]
             /\ UNCHANGED <<records, settled>>
          \/ /\ jobs' = SubSeq(jobs, 1, i - 1) \o SubSeq(jobs, i + 1, Len(jobs))
             /\ records' = Finalized(jobs[i].run)
             /\ settled' = jobs[i].still
    BY <1>6 DEF EndBatch
  <2>2. i \in 1..Len(jobs) /\ jobs[i] \in Job
    BY JobTypes DEF With
  <2>3. /\ jobs' \in Seq(Job) /\ Len(jobs') <= MaxLive
        /\ records' \in [Files -> Record] /\ settled' \subseteq Files
    <3>1. CASE /\ jobs' = [jobs EXCEPT ![i].status = "queued", ![i].frontier = batch.frontier]
               /\ UNCHANGED <<records, settled>>
      <4>. DEFINE j == [jobs[i] EXCEPT !.status = "queued", !.frontier = batch.frontier]
      <4>1. j \in Job
        BY <2>2 DEF Job, Batch
      <4>2. jobs' = [jobs EXCEPT ![i] = j]
        BY <3>1, <2>2
      <4>. QED  BY <3>1, <2>2, <4>1, <4>2, JobsWritten
    <3>2. CASE /\ jobs' = SubSeq(jobs, 1, i - 1) \o SubSeq(jobs, i + 1, Len(jobs))
               /\ records' = Finalized(jobs[i].run)
               /\ settled' = jobs[i].still
      <4>1. records' \in [Files -> Record]
        BY <3>2 DEF Finalized, Record
      <4>2. settled' \subseteq Files
        BY <3>2, <2>2 DEF Job
      <4>. QED  BY <3>2, <2>2, <4>1, <4>2, JobRemoved, Bounds
    <3>. QED  BY <2>1, <3>1, <3>2
  <2>. QED  BY <1>6, <2>3, ConstantTypes, NoBatchFits DEF EndBatch
<1>7. CASE InterruptBatch
  <2>1. PICK i \in With("running") : jobs' = [jobs EXCEPT ![i] = Requeued(jobs[i])]
    BY <1>7 DEF InterruptBatch
  <2>2. i \in 1..Len(jobs) /\ Requeued(jobs[i]) \in Job
    BY JobTypes DEF With, Requeued, Job
  <2>3. jobs' \in Seq(Job) /\ Len(jobs') = Len(jobs)
    BY <2>1, <2>2, JobsWritten
  <2>4. faults' \in 0..MaxFaults
    BY <1>7, Bounds DEF InterruptBatch
  <2>. QED  BY <1>7, <2>3, <2>4, ConstantTypes, NoBatchFits DEF InterruptBatch
<1>8. CASE FailJob
  <2>1. PICK i \in With("running") :
          jobs' = SubSeq(jobs, 1, i - 1) \o SubSeq(jobs, i + 1, Len(jobs))
    BY <1>8 DEF FailJob
  <2>2. i \in 1..Len(jobs)
    BY DEF With
  <2>3. jobs' \in Seq(Job) /\ Len(jobs') <= MaxLive
    BY <2>1, <2>2, JobRemoved
  <2>4. faults' \in 0..MaxFaults
    BY <1>8, Bounds DEF FailJob
  <2>. QED  BY <1>8, <2>3, <2>4, ConstantTypes, NoBatchFits DEF FailJob
<1>9. CASE Pause
  <2>1. \A i \in 1..Len(jobs) : jobs[i] \in Job /\ [jobs[i] EXCEPT !.status = "paused"] \in Job
    BY JobTypes DEF Job
  <2>2. jobs' \in Seq(Job) /\ Len(jobs') = Len(jobs)
    BY <1>9, <2>1 DEF Pause
  <2>. QED  BY <1>9, <2>2, ConstantTypes, NoBatchFits DEF Pause
<1>10. CASE Resume
  <2>1. jobs' \in Seq(Job) /\ Len(jobs') <= MaxLive
    <3>1. CASE \E i \in With("paused") : jobs' = [jobs EXCEPT ![i].status = "queued"]
      <4>1. PICK i \in With("paused") : jobs' = [jobs EXCEPT ![i].status = "queued"]
        BY <3>1
      <4>2. i \in 1..Len(jobs) /\ [jobs[i] EXCEPT !.status = "queued"] \in Job
        BY JobTypes DEF With, Job
      <4>3. jobs' = [jobs EXCEPT ![i] = [jobs[i] EXCEPT !.status = "queued"]]
        BY <4>1, <4>2
      <4>. QED  BY <4>2, <4>3, JobsWritten
    <3>2. CASE With("paused") = {} /\ Active = {} /\ jobs' = Append(jobs, NewJob)
      <4>1. Len(jobs) = 0
        <5>1. 1 \notin 1..Len(jobs)
          BY <3>2, JobTypes DEF Active
        <5>. QED  BY <5>1
      <4>2. Append(jobs, NewJob) \in Seq(Job) /\ Len(Append(jobs, NewJob)) = 1
        BY <4>1, ConstantTypes
      <4>. QED  BY <3>2, <4>2, Bounds
    <3>. QED  BY <1>10, <3>1, <3>2 DEF Resume
  <2>. QED  BY <1>10, <2>1 DEF Resume
<1>11. ASSUME NEW f \in Files, Edit(f) PROVE TypeInv'
  <2>1. \A i \in 1..Len(jobs) : jobs[i] \in Job /\ [jobs[i] EXCEPT !.still = @ \ {f}] \in Job
    BY JobTypes DEF Job
  <2>2. jobs' \in Seq(Job) /\ Len(jobs') = Len(jobs)
    BY <1>11, <2>1 DEF Edit
  <2>. QED  BY <1>11, <2>2, Bounds DEF Edit
<1>12. CASE UNCHANGED vars
  BY <1>12 DEF vars
<1>. QED  BY <1>1, <1>2, <1>3, <1>4, <1>5, <1>6, <1>7, <1>8, <1>9, <1>10, <1>11, <1>12
          DEF Next, Work

\* The variables of a scan, its jobs and its batch are of their types, and a batch
\* never holds more items than its limit (_refresh_batch_limits).
THEOREM TypeCorrect == Spec => []TypeOK
<1>1. TypeInv => TypeOK
  BY DEF TypeInv
<1>. QED  BY <1>1, InitTypes, TypeStep, PTL DEF Spec

-----------------------------------------------------------------------------
(* The invariant of one scan at a time                                      *)
(*                                                                          *)
(* A second scan that begins while an older one is paused overwrites the    *)
(* marks by which the older one tells what it has seen; what follows holds  *)
(* as long as no two jobs are live.                                         *)

OneScan == Len(jobs) <= 1

\* A job that has not begun its scan starts from the root.
NotBegun(j) == j.run = NoRun => j.frontier = {Root} /\ j.status # "running"

\* What did not change since the scan of job j began: the files that exist are
\* recorded or ahead, those that do not are not marked, and they comprise what
\* is settled.
Saved(j) ==
  j.run # NoRun =>
    /\ \A f \in j.still \cap Present : Recorded(f, j.run) \/ Under(j.frontier, f)
    /\ \A f \in j.still \ Present : records[f].state = "live" => records[f].seen # j.run
    /\ settled \subseteq j.still

\* The same of the batch at work, whose items are true of what did not change.
AtWork(j) ==
  j.status = "running" =>
    \A f \in j.still :
      /\ \A v \in Versions : <<f, v>> \in batch.items => v = mirror[f]
      /\ f \in Present => \/ Recorded(f, j.run)
                          \/ Under(batch.frontier, f)
                          \/ <<f, mirror[f]>> \in batch.items

JobRight(j) == NotBegun(j) /\ Saved(j) /\ AtWork(j)

ScanInv ==
  /\ TypeInv
  /\ \A i \in 1..Len(jobs) : JobRight(jobs[i])
  /\ batch.stage = "none" => batch = NoBatch /\ With("running") = {}
  /\ IndexAgrees

-----------------------------------------------------------------------------
(* What the frontier covers *)

\* Every file is under the root.
LEMMA UnderRoot ==
  ASSUME NEW f \in Files
  PROVE  Under({Root}, f)
<1>. SUFFICES ASSUME NEW S \in SUBSET Entries, f \in S, \A x \in S \ {Root} : Parent[x] \in S
              PROVE  Root \in S
  BY DEF Under
<1>. QED  BY RefreshScanAssumption DEF Entries

\* No file is under an empty frontier.
LEMMA UnderNone ==
  ASSUME NEW f \in Files
  PROVE  ~Under({}, f)
<1>1. f \in Entries /\ \A x \in Entries \ {Root} : Parent[x] \in Entries
  BY RefreshScanAssumption DEF Entries
<1>. QED  BY <1>1 DEF Under

\* A folder replaced by its children leaves every file that exists covered.
LEMMA UnderExpanded ==
  ASSUME NEW F \in SUBSET Entries, NEW e \in Folders, NEW f \in Present, Under(F, f)
  PROVE  Under((F \ {e}) \cup Children(e), f)
<1>. DEFINE G == (F \ {e}) \cup Children(e)
<1>. SUFFICES ASSUME NEW S \in SUBSET Entries, f \in S, \A x \in S \ {Root} : Parent[x] \in S,
                     S \cap G = {}
              PROVE  FALSE
  BY DEF Under
<1>. DEFINE T == (S \cap (Folders \cup {f})) \ {e}
<1>1. f \in T /\ T \in SUBSET Entries
  BY RefreshScanAssumption DEF Present
<1>2. ASSUME NEW x \in T \ {Root}
      PROVE  Parent[x] \in T
  <2>1. Parent[x] \in S /\ Parent[x] \in Folders
    BY RefreshScanAssumption DEF Present
  <2>2. Parent[x] # e
    <3>1. SUFFICES ASSUME Parent[x] = e PROVE x \in Children(e)
      BY DEF Children
    <3>. QED  BY <3>1 DEF Children
  <2>. QED  BY <2>1, <2>2
<1>3. T \cap F # {}
  BY <1>1, <1>2 DEF Under
<1>. QED  BY <1>3

\* A file taken from the frontier leaves every other one covered.
LEMMA UnderOthers ==
  ASSUME NEW F \in SUBSET Entries, NEW e \in Files, NEW f \in Files, e # f, Under(F, f)
  PROVE  Under(F \ {e}, f)
<1>. SUFFICES ASSUME NEW S \in SUBSET Entries, f \in S, \A x \in S \ {Root} : Parent[x] \in S,
                     S \cap (F \ {e}) = {}
              PROVE  FALSE
  BY DEF Under
<1>. DEFINE T == S \cap (Folders \cup {f})
<1>1. f \in T /\ T \in SUBSET Entries /\ e \notin T
  BY RefreshScanAssumption
<1>2. ASSUME NEW x \in T \ {Root}
      PROVE  Parent[x] \in T
  BY RefreshScanAssumption
<1>3. T \cap F # {}
  BY <1>1, <1>2 DEF Under
<1>. QED  BY <1>1, <1>3

-----------------------------------------------------------------------------
(* One lemma per action                                                     *)

\* The job of one scan at a time is the first.
LEMMA OnlyJob ==
  ASSUME TypeOK, OneScan, NEW i \in 1..Len(jobs)
  PROVE  i = 1 /\ Len(jobs) = 1 /\ 1 \in 1..Len(jobs)
<1>1. jobs \in Seq(Job) /\ Len(jobs) \in Nat
  BY DEF TypeOK
<1>. QED  BY <1>1 DEF OneScan

\* A step that leaves the index and the mirror alone leaves them in agreement.
LEMMA SameIndex ==
  ASSUME IndexAgrees, UNCHANGED <<mirror, records, settled>>
  PROVE  IndexAgrees'
  BY DEF IndexAgrees, Present

\* A job that is the same, but for its status, stays right when the index does.
LEMMA SameJob ==
  ASSUME NEW j, NEW k, JobRight(j), UNCHANGED <<mirror, records, settled>>,
         k.run = j.run, k.frontier = j.frontier, k.still = j.still, k.status # "running"
  PROVE  JobRight(k)'
  BY DEF JobRight, NotBegun, Saved, AtWork, Recorded, Present

\* A new job is right.
LEMMA EnqueueKeepsInv ==
  ASSUME ScanInv, OneScan', TypeInv', UNCHANGED <<mirror, records, settled, batch>>,
         jobs' = Append(jobs, NewJob)
  PROVE  ScanInv'
<1>1. jobs \in Seq(Job) /\ Len(jobs) \in Nat
  BY DEF ScanInv, TypeInv, TypeOK
<1>2. Len(jobs') = 1 /\ jobs'[1] = NewJob
  BY <1>1, AppendProperties DEF OneScan
<1>3. JobRight(NewJob)'
  BY DEF JobRight, NotBegun, Saved, AtWork, NewJob
<1>4. With("running")' = {}
  BY <1>2 DEF With, NewJob
<1>. QED  BY <1>2, <1>3, <1>4, SameIndex DEF ScanInv

\* A claim puts at work what was saved, or begins a scan at the root.
LEMMA ClaimKeepsInv ==
  ASSUME ScanInv, OneScan, TypeInv', Claim
  PROVE  ScanInv'
<1>0. TypeOK
  BY DEF ScanInv, TypeInv
<1>1. PICK i \in With("queued") :
        /\ \/ /\ ~NeedsRun(jobs[i])
              /\ jobs' = [jobs EXCEPT ![i].status = "running"]
           \/ /\ NeedsRun(jobs[i])
              /\ \E r \in Runs \ RunsInUse :
                   jobs' = [jobs EXCEPT ![i].status = "running",
                                        ![i].run = r, ![i].still = Files]
        /\ batch' = [stage |-> "crawling", frontier |-> jobs[i].frontier, items |-> {}]
  BY DEF Claim
<1>a. i \in 1..Len(jobs) /\ jobs[i] \in Job /\ JobRight(jobs[i]) /\ i = 1 /\ Len(jobs) = 1
  BY <1>0, JobTypes, OnlyJob DEF ScanInv, With
<1>b. PICK j \in Job : j = jobs[i]
  BY <1>a
<1>2. i = 1 /\ Len(jobs) = 1 /\ j = jobs[i] /\ JobRight(j)
  BY <1>a, <1>b
<1>3. CASE /\ ~NeedsRun(j)
           /\ jobs' = [jobs EXCEPT ![i].status = "running"]
  <2>. DEFINE k == [j EXCEPT !.status = "running"]
  <2>1. Len(jobs') = 1 /\ jobs'[1] = k
    BY <1>0, <1>2, <1>3 DEF TypeOK
  <2>2. k.run = j.run /\ k.frontier = j.frontier /\ k.still = j.still /\ j.run # NoRun
    BY <1>2, <1>3 DEF Job, NeedsRun
  <2>3. batch'.frontier = j.frontier /\ batch'.items = {} /\ batch'.stage = "crawling"
    BY <1>1, <1>2
  <2>. HIDE DEF k
  <2>4. JobRight(k)'
    BY <1>2, <2>2, <2>3 DEF JobRight, NotBegun, Saved, AtWork, Recorded, Present, Claim
  <2>5. IndexAgrees'
    BY SameIndex DEF ScanInv, Claim
  <2>6. \A n \in 1..Len(jobs') : n = 1
    BY <2>1
  <2>. QED  BY <2>1, <2>3, <2>4, <2>5, <2>6 DEF ScanInv
<1>4. CASE /\ NeedsRun(j)
           /\ \E r \in Runs \ RunsInUse :
                jobs' = [jobs EXCEPT ![i].status = "running", ![i].run = r, ![i].still = Files]
  <2>1. PICK r \in Runs \ RunsInUse :
               jobs' = [jobs EXCEPT ![i].status = "running", ![i].run = r, ![i].still = Files]
    BY <1>4
  <2>. DEFINE k == [j EXCEPT !.status = "running", !.run = r, !.still = Files]
  <2>2. Len(jobs') = 1 /\ jobs'[1] = k
    BY <1>0, <1>2, <2>1 DEF TypeOK
  <2>3. /\ batch'.stage = "crawling"
        /\ k.run = r /\ k.still = Files /\ k.frontier = {Root} /\ r # NoRun
        /\ batch'.frontier = {Root} /\ batch'.items = {}
    BY <1>1, <1>2, <1>4, RefreshScanAssumption DEF JobRight, NotBegun, NeedsRun, Job
  <2>4. \A f \in Files : records[f].seen # r
    BY DEF RunsInUse
  <2>. HIDE DEF k
  <2>5. JobRight(k)'
    <3>1. \A f \in Files : Under({Root}, f)
      BY UnderRoot
    <3>. QED  BY <1>0, <2>3, <2>4, <3>1
              DEF JobRight, NotBegun, Saved, AtWork, Present, Claim, TypeOK
  <2>6. IndexAgrees'
    BY SameIndex DEF ScanInv, Claim
  <2>7. \A n \in 1..Len(jobs') : n = 1
    BY <2>2
  <2>. QED  BY <2>2, <2>3, <2>5, <2>6, <2>7 DEF ScanInv
<1>. QED  BY <1>1, <1>2, <1>3, <1>4

\* Expanding an entry loses no file: it is covered by the children that replace
\* it, or it is read now.
LEMMA CrawlKeepsInv ==
  ASSUME ScanInv, OneScan, TypeInv', Crawl
  PROVE  ScanInv'
<1>0. TypeOK
  BY DEF ScanInv, TypeInv
<1>1. PICK e \in batch.frontier :
        batch' = [batch EXCEPT
          !.frontier = IF e \in Folders THEN (@ \ {e}) \cup Children(e) ELSE @ \ {e},
          !.items    = IF e \in Present THEN @ \cup {<<e, mirror[e]>>} ELSE @]
  BY DEF Crawl
<1>2. /\ batch.frontier \in SUBSET Entries
      /\ batch'.frontier = IF e \in Folders THEN (batch.frontier \ {e}) \cup Children(e)
                                            ELSE batch.frontier \ {e}
      /\ batch'.items = IF e \in Present THEN batch.items \cup {<<e, mirror[e]>>}
                                         ELSE batch.items
      /\ batch'.stage = "crawling"
  BY <1>0, <1>1 DEF TypeOK, Batch, Crawl
<1>3. ASSUME NEW f \in Present, Under(batch.frontier, f)
      PROVE  Under(batch'.frontier, f) \/ <<f, mirror[f]>> \in batch'.items
  <2>1. CASE e \in Folders
    BY <1>2, <1>3, <2>1, UnderExpanded
  <2>2. CASE e = f
    BY <1>2, <2>2
  <2>3. CASE e \notin Folders /\ e # f
    <3>1. e \in Files /\ f \in Files
      BY <1>2, <2>3 DEF Entries, Present
    <3>. QED  BY <1>2, <1>3, <2>3, <3>1, UnderOthers
  <2>. QED  BY <2>1, <2>2, <2>3
<1>4. \A f \in Files, v \in Versions :
         <<f, v>> \in batch'.items => <<f, v>> \in batch.items \/ v = mirror[f]
  BY <1>2
<1>5. \A f \in Files, v \in Versions : <<f, v>> \in batch.items => <<f, v>> \in batch'.items
  BY <1>2
<1>6. ASSUME NEW i \in 1..Len(jobs)
      PROVE  JobRight(jobs[i])'
  <2>1. JobRight(jobs[i]) /\ jobs[i] \in Job
    BY <1>0, JobTypes DEF ScanInv
  <2>2. NotBegun(jobs[i])' /\ Saved(jobs[i])'
    BY <2>1 DEF Crawl, JobRight, NotBegun, Saved, Recorded, Present
  <2>3. jobs[i].still \subseteq Files /\ \A f \in Present : mirror[f] \in Versions
    BY <1>0, <2>1 DEF Job, Present, TypeOK
  <2>4. AtWork(jobs[i])'
    BY <1>3, <1>4, <1>5, <2>1, <2>3 DEF Crawl, JobRight, AtWork, Recorded, Present
  <2>. QED  BY <2>2, <2>4 DEF JobRight
<1>. QED  BY <1>2, <1>6, SameIndex DEF ScanInv, Crawl

\* The end of the crawl moves nothing.
LEMMA EndCrawlKeepsInv ==
  ASSUME ScanInv, TypeInv', EndCrawl
  PROVE  ScanInv'
<1>1. /\ batch'.frontier = batch.frontier /\ batch'.items = batch.items
      /\ batch'.stage = "extracting"
  BY DEF EndCrawl, ScanInv, TypeInv, TypeOK, Batch
<1>2. ASSUME NEW i \in 1..Len(jobs)
      PROVE  JobRight(jobs[i])'
  <2>1. JobRight(jobs[i])
    BY DEF ScanInv
  <2>. QED  BY <1>1, <2>1
            DEF EndCrawl, JobRight, NotBegun, Saved, AtWork, Recorded, Present
<1>. QED  BY <1>1, <1>2, SameIndex DEF ScanInv, EndCrawl

\* An item that is written is recorded as it was read, and an item not written
\* stays in the batch.
LEMMA PersistKeepsInv ==
  ASSUME ScanInv, OneScan, TypeInv', Persist
  PROVE  ScanInv'
<1>0. TypeOK
  BY DEF ScanInv, TypeInv
<1>1. PICK i \in With("running"), S \in SUBSET batch.items :
        /\ records' = [f \in Files |->
             IF \E v \in Versions : <<f, v>> \in S
             THEN Upsert(f, CHOOSE v \in Versions : <<f, v>> \in S, jobs[i].run)
             ELSE records[f]]
        /\ batch' = [batch EXCEPT !.items = @ \ S]
  BY DEF Persist
<1>2. /\ i \in 1..Len(jobs) /\ jobs[i] \in Job /\ JobRight(jobs[i]) /\ i = 1 /\ Len(jobs) = 1
      /\ jobs[i].status = "running"
  BY <1>0, JobTypes, OnlyJob DEF ScanInv, With
<1>3. PICK j \in Job : j = jobs[i]
  BY <1>2
<1>4. /\ j.run # NoRun /\ j.still \subseteq Files /\ j.status = "running"
      /\ settled \subseteq j.still /\ settled \subseteq Files
  BY <1>0, <1>2, <1>3 DEF JobRight, NotBegun, Saved, Job, TypeOK
<1>5. batch'.frontier = batch.frontier /\ batch'.items = batch.items \ S /\ batch'.stage = "extracting"
  BY <1>0, <1>1 DEF TypeOK, Batch, Persist
<1>6. ASSUME NEW f \in j.still, NEW v \in Versions, <<f, v>> \in S
      PROVE  /\ v = mirror[f] /\ f \in Present
             /\ records'[f] = [state |-> "live", version |-> mirror[f], seen |-> j.run]
  <2>1. \A u \in Versions : <<f, u>> \in S => u = mirror[f]
    BY <1>2, <1>3, <1>4, <1>6 DEF JobRight, AtWork
  <2>2. (CHOOSE u \in Versions : <<f, u>> \in S) = mirror[f]
    BY <1>6, <2>1
  <2>3. f \in Present
    BY <1>4, <1>6, <2>1, RefreshScanAssumption DEF Present
  <2>. QED  BY <1>1, <1>3, <1>4, <1>6, <2>1, <2>2, <2>3 DEF Upsert
<1>7. ASSUME NEW f \in j.still, \A v \in Versions : <<f, v>> \notin S
      PROVE  records'[f] = records[f]
  BY <1>1, <1>4, <1>7
<1>8. UNCHANGED <<jobs, mirror, settled>>
  BY DEF Persist
<1>9. Saved(j)'
  <2>1. ASSUME NEW f \in j.still \cap Present
        PROVE  Recorded(f, j.run)' \/ Under(j.frontier, f)
    BY <1>2, <1>3, <1>4, <1>6, <1>7, <1>8 DEF JobRight, Saved, Recorded
  <2>2. ASSUME NEW f \in j.still \ Present
        PROVE  records'[f].state = "live" => records'[f].seen # j.run
    BY <1>2, <1>3, <1>4, <1>6, <1>7 DEF JobRight, Saved
  <2>. QED  BY <1>4, <1>8, <2>1, <2>2 DEF Saved, Present
<1>10. AtWork(j)'
  <2>1. ASSUME NEW f \in j.still, f \in Present
        PROVE  Recorded(f, j.run)' \/ Under(batch'.frontier, f) \/ <<f, mirror'[f]>> \in batch'.items
    <3>1. mirror[f] \in Versions
      BY <1>0, <1>4, <2>1 DEF TypeOK, Present
    <3>. QED  BY <1>2, <1>3, <1>4, <1>5, <1>6, <1>7, <1>8, <2>1, <3>1
              DEF JobRight, AtWork, Recorded
  <2>2. ASSUME NEW f \in j.still, NEW v \in Versions, <<f, v>> \in batch'.items
        PROVE  v = mirror'[f]
    BY <1>2, <1>3, <1>4, <1>5, <1>8, <2>2 DEF JobRight, AtWork
  <2>. QED  BY <1>8, <2>1, <2>2 DEF AtWork, Present
<1>11. NotBegun(j)'
  BY <1>4 DEF NotBegun
<1>12. IndexAgrees'
  <2>1. ASSUME NEW f \in settled
        PROVE  IF f \in Present THEN records'[f].state = "live" /\ records'[f].version = mirror[f]
               ELSE records'[f].state # "live"
    <3>1. f \in j.still
      BY <1>4
    <3>2. CASE \E v \in Versions : <<f, v>> \in S
      <4>1. f \in Present
            /\ records'[f] = [state |-> "live", version |-> mirror[f], seen |-> j.run]
        BY <1>6, <3>1, <3>2
      <4>. QED  BY <4>1
    <3>3. CASE \A v \in Versions : <<f, v>> \notin S
      BY <1>7, <3>1, <3>3 DEF ScanInv, IndexAgrees
    <3>. QED  BY <3>2, <3>3
  <2>. QED  BY <1>8, <2>1 DEF IndexAgrees, Present
<1>13. \A n \in 1..Len(jobs') : n = i
  BY <1>2, <1>8
<1>14. jobs'[i] = j
  BY <1>3, <1>8
<1>15. JobRight(j)'
  BY <1>9, <1>10, <1>11 DEF JobRight
<1>. QED  BY <1>5, <1>12, <1>13, <1>14, <1>15 DEF ScanInv

\* A job that is requeued has saved what is ahead; one that ends has seen every
\* file that did not change, and deletes what it has not seen.
LEMMA EndBatchKeepsInv ==
  ASSUME ScanInv, OneScan, TypeInv', EndBatch
  PROVE  ScanInv'
<1>0. TypeOK
  BY DEF ScanInv, TypeInv
<1>1. PICK i \in With("running") :
       \/ /\ batch.frontier # {}
          /\ jobs' = [jobs EXCEPT ![i].status = "queued", ![i].frontier = batch.frontier]
          /\ UNCHANGED <<records, settled>>
       \/ /\ batch.frontier = {}
          /\ jobs' = SubSeq(jobs, 1, i - 1) \o SubSeq(jobs, i + 1, Len(jobs))
          /\ records' = Finalized(jobs[i].run)
          /\ settled' = jobs[i].still
  BY DEF EndBatch
<1>2. /\ i \in 1..Len(jobs) /\ jobs[i] \in Job /\ JobRight(jobs[i]) /\ i = 1 /\ Len(jobs) = 1
      /\ jobs[i].status = "running"
  BY <1>0, JobTypes, OnlyJob DEF ScanInv, With
<1>3. PICK j \in Job : j = jobs[i]
  BY <1>2
<1>4. /\ j.run # NoRun /\ j.still \subseteq Files /\ j.status = "running" /\ JobRight(j)
  BY <1>0, <1>2, <1>3 DEF JobRight, NotBegun, Job, TypeOK
<1>5. batch.items = {} /\ UNCHANGED mirror /\ batch' = NoBatch /\ NoBatch.stage = "none"
  BY DEF EndBatch, NoBatch
<1>6. \A f \in j.still \cap Present : Recorded(f, j.run) \/ Under(batch.frontier, f)
  BY <1>4, <1>5 DEF JobRight, AtWork
<1>7. CASE /\ jobs' = [jobs EXCEPT ![i].status = "queued", ![i].frontier = batch.frontier]
           /\ UNCHANGED <<records, settled>>
  <2>. DEFINE k == [j EXCEPT !.status = "queued", !.frontier = batch.frontier]
  <2>1. Len(jobs') = 1 /\ jobs'[1] = k
    BY <1>0, <1>2, <1>3, <1>7 DEF TypeOK
  <2>2. PICK l : l = k
    OBVIOUS
  <2>3. /\ l.run = j.run /\ l.frontier = batch.frontier /\ l.still = j.still
        /\ l.status = "queued"
    BY <2>2 DEF Job
  <2>4. JobRight(l)'
    BY <1>4, <1>5, <1>6, <1>7, <2>3
       DEF JobRight, NotBegun, Saved, AtWork, Recorded, Present
  <2>5. IndexAgrees' /\ With("running")' = {}
    <3>1. With("running")' = {}
      <4>1. jobs'[1] = l /\ \A n \in 1..Len(jobs') : n = 1
        BY <2>1, <2>2
      <4>. QED  BY <2>3, <4>1 DEF With
    <3>. QED  BY <1>5, <1>7, <3>1, SameIndex DEF ScanInv
  <2>6. \A n \in 1..Len(jobs') : n = 1
    BY <2>1
  <2>. QED  BY <1>5, <2>1, <2>2, <2>4, <2>5, <2>6 DEF ScanInv
<1>8. CASE /\ batch.frontier = {}
           /\ jobs' = SubSeq(jobs, 1, i - 1) \o SubSeq(jobs, i + 1, Len(jobs))
           /\ records' = Finalized(jobs[i].run)
           /\ settled' = jobs[i].still
  <2>1. Len(jobs') = 0
    BY <1>0, <1>2, <1>8, JobRemoved
  <2>2. \A f \in j.still \cap Present : Recorded(f, j.run)
    BY <1>4, <1>6, <1>8, UnderNone
  <2>3. ASSUME NEW f \in j.still
        PROVE  IF f \in Present THEN records'[f].state = "live" /\ records'[f].version = mirror[f]
               ELSE records'[f].state # "live"
    <3>1. records[f] \in Record /\ f \in Files
      BY <1>0, <1>4 DEF TypeOK
    <3>2. CASE f \in Present
      <4>1. records[f] = [state |-> "live", version |-> mirror[f], seen |-> j.run]
        BY <2>2, <3>2 DEF Recorded
      <4>2. records'[f] = records[f]
        BY <1>3, <1>8, <3>1, <4>1 DEF Finalized
      <4>. QED  BY <3>2, <4>1, <4>2
    <3>3. CASE f \notin Present
      <4>1. records[f].state = "live" => records[f].seen # j.run
        BY <1>4, <3>3 DEF JobRight, Saved
      <4>. QED  BY <1>3, <1>8, <3>1, <3>3, <4>1 DEF Finalized, Record
    <3>. QED  BY <3>2, <3>3
  <2>4. IndexAgrees'
    BY <1>3, <1>5, <1>8, <2>3 DEF IndexAgrees, Present
  <2>5. With("running")' = {} /\ 1..Len(jobs') = {}
    BY <2>1 DEF With
  <2>. QED  BY <1>5, <2>4, <2>5 DEF ScanInv
<1>. QED  BY <1>1, <1>7, <1>8

\* A batch that is interrupted leaves its job as it was saved.
LEMMA InterruptKeepsInv ==
  ASSUME ScanInv, OneScan, TypeInv', InterruptBatch
  PROVE  ScanInv'
<1>0. TypeOK
  BY DEF ScanInv, TypeInv
<1>1. PICK i \in With("running") : jobs' = [jobs EXCEPT ![i] = Requeued(jobs[i])]
  BY DEF InterruptBatch
<1>2. /\ i \in 1..Len(jobs) /\ jobs[i] \in Job /\ JobRight(jobs[i]) /\ i = 1 /\ Len(jobs) = 1
  BY <1>0, JobTypes, OnlyJob DEF ScanInv, With
<1>3. PICK j \in Job : j = jobs[i]
  BY <1>2
<1>4. PICK k : k = Requeued(j)
  OBVIOUS
<1>5. /\ k.run = j.run /\ k.frontier = j.frontier /\ k.still = j.still
      /\ k.status = "queued"
  BY <1>4 DEF Requeued, Job
<1>6. Len(jobs') = 1 /\ jobs'[1] = k
  BY <1>0, <1>1, <1>2, <1>3, <1>4 DEF TypeOK
<1>7. \A n \in 1..Len(jobs') : n = 1
  BY <1>6
<1>8. JobRight(k)'
  BY <1>2, <1>3, <1>5, SameJob DEF InterruptBatch
<1>9. With("running")' = {}
  BY <1>5, <1>6, <1>7 DEF With
<1>. QED  BY <1>6, <1>7, <1>8, <1>9, SameIndex DEF ScanInv, InterruptBatch

\* A job that fails leaves the index as it is.
LEMMA FailKeepsInv ==
  ASSUME ScanInv, OneScan, TypeInv', FailJob
  PROVE  ScanInv'
<1>0. TypeOK
  BY DEF ScanInv, TypeInv
<1>1. PICK i \in With("running") :
        jobs' = SubSeq(jobs, 1, i - 1) \o SubSeq(jobs, i + 1, Len(jobs))
  BY DEF FailJob
<1>2. i \in 1..Len(jobs) /\ i = 1 /\ Len(jobs) = 1
  BY <1>0, OnlyJob DEF With
<1>3. Len(jobs') = 0
  BY <1>0, <1>1, <1>2, JobRemoved
<1>4. 1..Len(jobs') = {} /\ With("running")' = {}
  BY <1>3 DEF With
<1>. QED  BY <1>4, SameIndex DEF ScanInv, FailJob

\* A pause stops the batch and keeps what was saved.
LEMMA PauseKeepsInv ==
  ASSUME ScanInv, OneScan, TypeInv', Pause
  PROVE  ScanInv'
<1>0. TypeOK
  BY DEF ScanInv, TypeInv
<1>1. Len(jobs) \in Nat
  BY <1>0 DEF TypeOK
<1>2. /\ Len(jobs') = Len(jobs)
      /\ \A i \in 1..Len(jobs) :
           jobs'[i] = IF i \in Active THEN [jobs[i] EXCEPT !.status = "paused"] ELSE jobs[i]
  BY <1>1 DEF Pause
<1>3. ASSUME NEW i \in 1..Len(jobs)
      PROVE  JobRight(jobs[i])' /\ jobs'[i].status # "running"
  <2>1. jobs[i] \in Job /\ JobRight(jobs[i])
    BY <1>0, JobTypes DEF ScanInv
  <2>2. PICK j \in Job : j = jobs[i]
    BY <2>1
  <2>a. PICK k : k = jobs'[i]
    OBVIOUS
  <2>3. k.run = j.run /\ k.frontier = j.frontier /\ k.still = j.still /\ k.status # "running"
    BY <1>2, <2>2, <2>a DEF Job, Active, With
  <2>4. JobRight(k)'
    BY <2>1, <2>2, <2>a, <2>3, SameJob DEF Pause
  <2>. QED  BY <2>2, <2>a, <2>3, <2>4
<1>4. With("running")' = {}
  BY <1>2, <1>3 DEF With
<1>. QED  BY <1>2, <1>3, <1>4, SameIndex DEF ScanInv, Pause

\* A resumed job continues from what was saved.
LEMMA ResumeKeepsInv ==
  ASSUME ScanInv, OneScan, OneScan', TypeInv', Resume
  PROVE  ScanInv'
<1>0. TypeOK
  BY DEF ScanInv, TypeInv
<1>1. CASE \E i \in With("paused") : jobs' = [jobs EXCEPT ![i].status = "queued"]
  <2>1. PICK i \in With("paused") : jobs' = [jobs EXCEPT ![i].status = "queued"]
    BY <1>1
  <2>2. /\ i \in 1..Len(jobs) /\ jobs[i] \in Job /\ JobRight(jobs[i]) /\ i = 1 /\ Len(jobs) = 1
    BY <1>0, JobTypes, OnlyJob DEF ScanInv, With
  <2>3. PICK j \in Job : j = jobs[i]
    BY <2>2
  <2>4. PICK k : k = [j EXCEPT !.status = "queued"]
    OBVIOUS
  <2>5. /\ k.run = j.run /\ k.frontier = j.frontier /\ k.still = j.still
        /\ k.status = "queued"
    BY <2>4 DEF Job
  <2>6. Len(jobs') = 1 /\ jobs'[1] = k
    BY <1>0, <2>1, <2>2, <2>3, <2>4 DEF TypeOK
  <2>7. \A n \in 1..Len(jobs') : n = 1
    BY <2>6
  <2>8. JobRight(k)'
    BY <2>2, <2>3, <2>5, SameJob DEF Resume
  <2>9. With("running")' = {}
    BY <2>5, <2>6, <2>7 DEF With
  <2>. QED  BY <2>6, <2>7, <2>8, <2>9, SameIndex DEF ScanInv, Resume
<1>2. CASE jobs' = Append(jobs, NewJob)
  BY <1>2, EnqueueKeepsInv DEF Resume
<1>3. CASE UNCHANGED jobs
  <2>1. ASSUME NEW i \in 1..Len(jobs)
        PROVE  JobRight(jobs[i])'
    BY <1>3 DEF Resume, ScanInv, JobRight, NotBegun, Saved, AtWork, Recorded, Present
  <2>2. With("running")' = With("running")
    BY <1>3 DEF With
  <2>. QED  BY <1>3, <2>1, <2>2, SameIndex DEF ScanInv, Resume
<1>. QED  BY <1>1, <1>2, <1>3 DEF Resume

\* A file that changes is no longer one that did not.
LEMMA EditKeepsInv ==
  ASSUME ScanInv, TypeInv', NEW g \in Files, Edit(g)
  PROVE  ScanInv'
<1>0. TypeOK
  BY DEF ScanInv, TypeInv
<1>1. Len(jobs) \in Nat
  BY <1>0 DEF TypeOK
<1>2. /\ Len(jobs') = Len(jobs)
      /\ \A i \in 1..Len(jobs) : jobs'[i] = [jobs[i] EXCEPT !.still = @ \ {g}]
  BY <1>1 DEF Edit
<1>3. /\ \A f \in Files \ {g} : mirror'[f] = mirror[f]
      /\ \A f \in Files \ {g} : f \in Present <=> f \in Present'
      /\ settled' = settled \ {g} /\ UNCHANGED <<records, batch>>
  BY <1>0 DEF Edit, TypeOK, Present
<1>4. ASSUME NEW i \in 1..Len(jobs)
      PROVE  JobRight(jobs[i])' /\ jobs'[i].status = jobs[i].status
  <2>1. jobs[i] \in Job /\ JobRight(jobs[i])
    BY <1>0, JobTypes DEF ScanInv
  <2>2. PICK j \in Job : j = jobs[i]
    BY <2>1
  <2>a. PICK k : k = jobs'[i]
    OBVIOUS
  <2>3. /\ k.run = j.run /\ k.frontier = j.frontier /\ k.status = j.status
        /\ k.still = j.still \ {g} /\ j.still \subseteq Files
    BY <1>2, <2>2, <2>a DEF Job
  <2>4. NotBegun(k)'
    BY <2>1, <2>2, <2>3 DEF JobRight, NotBegun
  <2>5. Saved(k)'
    BY <1>3, <2>1, <2>2, <2>3 DEF JobRight, Saved, Recorded
  <2>6. AtWork(k)'
    BY <1>3, <2>1, <2>2, <2>3 DEF JobRight, AtWork, Recorded
  <2>. QED  BY <2>2, <2>a, <2>3, <2>4, <2>5, <2>6 DEF JobRight
<1>5. IndexAgrees'
  BY <1>0, <1>3 DEF ScanInv, IndexAgrees, TypeOK
<1>6. With("running")' = With("running")
  BY <1>2, <1>4 DEF With
<1>. QED  BY <1>2, <1>3, <1>4, <1>5, <1>6 DEF ScanInv

-----------------------------------------------------------------------------
(* Theorems *)

\* The initial states satisfy the invariant.
LEMMA InitScan == Init => ScanInv
<1>. SUFFICES ASSUME Init PROVE ScanInv
  OBVIOUS
<1>1. 1..Len(jobs) = {} /\ With("running") = {} /\ IndexAgrees /\ batch = NoBatch
  BY DEF Init, With, IndexAgrees
<1>. QED  BY <1>1, InitTypes DEF ScanInv

\* Each step keeps the invariant.
LEMMA ScanStep ==
  ASSUME ScanInv, OneScan, OneScan', [Next]_vars
  PROVE  ScanInv'
<1>1. TypeInv'
  BY TypeStep DEF ScanInv
<1>2. CASE Enqueue
  BY <1>1, <1>2, EnqueueKeepsInv DEF Enqueue
<1>3. CASE Work
  BY <1>1, <1>3, ClaimKeepsInv, CrawlKeepsInv, EndCrawlKeepsInv, PersistKeepsInv,
     EndBatchKeepsInv DEF Work
<1>4. CASE InterruptBatch \/ FailJob \/ Pause \/ Resume
  BY <1>1, <1>4, InterruptKeepsInv, FailKeepsInv, PauseKeepsInv, ResumeKeepsInv
<1>5. CASE \E f \in Files : Edit(f)
  BY <1>1, <1>5, EditKeepsInv
<1>6. CASE UNCHANGED vars
  <2>1. ASSUME NEW i \in 1..Len(jobs)
        PROVE  JobRight(jobs[i])'
    BY <1>6 DEF vars, ScanInv, JobRight, NotBegun, Saved, AtWork, Recorded, Present
  <2>2. With("running")' = With("running")
    BY <1>6 DEF With, vars
  <2>3. IndexAgrees'
    BY <1>6, SameIndex DEF vars, ScanInv
  <2>. QED  BY <1>1, <1>6, <2>1, <2>2, <2>3 DEF vars, ScanInv
<1>. QED  BY <1>2, <1>3, <1>4, <1>5, <1>6 DEF Next

\* What the invariant says of each job is that nothing is lost.
LEMMA InvLosesNothing == ScanInv => NothingLost
<1>. SUFFICES ASSUME ScanInv, NEW i \in 1..Len(jobs), jobs[i].run # NoRun,
                     NEW f \in jobs[i].still \cap Present
              PROVE  /\ Recorded(f, jobs[i].run) \/ Under(jobs[i].frontier, f)
                     /\ jobs[i].status = "running" =>
                          \/ Recorded(f, jobs[i].run)
                          \/ Under(batch.frontier, f)
                          \/ <<f, mirror[f]>> \in batch.items
  BY DEF NothingLost
<1>1. JobRight(jobs[i])
  BY DEF ScanInv
<1>. QED  BY <1>1 DEF JobRight, Saved, AtWork

\* Only the end of a scan deletes, and it does not delete what it recorded.
LEMMA StepKeepsFiles ==
  ASSUME ScanInv, OneScan, [Next]_vars
  PROVE  \A f \in Files : \A i \in With("running") :
           records'[f].state = "deleted" /\ records[f].state = "live"
             => f \notin jobs[i].still \cap Present
<1>. SUFFICES ASSUME NEW f \in Files, NEW i \in With("running"),
                     records'[f].state = "deleted", records[f].state = "live",
                     f \in jobs[i].still, f \in Present
              PROVE  FALSE
  OBVIOUS
<1>1. CASE EndBatch
  <2>1. PICK k \in With("running") :
          UNCHANGED records \/ (batch.frontier = {} /\ records' = Finalized(jobs[k].run))
    BY <1>1 DEF EndBatch
  <2>2. k = i /\ i \in 1..Len(jobs) /\ jobs[i].status = "running"
    BY OnlyJob DEF ScanInv, TypeInv, With
  <2>3. batch.frontier = {} /\ records' = Finalized(jobs[i].run)
    BY <2>1, <2>2
  <2>4. Recorded(f, jobs[i].run)
    <3>1. JobRight(jobs[i]) /\ batch.items = {}
      BY <1>1, <2>2 DEF ScanInv, EndBatch
    <3>. QED  BY <2>2, <2>3, <3>1, UnderNone DEF JobRight, AtWork
  <2>. QED  BY <2>3, <2>4 DEF Finalized, Recorded
<1>2. CASE Persist
  BY <1>2 DEF Persist, Upsert
<1>3. CASE UNCHANGED records
  BY <1>3
<1>. QED  BY <1>1, <1>2, <1>3
          DEF Next, Work, Enqueue, Claim, Crawl, EndCrawl, InterruptBatch, FailJob,
              Pause, Resume, Edit, vars

\* No crash, retry, pause or resume makes a scan skip a file (the saved frontier of
\* _persist_refresh_results), as long as one scan is live at a time.
THEOREM ScanLosesNothing == Spec /\ []OneScan => []NothingLost
<1>1. ScanInv /\ OneScan /\ OneScan' /\ [Next]_vars => ScanInv'
  BY ScanStep
<1>. QED  BY <1>1, InitScan, InvLosesNothing, PTL DEF Spec

\* The index agrees with the mirror on every file that has not changed since the
\* last completed scan began, as long as one scan is live at a time.
THEOREM IndexIsTrue == Spec /\ []OneScan => []IndexAgrees
<1>1. ScanInv /\ OneScan /\ OneScan' /\ [Next]_vars => ScanInv'
  BY ScanStep
<1>2. ScanInv => IndexAgrees
  BY DEF ScanInv
<1>. QED  BY <1>1, <1>2, InitScan, PTL DEF Spec

\* The deletions that end a scan (_finalize_sync_run_snapshot) spare every file
\* that exists and did not change, as long as one scan is live at a time.
THEOREM ScanKeepsPresentFiles == Spec /\ []OneScan => PresentFilesKept
<1>. DEFINE A == \A f \in Files : \A i \in With("running") :
                   records'[f].state = "deleted" /\ records[f].state = "live"
                     => f \notin jobs[i].still \cap Present
<1>1. ScanInv /\ OneScan /\ OneScan' /\ [Next]_vars => ScanInv'
  BY ScanStep
<1>2. ScanInv /\ OneScan /\ [Next]_vars => [A]_vars
  BY StepKeepsFiles
<1>3. Spec /\ []OneScan => [][A]_vars
  BY <1>1, <1>2, InitScan, PTL DEF Spec
<1>. QED  BY <1>3 DEF PresentFilesKept

\* With room for one live job, no second scan begins: then the hypothesis of the
\* three theorems holds of every behaviour.
THEOREM OneJobIsOneScan ==
  ASSUME MaxLive = 1
  PROVE  Spec => []OneScan
<1>1. TypeOK => OneScan
  BY DEF TypeOK, OneScan
<1>. QED  BY <1>1, TypeCorrect, PTL
=============================================================================
