------------------------ MODULE ShadowLearning_proofs ------------------------
(***************************************************************************)
(* Proofs about ShadowLearning, for any number of runners and requests,    *)
(* all kinds of reviews and all thresholds, windows and batches.           *)
(***************************************************************************)
EXTENDS ShadowLearning, TLAPS, FiniteSetTheorems, SequenceTheorems

-----------------------------------------------------------------------------
(* The invariant *)

\* What the variables range over.
Model == [at : Nat, notes : Nat]

Places ==
  {"rest", "export", "store", "load", "append", "unlink", "tally", "saveGating", "saveRules",
   "saveModel", "saveReport", "report", "wipeQueue", "wipeRows", "wipeReady"}

RunnerRecord ==
  [at : Places, todo : Seq(Nat), row : Row \cup {None}, number : Nat, keys : SUBSET Keys,
   model : Model \cup {None}]

RequestRecord == [at : {"rest", "classify", "fill", "report"}, job : Jobs \cup {None}]

FilesInv ==
  /\ TypeOK
  /\ queue \subseteq 1..(nextJob - 1)
  /\ synced <= corrected
  /\ report.notes <= Len(exported) /\ report.at <= clock

TypeInv ==
  /\ FilesInv
  /\ runner \in [Runners -> RunnerRecord]
  /\ request \in [Requests -> RequestRecord]

\* A job that a runner has in hand was in the queue; when its row is written it is
\* settled, unless the row is about the job.
InHand(r) ==
  r.at \in {"load", "append", "unlink"} =>
    r.todo # <<>> /\ \A i \in 1..Len(r.todo) : r.todo[i] \in 1..(nextJob - 1)

Reviewed(r) ==
  /\ r.at = "append" => /\ r.row \in Row
                        /\ r.row.job = Head(r.todo) \/ Head(r.todo) \in settled
  /\ r.at = "unlink" => Head(r.todo) \in settled

\* What a runner is about to store was true when it was read, and has only grown since.
Stores(r) ==
  /\ r.at \in {"export", "store"} => r.number <= corrected
  /\ r.at = "saveGating" => r.number \in 0..Steps
  /\ r.at \in {"saveModel", "saveReport"} => r.model \in Model /\ r.model.notes <= Len(exported)
  /\ r.at = "saveReport" => r.model.at <= clock

RunnerRight(r) == InHand(r) /\ Reviewed(r) /\ Stores(r)

\* As long as no two met in a kind of work, one process does it at most.
OneAtWork(kind) ==
  \A r, s \in Runners : Work(runner[r].at) = kind /\ Work(runner[s].at) = kind => r = s

\* The exporter adds what is missing between the stored number and its own.
SyncFits ==
  /\ OneAtWork("sync")
  /\ \A r \in Runners :
       /\ runner[r].at = "export" => /\ Len(exported) <= synced
                                     /\ Len(runner[r].todo) = runner[r].number - synced
       /\ runner[r].at = "store" => Len(exported) <= runner[r].number
  /\ (\A r \in Runners : runner[r].at # "store") => Len(exported) <= synced

\* The trainer has a model with all that the report says, then the stored one.
TrainFits ==
  /\ OneAtWork("train")
  /\ \A r \in Runners :
       /\ runner[r].at = "saveModel" => report.notes <= runner[r].model.notes
       /\ runner[r].at = "saveReport" => runner[r].model = model
  /\ report.at <= model.at /\ report.notes <= model.notes

LearningInv ==
  /\ TypeInv
  /\ JobsReviewed
  /\ \A r \in Runners : RunnerRight(runner[r])
  /\ "sync" \in clashes \/ SyncFits
  /\ "train" \in clashes \/ TrainFits

-----------------------------------------------------------------------------
(* Operators *)

\* Work is one of three words, and what it says of a place.
LEMMA WorkAt ==
  ASSUME NEW at
  PROVE  /\ Work(at) = "sync" <=> at \in {"export", "store"}
         /\ Work(at) = "train" <=> at \in {"saveModel", "saveReport"}
BY DEF Work

\* The counts that decisions are made from are numbers.
LEMMA CountTypes ==
  ASSUME rows \in Seq(Row), exported \in Seq(Nat)
  PROVE  /\ Len(exported) \in Nat /\ ApprovedRows \in Nat /\ Wanted \subseteq Keys
         /\ Allowed \in BOOLEAN
<1>1. Len(exported) \in Nat
  BY LenProperties
<1>2. IsFiniteSet(DOMAIN rows)
  BY LenProperties, FS_Interval
<1>3. {i \in Last(Window) : Approved(rows[i].kind)} \subseteq DOMAIN rows
  BY DEF Last
<1>4. Cardinality({i \in Last(Window) : Approved(rows[i].kind)}) \in Nat
  BY <1>2, <1>3, FS_Subset, FS_CardinalityType
<1>5. BaseRows \in Nat
  BY ShadowLearningAssumption
<1>. QED  BY <1>1, <1>4, <1>5 DEF ApprovedRows, Wanted, Allowed

\* The jobs of a batch are some that are in the queue.
LEMMA OldestIsFinite ==
  ASSUME queue \subseteq 1..(nextJob - 1), nextJob \in Nat
  PROVE  Cardinality(Oldest) \in Nat
<1>1. IsFiniteSet(1..(nextJob - 1))
  BY FS_Interval
<1>2. Oldest \subseteq 1..(nextJob - 1)
  BY DEF Oldest
<1>. QED  BY <1>1, <1>2, FS_Subset, FS_CardinalityType

\* A list of n of its members is a sequence over a set.
LEMMA ListIsSeq ==
  ASSUME NEW T, NEW S \in SUBSET T, NEW n \in Nat, NEW s \in [1..n -> S]
  PROVE  s \in Seq(T) /\ Len(s) = n /\ \A i \in 1..Len(s) : s[i] \in S
OBVIOUS

\* The records that processes start from are of their type.
LEMMA RestTypes == RestRunner \in RunnerRecord /\ RestRequest \in RequestRecord
<1>1. <<>> \in Seq(Nat)
  BY EmptySeq
<1>2. {} \in SUBSET Keys
  OBVIOUS
<1>3. RestRunner \in RunnerRecord
  BY <1>1, <1>2 DEF RestRunner, RunnerRecord, Places
<1>4. RestRequest \in RequestRecord
  BY DEF RestRequest, RequestRecord
<1>. QED  BY <1>3, <1>4

\* A step of a runner changes its record alone, and two that do the same kind of work
\* after it are recorded.
LEMMA GoEffect ==
  ASSUME NEW r \in Runners, NEW new, Go(r, new), runner \in [Runners -> RunnerRecord]
  PROVE  /\ runner'[r] = new
         /\ \A s \in Runners \ {r} : runner'[s] = runner[s]
         /\ clashes \subseteq clashes'
         /\ \A kind \in {"sync", "train"} : kind \notin clashes' => OneAtWork(kind)'
<1>1. /\ runner' = [runner EXCEPT ![r] = new]
      /\ clashes' = clashes \cup Clash(runner')
  BY DEF Go
<1>2. ASSUME NEW kind \in {"sync", "train"}, kind \notin clashes'
      PROVE  OneAtWork(kind)'
  <2>1. SUFFICES ASSUME NEW p \in Runners, NEW q \in Runners,
                        Work(runner'[p].at) = kind, Work(runner'[q].at) = kind, p # q
                 PROVE  FALSE
    BY DEF OneAtWork
  <2>2. kind \in Clash(runner')
    BY <2>1 DEF Clash, Meet
  <2>. QED  BY <1>1, <1>2, <2>2
<1>. QED  BY <1>1, <1>2

\* What a runner has read stays right while the files it is about only grow.
Grows ==
  /\ nextJob' \in Nat /\ nextJob <= nextJob'
  /\ settled \subseteq settled'
  /\ corrected' \in Nat /\ corrected <= corrected'
  /\ Len(exported') \in Nat /\ Len(exported) <= Len(exported')
  /\ clock' \in Nat /\ clock <= clock'

LEMMA StaysRight ==
  ASSUME TypeInv, Grows, NEW s \in RunnerRecord, RunnerRight(s)
  PROVE  RunnerRight(s)'
<1>1. /\ nextJob \in Nat /\ corrected \in Nat /\ clock \in Nat /\ Len(exported) \in Nat
      /\ s.number \in Nat
  BY CountTypes DEF TypeInv, FilesInv, TypeOK, RunnerRecord
<1>2. ASSUME s.model \in Model  PROVE s.model.notes \in Nat /\ s.model.at \in Nat
  BY <1>2 DEF Model
<1>3. InHand(s)'
  BY <1>1 DEF RunnerRight, InHand, Grows
<1>4. Reviewed(s)'
  BY DEF RunnerRight, Reviewed, Grows
<1>5. Stores(s)'
  BY <1>1, <1>2 DEF RunnerRight, Stores, Grows
<1>. QED  BY <1>3, <1>4, <1>5 DEF RunnerRight

LEMMA RunnersStayRight ==
  ASSUME TypeInv, Grows, \A s \in Runners : RunnerRight(runner[s]),
         NEW r \in Runners, NEW new \in RunnerRecord, Go(r, new), RunnerRight(new)'
  PROVE  /\ runner' \in [Runners -> RunnerRecord]
         /\ (\A s \in Runners : RunnerRight(runner[s]))'
<1>1. runner \in [Runners -> RunnerRecord]
  BY DEF TypeInv, FilesInv
<1>2. runner' \in [Runners -> RunnerRecord]
  BY <1>1 DEF Go
<1>3. ASSUME NEW s \in Runners  PROVE RunnerRight(runner[s])'
  <2>1. CASE s = r
    BY <1>1, <2>1, GoEffect
  <2>2. CASE s # r
    <3>1. PICK x \in RunnerRecord : x = runner[s]
      BY <1>1
    <3>2. RunnerRight(x)'
      BY <3>1, StaysRight
    <3>. QED  BY <1>1, <2>2, <3>1, <3>2, GoEffect
  <2>. QED  BY <2>1, <2>2
<1>. QED  BY <1>2, <1>3

\* A step that does no work on the exports leaves them as they fit.
LEMMA SyncStays ==
  ASSUME TypeInv, "sync" \in clashes \/ SyncFits, UNCHANGED sync,
         NEW r \in Runners, NEW new, Go(r, new),
         runner[r].at # "store", new.at \notin {"export", "store"}
  PROVE  "sync" \in clashes' \/ SyncFits'
<1>1. runner \in [Runners -> RunnerRecord]
  BY DEF TypeInv, FilesInv
<1>2. SUFFICES ASSUME "sync" \notin clashes'  PROVE SyncFits'
  OBVIOUS
<1>3. SyncFits /\ OneAtWork("sync")'
  BY <1>1, <1>2, GoEffect
<1>4. \A s \in Runners : \/ runner'[s].at = runner[s].at /\ runner'[s] = runner[s]
                         \/ s = r /\ runner'[s].at \notin {"export", "store"}
  BY <1>1, GoEffect
<1>5. exported' = exported /\ synced' = synced
  BY DEF sync
<1>. QED  BY <1>3, <1>4, <1>5 DEF SyncFits

\* A step that trains nothing leaves the model and its report as they fit.
LEMMA TrainStays ==
  ASSUME TypeInv, "train" \in clashes \/ TrainFits, UNCHANGED <<model, report>>,
         NEW r \in Runners, NEW new, Go(r, new),
         new.at # "saveReport",
         new.at = "saveModel" => report.notes <= new.model.notes
  PROVE  "train" \in clashes' \/ TrainFits'
<1>1. runner \in [Runners -> RunnerRecord]
  BY DEF TypeInv, FilesInv
<1>2. SUFFICES ASSUME "train" \notin clashes'  PROVE TrainFits'
  OBVIOUS
<1>3. TrainFits /\ OneAtWork("train")'
  BY <1>1, <1>2, GoEffect
<1>4. \A s \in Runners : runner'[s] = IF s = r THEN new ELSE runner[s]
  BY <1>1, GoEffect
<1>. QED  BY <1>3, <1>4 DEF TrainFits

-----------------------------------------------------------------------------
(* Requests and people *)

\* As long as no runner takes a step, what it has read stays right.
LEMMA AloneRight ==
  ASSUME LearningInv, Grows, UNCHANGED runner
  PROVE  (\A s \in Runners : RunnerRight(runner[s]))'
<1>1. SUFFICES ASSUME NEW s \in Runners  PROVE RunnerRight(runner[s])'
  OBVIOUS
<1>2. PICK x \in RunnerRecord : x = runner[s]
  BY DEF LearningInv, TypeInv, FilesInv
<1>3. RunnerRight(x)'
  BY <1>2, StaysRight DEF LearningInv
<1>. QED  BY <1>2, <1>3

\* The steps of a request leave what runners have read right.
LEMMA RequestKeepsInv ==
  ASSUME LearningInv, NEW q \in Requests, RequestStep(q) \/ RequestDies(q)
  PROVE  LearningInv'
<1>1. /\ nextJob \in Nat /\ corrected \in Nat /\ clock \in Nat /\ Len(exported) \in Nat
      /\ MaxJobs \in Nat
  BY CountTypes, ShadowLearningAssumption DEF LearningInv, TypeInv, FilesInv, TypeOK
<1>2. /\ UNCHANGED <<rows, exported, corrected, synced, rules, lowered, model, report, clock,
                     runner, settled, clashes>>
      /\ nextJob' \in {nextJob, nextJob + 1}
      /\ queue' = queue \cup (nextJob..(nextJob' - 1))
      /\ nextJob' \in 1..(MaxJobs + 1) /\ torn' \subseteq queue'
      /\ ready' \in BOOLEAN
      /\ request' \in [Requests -> RequestRecord]
  <2>1. /\ request \in [Requests -> RequestRecord] /\ ready \in BOOLEAN
        /\ nextJob \in 1..(MaxJobs + 1) /\ torn \subseteq queue /\ queue \subseteq 1..(nextJob - 1)
        /\ nextJob..(nextJob - 1) = {} /\ nextJob..(nextJob + 1 - 1) = {nextJob}
    BY <1>1 DEF LearningInv, TypeInv, FilesInv, TypeOK
  <2>2. CASE Admit(q)
    <3>1. request' \in [Requests -> RequestRecord]
      BY <2>1, <2>2 DEF Admit, RequestRecord
    <3>. QED  BY <2>1, <2>2, <3>1 DEF Admit, files, sync, learned, history
  <2>3. CASE Enqueue(q)
    <3>1. /\ nextJob \in Jobs /\ queue' = queue \cup {nextJob} /\ nextJob' = nextJob + 1
          /\ torn' = torn \cup {nextJob}
      BY <2>3 DEF Enqueue
    <3>2. nextJob' \in 1..(MaxJobs + 1)
      BY <1>1, <3>1 DEF Jobs
    <3>4. queue' = queue \cup (nextJob..(nextJob' - 1)) /\ torn' \subseteq queue'
      BY <2>1, <3>1
    <3>3. request' \in [Requests -> RequestRecord]
      BY <2>1, <2>3 DEF Enqueue, RequestRecord
    <3>. QED  BY <2>1, <2>3, <3>1, <3>2, <3>3, <3>4 DEF Enqueue, sync, learned, history
  <2>4. CASE Fill(q)
    <3>1. request' \in [Requests -> RequestRecord]
      BY <2>1, <2>4 DEF Fill, RequestRecord, RestRequest
    <3>. QED  BY <2>1, <2>4, <3>1 DEF Fill, sync, learned, history
  <2>5. CASE Skip(q)
    <3>1. request' \in [Requests -> RequestRecord]
      BY <2>1, <2>5 DEF Skip, RequestRecord, RestRequest
    <3>. QED  BY <2>1, <2>5, <3>1 DEF Skip, files, sync, learned, history
  <2>6. CASE Report(q)
    <3>1. request' \in [Requests -> RequestRecord]
      BY <2>1, <2>6, RestTypes DEF Report
    <3>2. ready' \in BOOLEAN
      BY <2>6, CountTypes DEF Report, LearningInv, TypeInv, FilesInv, TypeOK
    <3>. QED  BY <2>1, <2>6, <3>1, <3>2 DEF Report, files, sync, learned, history
  <2>7. CASE RequestDies(q)
    <3>1. request' \in [Requests -> RequestRecord]
      BY <2>1, <2>7, RestTypes DEF RequestDies
    <3>. QED  BY <2>1, <2>7, <3>1 DEF RequestDies, files, sync, learned, history
  <2>. QED  BY <2>2, <2>3, <2>4, <2>5, <2>6, <2>7 DEF RequestStep
<1>3. Grows
  BY <1>1, <1>2 DEF Grows
<1>4. queue' \subseteq 1..(nextJob' - 1) /\ queue' \subseteq Jobs
  <2>1. queue \subseteq 1..(nextJob - 1) /\ nextJob \in 1..(MaxJobs + 1)
    BY DEF LearningInv, TypeInv, FilesInv, TypeOK
  <2>2. PICK n \in 1..(MaxJobs + 1) : n = nextJob' /\ nextJob <= n
    BY <1>1, <1>2
  <2>3. \A j \in queue' : j \in 1..(nextJob - 1) \/ j \in nextJob..(n - 1)
    BY <1>2, <2>1, <2>2
  <2>4. \A j \in queue' : j \in 1..(n - 1) /\ j \in 1..MaxJobs
    BY <1>1, <2>1, <2>2, <2>3
  <2>. QED  BY <2>2, <2>4 DEF Jobs
<1>5. TypeInv'
  BY <1>2, <1>4 DEF LearningInv, TypeInv, FilesInv, TypeOK
<1>6. JobsReviewed'
  <2>1. PICK n \in 1..(MaxJobs + 1) : n = nextJob'
    BY <1>2
  <2>2. ASSUME NEW j \in 1..(n - 1)  PROVE j \in 1..(nextJob - 1) \/ j \in nextJob..(n - 1)
    <3>1. n \in Int /\ nextJob \in Int
      BY <1>1, <2>1
    <3>. QED  BY <3>1
  <2>3. 1..(n - 1) \subseteq queue' \cup settled'
    BY <1>2, <2>1, <2>2 DEF LearningInv, JobsReviewed
  <2>. QED  BY <2>1, <2>3 DEF JobsReviewed
<1>7. SyncFits' <=> SyncFits
  BY <1>2 DEF SyncFits, OneAtWork
<1>8. TrainFits' <=> TrainFits
  BY <1>2 DEF TrainFits, OneAtWork
<1>. QED  BY <1>2, <1>3, <1>5, <1>6, <1>7, <1>8, AloneRight DEF LearningInv

\* A correction is there before anybody exports it.
LEMMA CorrectKeepsInv ==
  ASSUME LearningInv, Correct
  PROVE  LearningInv'
<1>1. /\ nextJob \in Nat /\ corrected \in Nat /\ clock \in Nat /\ Len(exported) \in Nat
      /\ synced \in Nat
  BY CountTypes DEF LearningInv, TypeInv, FilesInv, TypeOK
<1>2. /\ corrected' = corrected + 1
      /\ UNCHANGED <<queue, torn, nextJob, rows, exported, synced, rules, lowered, model, report,
                     clock, ready, runner, request, settled, clashes>>
  BY DEF Correct, files, learned, history
<1>3. Grows
  BY <1>1, <1>2 DEF Grows
<1>4. TypeInv'
  BY <1>1, <1>2 DEF LearningInv, TypeInv, FilesInv, TypeOK
<1>5. JobsReviewed' <=> JobsReviewed
  BY <1>2 DEF JobsReviewed
<1>6. SyncFits' <=> SyncFits
  BY <1>2 DEF SyncFits, OneAtWork
<1>7. TrainFits' <=> TrainFits
  BY <1>2 DEF TrainFits, OneAtWork
<1>. QED  BY <1>2, <1>3, <1>4, <1>5, <1>6, <1>7, AloneRight DEF LearningInv

-----------------------------------------------------------------------------
(* Steps of a runner *)

\* What is known of the variables before a step.
LEMMA Known ==
  ASSUME LearningInv
  PROVE  /\ nextJob \in Nat /\ corrected \in Nat /\ synced \in Nat /\ clock \in Nat
         /\ Len(exported) \in Nat /\ report.notes \in Nat /\ report.at \in Nat
         /\ synced <= corrected /\ report.notes <= Len(exported) /\ report.at <= clock
         /\ runner \in [Runners -> RunnerRecord]
BY CountTypes DEF LearningInv, TypeInv, FilesInv, TypeOK

\* The parts of the invariant that each step has to keep.
LEMMA RunnerKeepsInv ==
  ASSUME LearningInv, NEW r \in Runners, NEW new \in RunnerRecord, Go(r, new),
         Grows, RunnerRight(new)', FilesInv', JobsReviewed', UNCHANGED request,
         "sync" \in clashes' \/ SyncFits', "train" \in clashes' \/ TrainFits'
  PROVE  LearningInv'
BY RunnersStayRight DEF LearningInv, TypeInv

\* A step that only goes on to a place where nothing is exported or stored.
LEMMA QuietKeepsInv ==
  ASSUME LearningInv, NEW r \in Runners, NEW new \in RunnerRecord, Go(r, new),
         UNCHANGED <<files, sync, learned, request, settled>>, ready' \in BOOLEAN,
         runner[r].at # "store", new.at \notin {"export", "store", "saveReport"},
         new.at = "saveModel" => report.notes <= new.model.notes,
         RunnerRight(new)
  PROVE  LearningInv'
<1>1. UNCHANGED <<queue, torn, nextJob, rows, exported, corrected, synced, rules, lowered, model,
                  report, clock, request, settled>>
  BY DEF files, sync, learned
<1>2. Grows
  BY <1>1, Known DEF Grows
<1>3. RunnerRight(new)'
  BY <1>2, StaysRight DEF LearningInv
<1>4. FilesInv'
  BY <1>1 DEF LearningInv, TypeInv, FilesInv, TypeOK
<1>5. JobsReviewed'
  BY <1>1 DEF LearningInv, JobsReviewed
<1>6. "sync" \in clashes' \/ SyncFits'
  BY SyncStays DEF LearningInv
<1>7. "train" \in clashes' \/ TrainFits'
  BY <1>1, TrainStays DEF LearningInv
<1>. QED  BY <1>1, <1>2, <1>3, <1>4, <1>5, <1>6, <1>7, RunnerKeepsInv

\* At rest, or at a place where nothing is in hand, everything is right.
LEMMA FreeRight ==
  ASSUME NEW s, s.at \in {"rest", "tally", "saveRules", "report", "wipeQueue", "wipeRows", "wipeReady"}
  PROVE  RunnerRight(s)
BY DEF RunnerRight, InHand, Reviewed, Stores

\* After the rules a runner trains from all that was exported, or renews the report.
LEMMA AfterRulesFits ==
  ASSUME LearningInv
  PROVE  /\ AfterRules \in RunnerRecord /\ RunnerRight(AfterRules)
         /\ AfterRules.at \in {"saveModel", "report"}
         /\ AfterRules.at = "saveModel" => report.notes <= AfterRules.model.notes
<1>1. ApprovedRows \in Nat /\ Len(exported) \in Nat /\ report.notes <= Len(exported)
  BY Known, CountTypes DEF LearningInv, TypeInv, FilesInv, TypeOK
<1>2. CASE DueToTrain
  <2>1. PICK m \in Model : m = [at |-> 0, notes |-> Len(exported)]
    BY <1>1 DEF Model
  <2>2. AfterRules = [RestRunner EXCEPT !.at = "saveModel", !.number = ApprovedRows, !.model = m]
    BY <1>2, <2>1 DEF AfterRules
  <2>3. PICK s \in RunnerRecord :
          s = [RestRunner EXCEPT !.at = "saveModel", !.number = ApprovedRows, !.model = m]
    BY <1>1, RestTypes DEF RunnerRecord, Places
  <2>4. s.at = "saveModel" /\ s.model = m /\ m.notes = Len(exported)
    BY <2>1, <2>3 DEF RestRunner
  <2>. QED  BY <1>1, <2>2, <2>3, <2>4 DEF RunnerRight, InHand, Reviewed, Stores
<1>3. CASE ~ DueToTrain
  <2>1. PICK s \in RunnerRecord : s = [RestRunner EXCEPT !.at = "report"]
    BY RestTypes DEF RunnerRecord, Places
  <2>2. s.at = "report" /\ AfterRules = s
    BY <1>3, <2>1 DEF AfterRules, RestRunner
  <2>. QED  BY <2>2, FreeRight
<1>. QED  BY <1>2, <1>3

\* The rules are looked at: what is saved next has been read now.
LEMMA TallyKeepsInv ==
  ASSUME LearningInv, NEW r \in Runners, Tally(r)
  PROVE  LearningInv'
<1>1. /\ runner[r].at = "tally" /\ UNCHANGED <<files, sync, learned, ready, request, settled>>
  BY DEF Tally
<1>2. ready' \in BOOLEAN
  BY <1>1 DEF LearningInv, TypeInv, FilesInv, TypeOK
<1>3. CASE Wanted \subseteq rules
  <2>1. PICK new \in RunnerRecord : new = AfterRules
    BY AfterRulesFits
  <2>2. Go(r, new)
    BY <1>3, <2>1 DEF Tally
  <2>. QED  BY <1>1, <1>2, <2>1, <2>2, AfterRulesFits, QuietKeepsInv
<1>4. CASE ~ Wanted \subseteq rules
  <2>1. WithNew(rules) \in SUBSET Keys /\ lowered \in 0..Steps /\ lowered \in Nat
    BY CountTypes, ShadowLearningAssumption DEF WithNew, LearningInv, TypeInv, FilesInv, TypeOK
  <2>2. PICK new \in RunnerRecord :
          new = [RestRunner EXCEPT !.at = "saveGating", !.keys = WithNew(rules), !.number = lowered]
    BY <2>1, RestTypes DEF RunnerRecord, Places
  <2>3. Go(r, new)
    BY <1>4, <2>2 DEF Tally
  <2>4. new.at = "saveGating" /\ new.number = lowered
    BY <2>2 DEF RestRunner
  <2>5. RunnerRight(new)
    BY <2>1, <2>4 DEF RunnerRight, InHand, Reviewed, Stores
  <2>. QED  BY <1>1, <1>2, <2>3, <2>4, <2>5, QuietKeepsInv
<1>. QED  BY <1>3, <1>4

\* The readiness report is renewed, or a reset begins or ends.
LEMMA ReadyKeepsInv ==
  ASSUME LearningInv, NEW r \in Runners, WriteReady(r) \/ StartReset(r) \/ WipeReady(r)
  PROVE  LearningInv'
<1>1. /\ runner[r].at # "store" /\ ready' \in BOOLEAN
      /\ UNCHANGED <<files, sync, learned, request, settled>>
  BY CountTypes DEF WriteReady, StartReset, WipeReady, LearningInv, TypeInv, FilesInv, TypeOK
<1>2. PICK new \in RunnerRecord : Go(r, new) /\ new.at \in {"rest", "wipeQueue", "report"}
  <2>1. /\ RestRunner.at = "rest"
        /\ \A a \in Places : /\ [RestRunner EXCEPT !.at = a] \in RunnerRecord
                             /\ [RestRunner EXCEPT !.at = a].at = a
    BY RestTypes DEF RunnerRecord, RestRunner
  <2>2. "wipeQueue" \in Places /\ "report" \in Places
    BY DEF Places
  <2>3. CASE WriteReady(r)
    BY <2>1, <2>3, RestTypes DEF WriteReady
  <2>4. CASE StartReset(r)
    BY <2>1, <2>2, <2>4 DEF StartReset
  <2>5. CASE WipeReady(r)
    BY <2>1, <2>2, <2>5 DEF WipeReady
  <2>. QED  BY <2>3, <2>4, <2>5
<1>. QED  BY <1>1, <1>2, FreeRight, QuietKeepsInv

-----------------------------------------------------------------------------
(* Exports *)

\* A cycle begins: the list to export is exactly as long as the number it will store says.
LEMMA StartCycleKeepsInv ==
  ASSUME LearningInv, NEW r \in Runners, StartCycle(r)
  PROVE  LearningInv'
<1>1. /\ runner[r].at = "rest"
      /\ UNCHANGED <<queue, torn, nextJob, rows, exported, corrected, synced, rules, lowered,
                     model, report, clock, ready, request, settled>>
  BY DEF StartCycle, files, sync, learned
<1>2. PICK n \in Nat : n = corrected - synced
  BY Known
<1>3. PICK c \in Nat : c = clock
  BY Known
<1>4. PICK todo \in Seq(Nat) : todo = [i \in 1..n |-> c] /\ Len(todo) = n
  <2>1. [i \in 1..n |-> c] \in Seq(Nat) /\ Len([i \in 1..n |-> c]) = n
    BY <1>2, <1>3
  <2>. QED  BY <2>1
<1>5. PICK new \in RunnerRecord :
        new = [RestRunner EXCEPT !.at = "export", !.todo = todo, !.number = corrected]
  BY Known, RestTypes DEF RunnerRecord, Places
<1>6. Go(r, new)
  BY <1>2, <1>3, <1>4, <1>5 DEF StartCycle, NotSynced
<1>7. new.at = "export" /\ new.todo = todo /\ new.number = corrected
  BY <1>5 DEF RestRunner
<1>8. Grows
  BY <1>1, Known DEF Grows
<1>9. RunnerRight(new)'
  BY <1>1, <1>7, Known DEF RunnerRight, InHand, Reviewed, Stores
<1>10. FilesInv' /\ JobsReviewed'
  BY <1>1 DEF LearningInv, TypeInv, FilesInv, TypeOK, JobsReviewed
<1>11. "train" \in clashes' \/ TrainFits'
  BY <1>1, <1>6, <1>7, TrainStays DEF LearningInv
<1>12. ASSUME "sync" \notin clashes'  PROVE SyncFits'
  <2>1. SyncFits /\ OneAtWork("sync")'
    BY <1>6, <1>12, Known, GoEffect DEF LearningInv
  <2>2. \A s \in Runners : runner'[s] = IF s = r THEN new ELSE runner[s]
    BY <1>6, Known, GoEffect
  <2>3. ASSUME NEW s \in Runners, s # r  PROVE runner[s].at \notin {"export", "store"}
    BY <1>7, <2>1, <2>2, <2>3, WorkAt DEF OneAtWork
  <2>4. Len(exported) <= synced
    BY <1>1, <2>1, <2>3 DEF SyncFits
  <2>5. Len(todo) = corrected - synced
    BY <1>2, <1>4
  <2>. QED  BY <1>1, <1>7, <2>1, <2>2, <2>3, <2>4, <2>5 DEF SyncFits
<1>. QED  BY <1>1, <1>6, <1>8, <1>9, <1>10, <1>11, <1>12, RunnerKeepsInv

\* The list is exported: as many lines are there now as corrections were counted.
LEMMA ExportKeepsInv ==
  ASSUME LearningInv, NEW r \in Runners, Export(r)
  PROVE  LearningInv'
<1>1. /\ runner[r].at = "export" /\ exported' = exported \o runner[r].todo
      /\ UNCHANGED <<queue, torn, nextJob, rows, corrected, synced, rules, lowered,
                     model, report, clock, ready, request, settled>>
  BY DEF Export, files, learned
<1>2. PICK old \in RunnerRecord : old = runner[r]
  BY Known
<1>3. PICK todo \in Seq(Nat) : todo = runner[r].todo
  BY <1>2 DEF RunnerRecord
<1>4. /\ exported \in Seq(Nat) /\ exported' \in Seq(Nat)
      /\ Len(exported') = Len(exported) + Len(todo) /\ Len(todo) \in Nat
  BY <1>1, <1>3, ConcatProperties, LenProperties DEF LearningInv, TypeInv, FilesInv, TypeOK
<1>5. PICK new \in RunnerRecord : new = [old EXCEPT !.at = "store", !.todo = <<>>]
  <2>1. <<>> \in Seq(Nat)
    BY EmptySeq
  <2>. QED  BY <1>2, <2>1 DEF RunnerRecord, Places
<1>6. Go(r, new)
  BY <1>2, <1>5 DEF Export
<1>7. /\ new.at = "store" /\ new.number = old.number /\ old.number \in Nat
      /\ old.at = "export" /\ old.todo = todo
  BY <1>1, <1>2, <1>3, <1>5 DEF RunnerRecord
<1>8. Grows
  BY <1>1, <1>4, Known DEF Grows
<1>9. RunnerRight(new)'
  <2>1. old.number <= corrected
    BY <1>2, <1>7 DEF LearningInv, RunnerRight, Stores
  <2>. QED  BY <1>1, <1>7, <2>1 DEF RunnerRight, InHand, Reviewed, Stores
<1>10. FilesInv' /\ JobsReviewed'
  <2>1. report'.notes <= Len(exported')
    BY <1>1, <1>4, Known
  <2>. QED  BY <1>1, <1>4, <2>1 DEF LearningInv, TypeInv, FilesInv, TypeOK, JobsReviewed
<1>11. "train" \in clashes' \/ TrainFits'
  BY <1>1, <1>6, <1>7, TrainStays DEF LearningInv
<1>12. ASSUME "sync" \notin clashes'  PROVE SyncFits'
  <2>1. SyncFits /\ OneAtWork("sync")'
    BY <1>6, <1>12, Known, GoEffect DEF LearningInv
  <2>2. \A s \in Runners : runner'[s] = IF s = r THEN new ELSE runner[s]
    BY <1>6, Known, GoEffect
  <2>3. ASSUME NEW s \in Runners, s # r  PROVE runner[s].at \notin {"export", "store"}
    BY <1>7, <2>1, <2>2, <2>3, WorkAt DEF OneAtWork
  <2>4. Len(exported) <= synced /\ Len(todo) = old.number - synced
    BY <1>2, <1>7, <2>1 DEF SyncFits
  <2>5. Len(exported') <= new.number
    BY <1>4, <1>7, <2>4, Known
  <2>. QED  BY <1>7, <2>1, <2>2, <2>3, <2>5 DEF SyncFits
<1>. QED  BY <1>1, <1>6, <1>8, <1>9, <1>10, <1>11, <1>12, RunnerKeepsInv

\* The number is stored, and a batch of the oldest jobs is taken from the queue.
LEMMA StoreSyncKeepsInv ==
  ASSUME LearningInv, NEW r \in Runners, StoreSync(r)
  PROVE  LearningInv'
<1>1. /\ runner[r].at = "store" /\ synced' = runner[r].number
      /\ UNCHANGED <<queue, torn, nextJob, rows, exported, corrected, rules, lowered,
                     model, report, clock, ready, request, settled>>
  BY DEF StoreSync, files, learned
<1>2. PICK old \in RunnerRecord : old = runner[r]
  BY Known
<1>3. old.at = "store" /\ old.number \in Nat /\ old.number <= corrected /\ synced' = old.number
  BY <1>1, <1>2 DEF RunnerRecord, LearningInv, RunnerRight, Stores
<1>4. /\ Oldest \subseteq 1..(nextJob - 1) /\ Oldest \subseteq Nat
      /\ Cardinality(Oldest) \in Nat
  <2>1. queue \subseteq 1..(nextJob - 1) /\ nextJob \in Nat
    BY Known DEF LearningInv, TypeInv, FilesInv
  <2>2. 1..(nextJob - 1) \subseteq Nat
    BY <2>1
  <2>. QED  BY <2>1, <2>2, OldestIsFinite DEF Oldest
<1>5. PICK todo \in [1..Cardinality(Oldest) -> Oldest] : Go(r, NextJob(todo))
  BY DEF StoreSync
<1>6. /\ todo \in Seq(Nat)
      /\ \A i \in 1..Len(todo) : todo[i] \in 1..(nextJob - 1)
  BY <1>4, <1>5, ListIsSeq
<1>7. PICK a \in {"tally", "load"} : a = (IF todo = <<>> THEN "tally" ELSE "load")
  OBVIOUS
<1>8. PICK new \in RunnerRecord : new = [RestRunner EXCEPT !.at = a, !.todo = todo]
  BY <1>6, RestTypes DEF RunnerRecord, Places
<1>9. Go(r, new)
  BY <1>5, <1>7, <1>8 DEF NextJob
<1>10. new.at = a /\ new.todo = todo
  BY <1>8 DEF RestRunner
<1>11. Grows
  BY <1>1, Known DEF Grows
<1>12. RunnerRight(new)'
  BY <1>1, <1>6, <1>7, <1>10 DEF RunnerRight, InHand, Reviewed, Stores
<1>13. FilesInv' /\ JobsReviewed'
  BY <1>1, <1>3, Known DEF LearningInv, TypeInv, FilesInv, TypeOK, JobsReviewed
<1>14. "train" \in clashes' \/ TrainFits'
  BY <1>1, <1>9, <1>10, TrainStays DEF LearningInv
<1>15. ASSUME "sync" \notin clashes'  PROVE SyncFits'
  <2>1. SyncFits /\ OneAtWork("sync")'
    BY <1>9, <1>15, Known, GoEffect DEF LearningInv
  <2>2. \A s \in Runners : runner'[s] = IF s = r THEN new ELSE runner[s]
    BY <1>9, Known, GoEffect
  <2>3. ASSUME NEW s \in Runners, s # r  PROVE runner[s].at \notin {"export", "store"}
    BY <1>1, <2>1, <2>3, WorkAt DEF OneAtWork, SyncFits
  <2>4. Len(exported') <= synced'
    BY <1>1, <1>2, <1>3, <2>1 DEF SyncFits
  <2>. QED  BY <1>10, <2>1, <2>2, <2>3, <2>4 DEF SyncFits
<1>. QED  BY <1>1, <1>9, <1>11, <1>12, <1>13, <1>14, <1>15, RunnerKeepsInv

-----------------------------------------------------------------------------
(* Reviews *)

\* Steps that change the queue, the rows and what is settled, and nothing else.
LEMMA JobsKeepInv ==
  ASSUME LearningInv, NEW r \in Runners, NEW new \in RunnerRecord, Go(r, new),
         UNCHANGED <<nextJob, sync, learned, ready, request>>,
         runner[r].at # "store", new.at \notin {"export", "store", "saveModel", "saveReport"},
         queue' \subseteq queue, torn' \subseteq queue', rows' \in Seq(Row),
         settled \subseteq settled', RunnerRight(new)', JobsReviewed'
  PROVE  LearningInv'
<1>1. UNCHANGED <<nextJob, exported, corrected, synced, rules, lowered, model,
                  report, clock, ready, request>>
  BY DEF sync, learned
<1>2. Grows
  BY <1>1, Known DEF Grows
<1>3. FilesInv'
  BY <1>1 DEF LearningInv, TypeInv, FilesInv, TypeOK
<1>4. "sync" \in clashes' \/ SyncFits'
  BY SyncStays DEF LearningInv
<1>5. "train" \in clashes' \/ TrainFits'
  BY <1>1, TrainStays DEF LearningInv
<1>. QED  BY <1>1, <1>2, <1>3, <1>4, <1>5, RunnerKeepsInv

\* The job that a runner has in hand is the first of its batch.
LEMMA HeadInHand ==
  ASSUME LearningInv, NEW r \in Runners, runner[r].at \in {"load", "append", "unlink"}
  PROVE  /\ runner[r].todo \in Seq(Nat) /\ runner[r].todo # <<>>
         /\ \A i \in 1..Len(runner[r].todo) : runner[r].todo[i] \in 1..(nextJob - 1)
         /\ Head(runner[r].todo) \in 1..(nextJob - 1)
<1>1. PICK todo \in Seq(Nat) : todo = runner[r].todo
  BY Known DEF RunnerRecord
<1>2. todo # <<>> /\ \A i \in 1..Len(todo) : todo[i] \in 1..(nextJob - 1)
  BY <1>1 DEF LearningInv, RunnerRight, InHand
<1>3. Head(todo) = todo[1] /\ 1 \in 1..Len(todo)
  BY <1>2
<1>. QED  BY <1>1, <1>2, <1>3

\* A job is read: if it is gone or half-written it is settled already, or is so now.
LEMMA LoadJobKeepsInv ==
  ASSUME LearningInv, NEW r \in Runners, LoadJob(r)
  PROVE  LearningInv'
<1>1. /\ runner[r].at = "load"
      /\ UNCHANGED <<queue, torn, nextJob, rows, sync, learned, ready, request>>
      /\ settled' = settled \cup (torn \cap {Head(runner[r].todo)})
  BY DEF LoadJob, files
<1>2. PICK old \in RunnerRecord : old = runner[r]
  BY Known
<1>3. PICK job \in 1..(nextJob - 1) : job = Head(old.todo)
  BY <1>1, <1>2, HeadInHand
<1>4. PICK kind \in AllKinds, j \in Jobs \cup {None} :
        /\ j = IF job \in queue \ torn THEN job ELSE None
        /\ Go(r, [old EXCEPT !.at = "append", !.row = [job |-> j, kind |-> kind]])
  <2>1. Kinds \subseteq AllKinds /\ BadKinds \subseteq AllKinds
    BY ShadowLearningAssumption
  <2>2. PICK j \in Jobs \cup {None} : j = IF job \in queue \ torn THEN job ELSE None
    BY DEF LearningInv, TypeInv, FilesInv, TypeOK
  <2>3. PICK kind \in AllKinds :
          Go(r, [old EXCEPT !.at = "append", !.row = [job |-> j, kind |-> kind]])
    BY <1>2, <1>3, <2>1, <2>2 DEF LoadJob
  <2>. QED  BY <2>2, <2>3
<1>5. PICK row \in Row : row = [job |-> j, kind |-> kind] /\ row.job = j
  <2>1. j \in Jobs \cup {None} /\ kind \in AllKinds
    BY <1>4
  <2>2. [job |-> j, kind |-> kind] \in Row
    BY <2>1 DEF Row
  <2>. QED  BY <2>2
<1>6. PICK new \in RunnerRecord : new = [old EXCEPT !.at = "append", !.row = row]
  BY <1>2 DEF RunnerRecord, Places
<1>7. Go(r, new) /\ new.at = "append" /\ new.row = row /\ new.todo = old.todo
  BY <1>2, <1>4, <1>5, <1>6 DEF RunnerRecord
<1>8. row.job = job \/ job \in settled'
  BY <1>1, <1>2, <1>3, <1>4, <1>5 DEF LearningInv, JobsReviewed
<1>9. RunnerRight(new)'
  BY <1>1, <1>2, <1>3, <1>7, <1>8, HeadInHand DEF RunnerRight, InHand, Reviewed, Stores
<1>10. JobsReviewed'
  BY <1>1 DEF LearningInv, JobsReviewed
<1>11. torn' \subseteq queue' /\ rows' \in Seq(Row)
  BY <1>1 DEF LearningInv, TypeInv, FilesInv, TypeOK
<1>. QED  BY <1>1, <1>7, <1>9, <1>10, <1>11, JobsKeepInv

\* The row is written: the job it is about is settled.
LEMMA AppendRowKeepsInv ==
  ASSUME LearningInv, NEW r \in Runners, AppendRow(r)
  PROVE  LearningInv'
<1>1. /\ runner[r].at = "append"
      /\ rows' = LET all == Append(rows, runner[r].row)
                 IN  IF Len(all) > Window THEN Tail(all) ELSE all
      /\ UNCHANGED <<queue, torn, nextJob, sync, learned, ready, request>>
      /\ settled' = settled \cup ({runner[r].row.job} \ {None})
  BY DEF AppendRow, Recorded, Appended
<1>2. PICK old \in RunnerRecord : old = runner[r]
  BY Known
<1>3. PICK job \in 1..(nextJob - 1) : job = Head(old.todo)
  BY <1>1, <1>2, HeadInHand
<1>4. old.row \in Row /\ (old.row.job = job \/ job \in settled)
  BY <1>1, <1>2, <1>3 DEF LearningInv, RunnerRight, Reviewed
<1>5. PICK new \in RunnerRecord : new = [old EXCEPT !.at = "unlink"]
  BY <1>2 DEF RunnerRecord, Places
<1>6. Go(r, new) /\ new.at = "unlink" /\ new.todo = old.todo
  BY <1>2, <1>5 DEF AppendRow, RunnerRecord
<1>7. job # None
  <2>1. None \notin Nat
    BY ShadowLearningAssumption
  <2>2. job \in Nat
    BY Known
  <2>. QED  BY <2>1, <2>2
<1>8. job \in settled'
  BY <1>1, <1>2, <1>4, <1>7
<1>9. RunnerRight(new)'
  BY <1>1, <1>2, <1>3, <1>6, <1>8, HeadInHand DEF RunnerRight, InHand, Reviewed, Stores
<1>10. JobsReviewed'
  BY <1>1 DEF LearningInv, JobsReviewed
<1>11. torn' \subseteq queue'
  BY <1>1 DEF LearningInv, TypeInv, FilesInv, TypeOK
<1>12. rows' \in Seq(Row)
  <2>1. rows \in Seq(Row)
    BY DEF LearningInv, TypeInv, FilesInv, TypeOK
  <2>2. PICK row \in Row : row = old.row
    BY <1>4
  <2>4. PICK all \in Seq(Row) : all = Append(rows, row) /\ all # <<>>
    BY <2>1, AppendProperties
  <2>3. Tail(all) \in Seq(Row)
    BY <2>4, HeadTailProperties
  <2>. QED  BY <1>1, <1>2, <2>2, <2>3, <2>4
<1>. QED  BY <1>1, <1>6, <1>9, <1>10, <1>11, <1>12, JobsKeepInv

\* The file goes once its job is settled.
LEMMA UnlinkJobKeepsInv ==
  ASSUME LearningInv, NEW r \in Runners, UnlinkJob(r)
  PROVE  LearningInv'
<1>1. /\ runner[r].at = "unlink"
      /\ queue' = queue \ {Head(runner[r].todo)} /\ torn' = torn \cap queue'
      /\ UNCHANGED <<nextJob, rows, settled, sync, learned, ready, request>>
  BY DEF UnlinkJob, Unlinked
<1>2. PICK old \in RunnerRecord : old = runner[r]
  BY Known
<1>3. /\ old.todo \in Seq(Nat) /\ old.todo # <<>>
      /\ \A i \in 1..Len(old.todo) : old.todo[i] \in 1..(nextJob - 1)
  BY <1>1, <1>2, HeadInHand
<1>4. PICK todo \in Seq(Nat) :
        todo = Tail(old.todo) /\ \A i \in 1..Len(todo) : todo[i] \in 1..(nextJob - 1)
  <2>1. PICK tail \in Seq(Nat) :
          /\ tail = Tail(old.todo) /\ Len(tail) = Len(old.todo) - 1
          /\ \A i \in 1..Len(tail) : tail[i] = old.todo[i + 1]
    BY <1>3, HeadTailProperties
  <2>2. \A i \in 1..Len(tail) : i + 1 \in 1..Len(old.todo)
    BY <1>3, <2>1
  <2>. QED  BY <1>3, <2>1, <2>2
<1>5. PICK a \in {"tally", "load"} : a = (IF todo = <<>> THEN "tally" ELSE "load")
  OBVIOUS
<1>6. PICK new \in RunnerRecord : new = [RestRunner EXCEPT !.at = a, !.todo = todo]
  BY RestTypes DEF RunnerRecord, Places
<1>7. Go(r, new) /\ new.at = a /\ new.todo = todo
  BY <1>2, <1>4, <1>5, <1>6 DEF UnlinkJob, NextJob, RestRunner
<1>8. RunnerRight(new)'
  BY <1>1, <1>4, <1>5, <1>7 DEF RunnerRight, InHand, Reviewed, Stores
<1>9. JobsReviewed'
  BY <1>1, <1>2 DEF LearningInv, JobsReviewed, RunnerRight, Reviewed
<1>10. rows' \in Seq(Row)
  BY <1>1 DEF LearningInv, TypeInv, FilesInv, TypeOK
<1>. QED  BY <1>1, <1>7, <1>8, <1>9, <1>10, JobsKeepInv

\* A reset settles what was in the queue, and forgets the rows.
LEMMA WipeKeepsInv ==
  ASSUME LearningInv, NEW r \in Runners, WipeQueue(r) \/ WipeRows(r)
  PROVE  LearningInv'
<1>1. /\ runner[r].at # "store" /\ UNCHANGED <<nextJob, sync, learned, ready, request>>
      /\ \/ queue' = {} /\ torn' = {} /\ settled' = settled \cup queue /\ rows' = rows
         \/ UNCHANGED <<queue, torn, settled>> /\ rows' = <<>>
  BY DEF WipeQueue, WipeRows
<1>2. PICK new \in RunnerRecord : Go(r, new) /\ new.at \in {"wipeRows", "wipeReady"}
  <2>1. \A a \in Places : /\ [RestRunner EXCEPT !.at = a] \in RunnerRecord
                          /\ [RestRunner EXCEPT !.at = a].at = a
    BY RestTypes DEF RunnerRecord, RestRunner
  <2>2. "wipeRows" \in Places /\ "wipeReady" \in Places
    BY DEF Places
  <2>. QED  BY <2>1, <2>2 DEF WipeQueue, WipeRows
<1>3. RunnerRight(new)'
  BY <1>2 DEF RunnerRight, InHand, Reviewed, Stores
<1>4. JobsReviewed'
  BY <1>1 DEF LearningInv, JobsReviewed
<1>5. queue' \subseteq queue /\ torn' \subseteq queue' /\ rows' \in Seq(Row)
  BY <1>1, EmptySeq DEF LearningInv, TypeInv, FilesInv, TypeOK
<1>. QED  BY <1>1, <1>2, <1>3, <1>4, <1>5, JobsKeepInv

-----------------------------------------------------------------------------
(* Rules and training *)

\* The confidence is lowered by one step, and never below its floor.
LEMMA SaveGatingKeepsInv ==
  ASSUME LearningInv, NEW r \in Runners, SaveGating(r)
  PROVE  LearningInv'
<1>1. /\ runner[r].at = "saveGating" /\ lowered' = Lowered(runner[r].number)
      /\ UNCHANGED <<queue, torn, nextJob, rows, sync, rules, model, report, clock, ready,
                     request, settled>>
  BY DEF SaveGating, files
<1>2. PICK old \in RunnerRecord : old = runner[r]
  BY Known
<1>3. old.number \in 0..Steps /\ Steps \in Nat
  BY <1>1, <1>2, ShadowLearningAssumption DEF LearningInv, RunnerRight, Stores
<1>4. lowered' \in 0..Steps
  BY <1>1, <1>2, <1>3 DEF Lowered
<1>5. PICK new \in RunnerRecord : new = [old EXCEPT !.at = "saveRules"]
  BY <1>2 DEF RunnerRecord, Places
<1>6. Go(r, new) /\ new.at = "saveRules"
  BY <1>2, <1>5 DEF SaveGating, RunnerRecord
<1>7. UNCHANGED <<exported, corrected, synced>>
  BY <1>1 DEF sync
<1>8. Grows
  BY <1>1, <1>7, Known DEF Grows
<1>9. RunnerRight(new)'
  BY <1>6 DEF RunnerRight, InHand, Reviewed, Stores
<1>10. FilesInv' /\ JobsReviewed'
  BY <1>1, <1>4, <1>7 DEF LearningInv, TypeInv, FilesInv, TypeOK, JobsReviewed
<1>11. "sync" \in clashes' \/ SyncFits'
  BY <1>1, <1>6, SyncStays DEF LearningInv
<1>12. "train" \in clashes' \/ TrainFits'
  BY <1>1, <1>6, TrainStays DEF LearningInv
<1>. QED  BY <1>1, <1>6, <1>8, <1>9, <1>10, <1>11, <1>12, RunnerKeepsInv

\* The rules that are stored are rules about keys.
LEMMA SaveRulesKeepsInv ==
  ASSUME LearningInv, NEW r \in Runners, SaveRules(r)
  PROVE  LearningInv'
<1>1. /\ runner[r].at = "saveRules" /\ rules' = runner[r].keys
      /\ UNCHANGED <<queue, torn, nextJob, rows, sync, lowered, model, report, clock, ready,
                     request, settled>>
  BY DEF SaveRules, files
<1>2. rules' \subseteq Keys
  BY <1>1, Known DEF RunnerRecord
<1>3. PICK new \in RunnerRecord :
        /\ Go(r, new) /\ RunnerRight(new) /\ new.at \in {"saveModel", "report"}
        /\ new.at = "saveModel" => report.notes <= new.model.notes
  BY AfterRulesFits DEF SaveRules
<1>4. UNCHANGED <<exported, corrected, synced>>
  BY <1>1 DEF sync
<1>5. Grows
  BY <1>1, <1>4, Known DEF Grows
<1>6. RunnerRight(new)'
  BY <1>3, <1>5, StaysRight DEF LearningInv
<1>7. FilesInv' /\ JobsReviewed'
  BY <1>1, <1>2, <1>4 DEF LearningInv, TypeInv, FilesInv, TypeOK, JobsReviewed
<1>8. "sync" \in clashes' \/ SyncFits'
  BY <1>1, <1>3, SyncStays DEF LearningInv
<1>9. "train" \in clashes' \/ TrainFits'
  BY <1>1, <1>3, TrainStays DEF LearningInv
<1>. QED  BY <1>1, <1>3, <1>5, <1>6, <1>7, <1>8, <1>9, RunnerKeepsInv

\* The model is stored before its report: it is the newest, with all that the report has.
LEMMA SaveModelKeepsInv ==
  ASSUME LearningInv, NEW r \in Runners, SaveModel(r)
  PROVE  LearningInv'
<1>1. /\ runner[r].at = "saveModel" /\ clock' = clock + 1
      /\ model' = [runner[r].model EXCEPT !.at = clock'] /\ report' = report
      /\ UNCHANGED <<queue, torn, nextJob, rows, sync, rules, lowered, ready, request, settled>>
  BY DEF SaveModel, Stored, files
<1>2. PICK old \in RunnerRecord : old = runner[r]
  BY Known
<1>3. PICK m \in Model : m = old.model /\ m.notes <= Len(exported)
  BY <1>1, <1>2 DEF LearningInv, RunnerRight, Stores
<1>4. PICK c \in Nat : c = clock + 1
  BY Known
<1>5. PICK stored \in Model : stored = [m EXCEPT !.at = c]
  BY DEF Model
<1>6. /\ stored.at = c /\ stored.notes = m.notes /\ m.notes \in Nat
      /\ model' = stored /\ clock' = c
  BY <1>1, <1>2, <1>3, <1>4, <1>5 DEF Model
<1>7. PICK new \in RunnerRecord : new = [old EXCEPT !.at = "saveReport", !.model = stored]
  BY <1>2 DEF RunnerRecord, Places
<1>8. Go(r, new) /\ new.at = "saveReport" /\ new.model = stored
  <2>1. Go(r, [old EXCEPT !.at = "saveReport", !.model.at = c])
    BY <1>2, <1>6 DEF SaveModel
  <2>2. [old EXCEPT !.at = "saveReport", !.model.at = c] = new
    BY <1>3, <1>5, <1>7 DEF RunnerRecord
  <2>. QED  BY <1>7, <2>1, <2>2 DEF RunnerRecord
<1>9. UNCHANGED <<exported, corrected, synced>>
  BY <1>1 DEF sync
<1>10. Grows
  BY <1>1, <1>9, Known DEF Grows
<1>11. RunnerRight(new)'
  BY <1>3, <1>4, <1>6, <1>8, <1>9 DEF RunnerRight, InHand, Reviewed, Stores
<1>12. FilesInv' /\ JobsReviewed'
  <2>1. report'.at <= clock'
    BY <1>1, Known
  <2>. QED  BY <1>1, <1>4, <1>6, <1>9, <2>1 DEF LearningInv, TypeInv, FilesInv, TypeOK, JobsReviewed
<1>13. "sync" \in clashes' \/ SyncFits'
  BY <1>1, <1>8, SyncStays DEF LearningInv
<1>14. ASSUME "train" \notin clashes'  PROVE TrainFits'
  <2>1. TrainFits /\ OneAtWork("train")'
    BY <1>8, <1>14, Known, GoEffect DEF LearningInv
  <2>2. \A s \in Runners : runner'[s] = IF s = r THEN new ELSE runner[s]
    BY <1>8, Known, GoEffect
  <2>3. ASSUME NEW s \in Runners, s # r  PROVE runner[s].at \notin {"saveModel", "saveReport"}
    BY <1>1, <2>1, <2>3, WorkAt DEF OneAtWork, TrainFits
  <2>4. report'.notes <= model'.notes
    BY <1>1, <1>2, <1>3, <1>6, <2>1 DEF TrainFits
  <2>5. report'.at <= model'.at
    BY <1>1, <1>4, <1>6, Known
  <2>. QED  BY <1>6, <1>8, <2>1, <2>2, <2>3, <2>4, <2>5 DEF TrainFits
<1>. QED  BY <1>1, <1>8, <1>10, <1>11, <1>12, <1>13, <1>14, RunnerKeepsInv

\* The report is about the model that was stored just before.
LEMMA SaveReportKeepsInv ==
  ASSUME LearningInv, NEW r \in Runners, SaveReport(r)
  PROVE  LearningInv'
<1>1. /\ runner[r].at = "saveReport" /\ UNCHANGED <<clock, model>>
      /\ report' = [at |-> runner[r].model.at, notes |-> runner[r].model.notes,
                    rows |-> runner[r].number]
      /\ UNCHANGED <<queue, torn, nextJob, rows, sync, rules, lowered, ready, request, settled>>
  BY DEF SaveReport, Reported, files
<1>2. PICK old \in RunnerRecord : old = runner[r]
  BY Known
<1>3. PICK m \in Model : m = old.model /\ m.notes <= Len(exported) /\ m.at <= clock
  BY <1>1, <1>2 DEF LearningInv, RunnerRight, Stores
<1>4. /\ report'.at = m.at /\ report'.notes = m.notes /\ report'.rows = old.number
      /\ m.at \in Nat /\ m.notes \in Nat /\ old.number \in Nat
  BY <1>1, <1>2, <1>3 DEF RunnerRecord, Model
<1>5. PICK new \in RunnerRecord : new = [RestRunner EXCEPT !.at = "report"]
  BY RestTypes DEF RunnerRecord, Places
<1>6. Go(r, new) /\ new.at = "report"
  BY <1>5 DEF SaveReport, RestRunner
<1>7. UNCHANGED <<exported, corrected, synced>>
  BY <1>1 DEF sync
<1>8. Grows
  BY <1>1, <1>7, Known DEF Grows
<1>9. RunnerRight(new)'
  BY <1>6 DEF RunnerRight, InHand, Reviewed, Stores
<1>10. FilesInv' /\ JobsReviewed'
  BY <1>1, <1>3, <1>4, <1>7 DEF LearningInv, TypeInv, FilesInv, TypeOK, JobsReviewed
<1>11. "sync" \in clashes' \/ SyncFits'
  BY <1>1, <1>6, SyncStays DEF LearningInv
<1>12. ASSUME "train" \notin clashes'  PROVE TrainFits'
  <2>1. TrainFits /\ OneAtWork("train")'
    BY <1>6, <1>12, Known, GoEffect DEF LearningInv
  <2>2. \A s \in Runners : runner'[s] = IF s = r THEN new ELSE runner[s]
    BY <1>6, Known, GoEffect
  <2>3. ASSUME NEW s \in Runners, s # r  PROVE runner[s].at \notin {"saveModel", "saveReport"}
    BY <1>1, <2>1, <2>3, WorkAt DEF OneAtWork, TrainFits
  <2>4. model = m
    BY <1>1, <1>2, <1>3, <2>1 DEF TrainFits
  <2>. QED  BY <1>1, <1>4, <1>6, <2>1, <2>2, <2>3, <2>4 DEF TrainFits
<1>. QED  BY <1>1, <1>6, <1>8, <1>9, <1>10, <1>11, <1>12, RunnerKeepsInv

\* A death in the middle of a training leaves a newer model than the report says; one in
\* the middle of an export is recorded.
LEMMA RunnerDiesKeepsInv ==
  ASSUME LearningInv, NEW r \in Runners, RunnerDies(r)
  PROVE  LearningInv'
<1>1. /\ runner' = [runner EXCEPT ![r] = RestRunner]
      /\ clashes' = clashes \cup ({Work(runner[r].at)} \cap {"sync"})
      /\ UNCHANGED <<files, sync, learned, ready, request, settled>>
  BY DEF RunnerDies
<1>2. UNCHANGED <<queue, torn, nextJob, rows, exported, corrected, synced, rules, lowered, model,
                  report, clock, ready, request, settled>>
  BY <1>1 DEF files, sync, learned
<1>3. /\ runner' \in [Runners -> RunnerRecord]
      /\ \A s \in Runners : runner'[s] = IF s = r THEN RestRunner ELSE runner[s]
  BY <1>1, Known, RestTypes
<1>4. RestRunner.at = "rest"
  BY DEF RestRunner
<1>5. Grows
  BY <1>2, Known DEF Grows
<1>6. ASSUME NEW s \in Runners  PROVE RunnerRight(runner[s])'
  <2>1. PICK x \in RunnerRecord : x = runner'[s] /\ RunnerRight(x)
    BY <1>3, <1>4, Known, RestTypes, FreeRight DEF LearningInv
  <2>2. RunnerRight(x)'
    BY <1>5, <2>1, StaysRight DEF LearningInv
  <2>. QED  BY <2>1, <2>2
<1>7. TypeInv' /\ JobsReviewed'
  BY <1>2, <1>3 DEF LearningInv, TypeInv, FilesInv, TypeOK, JobsReviewed
<1>8. \A kind \in {"sync", "train"} : OneAtWork(kind) => OneAtWork(kind)'
  BY <1>3, <1>4, WorkAt DEF OneAtWork
<1>9. ASSUME "sync" \notin clashes'  PROVE SyncFits'
  <2>1. SyncFits /\ runner[r].at # "store"
    BY <1>1, <1>9, WorkAt DEF LearningInv
  <2>. QED  BY <1>2, <1>3, <1>4, <1>8, <2>1 DEF SyncFits
<1>10. ASSUME "train" \notin clashes'  PROVE TrainFits'
  <2>1. TrainFits
    BY <1>1, <1>10 DEF LearningInv
  <2>. QED  BY <1>2, <1>3, <1>4, <1>8, <2>1 DEF TrainFits
<1>. QED  BY <1>6, <1>7, <1>9, <1>10 DEF LearningInv

-----------------------------------------------------------------------------
(* What always holds *)

LEMMA InitHasInv == Init => LearningInv
<1>. SUFFICES ASSUME Init  PROVE LearningInv
  OBVIOUS
<1>1. /\ queue = {} /\ torn = {} /\ nextJob = 1 /\ rows = <<>> /\ exported = <<>> /\ corrected = 0
      /\ synced = 0 /\ rules = {} /\ lowered = 0 /\ clock = 0 /\ ready = FALSE /\ settled = {}
      /\ model = [at |-> 0, notes |-> 0] /\ report = [at |-> 0, notes |-> 0, rows |-> FirstRows]
      /\ runner = [r \in Runners |-> RestRunner] /\ request = [q \in Requests |-> RestRequest]
      /\ clashes = {}
  BY DEF Init
<1>2. /\ rows \in Seq(Row) /\ exported \in Seq(Nat) /\ Len(exported) = 0
      /\ FirstRows \in Nat /\ Steps \in Nat /\ MaxJobs \in Nat
  BY <1>1, EmptySeq, ShadowLearningAssumption
<1>3. 1..(nextJob - 1) = {} /\ nextJob \in 1..(MaxJobs + 1) /\ lowered \in 0..Steps
  BY <1>1, <1>2
<1>4. TypeOK
  <2>1. /\ model.at = 0 /\ model.notes = 0
        /\ report.at = 0 /\ report.notes = 0 /\ report.rows = FirstRows
    BY <1>1
  <2>2. queue \subseteq Jobs /\ torn \subseteq queue /\ rules \subseteq Keys /\ ready \in BOOLEAN
    BY <1>1
  <2>. QED  BY <1>1, <1>2, <1>3, <2>1, <2>2 DEF TypeOK
<1>5. TypeInv
  BY <1>1, <1>2, <1>3, <1>4, RestTypes DEF TypeInv, FilesInv
<1>6. \A s \in Runners : runner[s] = RestRunner /\ RestRunner.at = "rest"
  BY <1>1 DEF RestRunner
<1>7. SyncFits
  BY <1>1, <1>2, <1>6, WorkAt DEF SyncFits, OneAtWork
<1>8. TrainFits
  BY <1>1, <1>6, WorkAt DEF TrainFits, OneAtWork
<1>. QED  BY <1>1, <1>3, <1>5, <1>6, <1>7, <1>8, FreeRight DEF LearningInv, JobsReviewed

\* The inductive invariant: what every runner has read is still right, and as long as no
\* two met, the one that exports or trains completes what the stored numbers begin.
THEOREM LearningInvariant == Spec => []LearningInv
<1>1. Init => LearningInv
  BY InitHasInv
<1>2. LearningInv /\ [Next]_vars => LearningInv'
  <2>. SUFFICES ASSUME LearningInv, [Next]_vars  PROVE LearningInv'
    OBVIOUS
  <2>1. ASSUME NEW q \in Requests, RequestStep(q) \/ RequestDies(q)  PROVE LearningInv'
    BY <2>1, RequestKeepsInv
  <2>2. ASSUME NEW r \in Runners, StartCycle(r) \/ CycleStep(r)  PROVE LearningInv'
    BY <2>2, StartCycleKeepsInv, ExportKeepsInv, StoreSyncKeepsInv, LoadJobKeepsInv,
       AppendRowKeepsInv, UnlinkJobKeepsInv, TallyKeepsInv, SaveGatingKeepsInv,
       SaveRulesKeepsInv, SaveModelKeepsInv, SaveReportKeepsInv, ReadyKeepsInv
    DEF CycleStep
  <2>3. ASSUME NEW r \in Runners, StartReset(r) \/ ResetStep(r) \/ RunnerDies(r)  PROVE LearningInv'
    BY <2>3, ReadyKeepsInv, WipeKeepsInv, RunnerDiesKeepsInv DEF ResetStep
  <2>4. CASE Correct
    BY <2>4, CorrectKeepsInv
  <2>5. CASE UNCHANGED vars
    <3>1. /\ UNCHANGED <<queue, torn, nextJob, rows, exported, corrected, synced, rules, lowered,
                         model, report, clock, ready, runner, request, settled, clashes>>
      BY <2>5 DEF vars, files, sync, learned, history
    <3>2. Grows
      BY <3>1, Known DEF Grows
    <3>3. TypeInv' /\ JobsReviewed'
      BY <3>1 DEF LearningInv, TypeInv, FilesInv, TypeOK, JobsReviewed
    <3>4. (SyncFits' <=> SyncFits) /\ (TrainFits' <=> TrainFits)
      BY <3>1 DEF SyncFits, TrainFits, OneAtWork
    <3>. QED  BY <3>1, <3>2, <3>3, <3>4, AloneRight DEF LearningInv
  <2>. QED  BY <2>1, <2>2, <2>3, <2>4, <2>5 DEF Next
<1>. QED  BY <1>1, <1>2, PTL DEF Spec

\* Types of the variables; the fast confidence stays above its floor (apply_disagreement_updates).
THEOREM LearningTypes == Spec => []TypeOK
<1>1. LearningInv => TypeOK
  BY DEF LearningInv, TypeInv, FilesInv
<1>. QED  BY <1>1, LearningInvariant, PTL

\* No job of process_shadow_queue_once is lost without a review: it is in the queue, or it
\* has a row, or it was met half-written or removed by a reset, however many runners take
\* the same jobs and wherever they die.
THEOREM NoJobIsLost == Spec => []JobsReviewed
<1>1. LearningInv => JobsReviewed
  BY DEF LearningInv
<1>. QED  BY <1>1, LearningInvariant, PTL

\* sync_manual_note_feedback exports no correction twice, as long as no two processes export
\* at once and none dies in the middle of it.
THEOREM CorrectionsExportOnce == Spec => []ExportedOnce
<1>1. LearningInv => ExportedOnce
  <2>. SUFFICES ASSUME LearningInv, "sync" \notin clashes  PROVE Len(exported) <= corrected
    BY DEF ExportedOnce
  <2>1. SyncFits
    BY DEF LearningInv
  <2>2. CASE \E r \in Runners : runner[r].at = "store"
    <3>1. PICK r \in Runners : runner[r].at = "store"
      BY <2>2
    <3>2. /\ Len(exported) <= runner[r].number /\ runner[r].number <= corrected
          /\ runner[r].number \in Nat
      BY <2>1, <3>1, Known DEF SyncFits, LearningInv, RunnerRight, Stores, RunnerRecord
    <3>. QED  BY <3>2, Known
  <2>3. CASE \A r \in Runners : runner[r].at # "store"
    BY <2>1, <2>3, Known DEF SyncFits
  <2>. QED  BY <2>2, <2>3
<1>. QED  BY <1>1, LearningInvariant, PTL

\* The report of train_lightgbm_model never claims more than the stored model holds, wherever
\* a training is cut off, as long as no two processes train at once.
THEOREM ReportsFollow == Spec => []ReportFollowsModel
<1>1. LearningInv => ReportFollowsModel
  BY DEF LearningInv, TrainFits, ReportFollowsModel
<1>. QED  BY <1>1, LearningInvariant, PTL
=============================================================================
