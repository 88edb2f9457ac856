---------------------- MODULE ClassificationQueue_proofs ----------------------
(***************************************************************************)
(* Proofs about ClassificationQueue, for any number of files, workers,     *)
(* requests and rows.                                                      *)
(*                                                                         *)
(* A row is recovered when its heartbeat is old, whoever holds it.  What   *)
(* follows is about workers that are faster than the lease, and recoveries *)
(* of one row that do not overlap: while a worker is about to requeue a    *)
(* row, no other one is.  The last theorem names cases in which this is so.*)
(***************************************************************************)
EXTENDS ClassificationQueue, TLAPS, FiniteSetTheorems, SequenceTheorems

\* No two workers are about to requeue the same row.
OneRecovery ==
  \A v, w \in Workers : v # w => worker[v].found \cap worker[w].found = {}

RowType == [status : {"none", "queued", "running", "completed", "failed"},
            file : Files \cup {NoFile}, rank : Int, fp : Nat, attempts : Nat]

StateType == [status : {"none", "queued", "completed", "failed"}, fp : Nat, label : Nat]

WorkerType == [pc : WorkerPC, left : Int, found : SUBSET Jobs, job : Jobs \cup {NoJob},
               attempts : Nat, outcome : Outcome, content : Nat, read : StateType]

RequestType == [pc : {"idle", "asking", "answered"}, file : Files \cup {NoFile},
                fp : Nat, content : Nat, read : StateType]

TypeInv ==
  /\ disk \in [Files -> Nat] /\ seen \in [Files -> Nat]
  /\ jobs \in [Jobs -> RowType]
  /\ states \in [Files -> StateType] /\ corrections \subseteq Files
  /\ worker \in [Workers -> WorkerType]
  /\ caller \in [Callers -> RequestType]
  /\ \A c \in Callers : caller[c].pc # "idle" => caller[c].file \in Files

Active(row) == row.status \in ActiveStatus

\* The active rows are of different files.
RowsInv ==
  /\ \A j \in Jobs : Active(jobs[j]) => jobs[j].file \in Files
  /\ \A i, k \in Jobs : Active(jobs[i]) /\ Active(jobs[k]) /\ jobs[i].file = jobs[k].file => i = k

\* From its claim to its result a worker holds a row.
Busy(q)     == q.pc \in {"submitting", "answered", "persisting"}
Holds(q, j) == Busy(q) /\ q.job = j

\* A row that was found stale, or may be, is held by nobody.
Loose(j) == jobs[j].status = "running" /\ \A w \in Workers : ~ Holds(worker[w], j)

Tracks(q) ==
  /\ q.pc # "recovering" => q.found = {}
  /\ \A j \in q.found : Loose(j)
  /\ q.pc = "claiming" => q.job \in Jobs
  /\ Busy(q) => q.job \in Jobs /\ jobs[q.job].status = "running"

HoldInv ==
  /\ stale \subseteq Jobs /\ \A j \in stale : Loose(j)
  /\ \A w \in Workers : Tracks(worker[w])
  /\ \A v, w \in Workers : Busy(worker[v]) /\ Holds(worker[w], worker[v].job) => v = w

\* What a row, an answer and a result say of a file is of its content or older.
Knows(q) ==
  /\ q.pc \in {"answered", "persisting"} /\ q.outcome = "ok" => q.content >= jobs[q.job].fp
  /\ q.pc = "persisting" /\ Callers = {} => q.read = states[jobs[q.job].file]

ContentInv ==
  /\ \A f \in Files : seen[f] <= disk[f]
  /\ \A j \in Jobs : Active(jobs[j]) => jobs[j].fp <= disk[jobs[j].file]
  /\ \A w \in Workers : Knows(worker[w])
  /\ Callers = {} => \A f \in Files : states[f].status = "completed" => states[f].label >= states[f].fp

\* The inductive invariant
QueueInv == TypeInv /\ RowsInv /\ HoldInv /\ ContentInv

-----------------------------------------------------------------------------
(* Lists, and what is put into the queue *)

\* A list holds files of its set, each once.
LEMMA ListRight ==
  ASSUME NEW S \in SUBSET Files, NEW n \in Int, NEW s \in Lists(S, n)
  PROVE  /\ s \in Seq(Files) /\ IsInjective(s) /\ \A i \in DOMAIN s : s[i] \in S
         /\ Range(s) \subseteq S
<1>1. Cardinality(S) \in Nat
  BY ClassificationQueueAssumption, FS_Subset, FS_CardinalityType
<1>2. PICK k \in Int : s \in [1..k -> S]
  BY <1>1 DEF Lists
<1>3. PICK m \in Nat : 1..m = 1..k
  <2>1. CASE k \in Nat
    BY <2>1
  <2>2. CASE k \notin Nat
    <3>1. 1..0 = 1..k
      BY <2>2
    <3>. QED  BY <3>1
  <2>. QED  BY <2>1, <2>2
<1>4. s \in Seq(S) /\ s \in Seq(Files)
  <2>1. s \in Seq(S)
    BY <1>2, <1>3, SeqDef
  <2>. QED  BY <2>1, SeqMonotonic
<1>. QED  BY <1>2, <1>4 DEF Lists, Range

\* Two lists one after the other.
LEMMA ListsJoined ==
  ASSUME NEW S, NEW s \in Seq(S), NEW t \in Seq(S), IsInjective(s), IsInjective(t),
         Range(s) \cap Range(t) = {}
  PROVE  s \o t \in Seq(S) /\ IsInjective(s \o t) /\ Range(s \o t) = Range(s) \cup Range(t)
<1>1. PICK m \in Nat : m = Len(s)
  BY LenProperties
<1>2. PICK n \in Nat : n = Len(t)
  BY LenProperties
<1>3. DOMAIN s = 1..m /\ DOMAIN t = 1..n
  BY <1>1, <1>2, LenProperties
<1>4. PICK all \in Seq(S) : all = s \o t
  BY ConcatProperties
<1>5. Len(all) = m + n /\ \A i \in 1..(m + n) : all[i] = IF i <= m THEN s[i] ELSE t[i - m]
  BY <1>1, <1>2, <1>4, ConcatProperties
<1>6. DOMAIN all = 1..(m + n)
  BY <1>5, LenProperties
<1>7. ASSUME NEW i \in 1..(m + n)
      PROVE  \/ i \in DOMAIN s /\ all[i] = s[i]
             \/ i - m \in DOMAIN t /\ all[i] = t[i - m] /\ i > m
  BY <1>3, <1>5
<1>8. \A i \in DOMAIN s : s[i] \in Range(s)
  BY DEF Range
<1>9. \A i \in DOMAIN t : t[i] \in Range(t)
  BY DEF Range
<1>10. ASSUME NEW i \in 1..(m + n), NEW k \in 1..(m + n), all[i] = all[k]
       PROVE  i = k
  <2>1. CASE i \in DOMAIN s /\ all[i] = s[i] /\ k \in DOMAIN s /\ all[k] = s[k]
    BY <1>10, <2>1 DEF IsInjective
  <2>2. ASSUME i - m \in DOMAIN t, all[i] = t[i - m], k - m \in DOMAIN t, all[k] = t[k - m]
        PROVE  i = k
    <3>1. i - m = k - m
      BY <1>10, <2>2 DEF IsInjective
    <3>2. i \in Int /\ k \in Int
      OBVIOUS
    <3>. QED  BY <3>1, <3>2
  <2>3. ~ (i \in DOMAIN s /\ all[i] = s[i] /\ k - m \in DOMAIN t /\ all[k] = t[k - m])
    BY <1>8, <1>9, <1>10
  <2>4. ~ (k \in DOMAIN s /\ all[k] = s[k] /\ i - m \in DOMAIN t /\ all[i] = t[i - m])
    BY <1>8, <1>9, <1>10
  <2>. QED  BY <1>7, <2>1, <2>2, <2>3, <2>4
<1>11. Range(all) \subseteq Range(s) \cup Range(t)
  <2>1. ASSUME NEW i \in 1..(m + n)
        PROVE  all[i] \in Range(s) \cup Range(t)
    BY <1>7, <1>8, <1>9
  <2>. QED  BY <1>6, <2>1 DEF Range
<1>12. Range(s) \cup Range(t) \subseteq Range(all)
  <2>1. ASSUME NEW i \in 1..m
        PROVE  s[i] \in Range(all)
    <3>1. i \in 1..(m + n) /\ all[i] = s[i]
      BY <1>5
    <3>. QED  BY <1>6, <3>1 DEF Range
  <2>2. ASSUME NEW i \in 1..n
        PROVE  t[i] \in Range(all)
    <3>1. PICK k \in Int : k = i + m
      OBVIOUS
    <3>2. k \in 1..(m + n) /\ ~ (k <= m) /\ k - m = i
      BY <3>1
    <3>3. all[k] = t[i]
      BY <1>5, <3>2
    <3>. QED  BY <1>6, <3>2, <3>3 DEF Range
  <2>. QED  BY <1>3, <2>1, <2>2 DEF Range
<1>. QED  BY <1>4, <1>6, <1>10, <1>11, <1>12 DEF IsInjective

\* Rows and states after files were put into the queue.
QueuesAs(S) ==
  /\ jobs' \in [Jobs -> RowType] /\ states' \in [Files -> StateType] /\ stale' = stale
  /\ \A j \in Jobs : jobs[j].status # "none" => jobs'[j] = jobs[j]
  /\ \A j \in Jobs : \/ jobs'[j] = jobs[j]
                     \/ /\ jobs[j].status = "none"
                        /\ jobs'[j].status = "queued" /\ jobs'[j].file \in S
                        /\ jobs'[j].fp = seen[jobs'[j].file]
  /\ \A i, k \in Jobs :
       jobs'[i] # jobs[i] /\ jobs'[k] # jobs[k] /\ jobs'[i].file = jobs'[k].file => i = k
  /\ \A f \in Files : IF f \in S THEN states'[f].status = "queued" ELSE states'[f] = states[f]

LEMMA Enqueued ==
  ASSUME TypeInv, NEW s \in Seq(Files), IsInjective(s), NEW rank \in [Files -> Int], Enqueue(s, rank)
  PROVE  QueuesAs(Range(s))
<1>. DEFINE of(slots, j) == s[CHOOSE k \in DOMAIN s : slots[k] = j]
            new(slots, j) == [NoRow EXCEPT !.status = "queued", !.file = of(slots, j),
                                           !.rank = rank[of(slots, j)], !.fp = seen[of(slots, j)]]
<1>1. PICK slots \in Lists(Free, Len(s)) :
        /\ Len(slots) = Len(s)
        /\ jobs' = [j \in Jobs |-> IF j \in Range(slots) THEN new(slots, j) ELSE jobs[j]]
        /\ states' = [f \in Files |-> IF f \in Range(s)
                                      THEN [states[f] EXCEPT !.status = "queued", !.fp = seen[f]]
                                      ELSE states[f]]
        /\ UNCHANGED stale
  BY DEF Enqueue, Firsts
<1>2. DOMAIN slots = DOMAIN s /\ \A k \in DOMAIN slots : slots[k] \in Free
  <2>1. PICK n : slots \in [1..n -> Free] /\ n = IF Cardinality(Free) < Len(s) THEN Cardinality(Free) ELSE Len(s)
    BY <1>1 DEF Lists
  <2>2. Cardinality(Free) \in Nat /\ Len(s) \in Nat
    <3>1. Free \in SUBSET Jobs
      BY DEF Free
    <3>. QED  BY <3>1, ClassificationQueueAssumption, FS_Subset, FS_CardinalityType, LenProperties
  <2>3. n \in Nat
    BY <2>1, <2>2
  <2>4. Len(slots) = n
    <3>1. slots \in Seq(Free)
      BY <2>1, <2>3, SeqDef
    <3>2. PICK m \in Nat : m = Len(slots) /\ DOMAIN slots = 1..m
      BY <3>1, LenProperties
    <3>3. 1..m = 1..n
      BY <2>1, <3>2
    <3>. QED  BY <2>3, <3>2, <3>3
  <2>. QED  BY <1>1, <2>1, <2>4, LenProperties
<1>3. ASSUME NEW j \in Range(slots)
      PROVE  \E k \in DOMAIN s : slots[k] = j /\ of(slots, j) = s[k] /\ of(slots, j) \in Range(s)
  <2>1. \E k \in DOMAIN s : slots[k] = j
    BY <1>2 DEF Range
  <2>. QED  BY <2>1 DEF Range
<1>4. Range(s) \subseteq Files
  BY ElementOfSeq, LenProperties DEF Range
<1>5. ASSUME NEW j \in Range(slots)
      PROVE  /\ j \in Jobs /\ jobs[j].status = "none"
             /\ jobs'[j] \in RowType /\ jobs'[j].status = "queued" /\ jobs'[j].file = of(slots, j)
             /\ jobs'[j].fp = seen[of(slots, j)]
  <2>1. j \in Free
    BY <1>2 DEF Range
  <2>2. PICK f \in Files : f = of(slots, j)
    BY <1>3, <1>4
  <2>3. jobs'[j] = [NoRow EXCEPT !.status = "queued", !.file = f, !.rank = rank[f], !.fp = seen[f]]
    BY <1>1, <2>1, <2>2 DEF Free
  <2>4. seen[f] \in Nat /\ rank[f] \in Int
    BY DEF TypeInv
  <2>5. PICK g \in Nat : g = seen[f]
    BY <2>4
  <2>6. PICK n \in Int : n = rank[f]
    BY <2>4
  <2>7. jobs'[j] = [status |-> "queued", file |-> f, rank |-> n, fp |-> g, attempts |-> 0]
    BY <2>3, <2>5, <2>6 DEF NoRow
  <2>8. jobs'[j] \in RowType
    BY <2>7 DEF RowType
  <2>. QED  BY <2>1, <2>2, <2>5, <2>7, <2>8 DEF Free
<1>6. \A j \in Jobs : j \notin Range(slots) => jobs'[j] = jobs[j]
  BY <1>1
<1>7. jobs' \in [Jobs -> RowType]
  <2>1. ASSUME NEW j \in Jobs
        PROVE  jobs'[j] \in RowType
    <3>1. CASE j \in Range(slots)
      BY <1>5, <3>1
    <3>2. CASE j \notin Range(slots)
      BY <1>6, <3>2 DEF TypeInv
    <3>. QED  BY <3>1, <3>2
  <2>. QED  BY <1>1, <2>1
<1>8. ASSUME NEW i \in Range(slots), NEW k \in Range(slots), of(slots, i) = of(slots, k)
      PROVE  i = k
  <2>1. PICK a \in DOMAIN s : slots[a] = i /\ of(slots, i) = s[a]
    BY <1>3
  <2>2. PICK b \in DOMAIN s : slots[b] = k /\ of(slots, k) = s[b]
    BY <1>3
  <2>. QED  BY <1>8, <2>1, <2>2 DEF IsInjective
<1>9. /\ states' \in [Files -> StateType]
      /\ \A f \in Files : IF f \in Range(s) THEN states'[f].status = "queued" ELSE states'[f] = states[f]
  <2>1. ASSUME NEW f \in Files
        PROVE  /\ [states[f] EXCEPT !.status = "queued", !.fp = seen[f]] \in StateType
               /\ [states[f] EXCEPT !.status = "queued", !.fp = seen[f]].status = "queued"
    <3>1. states[f] \in StateType /\ seen[f] \in Nat
      BY DEF TypeInv
    <3>. QED  BY <3>1 DEF StateType
  <2>. QED  BY <1>1, <2>1 DEF TypeInv
<1>10. \A j \in Jobs : jobs'[j] # jobs[j] => j \in Range(slots)
  BY <1>6
<1>11. ASSUME NEW j \in Jobs, jobs[j].status # "none"
       PROVE  jobs'[j] = jobs[j]
  BY <1>5, <1>10, <1>11
<1>12. ASSUME NEW j \in Jobs, jobs'[j] # jobs[j]
       PROVE  /\ jobs[j].status = "none"
              /\ jobs'[j].status = "queued" /\ jobs'[j].file \in Range(s)
              /\ jobs'[j].fp = seen[jobs'[j].file]
  <2>1. j \in Range(slots)
    BY <1>10, <1>12
  <2>2. of(slots, j) \in Range(s)
    BY <1>3, <2>1
  <2>. HIDE DEF of
  <2>. QED  BY <1>5, <2>1, <2>2
<1>13. ASSUME NEW i \in Jobs, NEW k \in Jobs, jobs'[i] # jobs[i], jobs'[k] # jobs[k],
              jobs'[i].file = jobs'[k].file
       PROVE  i = k
  <2>1. i \in Range(slots) /\ k \in Range(slots)
    BY <1>10, <1>13
  <2>. HIDE DEF of
  <2>. QED  BY <1>5, <1>8, <1>13, <2>1
<1>14. stale' = stale
  BY <1>1
<1>. QED  BY <1>7, <1>9, <1>11, <1>12, <1>13, <1>14 DEF QueuesAs

\* What the two ways to seed the queue choose.
LEMMA Backfilled ==
  ASSUME TypeInv, NEW w \in Workers, Backfill(w)
  PROVE  \E S \in SUBSET Files : QueuesAs(S) /\ \A f \in S : ~ Pending(f) /\ ~ UpToDate(f)
<1>. DEFINE T == {f \in Files : ~Pending(f) /\ ~UpToDate(f)}
<1>1. PICK s \in Firsts(T, Limit, Before) : Enqueue(s, Bucket)
  BY DEF Backfill
<1>2. s \in Lists(T, Limit) /\ T \in SUBSET Files /\ Limit \in Int /\ Bucket \in [Files -> Int]
  BY ClassificationQueueAssumption DEF Firsts
<1>3. s \in Seq(Files) /\ IsInjective(s) /\ Range(s) \subseteq T
  BY <1>2, ListRight
<1>4. QueuesAs(Range(s))
  BY <1>1, <1>2, <1>3, Enqueued
<1>. QED  BY <1>3, <1>4

LEMMA Requeued ==
  ASSUME TypeInv, NEW w \in Workers, TargetedRequeue(w)
  PROVE  \E S \in SUBSET Files : /\ QueuesAs(S)
                                 /\ \A f \in S : ~ Pending(f) /\ f \in corrections \cup Unlabelled
<1>. DEFINE moved  == {f \in corrections : ~Pending(f)}
            review == {f \in Unlabelled \ moved : ~Pending(f) /\ states[f].status = "completed"}
            rank   == [f \in Files |-> Urgent]
<1>1. PICK s \in Lists(moved, TargetedLimit) :
        \E rest \in Lists(review, TargetedLimit - Len(s)) : Enqueue(s \o rest, rank)
  BY DEF TargetedRequeue, Firsts
<1>2. PICK rest \in Lists(review, TargetedLimit - Len(s)) : Enqueue(s \o rest, rank)
  BY <1>1
<1>3. moved \in SUBSET Files /\ review \in SUBSET Files /\ TargetedLimit \in Int /\ rank \in [Files -> Int]
  <2>1. Urgent \in Int
    BY DEF Urgent
  <2>2. TargetedLimit \in Nat \ {0} /\ Unlabelled \subseteq Files
    BY ClassificationQueueAssumption
  <2>. QED  BY <2>1, <2>2 DEF TypeInv
<1>4. /\ s \in Seq(Files) /\ IsInjective(s) /\ \A i \in DOMAIN s : s[i] \in moved
      /\ Range(s) \subseteq moved
  BY <1>1, <1>3, ListRight
<1>5. /\ rest \in Seq(Files) /\ IsInjective(rest) /\ \A i \in DOMAIN rest : rest[i] \in review
      /\ Range(rest) \subseteq review
  <2>1. TargetedLimit - Len(s) \in Int
    <3>1. Len(s) \in Nat
      BY <1>4, LenProperties
    <3>. QED  BY <1>3, <3>1
  <2>. QED  BY <1>3, <2>1, ListRight
<1>6. s \o rest \in Seq(Files) /\ IsInjective(s \o rest) /\ Range(s \o rest) \subseteq moved \cup review
  <2>1. moved \cap review = {}
    OBVIOUS
  <2>. QED  BY <1>4, <1>5, <2>1, ListsJoined
<1>10. QueuesAs(Range(s \o rest))
  BY <1>2, <1>3, <1>6, Enqueued
<1>11. /\ Range(s \o rest) \in SUBSET Files
       /\ \A f \in Range(s \o rest) : ~ Pending(f) /\ f \in corrections \cup Unlabelled
  BY <1>3, <1>6
<1>. QED  BY <1>10, <1>11

\* The queue after files without an active row were put into it: still one active row a file.
LEMMA SeededRows ==
  ASSUME RowsInv, NEW S \in SUBSET Files, QueuesAs(S), \A f \in S : ~ Pending(f)
  PROVE  RowsInv'
<1>1. ASSUME NEW j \in Jobs, Active(jobs'[j])
      PROVE  /\ jobs'[j].file \in Files
             /\ \/ jobs'[j] = jobs[j] /\ Active(jobs[j])
                \/ jobs'[j] # jobs[j] /\ jobs'[j].file \in S
  BY <1>1 DEF QueuesAs, RowsInv
<1>2. ASSUME NEW i \in Jobs, NEW k \in Jobs, Active(jobs'[i]), Active(jobs'[k]),
             jobs'[i].file = jobs'[k].file
      PROVE  i = k
  <2>1. CASE jobs'[i] = jobs[i] /\ Active(jobs[i]) /\ jobs'[k] = jobs[k] /\ Active(jobs[k])
    BY <1>2, <2>1 DEF RowsInv
  <2>2. CASE jobs'[i] # jobs[i] /\ jobs'[k] # jobs[k]
    BY <1>2, <2>2 DEF QueuesAs
  <2>3. \A a \in Jobs : Active(jobs[a]) => jobs[a].file \notin S
    BY DEF Pending, Active
  <2>. QED  BY <1>1, <1>2, <2>1, <2>2, <2>3
<1>3. \A j \in Jobs : Active(jobs'[j]) => jobs'[j].file \in Files
  BY <1>1
<1>. QED  BY <1>2, <1>3 DEF RowsInv, Active

-----------------------------------------------------------------------------
(* Rows and holds *)

\* Rows only become active when they are created; an active row is about its file for ever.
RowsAs ==
  \A j \in Jobs : Active(jobs'[j]) =>
    \/ Active(jobs[j]) /\ jobs'[j].file = jobs[j].file /\ jobs'[j].fp = jobs[j].fp
    \/ jobs[j].status = "none" /\ jobs'[j].file \in Files /\ jobs'[j].fp = seen[jobs'[j].file]

\* None is created.
RowsStay ==
  \A j \in Jobs : Active(jobs'[j]) =>
    Active(jobs[j]) /\ jobs'[j].file = jobs[j].file /\ jobs'[j].fp = jobs[j].fp

LEMMA StayingRows ==
  ASSUME RowsInv, RowsStay
  PROVE  RowsInv' /\ RowsAs
<1>1. \A j \in Jobs : Active(jobs'[j]) => jobs'[j].file \in Files
  BY DEF RowsInv, RowsStay
<1>2. \A i, k \in Jobs : Active(jobs'[i]) /\ Active(jobs'[k]) /\ jobs'[i].file = jobs'[k].file => i = k
  BY DEF RowsInv, RowsStay
<1>. QED  BY <1>1, <1>2 DEF RowsInv, RowsStay, RowsAs, Active

\* A step of w that leaves it as r: the running rows that it neither holds nor has found run on,
\* and it takes up no row but one that was queued.
Moves(w, r) ==
  /\ worker' = [worker EXCEPT ![w] = r]
  /\ \A j \in Jobs : /\ jobs[j].status = "running" /\ ~ Holds(worker[w], j) /\ j \notin worker[w].found
                     => jobs'[j].status = "running"
  /\ stale' \subseteq stale /\ \A j \in stale' \cap worker[w].found : jobs'[j].status = "running"
  /\ r.pc # "recovering" => r.found = {}
  /\ r.pc = "claiming" => r.job \in Jobs
  /\ \A j \in r.found : j \in stale /\ jobs'[j].status = "running"
  /\ Busy(r) => /\ r.job \in Jobs /\ jobs'[r.job].status = "running"
                /\ \/ Busy(worker[w]) /\ r.job = worker[w].job
                   \/ jobs[r.job].status = "queued"

\* What the others hold runs on.
LEMMA OthersHold ==
  ASSUME HoldInv, NEW v \in Workers, NEW w \in Workers, v # w, NEW r, Moves(w, r), Busy(worker[v])
  PROVE  /\ worker[v].job \in Jobs
         /\ jobs[worker[v].job].status = "running" /\ jobs'[worker[v].job].status = "running"
<1>1. worker[v].job \in Jobs /\ jobs[worker[v].job].status = "running"
  BY DEF HoldInv, Tracks
<1>2. ~ Holds(worker[w], worker[v].job)
  BY DEF HoldInv
<1>3. worker[v].job \notin worker[w].found
  BY DEF HoldInv, Tracks, Loose, Holds
<1>. QED  BY <1>1, <1>2, <1>3 DEF Moves

LEMMA MovesKeepHolds ==
  ASSUME TypeInv, HoldInv, OneRecovery, NEW w \in Workers, NEW r \in WorkerType, Moves(w, r)
  PROVE  HoldInv'
<1>1. PICK q \in WorkerType : q = worker[w]
  BY DEF TypeInv
<1>2. worker'[w] = r /\ \A v \in Workers : v # w => worker'[v] = worker[v]
  BY DEF Moves, TypeInv
<1>3. q.found \subseteq Jobs /\ r.found \subseteq Jobs
  BY DEF WorkerType
<1>4. ASSUME NEW j \in Jobs, Loose(j)
      PROVE  \A v \in Workers : ~ Holds(worker'[v], j)
  <2>1. ~ Holds(r, j)
    BY <1>4 DEF Moves, Loose, Holds
  <2>. QED  BY <1>2, <1>4, <2>1 DEF Loose
<1>5. ASSUME NEW j \in stale'
      PROVE  j \in Jobs /\ Loose(j)'
  <2>1. j \in stale /\ j \in Jobs /\ Loose(j)
    BY DEF Moves, HoldInv
  <2>2. jobs[j].status = "running" /\ ~ Holds(q, j)
    BY <1>1, <2>1 DEF Loose
  <2>3. jobs'[j].status = "running"
    BY <1>1, <2>1, <2>2 DEF Moves
  <2>. QED  BY <1>4, <2>1, <2>3 DEF Loose, Holds, Busy
<1>6. Tracks(r)'
  <2>1. ASSUME NEW j \in r.found
        PROVE  Loose(j)'
    <3>1. j \in stale /\ j \in Jobs /\ Loose(j) /\ jobs'[j].status = "running"
      BY <1>3 DEF Moves, HoldInv
    <3>. QED  BY <1>4, <3>1 DEF Loose, Holds, Busy
  <2>. QED  BY <2>1 DEF Tracks, Moves, Busy
<1>7. ASSUME NEW v \in Workers, v # w
      PROVE  Tracks(worker[v])'
  <2>1. ASSUME NEW j \in worker[v].found
        PROVE  Loose(j)'
    <3>1. Loose(j) /\ j \in Jobs
      BY DEF HoldInv, Tracks, TypeInv, WorkerType
    <3>2. j \notin q.found
      BY <1>1, <1>7 DEF OneRecovery
    <3>3. jobs'[j].status = "running"
      BY <1>1, <3>1, <3>2 DEF Moves, Loose
    <3>. QED  BY <1>4, <3>1, <3>3 DEF Loose, Holds, Busy
  <2>2. Busy(worker[v]) => worker[v].job \in Jobs /\ jobs'[worker[v].job].status = "running"
    BY <1>7, OthersHold
  <2>3. /\ worker[v].pc # "recovering" => worker[v].found = {}
        /\ worker[v].pc = "claiming" => worker[v].job \in Jobs
    BY DEF HoldInv, Tracks
  <2>4. worker'[v] = worker[v]
    BY <1>2, <1>7
  <2>. QED  BY <2>1, <2>2, <2>3, <2>4 DEF Tracks, Busy
<1>8. ASSUME NEW v \in Workers
      PROVE  Tracks(worker[v])'
  <2>1. CASE v = w
    <3>1. worker'[v] = r
      BY <1>2, <2>1
    <3>. QED  BY <1>6, <3>1 DEF Tracks, Busy, Loose, Holds
  <2>. QED  BY <1>7, <2>1
<1>9. ASSUME NEW u \in Workers, NEW v \in Workers, Busy(worker'[u]), Holds(worker'[v], worker'[u].job), u # v
      PROVE  FALSE
  <2>1. CASE u # w /\ v # w
    BY <1>2, <1>9, <2>1 DEF HoldInv
  <2>2. CASE u = w
    <3>1. Busy(r) /\ v # w /\ Busy(worker[v]) /\ worker[v].job = r.job
      BY <1>2, <1>9, <2>2 DEF Holds
    <3>2. jobs[r.job].status = "running"
      BY <3>1, OthersHold
    <3>3. Busy(q) /\ r.job = q.job
      BY <1>1, <3>1, <3>2 DEF Moves
    <3>. QED  BY <1>1, <3>1, <3>3 DEF HoldInv, Holds
  <2>3. CASE v = w
    <3>1. Busy(r) /\ u # w /\ Busy(worker[u]) /\ worker[u].job = r.job
      BY <1>2, <1>9, <2>3 DEF Holds
    <3>2. jobs[r.job].status = "running"
      BY <3>1, OthersHold
    <3>3. Busy(q) /\ r.job = q.job
      BY <1>1, <3>1, <3>2 DEF Moves
    <3>. QED  BY <1>1, <3>1, <3>3 DEF HoldInv, Holds
  <2>. QED  BY <1>9, <2>1, <2>2, <2>3
<1>. QED  BY <1>5, <1>8, <1>9 DEF HoldInv, Busy, Holds

-----------------------------------------------------------------------------
(* What is known of the content of files *)

\* A flush of a state writes what the session changed; of a copy that is up to date, all.
LEMMA MergedState ==
  ASSUME NEW row \in StateType, NEW read \in StateType, NEW new \in StateType
  PROVE  Merged(row, read, new) \in StateType /\ (read = row => Merged(row, read, new) = new)
<1>1. DOMAIN row = {"status", "fp", "label"}
  BY DEF StateType
<1>2. Merged(row, read, new) =
        [status |-> IF new.status = read.status THEN row.status ELSE new.status,
         fp |-> IF new.fp = read.fp THEN row.fp ELSE new.fp,
         label |-> IF new.label = read.label THEN row.label ELSE new.label]
  BY <1>1 DEF Merged
<1>3. Merged(row, read, new) \in StateType
  BY <1>2 DEF StateType
<1>4. ASSUME read = row
      PROVE  Merged(row, read, new) = [status |-> new.status, fp |-> new.fp, label |-> new.label]
  BY <1>2, <1>4
<1>. QED  BY <1>3, <1>4 DEF StateType

\* A step of w leaves alone the states of files that others work on; what it stores as a
\* completed classification is of the content of its fingerprint or a newer one.
StatesAs(w) ==
  Callers = {} =>
    \A f \in Files :
      \/ states'[f] = states[f]
      \/ /\ \A v \in Workers \ {w} : Busy(worker[v]) => jobs[worker[v].job].file # f
         /\ states'[f].status = "completed" => states'[f].label >= states'[f].fp

LEMMA MovesKeepContent ==
  ASSUME TypeInv, RowsInv, HoldInv, ContentInv, NEW w \in Workers, NEW r \in WorkerType,
         Moves(w, r), RowsAs, StatesAs(w), UNCHANGED files, Knows(r)'
  PROVE  ContentInv'
<1>1. worker'[w] = r /\ \A v \in Workers : v # w => worker'[v] = worker[v]
  BY DEF Moves, TypeInv
<1>2. disk' = disk /\ seen' = seen
  BY DEF files
<1>3. ASSUME NEW j \in Jobs, Active(jobs'[j])
      PROVE  jobs'[j].fp <= disk[jobs'[j].file]
  BY <1>3 DEF RowsAs, ContentInv
<1>4. ASSUME NEW v \in Workers, v # w, Busy(worker[v])
      PROVE  LET j == worker[v].job
             IN  /\ j \in Jobs /\ jobs'[j].file = jobs[j].file /\ jobs'[j].fp = jobs[j].fp
                 /\ jobs[j].file \in Files
                 /\ Callers = {} => states'[jobs[j].file] = states[jobs[j].file]
  <2>1. PICK j \in Jobs : j = worker[v].job
    BY <1>4, OthersHold
  <2>2. jobs[j].status = "running" /\ jobs'[j].status = "running"
    BY <1>4, <2>1, OthersHold
  <2>3. Active(jobs[j]) /\ Active(jobs'[j])
    BY <2>2 DEF Active, ActiveStatus
  <2>4. jobs'[j].file = jobs[j].file /\ jobs'[j].fp = jobs[j].fp
    BY <2>2, <2>3 DEF RowsAs
  <2>5. jobs[j].file \in Files
    BY <2>3 DEF RowsInv
  <2>6. Callers = {} => states'[jobs[j].file] = states[jobs[j].file]
    BY <1>4, <2>1, <2>5 DEF StatesAs
  <2>. QED  BY <2>1, <2>4, <2>5, <2>6
<1>5. ASSUME NEW v \in Workers
      PROVE  Knows(worker[v])'
  <2>1. CASE v = w
    <3>1. worker'[v] = r
      BY <1>1, <2>1
    <3>. QED  BY <3>1 DEF Knows
  <2>2. CASE v # w
    <3>1. worker'[v] = worker[v]
      BY <1>1, <2>2
    <3>2. Knows(worker[v])
      BY DEF ContentInv
    <3>3. worker[v].pc \in {"answered", "persisting"} => Busy(worker[v])
      BY DEF Busy
    <3>. QED  BY <1>4, <2>2, <3>1, <3>2, <3>3 DEF Knows
  <2>. QED  BY <2>1, <2>2
<1>6. ASSUME Callers = {}, NEW f \in Files, states'[f].status = "completed"
      PROVE  states'[f].label >= states'[f].fp
  BY <1>6 DEF StatesAs, ContentInv
<1>. QED  BY <1>2, <1>3, <1>5, <1>6 DEF ContentInv, Active

\* A step of w keeps the invariant.
LEMMA MovesKeepInv ==
  ASSUME QueueInv, OneRecovery, NEW w \in Workers, NEW r \in WorkerType, Moves(w, r),
         RowsInv', RowsAs, StatesAs(w), UNCHANGED <<files, caller>>, Knows(r)',
         jobs' \in [Jobs -> RowType], states' \in [Files -> StateType], corrections' \subseteq Files
  PROVE  QueueInv'
<1>1. TypeInv'
  BY DEF QueueInv, TypeInv, Moves, files
<1>. QED  BY <1>1, MovesKeepHolds, MovesKeepContent DEF QueueInv

\* What becomes of the rows of a table that is written.
LEMMA WrittenRows ==
  ASSUME NEW rows \in [Jobs -> RowType], Write(rows)
  PROVE  /\ jobs' \in [Jobs -> RowType]
         /\ \A j \in Jobs : Active(rows[j]) \/ Active(jobs'[j]) => jobs'[j] = rows[j]
<1>1. NoRow \in RowType /\ ~ Active(NoRow)
  <2>1. 0 \in Int /\ 0 \in Nat
    OBVIOUS
  <2>. QED  BY <2>1 DEF NoRow, RowType, Active, ActiveStatus
<1>2. \A j \in Jobs : jobs'[j] = rows[j] \/ (jobs'[j] = NoRow /\ ~ Active(rows[j]))
  BY DEF Write, Active
<1>3. jobs' \in [Jobs -> RowType]
  <2>1. \A j \in Jobs : jobs'[j] \in RowType
    BY <1>1, <1>2
  <2>2. \E T : jobs' \in [Jobs -> T]
    <3>. DEFINE T == {jobs'[j] : j \in Jobs}
    <3>1. jobs' \in [Jobs -> T]
      BY DEF Write
    <3>. QED  BY <3>1
  <2>. QED  BY <2>1, <2>2
<1>. QED  BY <1>1, <1>2, <1>3

\* w lets go of what it held and had found, and changes no other row.
LEMMA LetGo ==
  ASSUME QueueInv, OneRecovery, NEW w \in Workers, NEW r \in WorkerType, ~ Busy(r), r.pc # "claiming",
         r.found = {}, worker' = [worker EXCEPT ![w] = r], NEW rows \in [Jobs -> RowType], Write(rows),
         stale' \subseteq stale,
         \A j \in Jobs : \/ rows[j] = jobs[j]
                         \/ /\ Holds(worker[w], j) \/ j \in worker[w].found
                            /\ j \notin stale'
                            /\ rows[j].file = jobs[j].file /\ rows[j].fp = jobs[j].fp
  PROVE  /\ Moves(w, r) /\ RowsStay /\ RowsInv' /\ RowsAs /\ Knows(r)'
         /\ jobs' \in [Jobs -> RowType]
<1>1. ASSUME NEW j \in Jobs, rows[j] = jobs[j], Active(jobs[j])
      PROVE  jobs'[j] = jobs[j]
  BY <1>1, WrittenRows
<1>2. ASSUME NEW j \in Jobs, Holds(worker[w], j) \/ j \in worker[w].found
      PROVE  jobs[j].status = "running" /\ Active(jobs[j])
  BY <1>2 DEF QueueInv, HoldInv, Tracks, Loose, Holds, Active, ActiveStatus
<1>3. RowsStay
  <2>1. SUFFICES ASSUME NEW j \in Jobs, Active(jobs'[j])
                 PROVE  Active(jobs[j]) /\ jobs'[j].file = jobs[j].file /\ jobs'[j].fp = jobs[j].fp
    BY DEF RowsStay
  <2>2. jobs'[j] = rows[j]
    BY <2>1, WrittenRows
  <2>. QED  BY <1>2, <2>1, <2>2
<1>4. \A j \in Jobs : jobs[j].status = "running" => Active(jobs[j])
  BY DEF Active, ActiveStatus
<1>5. ASSUME NEW j \in Jobs, jobs[j].status = "running", ~ Holds(worker[w], j), j \notin worker[w].found
      PROVE  jobs'[j].status = "running"
  BY <1>1, <1>4, <1>5
<1>6. ASSUME NEW j \in stale' \cap worker[w].found
      PROVE  jobs'[j].status = "running"
  <2>1. j \in Jobs
    BY DEF QueueInv, HoldInv
  <2>. QED  BY <1>1, <1>2, <1>6, <2>1
<1>7. Moves(w, r)
  BY <1>5, <1>6 DEF Moves
<1>8. Knows(r)'
  BY DEF Knows, Busy
<1>. QED  BY <1>3, <1>7, <1>8, StayingRows, WrittenRows DEF QueueInv

-----------------------------------------------------------------------------
(* The steps of a poll *)

\* The rows are as they were.
LEMMA RowsUntouched ==
  ASSUME RowsInv, jobs' = jobs
  PROVE  RowsInv' /\ RowsStay /\ RowsAs
<1>1. RowsStay
  BY DEF RowsStay
<1>. QED  BY <1>1, StayingRows

\* Seeding moves a worker on and puts files without an active row into the queue.
LEMMA SeedKeepsInv ==
  ASSUME QueueInv, OneRecovery, NEW w \in Workers, NEW r \in WorkerType,
         worker[w].pc # "recovering", ~ Busy(r), r.pc # "claiming", r.found = {},
         worker' = [worker EXCEPT ![w] = r], NEW S \in SUBSET Files, QueuesAs(S),
         \A f \in S : ~ Pending(f), UNCHANGED <<files, corrections, caller>>
  PROVE  QueueInv'
<1>1. worker[w].found = {}
  BY DEF QueueInv, HoldInv, Tracks
<1>2. Moves(w, r)
  <2>1. \A j \in Jobs : jobs[j].status = "running" => jobs'[j].status = "running"
    BY DEF QueuesAs
  <2>2. stale' \subseteq stale /\ \A j \in stale' \cap worker[w].found : jobs'[j].status = "running"
    BY <1>1 DEF QueuesAs
  <2>. QED  BY <2>1, <2>2 DEF Moves
<1>3. RowsInv'
  BY SeededRows DEF QueueInv
<1>4. RowsAs
  <2>1. SUFFICES ASSUME NEW j \in Jobs, Active(jobs'[j])
                 PROVE  \/ Active(jobs[j]) /\ jobs'[j].file = jobs[j].file /\ jobs'[j].fp = jobs[j].fp
                        \/ /\ jobs[j].status = "none" /\ jobs'[j].file \in Files
                           /\ jobs'[j].fp = seen[jobs'[j].file]
    BY DEF RowsAs
  <2>2. CASE jobs'[j] = jobs[j]
    BY <2>1, <2>2
  <2>3. CASE jobs'[j] # jobs[j]
    BY <2>3 DEF QueuesAs
  <2>. QED  BY <2>2, <2>3
<1>5. StatesAs(w)
  <2>1. SUFFICES ASSUME NEW f \in Files, states'[f] # states[f]
                 PROVE  /\ \A v \in Workers \ {w} : Busy(worker[v]) => jobs[worker[v].job].file # f
                        /\ states'[f].status # "completed"
    BY DEF StatesAs
  <2>2. f \in S /\ states'[f].status = "queued"
    BY <2>1 DEF QueuesAs
  <2>3. \A j \in Jobs : jobs[j].status = "running" => jobs[j].file # f
    BY <2>2 DEF Pending, ActiveStatus
  <2>. QED  BY <2>2, <2>3 DEF QueueInv, HoldInv, Tracks
<1>6. Knows(r)'
  BY DEF Knows, Busy
<1>7. corrections' \subseteq Files
  BY DEF QueueInv, TypeInv
<1>. QED  BY <1>2, <1>3, <1>4, <1>5, <1>6, <1>7, MovesKeepInv DEF QueuesAs

LEMMA WorkerIs ==
  ASSUME TypeInv, NEW w \in Workers
  PROVE  worker \in [Workers -> WorkerType] /\ worker[w] \in WorkerType
BY DEF TypeInv

LEMMA BackfillKeepsInv ==
  ASSUME QueueInv, OneRecovery, NEW w \in Workers, Backfill(w)
  PROVE  QueueInv'
<1>1. PICK q \in WorkerType : q = worker[w]
  BY WorkerIs DEF QueueInv
<1>2. PICK r \in WorkerType : r = [q EXCEPT !.pc = "requeue"]
  BY DEF WorkerType, WorkerPC
<1>3. worker' = [worker EXCEPT ![w] = r] /\ q.pc = "idle"
  BY <1>1, <1>2, WorkerIs DEF Backfill, QueueInv
<1>4. r.pc = "requeue" /\ r.found = q.found
  BY <1>2 DEF WorkerType
<1>5. q.found = {}
  BY <1>1, <1>3 DEF QueueInv, HoldInv, Tracks
<1>6. PICK S \in SUBSET Files : QueuesAs(S) /\ \A f \in S : ~ Pending(f)
  BY Backfilled DEF QueueInv
<1>7. ~ Busy(r)
  BY <1>4 DEF Busy
<1>. QED  BY <1>1, <1>3, <1>4, <1>5, <1>6, <1>7, SeedKeepsInv DEF Backfill

LEMMA TargetedKeepsInv ==
  ASSUME QueueInv, OneRecovery, NEW w \in Workers, TargetedRequeue(w)
  PROVE  QueueInv'
<1>1. PICK q \in WorkerType : q = worker[w]
  BY WorkerIs DEF QueueInv
<1>. Concurrency \in Int
  BY ClassificationQueueAssumption
<1>2. PICK r \in WorkerType : r = [q EXCEPT !.pc = "recover", !.left = Concurrency]
  BY DEF WorkerType, WorkerPC
<1>3. worker' = [worker EXCEPT ![w] = r] /\ q.pc = "requeue"
  BY <1>1, <1>2, WorkerIs DEF TargetedRequeue, QueueInv
<1>4. r.pc = "recover" /\ r.found = q.found
  BY <1>2 DEF WorkerType
<1>5. q.found = {}
  BY <1>1, <1>3 DEF QueueInv, HoldInv, Tracks
<1>6. PICK S \in SUBSET Files : QueuesAs(S) /\ \A f \in S : ~ Pending(f)
  BY Requeued DEF QueueInv
<1>7. ~ Busy(r)
  BY <1>4 DEF Busy
<1>. QED  BY <1>1, <1>3, <1>4, <1>5, <1>6, <1>7, SeedKeepsInv DEF TargetedRequeue

\* A step of w after which the rows, the states and the stale rows are as before.
LEMMA LookKeepsInv ==
  ASSUME QueueInv, OneRecovery, NEW w \in Workers, NEW r \in WorkerType,
         worker' = [worker EXCEPT ![w] = r], UNCHANGED <<files, table, states, corrections, caller>>,
         worker[w].found = {}, r.found \subseteq stale, r.pc # "recovering" => r.found = {},
         r.pc = "claiming" => r.job \in Jobs,
         Busy(r) => Busy(worker[w]) /\ r.job = worker[w].job, Knows(r)
  PROVE  QueueInv'
<1>1. jobs' = jobs /\ stale' = stale /\ states' = states /\ corrections' = corrections
  BY DEF table
<1>2. Moves(w, r)
  <2>1. \A j \in r.found : j \in stale /\ jobs'[j].status = "running"
    BY <1>1 DEF QueueInv, HoldInv, Loose
  <2>2. Busy(r) => r.job \in Jobs /\ jobs'[r.job].status = "running"
    BY <1>1 DEF QueueInv, HoldInv, Tracks
  <2>. QED  BY <1>1, <2>1, <2>2 DEF Moves
<1>3. RowsInv' /\ RowsAs
  BY <1>1, RowsUntouched DEF QueueInv
<1>4. StatesAs(w)
  BY <1>1 DEF StatesAs
<1>5. Knows(r)'
  BY <1>1 DEF Knows
<1>. QED  BY <1>1, <1>2, <1>3, <1>4, <1>5, MovesKeepInv DEF QueueInv, TypeInv

LEMMA IdleRight == Idle \in WorkerType /\ ~ Busy(Idle) /\ Idle.found = {} /\ Idle.pc = "idle"
<1>1. 0 \in Int /\ 0 \in Nat
  OBVIOUS
<1>2. NoState \in StateType
  BY <1>1 DEF NoState, StateType
<1>. QED  BY <1>1, <1>2 DEF Idle, WorkerType, WorkerPC, Outcome, Busy

LEMMA RecoverReadKeepsInv ==
  ASSUME QueueInv, OneRecovery, NEW w \in Workers, RecoverRead(w)
  PROVE  QueueInv'
<1>1. PICK q \in WorkerType : q = worker[w]
  BY WorkerIs DEF QueueInv
<1>2. stale \subseteq Jobs
  BY DEF QueueInv, HoldInv
<1>3. PICK r \in WorkerType :
        r = [q EXCEPT !.pc = IF stale = {} THEN "select" ELSE "recovering", !.found = stale]
  BY <1>2 DEF WorkerType, WorkerPC
<1>4. worker' = [worker EXCEPT ![w] = r] /\ q.pc = "recover"
  BY <1>1, <1>3, WorkerIs DEF RecoverRead, QueueInv
<1>5. /\ r.pc = IF stale = {} THEN "select" ELSE "recovering"
      /\ r.found = stale
  BY <1>3 DEF WorkerType
<1>6. q.found = {}
  BY <1>1, <1>4 DEF QueueInv, HoldInv, Tracks
<1>7. ~ Busy(r) /\ Knows(r)
  BY <1>5 DEF Busy, Knows
<1>. QED  BY <1>1, <1>4, <1>5, <1>6, <1>7, LookKeepsInv DEF RecoverRead

LEMMA SelectKeepsInv ==
  ASSUME QueueInv, OneRecovery, NEW w \in Workers, SelectNext(w)
  PROVE  QueueInv'
<1>1. PICK q \in WorkerType : q = worker[w]
  BY WorkerIs DEF QueueInv
<1>2. q.pc = "select" /\ q.found = {}
  BY <1>1 DEF SelectNext, QueueInv, HoldInv, Tracks
<1>3. CASE worker' = [worker EXCEPT ![w] = Idle]
  <2>1. Knows(Idle) /\ Idle.pc # "recovering"
    BY DEF Knows, Idle
  <2>. QED  BY <1>1, <1>2, <1>3, <2>1, IdleRight, LookKeepsInv DEF SelectNext
<1>4. ASSUME NEW j \in Jobs,
             worker' = [worker EXCEPT ![w].pc = "claiming", ![w].job = j,
                                      ![w].attempts = jobs[j].attempts]
      PROVE  QueueInv'
  <2>1. PICK n \in Nat : n = jobs[j].attempts
    BY DEF QueueInv, TypeInv, RowType
  <2>2. PICK r \in WorkerType : r = [q EXCEPT !.pc = "claiming", !.job = j, !.attempts = n]
    BY DEF WorkerType, WorkerPC
  <2>3. worker' = [worker EXCEPT ![w] = r]
    BY <1>1, <1>4, <2>1, <2>2, WorkerIs DEF QueueInv
  <2>4. r.pc = "claiming" /\ r.job \in Jobs /\ r.found = {}
    BY <1>2, <2>2 DEF WorkerType
  <2>5. ~ Busy(r) /\ Knows(r)
    BY <2>4 DEF Busy, Knows
  <2>. QED  BY <1>1, <1>2, <2>3, <2>4, <2>5, LookKeepsInv DEF SelectNext
<1>. QED  BY <1>3, <1>4 DEF SelectNext

LEMMA RecoverKeepsInv ==
  ASSUME QueueInv, OneRecovery, NEW w \in Workers, RecoverCommit(w)
  PROVE  QueueInv'
<1>1. PICK q \in WorkerType : q = worker[w]
  BY WorkerIs DEF QueueInv
<1>2. jobs \in [Jobs -> RowType]
  BY DEF QueueInv, TypeInv
<1>3. StatesAs(w) /\ states' \in [Files -> StateType] /\ corrections' \subseteq Files
  BY DEF RecoverCommit, StatesAs, QueueInv, TypeInv
<1>4. q.pc = "recovering" /\ UNCHANGED <<files, caller>>
  BY <1>1 DEF RecoverCommit
<1>5. PICK rows : rows = [j \in Jobs |-> IF j \in q.found THEN [jobs[j] EXCEPT !.status = "queued"] ELSE jobs[j]]
  OBVIOUS
<1>6. ASSUME NEW j \in Jobs
      PROVE  /\ [jobs[j] EXCEPT !.status = "queued"] \in RowType
             /\ [jobs[j] EXCEPT !.status = "queued"].file = jobs[j].file
             /\ [jobs[j] EXCEPT !.status = "queued"].fp = jobs[j].fp
  BY <1>2 DEF RowType
<1>7. CASE /\ worker' = [worker EXCEPT ![w].pc = "select", ![w].found = {}]
           /\ Write(rows) /\ stale' = stale \ q.found
  <2>1. PICK r \in WorkerType : r = [q EXCEPT !.pc = "select", !.found = {}]
    BY DEF WorkerType, WorkerPC
  <2>2. worker' = [worker EXCEPT ![w] = r]
    BY <1>1, <1>7, <2>1, WorkerIs DEF QueueInv
  <2>3. ~ Busy(r) /\ r.pc # "claiming" /\ r.found = {}
    BY <2>1 DEF WorkerType, Busy
  <2>4. rows \in [Jobs -> RowType]
    BY <1>2, <1>5, <1>6
  <2>5. \A j \in Jobs : \/ rows[j] = jobs[j]
                        \/ /\ Holds(worker[w], j) \/ j \in worker[w].found
                           /\ j \notin stale'
                           /\ rows[j].file = jobs[j].file /\ rows[j].fp = jobs[j].fp
    BY <1>1, <1>5, <1>6, <1>7
  <2>6. Moves(w, r) /\ RowsInv' /\ RowsAs /\ Knows(r)' /\ jobs' \in [Jobs -> RowType]
    BY <1>7, <2>2, <2>3, <2>4, <2>5, LetGo
  <2>. QED  BY <1>3, <1>4, <2>6, MovesKeepInv
<1>8. CASE /\ worker' = [worker EXCEPT ![w] = Idle] /\ Write(jobs) /\ UNCHANGED stale
  <2>1. Moves(w, Idle) /\ RowsInv' /\ RowsAs /\ Knows(Idle)' /\ jobs' \in [Jobs -> RowType]
    BY <1>2, <1>8, IdleRight, LetGo
  <2>. QED  BY <1>3, <1>4, <2>1, IdleRight, MovesKeepInv
<1>. QED  BY <1>1, <1>5, <1>7, <1>8 DEF RecoverCommit

LEMMA CrashKeepsInv ==
  ASSUME QueueInv, OneRecovery, NEW w \in Workers, WorkerCrash(w)
  PROVE  QueueInv'
<1>1. jobs \in [Jobs -> RowType] /\ states' \in [Files -> StateType] /\ corrections' \subseteq Files
  BY DEF WorkerCrash, QueueInv, TypeInv
<1>2. StatesAs(w)
  BY DEF WorkerCrash, StatesAs
<1>3. Moves(w, Idle) /\ RowsInv' /\ RowsAs /\ Knows(Idle)' /\ jobs' \in [Jobs -> RowType]
  BY <1>1, IdleRight, LetGo DEF WorkerCrash
<1>. QED  BY <1>1, <1>2, <1>3, IdleRight, MovesKeepInv DEF WorkerCrash

-----------------------------------------------------------------------------
(* A job from its claim to its result *)

LEMMA ClaimKeepsInv ==
  ASSUME QueueInv, OneRecovery, NEW w \in Workers, ClaimCommit(w)
  PROVE  QueueInv'
<1>1. PICK q \in WorkerType : q = worker[w]
  BY WorkerIs DEF QueueInv
<1>2. jobs \in [Jobs -> RowType]
  BY DEF QueueInv, TypeInv
<1>3. StatesAs(w) /\ states' \in [Files -> StateType] /\ corrections' \subseteq Files
  BY DEF ClaimCommit, StatesAs, QueueInv, TypeInv
<1>4. /\ q.pc = "claiming" /\ q.found = {} /\ q.job \in Jobs
      /\ UNCHANGED <<files, caller>>
  BY <1>1 DEF ClaimCommit, QueueInv, HoldInv, Tracks
<1>5. ASSUME jobs[q.job].status = "queued", worker' = [worker EXCEPT ![w].pc = "submitting"],
             Write([jobs EXCEPT ![q.job].status = "running"]), stale' = stale \ {q.job}
      PROVE  QueueInv'
  <2>1. PICK r \in WorkerType : r = [q EXCEPT !.pc = "submitting"]
    BY DEF WorkerType, WorkerPC
  <2>2. worker' = [worker EXCEPT ![w] = r]
    BY <1>1, <1>5, <2>1, WorkerIs DEF QueueInv
  <2>3. r.pc = "submitting" /\ r.job = q.job /\ r.found = {}
    BY <1>4, <2>1 DEF WorkerType
  <2>4. PICK rows \in [Jobs -> RowType] : rows = [jobs EXCEPT ![q.job].status = "running"]
    BY <1>2, <1>4 DEF RowType
  <2>5. /\ \A j \in Jobs \ {q.job} : rows[j] = jobs[j]
        /\ rows[q.job].status = "running" /\ rows[q.job].file = jobs[q.job].file
        /\ rows[q.job].fp = jobs[q.job].fp
    BY <1>2, <1>4, <2>4 DEF RowType
  <2>6. Write(rows)
    BY <1>5, <2>4
  <2>7. jobs' \in [Jobs -> RowType] /\ \A j \in Jobs : Active(rows[j]) \/ Active(jobs'[j]) => jobs'[j] = rows[j]
    BY <2>6, WrittenRows
  <2>8. jobs'[q.job].status = "running"
    BY <1>4, <2>5, <2>7 DEF Active, ActiveStatus
  <2>9. ASSUME NEW j \in Jobs, jobs[j].status = "running"
        PROVE  jobs'[j].status = "running"
    BY <2>5, <2>7, <2>8, <2>9 DEF Active, ActiveStatus
  <2>10. RowsStay
    BY <1>5, <2>5, <2>7 DEF RowsStay, Active, ActiveStatus
  <2>11. Moves(w, r)
    BY <1>1, <1>4, <1>5, <2>2, <2>3, <2>8, <2>9 DEF Moves
  <2>12. Knows(r)'
    BY <2>3 DEF Knows
  <2>. QED  BY <1>3, <1>4, <2>7, <2>10, <2>11, <2>12, StayingRows, MovesKeepInv DEF QueueInv
<1>6. ASSUME worker' = [worker EXCEPT ![w] = Idle], Write(jobs), UNCHANGED stale
      PROVE  QueueInv'
  <2>1. Moves(w, Idle) /\ RowsInv' /\ RowsAs /\ Knows(Idle)' /\ jobs' \in [Jobs -> RowType]
    BY <1>2, <1>6, IdleRight, LetGo
  <2>. QED  BY <1>3, <1>4, <2>1, IdleRight, MovesKeepInv
<1>. QED  BY <1>1, <1>5, <1>6 DEF ClaimCommit, Unclaimed

\* Whoever has claimed a row works on a file that no other one works on.
LEMMA AtWork ==
  ASSUME QueueInv, NEW w \in Workers, Busy(worker[w])
  PROVE  LET j == worker[w].job
             f == jobs[j].file
         IN  /\ j \in Jobs /\ f \in Files /\ jobs[j].status = "running"
             /\ jobs[j].fp \in Nat /\ disk[f] \in Nat /\ jobs[j].fp <= disk[f]
             /\ worker[w].found = {} /\ Holds(worker[w], j)
             /\ \A v \in Workers \ {w} : Busy(worker[v]) => jobs[worker[v].job].file # f
<1>1. PICK j \in Jobs : j = worker[w].job /\ jobs[j].status = "running"
  BY DEF QueueInv, HoldInv, Tracks
<1>2. Active(jobs[j])
  BY <1>1 DEF Active, ActiveStatus
<1>3. jobs[j].file \in Files /\ jobs[j].fp \in Nat
  BY <1>2 DEF QueueInv, RowsInv, TypeInv, RowType
<1>4. disk[jobs[j].file] \in Nat /\ jobs[j].fp <= disk[jobs[j].file]
  BY <1>2, <1>3 DEF QueueInv, TypeInv, ContentInv
<1>5. worker[w].found = {}
  BY DEF QueueInv, HoldInv, Tracks, Busy
<1>6. ASSUME NEW v \in Workers \ {w}, Busy(worker[v])
      PROVE  jobs[worker[v].job].file # jobs[j].file
  <2>1. worker[v].job \in Jobs /\ Active(jobs[worker[v].job])
    BY <1>6 DEF QueueInv, HoldInv, Tracks, Active, ActiveStatus
  <2>2. worker[v].job # j
    BY <1>1, <1>6 DEF QueueInv, HoldInv, Holds
  <2>. QED  BY <1>2, <2>1, <2>2 DEF QueueInv, RowsInv
<1>. QED  BY <1>1, <1>3, <1>4, <1>5, <1>6 DEF Holds

LEMMA SubmitKeepsInv ==
  ASSUME QueueInv, OneRecovery, NEW w \in Workers, Submit(w)
  PROVE  QueueInv'
<1>1. PICK q \in WorkerType : q = worker[w]
  BY WorkerIs DEF QueueInv
<1>2. q.pc = "submitting" /\ Busy(q)
  BY <1>1 DEF Submit, Busy
<1>3. PICK f \in Files : f = jobs[q.job].file /\ disk[f] \in Nat /\ jobs[q.job].fp <= disk[f] /\ q.found = {}
  BY <1>1, <1>2, AtWork
<1>4. ASSUME NEW o \in Outcome, NEW n \in Nat, o = "ok" => n = disk[f],
             NEW r \in WorkerType, r = [q EXCEPT !.pc = "answered", !.content = n, !.outcome = o],
             worker' = [worker EXCEPT ![w] = r]
      PROVE  QueueInv'
  <2>1. r.pc = "answered" /\ r.content = n /\ r.outcome = o /\ r.job = q.job /\ r.found = {}
    BY <1>3, <1>4 DEF WorkerType
  <2>2. Knows(r)
    <3>1. r.outcome = "ok" => r.content >= jobs[r.job].fp
      BY <1>3, <1>4, <2>1
    <3>. QED  BY <2>1, <3>1 DEF Knows
  <2>. QED  BY <1>1, <1>2, <1>3, <1>4, <2>1, <2>2, LookKeepsInv DEF Submit
<1>5. ASSUME NEW o \in {"ok", "rejected"},
             worker' = [worker EXCEPT ![w].pc = "answered", ![w].content = disk[f], ![w].outcome = o]
      PROVE  QueueInv'
  <2>1. PICK n \in Nat : n = disk[f]
    BY <1>3
  <2>2. PICK r \in WorkerType : r = [q EXCEPT !.pc = "answered", !.content = n, !.outcome = o]
    BY DEF WorkerType, WorkerPC, Outcome
  <2>3. worker' = [worker EXCEPT ![w] = r]
    BY <1>1, <1>5, <2>1, <2>2, WorkerIs DEF QueueInv
  <2>4. o \in Outcome
    BY DEF Outcome
  <2>. QED  BY <1>4, <2>1, <2>2, <2>3, <2>4
<1>6. ASSUME NEW o \in {"notReady", "error"},
             worker' = [worker EXCEPT ![w].pc = "answered", ![w].outcome = o]
      PROVE  QueueInv'
  <2>1. PICK n \in Nat : n = q.content
    BY DEF WorkerType
  <2>2. PICK r \in WorkerType : r = [q EXCEPT !.pc = "answered", !.content = n, !.outcome = o]
    BY DEF WorkerType, WorkerPC, Outcome
  <2>3. worker' = [worker EXCEPT ![w] = r]
    BY <1>1, <1>6, <2>1, <2>2, WorkerIs DEF QueueInv, WorkerType
  <2>4. o \in Outcome /\ o # "ok"
    BY DEF Outcome
  <2>. QED  BY <1>4, <2>2, <2>3, <2>4
<1>. QED  BY <1>1, <1>3, <1>5, <1>6 DEF Submit

LEMMA ReadStateKeepsInv ==
  ASSUME QueueInv, OneRecovery, NEW w \in Workers, ReadState(w)
  PROVE  QueueInv'
<1>1. PICK q \in WorkerType : q = worker[w]
  BY WorkerIs DEF QueueInv
<1>2. q.pc = "answered" /\ Busy(q)
  BY <1>1 DEF ReadState, Busy
<1>3. PICK f \in Files : f = jobs[q.job].file /\ q.found = {}
  BY <1>1, <1>2, AtWork
<1>4. PICK s \in StateType : s = states[f]
  BY DEF QueueInv, TypeInv
<1>5. PICK r \in WorkerType : r = [q EXCEPT !.pc = "persisting", !.read = s]
  BY DEF WorkerType, WorkerPC
<1>6. worker' = [worker EXCEPT ![w] = r]
  BY <1>1, <1>3, <1>4, <1>5, WorkerIs DEF QueueInv, ReadState
<1>7. /\ r.pc = "persisting" /\ r.read = s /\ r.job = q.job /\ r.found = {}
      /\ r.content = q.content /\ r.outcome = q.outcome
  BY <1>3, <1>5 DEF WorkerType
<1>8. Knows(r)
  BY <1>1, <1>2, <1>3, <1>4, <1>7 DEF Knows, QueueInv, ContentInv
<1>. QED  BY <1>1, <1>2, <1>3, <1>6, <1>7, <1>8, LookKeepsInv DEF ReadState

LEMMA AfterJobRight ==
  ASSUME TypeInv, NEW w \in Workers
  PROVE  /\ AfterJob(w) \in WorkerType /\ ~ Busy(AfterJob(w))
         /\ AfterJob(w).pc # "claiming" /\ AfterJob(w).found = {}
<1>1. PICK n \in Int : n = worker[w].left - 1
  BY WorkerIs DEF WorkerType
<1>2. /\ [Idle EXCEPT !.pc = "recover", !.left = n] \in WorkerType
      /\ [Idle EXCEPT !.pc = "recover", !.left = n].pc = "recover"
      /\ [Idle EXCEPT !.pc = "recover", !.left = n].found = {}
  BY IdleRight DEF WorkerType, WorkerPC
<1>. QED  BY <1>1, <1>2, IdleRight DEF AfterJob, Busy

\* The result of a job is stored: its row and the state of its file.
LEMMA StoreKeepsInv ==
  ASSUME QueueInv, OneRecovery, NEW w \in Workers, worker[w].pc = "persisting",
         NEW j, j = worker[w].job, NEW f, f = jobs[j].file,
         NEW row \in RowType, row.file = f, row.fp = jobs[j].fp,
         NEW new \in StateType, Callers = {} /\ new.status = "completed" => new.label >= new.fp,
         Write([jobs EXCEPT ![j] = row]), stale' = stale \ {j},
         worker' = [worker EXCEPT ![w] = AfterJob(w)],
         states' = [states EXCEPT ![f] = Merged(@, worker[w].read, new)],
         corrections' \subseteq Files, UNCHANGED <<files, caller>>
  PROVE  QueueInv'
<1>1. Busy(worker[w])
  BY DEF Busy
<1>2. /\ j \in Jobs /\ f \in Files /\ worker[w].found = {} /\ Holds(worker[w], j)
      /\ \A v \in Workers \ {w} : Busy(worker[v]) => jobs[worker[v].job].file # f
  BY <1>1, AtWork
<1>3. jobs \in [Jobs -> RowType] /\ states \in [Files -> StateType] /\ worker[w].read \in StateType
  BY DEF QueueInv, TypeInv, WorkerType
<1>4. PICK r \in WorkerType : r = AfterJob(w) /\ ~ Busy(r) /\ r.pc # "claiming" /\ r.found = {}
  BY AfterJobRight DEF QueueInv
<1>5. PICK rows \in [Jobs -> RowType] : rows = [jobs EXCEPT ![j] = row]
  BY <1>2, <1>3
<1>6. \A i \in Jobs : \/ rows[i] = jobs[i]
                      \/ /\ Holds(worker[w], i) \/ i \in worker[w].found
                         /\ i \notin stale'
                         /\ rows[i].file = jobs[i].file /\ rows[i].fp = jobs[i].fp
  BY <1>2, <1>3, <1>5
<1>7. Moves(w, r) /\ RowsInv' /\ RowsAs /\ Knows(r)' /\ jobs' \in [Jobs -> RowType]
  BY <1>4, <1>5, <1>6, LetGo
<1>8. PICK m \in StateType : /\ m = Merged(states[f], worker[w].read, new)
                             /\ worker[w].read = states[f] => m = new
  BY <1>2, <1>3, MergedState
<1>9. states' \in [Files -> StateType] /\ states'[f] = m /\ \A g \in Files : g # f => states'[g] = states[g]
  BY <1>2, <1>3, <1>8
<1>10. StatesAs(w)
  <2>1. SUFFICES ASSUME Callers = {}, NEW g \in Files
                 PROVE  \/ states'[g] = states[g]
                        \/ /\ \A v \in Workers \ {w} : Busy(worker[v]) => jobs[worker[v].job].file # g
                           /\ states'[g].status = "completed" => states'[g].label >= states'[g].fp
    BY DEF StatesAs
  <2>2. worker[w].read = states[f]
    BY <2>1 DEF QueueInv, ContentInv, Knows
  <2>3. CASE g = f
    BY <1>2, <1>8, <1>9, <2>1, <2>2, <2>3
  <2>4. CASE g # f
    BY <1>9, <2>4
  <2>. QED  BY <2>3, <2>4
<1>. QED  BY <1>4, <1>7, <1>9, <1>10, MovesKeepInv

LEMMA CompletedKeepsInv ==
  ASSUME QueueInv, OneRecovery, NEW w \in Workers, PersistCompleted(w)
  PROVE  QueueInv'
<1>1. PICK q \in WorkerType : q = worker[w] /\ q.pc = "persisting" /\ q.outcome = "ok"
  BY WorkerIs DEF QueueInv, PersistCompleted
<1>2. PICK j \in Jobs : j = q.job /\ jobs[j].file \in Files /\ jobs[j].fp \in Nat
  BY <1>1, AtWork DEF Busy
<1>3. PICK f \in Files : f = jobs[j].file
  BY <1>2
<1>4. PICK old \in RowType : old = jobs[j]
  BY DEF QueueInv, TypeInv
<1>5. PICK row \in RowType : row = [jobs[j] EXCEPT !.status = "completed"] /\ row.file = f /\ row.fp = jobs[j].fp
  <2>1. PICK row \in RowType : row = [old EXCEPT !.status = "completed"]
    BY DEF RowType
  <2>2. row.file = old.file /\ row.fp = old.fp
    BY <2>1 DEF RowType
  <2>. QED  BY <1>3, <1>4, <2>1, <2>2
<1>6. [jobs EXCEPT ![j].status = "completed"] = [jobs EXCEPT ![j] = row]
  BY <1>2, <1>5 DEF QueueInv, TypeInv
<1>7. PICK c \in Nat : c = q.content
  BY DEF WorkerType
<1>8. PICK fp \in Nat : fp = jobs[j].fp
  BY <1>2
<1>9. PICK new \in StateType : new = [status |-> "completed", fp |-> fp, label |-> c]
  BY DEF StateType
<1>10. c >= fp
  BY <1>1, <1>2, <1>7, <1>8 DEF QueueInv, ContentInv, Knows
<1>11. new.label >= new.fp
  BY <1>9, <1>10
<1>12. states' = [states EXCEPT ![f] = Merged(@, worker[w].read, new)]
  BY <1>1, <1>2, <1>3, <1>7, <1>8, <1>9 DEF PersistCompleted, Fingerprint
<1>13. Write([jobs EXCEPT ![j] = row])
  BY <1>1, <1>2, <1>6 DEF PersistCompleted
<1>14. corrections' \subseteq Files
  BY DEF PersistCompleted, QueueInv, TypeInv
<1>15. /\ stale' = stale \ {j} /\ worker' = [worker EXCEPT ![w] = AfterJob(w)]
       /\ UNCHANGED <<files, caller>>
  BY <1>1, <1>2 DEF PersistCompleted
<1>. QED  BY <1>1, <1>2, <1>3, <1>5, <1>11, <1>12, <1>13, <1>14, <1>15, StoreKeepsInv

LEMMA FailedKeepsInv ==
  ASSUME QueueInv, OneRecovery, NEW w \in Workers, PersistFailed(w)
  PROVE  QueueInv'
<1>1. PICK q \in WorkerType : q = worker[w] /\ q.pc = "persisting"
  BY WorkerIs DEF QueueInv, PersistFailed
<1>2. PICK j \in Jobs : /\ j = q.job /\ jobs[j].file \in Files /\ jobs[j].fp \in Nat /\ q.found = {}
  BY <1>1, AtWork DEF Busy
<1>3. PICK f \in Files : f = jobs[j].file
  BY <1>2
<1>4. jobs[j] \in RowType /\ jobs \in [Jobs -> RowType]
  BY DEF QueueInv, TypeInv
<1>5. PICK n \in Nat : n = q.attempts + (IF Counts(q.outcome) THEN 1 ELSE 0)
  BY DEF WorkerType
<1>6. PICK status \in {"failed", "queued"} :
        status = IF q.outcome = "rejected" \/ Exhausted(n) THEN "failed" ELSE "queued"
  OBVIOUS
<1>7. PICK a \in Nat : a = IF Counts(q.outcome) THEN n ELSE jobs[j].attempts
  BY <1>4 DEF RowType
<1>8. PICK row \in RowType : /\ row = [jobs[j] EXCEPT !.status = status, !.attempts = a]
                             /\ row.file = f /\ row.fp = jobs[j].fp
  <2>1. PICK old \in RowType : old = jobs[j]
    BY <1>4
  <2>2. PICK row \in RowType : row = [old EXCEPT !.status = status, !.attempts = a]
    BY <1>6 DEF RowType
  <2>3. row.file = old.file /\ row.fp = old.fp
    BY <2>2 DEF RowType
  <2>. QED  BY <1>3, <2>1, <2>2, <2>3
<1>9. [jobs EXCEPT ![j].status = status, ![j].attempts = IF Counts(q.outcome) THEN n ELSE @]
        = [jobs EXCEPT ![j] = row]
  BY <1>4, <1>7, <1>8 DEF RowType
<1>10. PICK fp \in Nat, label \in Nat : fp = jobs[j].fp /\ label = q.read.label
  BY <1>2 DEF WorkerType, StateType
<1>11. PICK new \in StateType : new = [status |-> status, fp |-> fp, label |-> label] /\ new.status # "completed"
  <2>1. [status |-> status, fp |-> fp, label |-> label] \in StateType
    BY <1>6 DEF StateType
  <2>. QED  BY <1>6, <2>1
<1>12. corrections' \subseteq Files /\ UNCHANGED <<files, caller>>
  BY DEF PersistFailed, QueueInv, TypeInv
<1>13. ASSUME states' = [states EXCEPT ![f] = Merged(@, q.read, [status |-> status, fp |-> jobs[j].fp,
                                                              label |-> q.read.label])],
              worker' = [worker EXCEPT ![w] = AfterJob(w)],
              Write([jobs EXCEPT ![j].status = status, ![j].attempts = IF Counts(q.outcome) THEN n ELSE @]),
              stale' = stale \ {j}
       PROVE  QueueInv'
  <2>1. states' = [states EXCEPT ![f] = Merged(@, worker[w].read, new)]
    BY <1>1, <1>10, <1>11, <1>13
  <2>2. Write([jobs EXCEPT ![j] = row])
    BY <1>9, <1>13
  <2>3. worker[w].pc = "persisting" /\ j = worker[w].job /\ stale' = stale \ {j}
    BY <1>1, <1>2, <1>13
  <2>4. Callers = {} /\ new.status = "completed" => new.label >= new.fp
    BY <1>11
  <2>5. row.file = f /\ row.fp = jobs[j].fp /\ worker' = [worker EXCEPT ![w] = AfterJob(w)]
    BY <1>8, <1>13
  <2>. QED  BY <1>3, <1>12, <2>1, <2>2, <2>3, <2>4, <2>5, StoreKeepsInv
<1>14. ASSUME worker' = [worker EXCEPT ![w] = Idle], Write(jobs), UNCHANGED <<states, stale, corrections>>
       PROVE  QueueInv'
  <2>1. Moves(w, Idle) /\ RowsInv' /\ RowsAs /\ Knows(Idle)' /\ jobs' \in [Jobs -> RowType]
    BY <1>4, <1>14, IdleRight, LetGo
  <2>2. StatesAs(w) /\ states' \in [Files -> StateType]
    BY <1>14 DEF StatesAs, QueueInv, TypeInv
  <2>. QED  BY <1>12, <2>1, <2>2, IdleRight, MovesKeepInv
<1>15. \/ /\ states' = [states EXCEPT ![f] = Merged(@, q.read, [status |-> status, fp |-> jobs[j].fp,
                                                                label |-> q.read.label])]
          /\ worker' = [worker EXCEPT ![w] = AfterJob(w)]
          /\ Write([jobs EXCEPT ![j].status = status, ![j].attempts = IF Counts(q.outcome) THEN n ELSE @])
          /\ stale' = stale \ {j}
       \/ /\ worker' = [worker EXCEPT ![w] = Idle] /\ Write(jobs) /\ UNCHANGED <<states, stale, corrections>>
  BY <1>1, <1>2, <1>3, <1>5, <1>6 DEF PersistFailed
<1>. QED  BY <1>13, <1>14, <1>15

-----------------------------------------------------------------------------
(* Requests, files and time *)

\* The queue and its workers stay as they are.
LEMMA StillKeepsInv ==
  ASSUME QueueInv, UNCHANGED <<table, worker>>, TypeInv',
         \A f \in Files : seen'[f] <= disk'[f] /\ disk[f] <= disk'[f],
         Callers = {} => states' = states
  PROVE  QueueInv'
<1>1. jobs' = jobs /\ stale' = stale /\ worker' = worker
  BY DEF table
<1>2. RowsInv'
  BY <1>1, RowsUntouched DEF QueueInv
<1>3. HoldInv'
  BY <1>1 DEF QueueInv, HoldInv, Tracks, Loose, Holds, Busy
<1>4. ASSUME NEW j \in Jobs, Active(jobs[j])
      PROVE  jobs[j].fp <= disk'[jobs[j].file]
  <2>1. PICK f \in Files : f = jobs[j].file
    BY <1>4 DEF QueueInv, RowsInv
  <2>2. jobs[j].fp <= disk[f] /\ disk[f] <= disk'[f]
    BY <1>4, <2>1 DEF QueueInv, ContentInv
  <2>3. jobs[j].fp \in Nat /\ disk[f] \in Nat /\ disk'[f] \in Nat
    BY DEF QueueInv, TypeInv, RowType
  <2>. QED  BY <2>1, <2>2, <2>3
<1>5. ASSUME NEW v \in Workers
      PROVE  Knows(worker[v])'
  BY <1>1 DEF QueueInv, ContentInv, Knows
<1>. QED  BY <1>1, <1>2, <1>3, <1>4, <1>5 DEF QueueInv, ContentInv, Active

LEMMA RequestKeepsInv ==
  ASSUME QueueInv, NEW c \in Callers, Answer(c) \/ Store(c) \/ \E f \in Files : Ask(c, f)
  PROVE  QueueInv'
<1>1. TypeInv
  BY DEF QueueInv
<1>2. PICK q \in RequestType : q = caller[c]
  BY <1>1 DEF TypeInv
<1>3. NoRequest \in RequestType /\ NoRequest.pc = "idle"
  <2>1. NoState \in StateType
    BY DEF NoState, StateType
  <2>. QED  BY <2>1 DEF NoRequest, RequestType
<1>4. ASSUME NEW new \in RequestType, new.pc # "idle" => new.file \in Files,
             caller' = [caller EXCEPT ![c] = new], UNCHANGED <<files, table, worker>>,
             states' \in [Files -> StateType], corrections' \subseteq Files
      PROVE  TypeInv'
  BY <1>1, <1>4 DEF TypeInv, files, table
<1>5. states \in [Files -> StateType] /\ corrections \subseteq Files
  BY <1>1 DEF TypeInv
<1>6. ASSUME NEW f \in Files, Ask(c, f)
      PROVE  TypeInv'
  <2>1. PICK fp \in Nat, s \in StateType : fp = seen[f] /\ s = states[f]
    BY <1>1 DEF TypeInv
  <2>2. PICK new \in RequestType :
          new = [NoRequest EXCEPT !.pc = "asking", !.file = f, !.fp = fp, !.read = s] /\ new.file = f
    <3>1. PICK new : new = [NoRequest EXCEPT !.pc = "asking", !.file = f, !.fp = fp, !.read = s]
      OBVIOUS
    <3>2. new \in RequestType /\ new.file = f
      BY <1>3, <3>1 DEF RequestType
    <3>. QED  BY <3>1, <3>2
  <2>. QED  BY <1>4, <1>5, <1>6, <2>1, <2>2 DEF Ask
<1>7. ASSUME Answer(c)
      PROVE  TypeInv'
  <2>1. PICK f \in Files : f = q.file
    BY <1>1, <1>2, <1>7 DEF Answer, TypeInv
  <2>2. PICK n \in Nat : n = disk[f]
    BY <1>1 DEF TypeInv
  <2>3. PICK new \in RequestType : new = [q EXCEPT !.pc = "answered", !.content = n] /\ new.file = f
    <3>1. PICK new : new = [q EXCEPT !.pc = "answered", !.content = n]
      OBVIOUS
    <3>2. new \in RequestType /\ new.file = f
      BY <2>1, <3>1 DEF RequestType
    <3>. QED  BY <3>1, <3>2
  <2>4. CASE caller' = [caller EXCEPT ![c].pc = "answered", ![c].content = disk[f]]
    <3>1. caller' = [caller EXCEPT ![c] = new]
      BY <1>1, <1>2, <2>2, <2>3, <2>4 DEF TypeInv, RequestType
    <3>. QED  BY <1>4, <1>5, <1>7, <2>3, <3>1 DEF Answer
  <2>5. CASE caller' = [caller EXCEPT ![c] = NoRequest]
    BY <1>3, <1>4, <1>5, <1>7, <2>5 DEF Answer
  <2>. QED  BY <1>2, <1>7, <2>1, <2>4, <2>5 DEF Answer
<1>8. ASSUME Store(c)
      PROVE  TypeInv'
  <2>1. PICK f \in Files : f = q.file
    BY <1>1, <1>2, <1>8 DEF Store, TypeInv
  <2>2. PICK read \in StateType : read = IF q.read = NoState THEN states[f] ELSE q.read
    BY <1>5, <2>1 DEF RequestType
  <2>3. PICK new \in StateType : new = [status |-> "completed", fp |-> q.fp, label |-> q.content]
    BY DEF RequestType, StateType
  <2>4. Merged(states[f], read, new) \in StateType
    BY <1>5, MergedState
  <2>5. states' = [states EXCEPT ![f] = Merged(@, read, new)]
    BY <1>2, <1>8, <2>1, <2>2, <2>3 DEF Store
  <2>6. states' \in [Files -> StateType] /\ corrections' \subseteq Files
    BY <1>5, <1>8, <2>4, <2>5 DEF Store
  <2>. QED  BY <1>3, <1>4, <1>8, <2>6 DEF Store
<1>9. UNCHANGED <<files, table, worker>>
  BY DEF Answer, Store, Ask
<1>10. \A f \in Files : seen'[f] <= disk'[f] /\ disk[f] <= disk'[f]
  BY <1>1, <1>9 DEF QueueInv, ContentInv, TypeInv, files
<1>. QED  BY <1>6, <1>7, <1>8, <1>9, <1>10, StillKeepsInv

LEMMA FileKeepsInv ==
  ASSUME QueueInv, NEW f \in Files, EditFile(f) \/ IndexFile(f) \/ Correct(f)
  PROVE  QueueInv'
<1>1. disk \in [Files -> Nat] /\ seen \in [Files -> Nat] /\ \A g \in Files : seen[g] <= disk[g]
  BY DEF QueueInv, TypeInv, ContentInv
<1>2. /\ disk' \in [Files -> Nat] /\ seen' \in [Files -> Nat]
      /\ \A g \in Files : seen'[g] <= disk'[g] /\ disk[g] <= disk'[g]
  <2>1. CASE EditFile(f)
    <3>1. PICK n \in Nat : n = disk[f]
      BY <1>1
    <3>2. disk' = [disk EXCEPT ![f] = n + 1] /\ seen' = seen
      BY <2>1, <3>1 DEF EditFile
    <3>. QED  BY <1>1, <3>1, <3>2
  <2>2. CASE IndexFile(f)
    BY <1>1, <2>2 DEF IndexFile
  <2>3. CASE Correct(f)
    BY <1>1, <2>3 DEF Correct, files
  <2>. QED  BY <2>1, <2>2, <2>3
<1>3. UNCHANGED <<table, worker, states, caller>> /\ corrections' \subseteq Files
  BY DEF EditFile, IndexFile, Correct, QueueInv, TypeInv
<1>4. TypeInv'
  BY <1>2, <1>3 DEF QueueInv, TypeInv, table
<1>. QED  BY <1>2, <1>3, <1>4, StillKeepsInv

LEMMA AgesKeepsInv ==
  ASSUME QueueInv, ~ SlowWorkers, NEW j \in Jobs, HeartbeatAges(j)
  PROVE  QueueInv'
<1>1. /\ stale' = stale \cup {j} /\ Loose(j)
      /\ UNCHANGED <<files, jobs, states, corrections, worker, caller>>
  BY DEF HeartbeatAges, Loose, Holds
<1>2. TypeInv' /\ RowsInv'
  BY <1>1, RowsUntouched DEF QueueInv, TypeInv, files
<1>3. HoldInv'
  <2>1. stale' \subseteq Jobs /\ \A i \in stale' : Loose(i)
    BY <1>1 DEF QueueInv, HoldInv
  <2>2. \A w \in Workers : Tracks(worker[w])
    BY DEF QueueInv, HoldInv
  <2>3. \A v, w \in Workers : Busy(worker[v]) /\ Holds(worker[w], worker[v].job) => v = w
    BY DEF QueueInv, HoldInv
  <2>. QED  BY <1>1, <2>1, <2>2, <2>3 DEF HoldInv, Tracks, Loose, Holds, Busy
<1>4. ContentInv'
  BY <1>1 DEF QueueInv, ContentInv, Knows, Active, files
<1>. QED  BY <1>2, <1>3, <1>4 DEF QueueInv

-----------------------------------------------------------------------------
(* The invariant *)

LEMMA InitHasInv ==
  ASSUME Init
  PROVE  QueueInv
<1>1. 0 \in Nat /\ 1 \in Nat /\ 0 \in Int
  OBVIOUS
<1>2. NoState \in StateType /\ NoRow \in RowType /\ NoRequest \in RequestType
  BY <1>1 DEF NoState, StateType, NoRow, RowType, NoRequest, RequestType
<1>3. TypeInv
  BY <1>1, <1>2, IdleRight DEF Init, TypeInv, NoRequest
<1>4. \A j \in Jobs : ~ Active(jobs[j])
  BY DEF Init, NoRow, Active, ActiveStatus
<1>5. RowsInv
  BY <1>4 DEF RowsInv
<1>6. \A w \in Workers : worker[w] = Idle /\ ~ Busy(Idle) /\ Idle.found = {} /\ Idle.pc = "idle"
  BY IdleRight DEF Init
<1>7. HoldInv
  BY <1>6 DEF Init, HoldInv, Tracks
<1>8. \A w \in Workers : Knows(worker[w])
  BY <1>6 DEF Knows
<1>9. \A f \in Files : seen[f] <= disk[f] /\ states[f].status # "completed"
  BY <1>1 DEF Init, NoState
<1>10. ContentInv
  BY <1>4, <1>8, <1>9 DEF ContentInv
<1>. QED  BY <1>3, <1>5, <1>7, <1>10 DEF QueueInv

LEMMA WorkerKeepsInv ==
  ASSUME QueueInv, OneRecovery, NEW w \in Workers, WorkerStep(w) \/ WorkerCrash(w)
  PROVE  QueueInv'
BY BackfillKeepsInv, TargetedKeepsInv, RecoverReadKeepsInv, RecoverKeepsInv, SelectKeepsInv,
   ClaimKeepsInv, SubmitKeepsInv, ReadStateKeepsInv, CompletedKeepsInv, FailedKeepsInv,
   CrashKeepsInv DEF WorkerStep

LEMMA StepKeepsInv ==
  ASSUME QueueInv, OneRecovery, ~ SlowWorkers, [Next]_vars
  PROVE  QueueInv'
<1>1. CASE UNCHANGED vars
  <2>1. TypeInv'
    BY <1>1 DEF QueueInv, TypeInv, vars, files, table
  <2>2. \A f \in Files : seen'[f] <= disk'[f] /\ disk[f] <= disk'[f]
    BY <1>1 DEF QueueInv, TypeInv, ContentInv, vars, files
  <2>. QED  BY <1>1, <2>1, <2>2, StillKeepsInv DEF vars
<1>2. CASE \E w \in Workers : WorkerStep(w) \/ WorkerCrash(w)
  BY <1>2, WorkerKeepsInv
<1>3. CASE \E c \in Callers : Answer(c) \/ Store(c) \/ \E f \in Files : Ask(c, f)
  BY <1>3, RequestKeepsInv
<1>4. CASE \E f \in Files : EditFile(f) \/ IndexFile(f) \/ Correct(f)
  BY <1>4, FileKeepsInv
<1>5. CASE \E j \in Jobs : HeartbeatAges(j)
  BY <1>5, AgesKeepsInv
<1>. QED  BY <1>1, <1>2, <1>3, <1>4, <1>5 DEF Next

\* What is true of every state that workers faster than the lease can reach, as long as
\* their recoveries do not overlap.
THEOREM QueueInvariant ==
  ASSUME ~ SlowWorkers
  PROVE  Spec /\ []OneRecovery => []QueueInv
<1>1. QueueInv /\ OneRecovery /\ [Next]_vars => QueueInv'
  BY StepKeepsInv
<1>. QED  BY <1>1, InitHasInv, PTL DEF Spec

\* The claim of run_next_classification_job and the unique active row of a file keep two
\* workers from having the same file classified at the same time.
THEOREM FilesAreSubmittedOnce ==
  ASSUME ~ SlowWorkers
  PROVE  Spec /\ []OneRecovery => []OneSubmission
<1>1. QueueInv => OneSubmission
  BY AtWork DEF OneSubmission, Busy
<1>. QED  BY <1>1, QueueInvariant, PTL

\* Where nothing is classified on request, what counts as done was classified from the
\* content its fingerprint describes, or from a newer one.
THEOREM ResultsAreCurrent ==
  ASSUME ~ SlowWorkers, Callers = {}
  PROVE  Spec /\ []OneRecovery => []ResultsCurrent
<1>1. QueueInv => ResultsCurrent
  BY DEF QueueInv, ContentInv, ResultsCurrent, Done
<1>. QED  BY <1>1, QueueInvariant, PTL

-----------------------------------------------------------------------------
(* Files that are done *)

\* A row that is active after a table was written is the one that was written.
LEMMA ActiveAsWritten ==
  ASSUME NEW rows, Write(rows), NEW j \in Jobs, Active(jobs'[j])
  PROVE  jobs'[j] = rows[j]
<1>1. ~ Active(NoRow)
  BY DEF Active, ActiveStatus, NoRow
<1>. QED  BY <1>1 DEF Write

\* After its seeding a poll makes no row active, and stores states of files only that
\* have an active row.
LEMMA PollAddsNone ==
  ASSUME QueueInv, NEW w \in Workers, NEW f \in Files, ~ Pending(f),
         \/ RecoverRead(w) \/ RecoverCommit(w) \/ SelectNext(w) \/ ClaimCommit(w) \/ Submit(w)
         \/ ReadState(w) \/ PersistCompleted(w) \/ PersistFailed(w) \/ WorkerCrash(w)
  PROVE  states'[f] = states[f] /\ ~ Pending(f)'
<1>1. PICK q \in WorkerType : q = worker[w]
  BY WorkerIs DEF QueueInv
<1>2. jobs \in [Jobs -> RowType] /\ states \in [Files -> StateType]
  BY DEF QueueInv, TypeInv
<1>3. \A j \in Jobs : Active(jobs[j]) => jobs[j].file # f
  BY DEF Pending, Active
<1>4. SUFFICES /\ states'[f] = states[f]
               /\ \A j \in Jobs : Active(jobs'[j]) => jobs'[j].file # f
  BY DEF Pending, Active
<1>5. CASE RecoverRead(w) \/ SelectNext(w) \/ Submit(w) \/ ReadState(w)
  <2>1. jobs' = jobs /\ states' = states
    BY <1>5 DEF RecoverRead, SelectNext, Submit, ReadState, table
  <2>. QED  BY <1>3, <2>1
<1>6. CASE states' = states /\ Write(jobs)
  BY <1>3, <1>6, ActiveAsWritten
<1>7. CASE RecoverCommit(w)
  <2>1. ASSUME NEW rows, Write(rows),
               rows = [j \in Jobs |-> IF j \in q.found THEN [jobs[j] EXCEPT !.status = "queued"] ELSE jobs[j]],
               NEW j \in Jobs, Active(jobs'[j])
        PROVE  jobs'[j].file # f
    <3>1. jobs'[j] = rows[j]
      BY <2>1, ActiveAsWritten
    <3>2. jobs'[j].file = jobs[j].file
      BY <1>2, <2>1, <3>1 DEF RowType
    <3>3. j \in q.found => Active(jobs[j])
      BY <1>1 DEF QueueInv, HoldInv, Tracks, Loose, Active, ActiveStatus
    <3>. QED  BY <1>3, <2>1, <3>1, <3>2, <3>3
  <2>. QED  BY <1>1, <1>6, <1>7, <2>1 DEF RecoverCommit
<1>8. CASE ClaimCommit(w)
  <2>1. q.pc = "claiming" /\ q.job \in Jobs
    BY <1>1, <1>8 DEF ClaimCommit, QueueInv, HoldInv, Tracks
  <2>2. ASSUME jobs[q.job].status = "queued", NEW rows, Write(rows),
               rows = [jobs EXCEPT ![q.job].status = "running"], NEW j \in Jobs, Active(jobs'[j])
        PROVE  jobs'[j].file # f
    <3>1. jobs'[j] = rows[j]
      BY <2>2, ActiveAsWritten
    <3>2. jobs'[j].file = jobs[j].file
      BY <1>2, <2>1, <2>2, <3>1 DEF RowType
    <3>3. Active(jobs[j])
      BY <1>2, <2>1, <2>2, <3>1 DEF Active, ActiveStatus
    <3>. QED  BY <1>3, <3>2, <3>3
  <2>. QED  BY <1>1, <1>6, <1>8, <2>2 DEF ClaimCommit, Unclaimed
<1>9. ASSUME q.pc = "persisting", NEW j, j = q.job, NEW rows, Write(rows),
             \A i \in Jobs : i # j => rows[i] = jobs[i], rows[j].file = jobs[j].file,
             NEW new, states' = [states EXCEPT ![jobs[j].file] = new]
      PROVE  /\ states'[f] = states[f]
             /\ \A i \in Jobs : Active(jobs'[i]) => jobs'[i].file # f
  <2>1. j \in Jobs /\ jobs[j].file \in Files /\ Active(jobs[j])
    BY <1>1, <1>9, AtWork DEF Busy, Active, ActiveStatus
  <2>2. jobs[j].file # f
    BY <1>3, <2>1
  <2>3. states'[f] = states[f]
    BY <1>2, <1>9, <2>2
  <2>4. ASSUME NEW i \in Jobs, Active(jobs'[i])
        PROVE  jobs'[i].file # f
    BY <1>3, <1>9, <2>2, <2>4, ActiveAsWritten
  <2>. QED  BY <2>3, <2>4
<1>10. q.pc = "persisting" => q.job \in Jobs
  BY <1>1, AtWork DEF Busy
<1>11. CASE PersistCompleted(w)
  <2>1. PICK j \in Jobs : j = q.job /\ q.pc = "persisting"
    BY <1>1, <1>10, <1>11 DEF PersistCompleted
  <2>2. PICK rows : rows = [jobs EXCEPT ![j].status = "completed"]
    OBVIOUS
  <2>3. (\A i \in Jobs : i # j => rows[i] = jobs[i]) /\ rows[j].file = jobs[j].file
    BY <1>2, <2>2 DEF RowType
  <2>4. Write(rows) /\ \E new : states' = [states EXCEPT ![jobs[j].file] = new]
    BY <1>1, <1>11, <2>1, <2>2 DEF PersistCompleted
  <2>. QED  BY <1>9, <2>1, <2>3, <2>4
<1>12. CASE PersistFailed(w)
  <2>1. PICK j \in Jobs : j = q.job /\ q.pc = "persisting"
    BY <1>1, <1>10, <1>12 DEF PersistFailed
  <2>2. ASSUME NEW status, NEW n, Write([jobs EXCEPT ![j].status = status, ![j].attempts = n]),
               \E new : states' = [states EXCEPT ![jobs[j].file] = new]
        PROVE  /\ states'[f] = states[f]
               /\ \A i \in Jobs : Active(jobs'[i]) => jobs'[i].file # f
    <3>1. PICK rows : rows = [jobs EXCEPT ![j].status = status, ![j].attempts = n]
      OBVIOUS
    <3>2. (\A i \in Jobs : i # j => rows[i] = jobs[i]) /\ rows[j].file = jobs[j].file
      BY <1>2, <3>1 DEF RowType
    <3>. QED  BY <1>9, <2>1, <2>2, <3>1, <3>2
  <2>. QED  BY <1>1, <1>6, <1>12, <2>1, <2>2 DEF PersistFailed
<1>13. CASE WorkerCrash(w)
  BY <1>6, <1>13 DEF WorkerCrash
<1>. QED  BY <1>5, <1>7, <1>8, <1>11, <1>12, <1>13

\* Files that are put into the queue are not those that are done.
LEMMA SeedSparesDone ==
  ASSUME NEW S \in SUBSET Files, QueuesAs(S), NEW f \in Files, f \notin S, ~ Pending(f)
  PROVE  states'[f] = states[f] /\ ~ Pending(f)'
<1>1. \A j \in Jobs : Active(jobs'[j]) => jobs'[j].file # f
  BY DEF QueuesAs, Pending, Active
<1>. QED  BY <1>1 DEF QueuesAs, Pending, Active

\* Where nothing is classified on request, a file whose classification is complete stays so
\* until it changes, its label is corrected or it is a message: no poll queues it or writes
\* its state.
THEOREM DoneIsKept ==
  ASSUME ~ SlowWorkers, Callers = {}
  PROVE  Spec /\ []OneRecovery => DoneStaysDone
<1>. DEFINE A == \A f \in Files \ (Unlabelled \cup corrections) :
                   Done(f) /\ seen'[f] = seen[f] => Done(f)'
<1>1. QueueInv /\ OneRecovery /\ [Next]_vars => [A]_vars
  <2>. SUFFICES ASSUME QueueInv, OneRecovery, Next,
                       NEW f \in Files \ (Unlabelled \cup corrections), Done(f), seen'[f] = seen[f]
                PROVE  Done(f)'
    OBVIOUS
  <2>1. ~ Pending(f) /\ states[f].status = "completed" /\ states[f].fp = seen[f]
    BY DEF Done
  <2>2. SUFFICES states'[f] = states[f] /\ ~ Pending(f)'
    BY <2>1 DEF Done
  <2>3. ASSUME NEW w \in Workers, Backfill(w)
        PROVE  states'[f] = states[f] /\ ~ Pending(f)'
    <3>1. PICK S \in SUBSET Files : QueuesAs(S) /\ \A g \in S : ~ UpToDate(g)
      BY <2>3, Backfilled DEF QueueInv
    <3>2. f \notin S
      BY <2>1, <3>1 DEF UpToDate
    <3>. QED  BY <2>1, <3>1, <3>2, SeedSparesDone
  <2>4. ASSUME NEW w \in Workers, TargetedRequeue(w)
        PROVE  states'[f] = states[f] /\ ~ Pending(f)'
    <3>1. PICK S \in SUBSET Files : QueuesAs(S) /\ \A g \in S : g \in corrections \cup Unlabelled
      BY <2>4, Requeued DEF QueueInv
    <3>. QED  BY <2>1, <3>1, SeedSparesDone
  <2>5. CASE \E w \in Workers : WorkerStep(w) \/ WorkerCrash(w)
    BY <2>1, <2>3, <2>4, <2>5, PollAddsNone DEF WorkerStep
  <2>6. CASE jobs' = jobs /\ states' = states
    BY <2>1, <2>6 DEF Pending
  <2>7. CASE \E g \in Files : EditFile(g) \/ IndexFile(g) \/ Correct(g)
    BY <2>6, <2>7 DEF EditFile, IndexFile, Correct, table
  <2>8. CASE \E j \in Jobs : HeartbeatAges(j)
    BY <2>6, <2>8 DEF HeartbeatAges
  <2>. QED  BY <2>5, <2>7, <2>8 DEF Next
<1>2. Spec /\ []OneRecovery => [][A]_vars
  BY <1>1, QueueInvariant, PTL DEF Spec
<1>. QED  BY <1>2 DEF DoneStaysDone

-----------------------------------------------------------------------------
(* When recoveries do not overlap *)

Counters == [faults : Nat, crashes : Nat, calls : Nat, corrections : Nat]

LEMMA CountersStep ==
  ASSUME spent \in Counters, [Next]_vars
  PROVE  spent' \in Counters
<1>1. CASE spent' = spent
  BY <1>1
<1>2. CASE spent' = [spent EXCEPT !.faults = @ + 1]
  BY <1>2 DEF Counters
<1>3. CASE spent' = [spent EXCEPT !.crashes = @ + 1]
  BY <1>3 DEF Counters
<1>4. CASE spent' = [spent EXCEPT !.calls = @ + 1]
  BY <1>4 DEF Counters
<1>5. CASE spent' = [spent EXCEPT !.corrections = @ + 1]
  BY <1>5 DEF Counters
<1>6. CASE Next
  BY <1>1, <1>2, <1>3, <1>4, <1>5, <1>6
     DEF Next, WorkerStep, Backfill, TargetedRequeue, RecoverRead, RecoverCommit, SelectNext,
         ClaimCommit, Submit, ReadState, PersistCompleted, PersistFailed, WorkerCrash, Ask,
         Answer, Store, EditFile, IndexFile, Correct, HeartbeatAges
<1>. QED  BY <1>1, <1>6 DEF vars

\* As long as no worker dies, whatever is running is held, and nothing is stale.
AllHeld ==
  /\ stale = {} /\ \A w \in Workers : worker[w].pc # "recovering"
  /\ \A j \in Jobs : jobs[j].status = "running" => \E w \in Workers : Holds(worker[w], j)

LEMMA HeldMeansApart ==
  ASSUME QueueInv, AllHeld
  PROVE  OneRecovery
BY DEF QueueInv, HoldInv, Tracks, AllHeld, OneRecovery

\* A step of w that lets no row run that it does not hold.
LEMMA HeldStep ==
  ASSUME QueueInv, AllHeld, NEW w \in Workers, NEW r, worker' = [worker EXCEPT ![w] = r],
         r.pc # "recovering", stale' = {},
         \A j \in Jobs : jobs'[j].status = "running" =>
           \/ Holds(r, j)
           \/ jobs[j].status = "running" /\ ~ Holds(worker[w], j)
  PROVE  AllHeld'
<1>1. worker'[w] = r /\ \A v \in Workers : v # w => worker'[v] = worker[v]
  BY DEF QueueInv, TypeInv
<1>2. ASSUME NEW j \in Jobs, jobs'[j].status = "running"
      PROVE  \E v \in Workers : Holds(worker'[v], j)
  <2>1. CASE Holds(r, j)
    BY <1>1, <2>1
  <2>2. CASE jobs[j].status = "running" /\ ~ Holds(worker[w], j)
    BY <1>1, <2>2 DEF AllHeld
  <2>. QED  BY <1>2, <2>1, <2>2
<1>3. \A v \in Workers : worker'[v].pc # "recovering"
  BY <1>1 DEF AllHeld
<1>. QED  BY <1>2, <1>3 DEF AllHeld, Holds, Busy

\* A row that runs after a table was written is the one that was written.
LEMMA RunningAsWritten ==
  ASSUME NEW rows, Write(rows), NEW j \in Jobs, jobs'[j].status = "running"
  PROVE  jobs'[j] = rows[j]
BY ActiveAsWritten DEF Active, ActiveStatus

LEMMA PollKeepsHeld ==
  ASSUME QueueInv, AllHeld, NEW w \in Workers, WorkerStep(w)
  PROVE  AllHeld'
<1>1. PICK q \in WorkerType : q = worker[w]
  BY WorkerIs DEF QueueInv
<1>2. jobs \in [Jobs -> RowType] /\ worker \in [Workers -> WorkerType]
  BY DEF QueueInv, TypeInv
<1>3. q.pc # "recovering" /\ stale = {}
  BY <1>1 DEF AllHeld
<1>4. ASSUME NEW r, worker' = [worker EXCEPT ![w] = r], r.pc # "recovering", stale' = stale,
             Busy(q) => Busy(r) /\ r.job = q.job,
             \A j \in Jobs : jobs'[j].status = "running" => jobs[j].status = "running"
      PROVE  AllHeld'
  <2>1. \A j \in Jobs : Holds(q, j) => Holds(r, j)
    BY <1>4 DEF Holds
  <2>. QED  BY <1>1, <1>3, <1>4, <2>1, HeldStep
<1>5. ASSUME NEW S \in SUBSET Files, QueuesAs(S)
      PROVE  stale' = stale /\ \A j \in Jobs : jobs'[j].status = "running" => jobs[j].status = "running"
  <2>1. ASSUME NEW j \in Jobs, jobs'[j].status = "running"
        PROVE  jobs[j].status = "running"
    <3>1. jobs'[j] = jobs[j]
      BY <1>5, <2>1 DEF QueuesAs
    <3>. QED  BY <2>1, <3>1
  <2>. QED  BY <1>5, <2>1 DEF QueuesAs
<1>6. CASE Backfill(w)
  <2>1. PICK r : r = [q EXCEPT !.pc = "requeue"]
    OBVIOUS
  <2>2. worker' = [worker EXCEPT ![w] = r] /\ r.pc = "requeue" /\ ~ Busy(q)
    BY <1>1, <1>2, <1>6, <2>1 DEF Backfill, WorkerType, Busy
  <2>3. \E S \in SUBSET Files : QueuesAs(S)
    BY <1>6, Backfilled DEF QueueInv
  <2>. QED  BY <1>4, <1>5, <2>2, <2>3
<1>7. CASE TargetedRequeue(w)
  <2>1. PICK r : r = [q EXCEPT !.pc = "recover", !.left = Concurrency]
    OBVIOUS
  <2>2. worker' = [worker EXCEPT ![w] = r] /\ r.pc = "recover" /\ ~ Busy(q)
    BY <1>1, <1>2, <1>7, <2>1 DEF TargetedRequeue, WorkerType, Busy
  <2>3. \E S \in SUBSET Files : QueuesAs(S)
    BY <1>7, Requeued DEF QueueInv
  <2>. QED  BY <1>4, <1>5, <2>2, <2>3
<1>8. CASE RecoverRead(w)
  <2>1. PICK r : r = [q EXCEPT !.pc = "select", !.found = {}]
    OBVIOUS
  <2>2. worker' = [worker EXCEPT ![w] = r] /\ r.pc = "select" /\ ~ Busy(q)
    BY <1>1, <1>2, <1>3, <1>8, <2>1 DEF RecoverRead, WorkerType, Busy
  <2>. QED  BY <1>4, <1>8, <2>2 DEF RecoverRead, table
<1>9. CASE RecoverCommit(w)
  BY <1>1, <1>3, <1>9 DEF RecoverCommit
<1>10. CASE SelectNext(w)
  <2>1. q.pc = "select" /\ ~ Busy(q) /\ UNCHANGED table
    BY <1>1, <1>10 DEF SelectNext, Busy
  <2>2. ASSUME NEW j, worker' = [worker EXCEPT ![w].pc = "claiming", ![w].job = j,
                                               ![w].attempts = jobs[j].attempts]
        PROVE  AllHeld'
    <3>1. PICK r : r = [q EXCEPT !.pc = "claiming", !.job = j, !.attempts = jobs[j].attempts]
      OBVIOUS
    <3>2. worker' = [worker EXCEPT ![w] = r] /\ r.pc = "claiming"
      BY <1>1, <1>2, <2>2, <3>1 DEF WorkerType
    <3>. QED  BY <1>4, <2>1, <3>2 DEF table
  <2>3. CASE worker' = [worker EXCEPT ![w] = Idle]
    BY <1>4, <2>1, <2>3, IdleRight DEF table
  <2>. QED  BY <1>10, <2>2, <2>3 DEF SelectNext
<1>11. CASE ClaimCommit(w)
  <2>1. q.pc = "claiming" /\ q.job \in Jobs /\ ~ Busy(q)
    BY <1>1, <1>11 DEF ClaimCommit, QueueInv, HoldInv, Tracks, Busy
  <2>2. ASSUME worker' = [worker EXCEPT ![w].pc = "submitting"], stale' = stale \ {q.job},
               NEW rows, Write(rows), rows = [jobs EXCEPT ![q.job].status = "running"]
        PROVE  AllHeld'
    <3>1. PICK r : r = [q EXCEPT !.pc = "submitting"]
      OBVIOUS
    <3>2. worker' = [worker EXCEPT ![w] = r] /\ r.pc = "submitting" /\ r.job = q.job
      BY <1>1, <1>2, <2>2, <3>1 DEF WorkerType
    <3>3. ASSUME NEW j \in Jobs, jobs'[j].status = "running", j # q.job
          PROVE  jobs[j].status = "running"
      <4>1. jobs'[j] = rows[j]
        BY <2>2, <3>3, RunningAsWritten
      <4>2. rows[j] = jobs[j]
        BY <1>2, <2>2, <3>3
      <4>. QED  BY <3>3, <4>1, <4>2
    <3>4. Holds(r, q.job) /\ \A j \in Jobs : ~ Holds(q, j)
      BY <2>1, <3>2 DEF Holds, Busy
    <3>. QED  BY <1>1, <1>3, <2>2, <3>2, <3>3, <3>4, HeldStep
  <2>3. CASE worker' = [worker EXCEPT ![w] = Idle] /\ Write(jobs) /\ UNCHANGED stale
    <3>1. \A j \in Jobs : jobs'[j].status = "running" => jobs[j].status = "running"
      BY <2>3, RunningAsWritten
    <3>. QED  BY <1>4, <2>1, <2>3, <3>1, IdleRight
  <2>. QED  BY <1>1, <1>11, <2>2, <2>3 DEF ClaimCommit
<1>12. CASE Submit(w)
  <2>1. UNCHANGED table /\ Busy(q)
    BY <1>1, <1>12 DEF Submit, Busy
  <2>2. ASSUME NEW n, NEW o, worker' = [worker EXCEPT ![w] = [q EXCEPT !.pc = "answered", !.content = n, !.outcome = o]]
        PROVE  AllHeld'
    <3>1. PICK r : r = [q EXCEPT !.pc = "answered", !.content = n, !.outcome = o]
      OBVIOUS
    <3>2. r.pc = "answered" /\ r.job = q.job
      BY <3>1 DEF WorkerType
    <3>. QED  BY <1>4, <2>1, <2>2, <3>1, <3>2 DEF table, Busy
  <2>3. ASSUME NEW n, NEW o, worker' = [worker EXCEPT ![w].pc = "answered", ![w].content = n, ![w].outcome = o]
        PROVE  AllHeld'
    BY <1>1, <1>2, <2>2, <2>3 DEF WorkerType
  <2>4. ASSUME NEW o, worker' = [worker EXCEPT ![w].pc = "answered", ![w].outcome = o]
        PROVE  AllHeld'
    <3>1. [q EXCEPT !.pc = "answered", !.outcome = o] = [q EXCEPT !.pc = "answered", !.content = q.content, !.outcome = o]
      BY DEF WorkerType
    <3>2. worker' = [worker EXCEPT ![w] = [q EXCEPT !.pc = "answered", !.outcome = o]]
      BY <1>1, <1>2, <2>4
    <3>. QED  BY <2>2, <3>1, <3>2
  <2>. QED  BY <1>12, <2>3, <2>4 DEF Submit
<1>13. CASE ReadState(w)
  <2>1. PICK s : worker' = [worker EXCEPT ![w].pc = "persisting", ![w].read = s]
    BY <1>13 DEF ReadState
  <2>2. PICK r : r = [q EXCEPT !.pc = "persisting", !.read = s]
    OBVIOUS
  <2>3. worker' = [worker EXCEPT ![w] = r] /\ r.pc = "persisting" /\ r.job = q.job
    BY <1>1, <1>2, <2>1, <2>2 DEF WorkerType
  <2>. QED  BY <1>4, <1>13, <2>3 DEF ReadState, table, Busy
<1>14. ASSUME q.pc = "persisting", NEW rows, Write(rows),
              \A i \in Jobs : i # q.job => rows[i] = jobs[i], rows[q.job].status # "running",
              worker' = [worker EXCEPT ![w] = AfterJob(w)], stale' = stale \ {q.job}
       PROVE  AllHeld'
  <2>1. AfterJob(w).pc # "recovering"
    BY DEF AfterJob, Idle
  <2>2. ASSUME NEW j \in Jobs, jobs'[j].status = "running"
        PROVE  jobs[j].status = "running" /\ ~ Holds(q, j)
    BY <1>14, <2>2, RunningAsWritten DEF Holds
  <2>. QED  BY <1>1, <1>3, <1>14, <2>1, <2>2, HeldStep
<1>15. q.pc = "persisting" =>
         /\ q.job \in Jobs /\ jobs[q.job].status = "running"
         /\ \A i \in Jobs : Active(jobs[i]) /\ jobs[i].file = jobs[q.job].file => i = q.job
  BY <1>1, AtWork DEF Busy, QueueInv, RowsInv, Active, ActiveStatus
<1>16. CASE PersistCompleted(w)
  <2>1. q.pc = "persisting" /\ q.job \in Jobs
    BY <1>1, <1>15, <1>16 DEF PersistCompleted
  <2>2. PICK rows : rows = [jobs EXCEPT ![q.job].status = "completed"]
    OBVIOUS
  <2>3. (\A i \in Jobs : i # q.job => rows[i] = jobs[i]) /\ rows[q.job].status = "completed"
    BY <1>2, <2>1, <2>2 DEF RowType
  <2>. QED  BY <1>1, <1>14, <1>16, <2>1, <2>2, <2>3 DEF PersistCompleted
<1>17. CASE PersistFailed(w)
  <2>1. q.pc = "persisting" /\ q.job \in Jobs
    BY <1>1, <1>15, <1>17 DEF PersistFailed
  <2>2. PICK status \in {"failed", "queued"} : \E n :
          LET rows == [jobs EXCEPT ![q.job].status = status, ![q.job].attempts = n]
          IN  \/ /\ Write(rows) /\ stale' = stale \ {q.job}
                 /\ worker' = [worker EXCEPT ![w] = AfterJob(w)]
              \/ Refused(rows)
    BY <1>1, <1>17 DEF PersistFailed
  <2>3. PICK rows : /\ \E n : rows = [jobs EXCEPT ![q.job].status = status, ![q.job].attempts = n]
                    /\ \/ /\ Write(rows) /\ stale' = stale \ {q.job}
                          /\ worker' = [worker EXCEPT ![w] = AfterJob(w)]
                       \/ Refused(rows)
    BY <2>2
  <2>4. /\ \A i \in Jobs : i # q.job => rows[i] = jobs[i]
        /\ rows[q.job].status # "running" /\ rows[q.job].file = jobs[q.job].file
    BY <1>2, <2>1, <2>3 DEF RowType
  <2>5. ~ Refused(rows)
    <3>1. SUFFICES ASSUME NEW i \in Jobs, NEW k \in Jobs, i # k, rows[i].file = rows[k].file,
                          Active(rows[i]), Active(rows[k])
                   PROVE  FALSE
      BY DEF Refused, Active
    <3>2. \A a \in Jobs : Active(rows[a]) => Active(jobs[a]) /\ rows[a].file = jobs[a].file
      BY <1>15, <2>1, <2>4 DEF Active, ActiveStatus
    <3>. QED  BY <3>1, <3>2 DEF QueueInv, RowsInv
  <2>. QED  BY <1>14, <2>1, <2>3, <2>4, <2>5
<1>. QED  BY <1>6, <1>7, <1>8, <1>9, <1>10, <1>11, <1>12, <1>13, <1>16, <1>17 DEF WorkerStep

LEMMA NextKeepsHeld ==
  ASSUME QueueInv, AllHeld, ~ SlowWorkers, MaxCrashes = 0, spent \in Counters, [Next]_vars
  PROVE  AllHeld'
<1>1. CASE jobs' = jobs /\ stale' = stale /\ worker' = worker
  BY <1>1 DEF AllHeld, Holds, Busy
<1>2. ASSUME NEW w \in Workers
      PROVE  ~ WorkerCrash(w)
  <2>1. spent.crashes \in Nat
    BY DEF Counters
  <2>. QED  BY <2>1 DEF WorkerCrash
<1>3. CASE \E w \in Workers : WorkerStep(w) \/ WorkerCrash(w)
  BY <1>2, <1>3, PollKeepsHeld
<1>4. CASE \E c \in Callers : Answer(c) \/ Store(c) \/ \E f \in Files : Ask(c, f)
  BY <1>1, <1>4 DEF Answer, Store, Ask, table
<1>5. CASE \E f \in Files : EditFile(f) \/ IndexFile(f) \/ Correct(f)
  BY <1>1, <1>5 DEF EditFile, IndexFile, Correct, table
<1>6. ASSUME NEW j \in Jobs
      PROVE  ~ HeartbeatAges(j)
  BY DEF HeartbeatAges, AllHeld, Holds
<1>. QED  BY <1>1, <1>3, <1>4, <1>5, <1>6 DEF Next, vars, table

\* The hypothesis of the theorems above holds where one worker polls, and where none dies:
\* a row is found stale only after its worker has died.
THEOREM RecoveriesApart ==
  ASSUME ~ SlowWorkers, MaxCrashes = 0 \/ \A v, w \in Workers : v = w
  PROVE  Spec => []OneRecovery
<1>1. CASE \A v, w \in Workers : v = w
  <2>1. OneRecovery
    BY <1>1 DEF OneRecovery
  <2>. QED  BY <2>1, PTL
<1>2. CASE MaxCrashes = 0
  <2>. DEFINE I == QueueInv /\ AllHeld /\ spent \in Counters
  <2>1. Init => I
    <3>1. SUFFICES ASSUME Init PROVE I
      OBVIOUS
    <3>2. AllHeld
      BY <3>1, IdleRight DEF Init, AllHeld, NoRow
    <3>3. spent \in Counters
      BY <3>1 DEF Init, Counters
    <3>. QED  BY <3>1, <3>2, <3>3, InitHasInv
  <2>2. I /\ [Next]_vars => I'
    BY <1>2, HeldMeansApart, StepKeepsInv, NextKeepsHeld, CountersStep
  <2>3. I => OneRecovery
    BY HeldMeansApart
  <2>. QED  BY <2>1, <2>2, <2>3, PTL DEF Spec
<1>. QED  BY <1>1, <1>2
=============================================================================
