-------------------------- MODULE ChangeSets_proofs --------------------------
(***************************************************************************)
(* Proofs about ChangeSets, for any number of paths, copies, change sets,  *)
(* requests and faults, and for groups of any files: payloads of one change *)
(* set are told apart by their file name alone, and what depends on names  *)
(* that differ says so.                                                    *)
(***************************************************************************)
EXTENDS ChangeSets, SequenceTheorems, TLAPS

-----------------------------------------------------------------------------
(* The invariant *)

\* In what order an operation does its steps: x before y.
Precedes(op, x, y) ==
  \/ op # "dedupe" /\ x[1] = "move" /\ y[1] = "record"
  \/ op = "delete" /\ x[1] = "record" /\ y[1] = "mark"
  \/ op = "dedupe" /\ x[1] = "record" /\ y[1] \in {"move", "mark"}
  \/ x[1] # "commit" /\ y[1] = "commit"

Same(x, y) == x[1] = y[1] /\ x[1] \in {"record", "commit"}

StepsOf == [delete  |-> {"move", "record", "mark", "commit"},
            dedupe  |-> {"move", "record", "mark", "commit"},
            import  |-> {"move", "record"},
            restore |-> {"move", "record", "mark", "hash", "commit"}]

\* There is one record and one commit, and all come in that order.
InOrder(op, plan) ==
  \A i, k \in DOMAIN plan :
    /\ Same(plan[i], plan[k]) => i = k
    /\ Precedes(op, plan[i], plan[k]) => i < k

\* No step comes twice, and each file is moved before its note is marked.
Distinct(plan) ==
  \A i, k \in DOMAIN plan :
    /\ plan[i] = plan[k] => i = k
    /\ plan[i][1] = "move" /\ plan[k] = <<"mark", plan[i][2]>> => i < k

\* The note of every file that is moved is marked later.
MarksFollow(plan) ==
  \A i \in DOMAIN plan : plan[i][1] = "move" =>
    \E k \in DOMAIN plan : i < k /\ plan[k] = <<"mark", plan[i][2]>>

\* The note of p is marked after p was moved.
MovesLead(plan, p) ==
  \A k \in DOMAIN plan : plan[k] = <<"mark", p>> =>
    \E i \in DOMAIN plan : i < k /\ plan[i] = <<"move", p>>

\* What a request has left to do.
Todo(q)       == Range(q.plan)
Recording(q)  == \E p \in Paths : <<"record", p>> \in Todo(q)
Moving(q, p)  == <<"move", p>> \in Todo(q)
Marking(q, p) == <<"mark", p>> \in Todo(q)

Takes(q) == q.op \in {"delete", "dedupe", "import"}
Ops      == {"delete", "dedupe", "import", "restore"}

RequestShape(q) ==
  /\ q.op \in Ops /\ q.id \in Ids
  /\ q.items \in Seq(Paths) /\ q.items # <<>>
  /\ q.plan \in Seq(Steps) /\ InOrder(q.op, q.plan)
  /\ Apart(q.items) => Distinct(q.plan)
  /\ \A x \in Todo(q) : x[1] \in StepsOf[q.op] /\ x[2] \in Range(q.items)
  /\ q.op \in {"delete", "import"} => Len(q.items) = 1
  /\ q.op # "dedupe" /\ (\E p \in Paths : Moving(q, p)) => Recording(q)
  /\ q.op \in {"delete", "dedupe"} =>
       MarksFollow(q.plan) /\ \A p \in Range(q.items) : p \notin Internal
  /\ q.op = "import" => \A p \in Range(q.items) : p \in Internal

RecordShape(c) ==
  \/ c = NoRecord
  \/ /\ c.status \in {"deleted", "moved", "imported", "restored"}
     /\ c.items \in Seq(Paths) /\ c.items # <<>>
     /\ c.list \in BOOLEAN
     /\ c.list \/ Len(c.items) = 1

TypeInv ==
  /\ TypeOK
  /\ \A id \in Ids : RecordShape(record[id])
  /\ \A r \in Requests : request[r] = Idle \/ RequestShape(request[r])

\* A change set nobody has made yet has left no trace.
Untouched(id) ==
  /\ \A s \in Places : backup[id][s] = None
  /\ record[id] = NoRecord /\ row[id] = "none"

\* A payload whose origin the record does not name: its request will write
\* the record, or has died.
Unlisted(id) ==
  /\ record[id].status = "none"
  /\ fate[id] = "crashed" \/ \E r \in Requests : request[r].id = id /\ Recording(request[r])

Contents(id) ==
  \A s \in Places : backup[id][s] # None =>
    \/ \E p \in Range(record[id].items) : Slot[p] = s /\ taken[id][p] = backup[id][s]
    \/ Unlisted(id)

IdRight(id) ==
  /\ fate[id] = "unused" => Untouched(id)
  /\ fate[id] = "returned" /\ record[id].status # "imported"
       => record[id].items # <<>> /\ (Apart(record[id].items) => Restorable(id))
  /\ Contents(id)

\* A request that takes files has its change set for itself.
TakeRight(r) ==
  LET q == request[r] IN
  /\ fate[q.id] = "issued" /\ row[q.id] = "none"
  /\ \A o \in Requests : request[o].id = q.id => o = r
  /\ Apart(q.items) => \A p \in Range(q.items) :
       IF Moving(q, p)
       THEN backup[q.id][Slot[p]] = None
       ELSE backup[q.id][Slot[p]] = taken[q.id][p] /\ taken[q.id][p] # None
  /\ \A s \in Places : backup[q.id][s] # None =>
       \E p \in Range(q.items) : Slot[p] = s /\ taken[q.id][p] = backup[q.id][s]
  /\ q.op # "dedupe" /\ (\E p \in Paths : Moving(q, p)) =>
       \A s \in Places : backup[q.id][s] = None
  /\ IF Recording(q)
     THEN record[q.id] = NoRecord
     ELSE record[q.id] = [status |-> Ends[q.op], items |-> q.items, list |-> q.op = "dedupe"]

RestoreRight(r) ==
  LET q == request[r] IN
  /\ fate[q.id] \in {"tried", "crashed"}
  /\ record[q.id].status # "none" /\ record[q.id].items = q.items

RequestRight(r) ==
  /\ Takes(request[r]) => TakeRight(r)
  /\ request[r].op = "restore" => RestoreRight(r)

\* While requests come one at a time.
Agrees(id) == record[id].status # "imported" => row[id] = record[id].status

Leads(p) ==
  /\ note[p].status = "deleted"
  /\ note[p].by # None
  /\ record[note[p].by].status \in {"deleted", "moved"}
  /\ p \in Range(record[note[p].by].items)
  /\ Apart(record[note[p].by].items) => backup[note[p].by][Slot[p]] # None

\* A request has yet to mark the note of p.
ToMark(p) ==
  \E r \in Requests : request[r].op \in {"delete", "dedupe"} /\ Marking(request[r], p)

AloneRight(r) ==
  LET q == request[r] IN
  q.op = "restore" =>
    /\ \A p \in Range(q.items) : (Moving(q, p) /\ MovesLead(q.plan, p)) \/ live[p] # None
    /\ IF Recording(q) THEN Agrees(q.id) \/ q.id \in cut ELSE record[q.id].status = "restored"

AloneInv ==
  /\ \A r, o \in Requests : request[r] # Idle /\ request[o] # Idle => r = o
  /\ \A id \in Ids : InFlight(id) \/ Agrees(id) \/ id \in cut
  /\ \A r \in Requests : AloneRight(r)
  /\ \A p \in Paths \ Internal : live[p] = None => Leads(p) \/ ToMark(p) \/ p \in astray

ChangeInv ==
  /\ TypeInv
  /\ \A id \in Ids : IdRight(id)
  /\ \A r \in Requests : RequestRight(r)
  /\ alone => AloneInv

-----------------------------------------------------------------------------
(* Facts about plans *)

LEMMA RangeIs == \A f : Range(f) = {f[i] : i \in DOMAIN f}
BY DEF Range

LEMMA OneItem ==
  ASSUME NEW S, NEW items \in Seq(S), Len(items) = 1
  PROVE  Range(items) = {items[1]} /\ items[1] \in S
<1>1. DOMAIN items = {1} /\ items[1] \in S  OBVIOUS
<1>2. Range(items) = {items[i] : i \in {1}}  BY <1>1, RangeIs
<1> QED  BY <1>1, <1>2

\* The n-th step of a plan is step j of item i.
LEMMA EachIndex ==
  ASSUME NEW M \in Nat, NEW L \in 1..5, NEW n \in 1..(L * M)
  PROVE  /\ ((n - 1) % L) + 1 \in 1..L
         /\ ((n - 1) \div L) + 1 \in 1..M
         /\ n = L * ((n - 1) \div L) + ((n - 1) % L) + 1
<1>1. CASE L = 1  BY <1>1
<1>2. CASE L = 2  BY <1>2
<1>3. CASE L = 3  BY <1>3
<1>4. CASE L = 4  BY <1>4
<1>5. CASE L = 5  BY <1>5
<1> QED  BY <1>1, <1>2, <1>3, <1>4, <1>5

LEMMA EachOnto ==
  ASSUME NEW M \in Nat, NEW L \in 1..5, NEW i \in 1..M, NEW j \in 1..L
  PROVE  /\ L * (i - 1) + j \in 1..(L * M)
         /\ ((L * (i - 1) + j - 1) % L) + 1 = j
         /\ ((L * (i - 1) + j - 1) \div L) + 1 = i
<1>1. CASE L = 1  BY <1>1
<1>2. CASE L = 2  BY <1>2
<1>3. CASE L = 3  BY <1>3
<1>4. CASE L = 4  BY <1>4
<1>5. CASE L = 5  BY <1>5
<1> QED  BY <1>1, <1>2, <1>3, <1>4, <1>5

Kinds == {"move", "record", "mark", "hash", "commit"}

LEMMA StepsAre == Steps = Kinds \X Paths
BY DEF Steps, Kinds

\* How long a plan is, and where step j of item i is in it.
Size(items, steps)     == Len(steps) * Len(items)
At(items, steps, i, j) == Len(steps) * (i - 1) + j

\* A plan has each step of each item, in that order.
LEMMA EachSteps ==
  ASSUME NEW items \in Seq(Paths), NEW steps \in Seq(Kinds), Len(steps) \in 1..5
  PROVE  /\ Each(items, steps) \in Seq(Steps)
         /\ Size(items, steps) \in Nat
         /\ Len(Each(items, steps)) = Size(items, steps)
         /\ \A n \in 1..Size(items, steps) : \E i \in 1..Len(items), j \in 1..Len(steps) :
              n = At(items, steps, i, j) /\ Each(items, steps)[n] = <<steps[j], items[i]>>
         /\ \A i \in 1..Len(items), j \in 1..Len(steps) :
              /\ At(items, steps, i, j) \in 1..Size(items, steps)
              /\ Each(items, steps)[At(items, steps, i, j)] = <<steps[j], items[i]>>
<1> DEFINE L == Len(steps)
           M == Len(items)
<1> USE DEF Size, At
<1>1. L \in 1..5 /\ M \in Nat /\ L * M \in Nat  OBVIOUS
<1>2. ASSUME NEW n \in 1..(L * M)
      PROVE  /\ Each(items, steps)[n] \in Steps
             /\ \E i \in 1..M, j \in 1..L : n = L * (i - 1) + j /\ Each(items, steps)[n] = <<steps[j], items[i]>>
  <2>1. PICK j \in 1..L : j = ((n - 1) % L) + 1  BY <1>1, <1>2, EachIndex
  <2>2. PICK i \in 1..M : i = ((n - 1) \div L) + 1  BY <1>1, <1>2, EachIndex
  <2>3. n = L * (i - 1) + j  BY <1>1, <1>2, <2>1, <2>2, EachIndex
  <2>4. Each(items, steps)[n] = <<steps[j], items[i]>>  BY <2>1, <2>2 DEF Each
  <2>5. <<steps[j], items[i]>> \in Steps  BY StepsAre
  <2>6. Each(items, steps)[n] \in Steps  BY <2>4, <2>5
  <2> QED  BY <2>3, <2>4, <2>6
<1>3. ASSUME NEW i \in 1..M, NEW j \in 1..L
      PROVE  /\ L * (i - 1) + j \in 1..(L * M)
             /\ Each(items, steps)[L * (i - 1) + j] = <<steps[j], items[i]>>
  <2>1. PICK n : n = L * (i - 1) + j  OBVIOUS
  <2>2. n \in 1..(L * M) /\ ((n - 1) % L) + 1 = j /\ ((n - 1) \div L) + 1 = i
    <3> HIDE DEF L, M
    <3> QED  BY <1>1, <2>1, EachOnto
  <2>3. Each(items, steps)[n] = <<steps[j], items[i]>>  BY <2>2 DEF Each
  <2> QED  BY <2>1, <2>2, <2>3
<1>4. Each(items, steps) \in Seq(Steps) /\ Len(Each(items, steps)) = L * M
  <2>1. Each(items, steps) \in [1..(L * M) -> Steps]  BY <1>2 DEF Each
  <2> QED  BY <1>1, <2>1, IsASeq, LenProperties
<1> QED  BY <1>1, <1>2, <1>3, <1>4

LEMMA ApartItems ==
  ASSUME NEW items \in Seq(Paths), Apart(items), NEW i \in 1..Len(items), NEW k \in 1..Len(items),
         items[i] = items[k]
  PROVE  i = k
BY DEF Apart

\* The plan of one item is the list of its steps.
LEMMA EachOfOne ==
  ASSUME NEW items \in Seq(Paths), Len(items) = 1, NEW steps \in Seq(Kinds), Len(steps) \in 1..5
  PROVE  /\ Each(items, steps) \in Seq(Steps)
         /\ Len(Each(items, steps)) = Len(steps)
         /\ \A n \in 1..Len(steps) : Each(items, steps)[n] = <<steps[n], items[1]>>
<1>1. Size(items, steps) = Len(steps)  BY DEF Size
<1>2. ASSUME NEW n \in 1..Len(steps)
      PROVE  Each(items, steps)[n] = <<steps[n], items[1]>>
  <2>0. 1 \in 1..Len(items)  OBVIOUS
  <2>1. Each(items, steps)[At(items, steps, 1, n)] = <<steps[n], items[1]>>  BY <2>0, EachSteps
  <2>2. At(items, steps, 1, n) = n  BY DEF At
  <2> QED  BY <2>1, <2>2
<1> QED  BY <1>1, <1>2, EachSteps

\* A plan has no step twice, and the steps of each item in their order.
LEMMA EachOrder ==
  ASSUME NEW items \in Seq(Paths), Apart(items),
         NEW steps \in Seq(Kinds), Len(steps) \in 1..5,
         \A j, k \in 1..Len(steps) : steps[j] = steps[k] => j = k,
         NEW n \in 1..Size(items, steps), NEW m \in 1..Size(items, steps)
  PROVE  LET E == Each(items, steps) IN
         /\ E[n] = E[m] => n = m
         /\ \A j, k \in 1..Len(steps) :
              E[n][2] = E[m][2] /\ E[n][1] = steps[j] /\ E[m][1] = steps[k] /\ j < k => n < m
<1> DEFINE E == Each(items, steps)
<1>1. PICK i \in 1..Len(items), j \in 1..Len(steps) :
        n = At(items, steps, i, j) /\ E[n] = <<steps[j], items[i]>>
  BY EachSteps
<1>2. PICK h \in 1..Len(items), k \in 1..Len(steps) :
        m = At(items, steps, h, k) /\ E[m] = <<steps[k], items[h]>>
  BY EachSteps
<1> HIDE DEF E
<1>4. ASSUME E[n][2] = E[m][2]
      PROVE  n - j = m - k
  <2>1. items[i] = items[h]  BY <1>1, <1>2, <1>4
  <2>2. i = h  BY <2>1, ApartItems
  <2>3. PICK a \in Int : a = Len(steps) * (i - 1)  OBVIOUS
  <2>4. n = a + j /\ m = a + k  BY <1>1, <1>2, <2>2, <2>3 DEF At
  <2> QED  BY <2>4
<1>5. E[n] = E[m] => n = m
  <2>1. SUFFICES ASSUME E[n] = E[m]  PROVE n = m  OBVIOUS
  <2>2. steps[j] = steps[k] /\ E[n][2] = E[m][2]  BY <1>1, <1>2, <2>1
  <2>3. j = k  BY <2>2
  <2> QED  BY <1>4, <2>2, <2>3, EachSteps
<1>6. ASSUME NEW x \in 1..Len(steps), NEW y \in 1..Len(steps),
             E[n][2] = E[m][2], E[n][1] = steps[x], E[m][1] = steps[y], x < y
      PROVE  n < m
  <2>1. j = x /\ k = y  BY <1>1, <1>2, <1>6
  <2> QED  BY <1>4, <1>6, <2>1, EachSteps
<1> QED  BY <1>5, <1>6 DEF E

EachAre(items, steps, N, E) ==
  /\ E = Each(items, steps)
  /\ \A n \in 1..N : \E i \in 1..Len(items), j \in 1..Len(steps) : E[n] = <<steps[j], items[i]>>
  /\ \A i \in 1..Len(items), j \in 1..Len(steps) : \E n \in 1..N : E[n] = <<steps[j], items[i]>>
  /\ \A n \in 1..N, j, k \in 1..Len(steps) : E[n][1] = steps[j] =>
       \E m \in 1..N : E[m] = <<steps[k], E[n][2]>> /\ (j < k => n < m) /\ (k < j => m < n)
  /\ Apart(items) => \A n, m \in 1..N :
       /\ E[n] = E[m] => n = m
       /\ \A j, k \in 1..Len(steps) :
            E[n][2] = E[m][2] /\ E[n][1] = steps[j] /\ E[m][1] = steps[k] /\ j < k => n < m

LEMMA EachFacts ==
  ASSUME NEW items \in Seq(Paths),
         NEW steps \in Seq(Kinds), Len(steps) \in 1..5,
         \A j, k \in 1..Len(steps) : steps[j] = steps[k] => j = k
  PROVE  \E N \in Nat : \E E \in [1..N -> Steps] : EachAre(items, steps, N, E)
<1>1. PICK N : N = Size(items, steps)  OBVIOUS
<1>2. PICK E : E = Each(items, steps)  OBVIOUS
<1>3. N \in Nat /\ E \in [1..N -> Steps]  BY <1>1, <1>2, EachSteps, LenProperties
<1>4. \A n \in 1..N : \E i \in 1..Len(items), j \in 1..Len(steps) : E[n] = <<steps[j], items[i]>>
  BY <1>1, <1>2, EachSteps
<1>5. \A i \in 1..Len(items), j \in 1..Len(steps) : \E n \in 1..N : E[n] = <<steps[j], items[i]>>
  BY <1>1, <1>2, EachSteps
<1>6. ASSUME NEW n \in 1..N, NEW j \in 1..Len(steps), NEW k \in 1..Len(steps), E[n][1] = steps[j]
      PROVE  \E m \in 1..N : E[m] = <<steps[k], E[n][2]>> /\ (j < k => n < m) /\ (k < j => m < n)
  <2>1. PICK i \in 1..Len(items), h \in 1..Len(steps) :
          n = At(items, steps, i, h) /\ E[n] = <<steps[h], items[i]>>
    BY <1>1, <1>2, EachSteps
  <2>2. h = j  BY <1>6, <2>1
  <2>3. PICK m \in 1..N : m = At(items, steps, i, k) /\ E[m] = <<steps[k], items[i]>>
    BY <1>1, <1>2, EachSteps
  <2>4. PICK a \in Int : a = Len(steps) * (i - 1)  OBVIOUS
  <2>5. n = a + j /\ m = a + k  BY <2>1, <2>2, <2>3, <2>4 DEF At
  <2>6. (j < k => n < m) /\ (k < j => m < n)  BY <2>4, <2>5
  <2> QED  BY <2>1, <2>3, <2>6
<1>7. ASSUME Apart(items), NEW n \in 1..N, NEW m \in 1..N
      PROVE  /\ E[n] = E[m] => n = m
             /\ \A j, k \in 1..Len(steps) :
                  E[n][2] = E[m][2] /\ E[n][1] = steps[j] /\ E[m][1] = steps[k] /\ j < k => n < m
  <2>1. n \in 1..Size(items, steps) /\ m \in 1..Size(items, steps)  BY <1>1
  <2> QED  BY <1>2, <1>7, <2>1, EachOrder
<1> QED  BY <1>2, <1>3, <1>4, <1>5, <1>6, <1>7 DEF EachAre

-----------------------------------------------------------------------------
(* The plans of the operations *)

\* What a request starts with.
PlanRight(op, items, plan) ==
  /\ plan \in Seq(Steps) /\ InOrder(op, plan)
  /\ Apart(items) => Distinct(plan)
  /\ \A x \in Range(plan) : x[1] \in StepsOf[op] /\ x[2] \in Range(items)
  /\ \A p \in Range(items) : <<"move", p>> \in Range(plan)
  /\ op \in {"delete", "dedupe"} => MarksFollow(plan)
  /\ op = "restore" => \A p \in Range(items) : MovesLead(plan, p)
  /\ \E p \in Paths : <<"record", p>> \in Range(plan)

LEMMA DeletePlanRight ==
  ASSUME NEW items \in Seq(Paths), Len(items) = 1
  PROVE  PlanRight("delete", items, DeletePlan(items))
<1> DEFINE steps == <<"move", "record", "mark", "commit">>
           plan  == DeletePlan(items)
<1>1. steps \in Seq(Kinds) /\ Len(steps) = 4  BY DEF Kinds
<1>2. PICK p \in Paths : p = items[1] /\ Range(items) = {p}  BY OneItem
<1>3. /\ plan \in Seq(Steps) /\ DOMAIN plan = 1..4
      /\ plan[1] = <<"move", p>> /\ plan[2] = <<"record", p>>
      /\ plan[3] = <<"mark", p>> /\ plan[4] = <<"commit", p>>
  <2>0. plan = Each(items, steps)  BY DEF DeletePlan
  <2> HIDE DEF steps, plan
  <2>1. plan \in Seq(Steps) /\ Len(plan) = 4 /\ \A n \in 1..4 : plan[n] = <<steps[n], p>>
    BY <1>1, <1>2, <2>0, EachOfOne
  <2> USE DEF steps
  <2> QED  BY <2>1
<1> HIDE DEF plan
<1>4. Range(plan) = {<<"move", p>>, <<"record", p>>, <<"mark", p>>, <<"commit", p>>}
  <2>1. Range(plan) = {plan[1], plan[2], plan[3], plan[4]}
    <3>1. 1..4 = {1, 2, 3, 4}  OBVIOUS
    <3> QED  BY <1>3, <3>1, RangeIs
  <2> QED  BY <1>3, <2>1
<1>5. InOrder("delete", plan)  BY <1>3 DEF InOrder, Same, Precedes
<1>6. Distinct(plan)  BY <1>3 DEF Distinct
<1>7. MarksFollow(plan)  BY <1>3 DEF MarksFollow
<1> QED  BY <1>2, <1>3, <1>4, <1>5, <1>6, <1>7 DEF PlanRight, StepsOf, plan

LEMMA ImportPlanRight ==
  ASSUME NEW items \in Seq(Paths), Len(items) = 1
  PROVE  PlanRight("import", items, ImportPlan(items))
<1> DEFINE steps == <<"move", "record">>
           plan  == ImportPlan(items)
<1>1. steps \in Seq(Kinds) /\ Len(steps) = 2  BY DEF Kinds
<1>2. PICK p \in Paths : p = items[1] /\ Range(items) = {p}  BY OneItem
<1>3. /\ plan \in Seq(Steps) /\ DOMAIN plan = 1..2
      /\ plan[1] = <<"move", p>> /\ plan[2] = <<"record", p>>
  <2>0. plan = Each(items, steps)  BY DEF ImportPlan
  <2> HIDE DEF steps, plan
  <2>1. plan \in Seq(Steps) /\ Len(plan) = 2 /\ \A n \in 1..2 : plan[n] = <<steps[n], p>>
    BY <1>1, <1>2, <2>0, EachOfOne
  <2> USE DEF steps
  <2> QED  BY <2>1
<1> HIDE DEF plan
<1>4. Range(plan) = {<<"move", p>>, <<"record", p>>}
  <2>1. Range(plan) = {plan[1], plan[2]}
    <3>1. 1..2 = {1, 2}  OBVIOUS
    <3> QED  BY <1>3, <3>1, RangeIs
  <2> QED  BY <1>3, <2>1
<1>5. InOrder("import", plan)  BY <1>3 DEF InOrder, Same, Precedes
<1>6. Distinct(plan)  BY <1>3 DEF Distinct
<1> QED  BY <1>2, <1>3, <1>4, <1>5, <1>6 DEF PlanRight, StepsOf, plan

LEMMA RestoreOnePlanRight ==
  ASSUME NEW items \in Seq(Paths), Len(items) = 1
  PROVE  PlanRight("restore", items, RestorePlan(items, FALSE))
<1> DEFINE steps == <<"move", "record", "mark", "hash", "commit">>
           plan  == RestorePlan(items, FALSE)
<1>1. steps \in Seq(Kinds) /\ Len(steps) = 5  BY DEF Kinds
<1>2. PICK p \in Paths : p = items[1] /\ Range(items) = {p}  BY OneItem
<1>3. /\ plan \in Seq(Steps) /\ DOMAIN plan = 1..5
      /\ plan[1] = <<"move", p>> /\ plan[2] = <<"record", p>>
      /\ plan[3] = <<"mark", p>> /\ plan[4] = <<"hash", p>> /\ plan[5] = <<"commit", p>>
  <2>0. plan = Each(items, steps)  BY DEF RestorePlan
  <2> HIDE DEF steps, plan
  <2>1. plan \in Seq(Steps) /\ Len(plan) = 5 /\ \A n \in 1..5 : plan[n] = <<steps[n], p>>
    BY <1>1, <1>2, <2>0, EachOfOne
  <2> USE DEF steps
  <2> QED  BY <2>1
<1> HIDE DEF plan
<1>4. Range(plan) = {<<"move", p>>, <<"record", p>>, <<"mark", p>>, <<"hash", p>>, <<"commit", p>>}
  <2>1. Range(plan) = {plan[1], plan[2], plan[3], plan[4], plan[5]}
    <3>1. 1..5 = {1, 2, 3, 4, 5}  OBVIOUS
    <3> QED  BY <1>3, <3>1, RangeIs
  <2> QED  BY <1>3, <2>1
<1>5. InOrder("restore", plan)  BY <1>3 DEF InOrder, Same, Precedes
<1>6. \A x \in Range(plan) : x[1] \in {"move", "record", "mark", "hash", "commit"} /\ x[2] \in Range(items)
  BY <1>2, <1>4
<1>7. <<"move", p>> \in Range(plan) /\ <<"record", p>> \in Range(plan)  BY <1>4
<1>8. Distinct(plan)  BY <1>3 DEF Distinct
<1>9. MovesLead(plan, p)  BY <1>3 DEF MovesLead
<1> QED  BY <1>2, <1>3, <1>5, <1>6, <1>7, <1>8, <1>9 DEF PlanRight, StepsOf, plan

LEMMA DedupePlanRight ==
  ASSUME NEW items \in Seq(Paths), items # <<>>
  PROVE  PlanRight("dedupe", items, DedupePlan(items))
<1> DEFINE steps == <<"move", "mark">>
           plan  == DedupePlan(items)
<1>1. /\ steps \in Seq(Kinds) /\ Len(steps) = 2 /\ Len(steps) \in 1..5
      /\ steps[1] = "move" /\ steps[2] = "mark"
      /\ \A j, k \in 1..Len(steps) : steps[j] = steps[k] => j = k
  BY DEF Kinds
<1> HIDE DEF steps
<1>2. PICK p \in Paths : p = items[1] /\ p \in Range(items)  BY RangeIs
<1>3. PICK N \in Nat : \E E \in [1..N -> Steps] : EachAre(items, steps, N, E)
  BY <1>1, EachFacts
<1>e. PICK E \in [1..N -> Steps] : EachAre(items, steps, N, E)  BY <1>3
<1>4. \A n \in 1..N : /\ E[n][1] \in {"move", "mark"} /\ E[n][2] \in Range(items)
                     /\ E[n] = <<E[n][1], E[n][2]>>
  <2>1. TAKE n \in 1..N
  <2>2. PICK i \in 1..Len(items), j \in 1..Len(steps) : E[n] = <<steps[j], items[i]>>
    BY <1>1, <1>e DEF EachAre
  <2> QED  BY <1>1, <2>2, RangeIs
<1>5. ASSUME NEW n \in 1..N, E[n][1] = "move"
      PROVE  \E m \in 1..N : n < m /\ E[m] = <<"mark", E[n][2]>>
  <2>1. 1 \in 1..Len(steps) /\ 2 \in 1..Len(steps) /\ 1 < 2  BY <1>1
  <2>0. \A j, k \in 1..Len(steps) : E[n][1] = steps[j] =>
          \E m \in 1..N : E[m] = <<steps[k], E[n][2]>> /\ (j < k => n < m) /\ (k < j => m < n)
    BY <1>5, <1>e DEF EachAre
  <2>2. PICK m \in 1..N : E[m] = <<steps[2], E[n][2]>> /\ (1 < 2 => n < m)
    BY <1>1, <1>5, <2>0, <2>1
  <2>3. n < m /\ E[m] = <<"mark", E[n][2]>>  BY <1>1, <2>2
  <2> QED  BY <2>3
<1>m. ASSUME Apart(items), NEW n \in 1..N, NEW m \in 1..N
      PROVE  /\ E[n] = E[m] => n = m
             /\ E[n][2] = E[m][2] /\ E[n][1] = "move" /\ E[m][1] = "mark" => n < m
  <2>1. 1 \in 1..Len(steps) /\ 2 \in 1..Len(steps) /\ 1 < 2  BY <1>1
  <2>2. /\ E[n] = E[m] => n = m
        /\ E[n][2] = E[m][2] /\ E[n][1] = steps[1] /\ E[m][1] = steps[2] /\ 1 < 2 => n < m
    BY <1>e, <1>m, <2>1 DEF EachAre
  <2> QED  BY <1>1, <2>1, <2>2
<1>6. \A x \in Range(items), k \in {"move", "mark"} : \E n \in 1..N : E[n] = <<k, x>>
  <2>1. TAKE x \in Range(items), k \in {"move", "mark"}
  <2>2. PICK i \in 1..Len(items), j \in 1..Len(steps) : x = items[i] /\ k = steps[j]  BY <1>1, RangeIs
  <2> QED  BY <1>1, <1>e, <2>2 DEF EachAre
<1>7. /\ plan \in Seq(Steps) /\ DOMAIN plan = 1..(N + 2)
      /\ plan[1] = <<"record", p>> /\ plan[N + 2] = <<"commit", p>>
      /\ \A n \in 1..N : plan[n + 1] = E[n]
  <2>1. plan = << <<"record", p>> >> \o E \o << <<"commit", p>> >>  BY <1>2, <1>e DEF EachAre, DedupePlan, plan, steps
  <2>2. <<"record", p>> \in Steps /\ <<"commit", p>> \in Steps  BY StepsAre DEF Kinds
  <2> HIDE DEF plan
  <2> QED  BY <2>1, <2>2
<1> HIDE DEF plan
<1>8. \A i \in 1..(N + 2) : i = 1 \/ i = N + 2 \/ \E n \in 1..N : i = n + 1 /\ plan[i] = E[n]
  <2>1. TAKE i \in 1..(N + 2)
  <2>2. CASE i \in 2..(N + 1)
    <3>1. PICK n \in 1..N : i = n + 1  BY <2>2
    <3> QED  BY <1>7, <3>1
  <2> QED  BY <2>2
<1>9. InOrder("dedupe", plan)
  <2>1. SUFFICES ASSUME NEW i \in 1..(N + 2), NEW k \in 1..(N + 2)
                 PROVE  /\ Same(plan[i], plan[k]) => i = k
                        /\ Precedes("dedupe", plan[i], plan[k]) => i < k
    BY <1>7 DEF InOrder
  <2> USE DEF Same, Precedes
  <2>2. CASE i = 1  BY <1>4, <1>7, <1>8, <2>2
  <2>3. CASE i = N + 2  BY <1>4, <1>7, <1>8, <2>3
  <2>4. ASSUME NEW n \in 1..N, i = n + 1, plan[i] = E[n]
        PROVE  /\ Same(plan[i], plan[k]) => i = k
               /\ Precedes("dedupe", plan[i], plan[k]) => i < k
    <3>1. E[n][1] \in {"move", "mark"}  BY <1>4
    <3>2. CASE k = 1 \/ k = N + 2  BY <1>7, <2>4, <3>1, <3>2
    <3>3. ASSUME NEW m \in 1..N, k = m + 1, plan[k] = E[m]
          PROVE  ~Same(plan[i], plan[k]) /\ ~Precedes("dedupe", plan[i], plan[k])
      <4>1. E[m][1] \in {"move", "mark"}  BY <1>4
      <4> QED  BY <2>4, <3>1, <3>3, <4>1
    <3> QED  BY <1>8, <3>2, <3>3
  <2> QED  BY <1>8, <2>2, <2>3, <2>4
<1>d. ASSUME Apart(items)  PROVE Distinct(plan)
  <2>1. SUFFICES ASSUME NEW i \in 1..(N + 2), NEW k \in 1..(N + 2)
                 PROVE  /\ plan[i] = plan[k] => i = k
                        /\ plan[i][1] = "move" /\ plan[k] = <<"mark", plan[i][2]>> => i < k
    BY <1>7 DEF Distinct
  <2>k. \A h \in 1..(N + 2) :
          /\ h \in Int
          /\ \/ h = 1 /\ plan[h][1] = "record"
             \/ h = N + 2 /\ plan[h][1] = "commit"
             \/ h # 1 /\ h # N + 2 /\ plan[h][1] \in {"move", "mark"}
    <3>1. TAKE h \in 1..(N + 2)
    <3>2. CASE h = 1  BY <1>7, <3>2
    <3>3. CASE h = N + 2  BY <1>7, <3>3
    <3>4. ASSUME NEW n \in 1..N, h = n + 1, plan[h] = E[n]
          PROVE  h # 1 /\ h # N + 2 /\ plan[h][1] \in {"move", "mark"}
      BY <1>4, <3>4
    <3> QED  BY <1>8, <3>2, <3>3, <3>4
  <2>m. \A o : plan[k] = <<"mark", o>> => plan[k][1] = "mark"  OBVIOUS
  <2>2. CASE i \in {1, N + 2}
    <3>1. plan[i][1] # "move" /\ (plan[i][1] = plan[k][1] => i = k)  BY <2>k, <2>2
    <3> QED  BY <3>1
  <2>3. CASE k \in {1, N + 2}
    <3>1. plan[k][1] # "mark" /\ (plan[i][1] = plan[k][1] => i = k)  BY <2>k, <2>3
    <3> QED  BY <2>m, <3>1
  <2>4. ASSUME NEW n \in 1..N, i = n + 1, plan[i] = E[n], NEW m \in 1..N, k = m + 1, plan[k] = E[m]
        PROVE  /\ plan[i] = plan[k] => i = k
               /\ plan[i][1] = "move" /\ plan[k] = <<"mark", plan[i][2]>> => i < k
    <3>1. /\ E[n] = E[m] => n = m
          /\ E[n][2] = E[m][2] /\ E[n][1] = "move" /\ E[m][1] = "mark" => n < m
      BY <1>d, <1>m
    <3>2. E[m] = <<"mark", E[n][2]>> => E[n][2] = E[m][2] /\ E[m][1] = "mark"  OBVIOUS
    <3> QED  BY <2>4, <3>1, <3>2
  <2> QED  BY <1>8, <2>2, <2>3, <2>4
<1>f. MarksFollow(plan)
  <2>1. SUFFICES ASSUME NEW i \in 1..(N + 2), plan[i][1] = "move"
                 PROVE  \E k \in 1..(N + 2) : i < k /\ plan[k] = <<"mark", plan[i][2]>>
    BY <1>7 DEF MarksFollow
  <2>2. PICK n \in 1..N : i = n + 1 /\ plan[i] = E[n]  BY <1>7, <1>8, <2>1
  <2>3. PICK m \in 1..N : n < m /\ E[m] = <<"mark", E[n][2]>>  BY <1>5, <2>1, <2>2
  <2>4. m + 1 \in 1..(N + 2) /\ plan[m + 1] = E[m] /\ i < m + 1  BY <1>7, <2>2, <2>3
  <2> QED  BY <2>2, <2>3, <2>4
<1>10. \A x \in Range(plan) : x[1] \in {"move", "record", "mark", "commit"} /\ x[2] \in Range(items)
  <2>1. TAKE x \in Range(plan)
  <2>2. PICK i \in 1..(N + 2) : x = plan[i]  BY <1>7, RangeIs
  <2> QED  BY <1>2, <1>4, <1>7, <1>8, <2>2
<1>11. \A x \in Range(items), k \in {"move", "mark"} : <<k, x>> \in Range(plan)
  <2>1. TAKE x \in Range(items), k \in {"move", "mark"}
  <2>2. PICK n \in 1..N : E[n] = <<k, x>>  BY <1>6
  <2>3. n + 1 \in DOMAIN plan /\ plan[n + 1] = <<k, x>>  BY <1>7, <2>2
  <2> QED  BY <2>3, RangeIs
<1>12. <<"record", p>> \in Range(plan)
  <2>1. 1 \in DOMAIN plan  BY <1>7
  <2> QED  BY <1>7, <2>1, RangeIs
<1> QED  BY <1>7, <1>9, <1>d, <1>f, <1>10, <1>11, <1>12 DEF PlanRight, StepsOf, plan

LEMMA RestoreListPlanRight ==
  ASSUME NEW items \in Seq(Paths), items # <<>>
  PROVE  PlanRight("restore", items, RestorePlan(items, TRUE))
<1> DEFINE steps == <<"move", "mark", "hash">>
           plan  == RestorePlan(items, TRUE)
<1>1. /\ steps \in Seq(Kinds) /\ Len(steps) = 3 /\ Len(steps) \in 1..5
      /\ steps[1] = "move" /\ steps[2] = "mark" /\ steps[3] = "hash"
      /\ \A j, k \in 1..Len(steps) : steps[j] = steps[k] => j = k
  BY DEF Kinds
<1> HIDE DEF steps
<1>2. PICK p \in Paths : p = items[1] /\ p \in Range(items)  BY RangeIs
<1>3. PICK N \in Nat : \E E \in [1..N -> Steps] : EachAre(items, steps, N, E)
  BY <1>1, EachFacts
<1>e. PICK E \in [1..N -> Steps] : EachAre(items, steps, N, E)  BY <1>3
<1>4. \A n \in 1..N : /\ E[n][1] \in {"move", "mark", "hash"} /\ E[n][2] \in Range(items)
                     /\ E[n] = <<E[n][1], E[n][2]>>
  <2>1. TAKE n \in 1..N
  <2>2. PICK i \in 1..Len(items), j \in 1..Len(steps) : E[n] = <<steps[j], items[i]>>
    BY <1>1, <1>e DEF EachAre
  <2> QED  BY <1>1, <2>2, RangeIs
<1>5. ASSUME NEW n \in 1..N, E[n][1] = "mark"
      PROVE  \E m \in 1..N : m < n /\ E[m] = <<"move", E[n][2]>>
  <2>1. 1 \in 1..Len(steps) /\ 2 \in 1..Len(steps) /\ 1 < 2  BY <1>1
  <2>0. \A j, k \in 1..Len(steps) : E[n][1] = steps[j] =>
          \E m \in 1..N : E[m] = <<steps[k], E[n][2]>> /\ (j < k => n < m) /\ (k < j => m < n)
    BY <1>5, <1>e DEF EachAre
  <2>2. PICK m \in 1..N : E[m] = <<steps[1], E[n][2]>> /\ (1 < 2 => m < n)
    BY <1>1, <1>5, <2>0, <2>1
  <2>3. m < n /\ E[m] = <<"move", E[n][2]>>  BY <1>1, <2>2
  <2> QED  BY <2>3
<1>m. ASSUME Apart(items), NEW n \in 1..N, NEW m \in 1..N
      PROVE  /\ E[n] = E[m] => n = m
             /\ E[n][2] = E[m][2] /\ E[n][1] = "move" /\ E[m][1] = "mark" => n < m
  <2>1. 1 \in 1..Len(steps) /\ 2 \in 1..Len(steps) /\ 1 < 2  BY <1>1
  <2>2. /\ E[n] = E[m] => n = m
        /\ E[n][2] = E[m][2] /\ E[n][1] = steps[1] /\ E[m][1] = steps[2] /\ 1 < 2 => n < m
    BY <1>e, <1>m, <2>1 DEF EachAre
  <2> QED  BY <1>1, <2>1, <2>2
<1>6. \A x \in Range(items) : \E n \in 1..N : E[n] = <<"move", x>>
  <2>1. TAKE x \in Range(items)
  <2>2. PICK i \in 1..Len(items) : x = items[i]  BY RangeIs
  <2>3. \E n \in 1..N : E[n] = <<steps[1], items[i]>>
    <3>1. 1 \in 1..Len(steps)  BY <1>1
    <3> QED  BY <1>e, <3>1 DEF EachAre
  <2> QED  BY <1>1, <2>2, <2>3
<1>7. /\ plan \in Seq(Steps) /\ DOMAIN plan = 1..(N + 2)
      /\ plan[N + 1] = <<"record", p>> /\ plan[N + 2] = <<"commit", p>>
      /\ \A n \in 1..N : plan[n] = E[n]
  <2>1. plan = E \o << <<"record", p>>, <<"commit", p>> >>  BY <1>2, <1>e DEF EachAre, RestorePlan, plan, steps
  <2>2. PICK T : T = << <<"record", p>>, <<"commit", p>> >>  OBVIOUS
  <2>3. T \in Seq(Steps) /\ Len(T) = 2 /\ T[1] = <<"record", p>> /\ T[2] = <<"commit", p>>
    BY <2>2, StepsAre DEF Kinds
  <2>4. E \in Seq(Steps) /\ Len(E) = N  BY IsASeq, LenProperties
  <2> HIDE DEF plan
  <2>5. /\ plan \in Seq(Steps) /\ Len(plan) = N + 2
        /\ \A i \in 1..(N + 2) : plan[i] = IF i <= N THEN E[i] ELSE T[i - N]
    BY <2>1, <2>2, <2>3, <2>4, ConcatProperties
  <2>6. DOMAIN plan = 1..(N + 2)  BY <2>5
  <2>7. plan[N + 1] = T[1] /\ plan[N + 2] = T[2] /\ \A n \in 1..N : plan[n] = E[n]
    <3>1. N + 1 \in 1..(N + 2) /\ (N + 1) - N = 1 /\ ~(N + 1 <= N)  OBVIOUS
    <3>2. N + 2 \in 1..(N + 2) /\ (N + 2) - N = 2 /\ ~(N + 2 <= N)  OBVIOUS
    <3>3. \A n \in 1..N : n \in 1..(N + 2) /\ n <= N  OBVIOUS
    <3> QED  BY <2>5, <3>1, <3>2, <3>3
  <2> QED  BY <2>3, <2>5, <2>6, <2>7
<1> HIDE DEF plan
<1>8. \A i \in 1..(N + 2) : i = N + 1 \/ i = N + 2 \/ i \in 1..N  OBVIOUS
<1>9. InOrder("restore", plan)
  <2>1. SUFFICES ASSUME NEW i \in 1..(N + 2), NEW k \in 1..(N + 2)
                 PROVE  /\ Same(plan[i], plan[k]) => i = k
                        /\ Precedes("restore", plan[i], plan[k]) => i < k
    BY <1>7 DEF InOrder
  <2> USE DEF Same, Precedes
  <2>2. CASE i = N + 1
    <3>1. plan[i] = <<"record", p>>  BY <1>7, <2>2
    <3>2. CASE k \in 1..N
      <4>1. plan[k] = E[k] /\ E[k][1] \in {"move", "mark", "hash"}  BY <1>4, <1>7, <3>2
      <4>2. plan[i][1] = "record"  BY <3>1
      <4> QED  BY <2>2, <3>2, <4>1, <4>2
    <3>3. CASE k \in {N + 1, N + 2}  BY <1>7, <2>2, <3>1, <3>3
    <3> QED  BY <1>8, <3>2, <3>3
  <2>3. CASE i = N + 2  BY <1>4, <1>7, <1>8, <2>3
  <2>4. CASE i \in 1..N /\ k \in {N + 1, N + 2}  BY <1>4, <1>7, <2>4
  <2>5. CASE i \in 1..N /\ k \in 1..N
    <3>1. E[i][1] \in {"move", "mark", "hash"} /\ E[k][1] \in {"move", "mark", "hash"}  BY <1>4, <2>5
    <3> QED  BY <1>7, <2>5, <3>1
  <2> QED  BY <1>8, <2>2, <2>3, <2>4, <2>5
<1>d. ASSUME Apart(items)  PROVE Distinct(plan)
  <2>1. SUFFICES ASSUME NEW i \in 1..(N + 2), NEW k \in 1..(N + 2)
                 PROVE  /\ plan[i] = plan[k] => i = k
                        /\ plan[i][1] = "move" /\ plan[k] = <<"mark", plan[i][2]>> => i < k
    BY <1>7 DEF Distinct
  <2>2. CASE i \in {N + 1, N + 2}
    <3>1. CASE k \in 1..N
      <4>1. plan[k] = E[k] /\ E[k][1] \in {"move", "mark", "hash"}  BY <1>4, <1>7, <3>1
      <4>2. plan[i][1] \in {"record", "commit"}  BY <1>7, <2>2
      <4> QED  BY <4>1, <4>2
    <3>2. CASE k \in {N + 1, N + 2}  BY <1>7, <2>2, <3>2
    <3> QED  BY <1>8, <3>1, <3>2
  <2>3. CASE i \in 1..N /\ k \in {N + 1, N + 2}
    <3>1. plan[i] = E[i] /\ E[i][1] \in {"move", "mark", "hash"}  BY <1>4, <1>7, <2>3
    <3>2. plan[k][1] \in {"record", "commit"}  BY <1>7, <2>3
    <3> QED  BY <3>1, <3>2
  <2>4. CASE i \in 1..N /\ k \in 1..N
    <3>1. /\ E[i] = E[k] => i = k
          /\ E[i][2] = E[k][2] /\ E[i][1] = "move" /\ E[k][1] = "mark" => i < k
      BY <1>d, <1>m, <2>4
    <3>2. E[k] = <<"mark", E[i][2]>> => E[i][2] = E[k][2] /\ E[k][1] = "mark"  OBVIOUS
    <3> QED  BY <1>7, <2>4, <3>1, <3>2
  <2> QED  BY <1>8, <2>2, <2>3, <2>4
<1>f. ASSUME NEW x \in Range(items)  PROVE MovesLead(plan, x)
  <2>1. SUFFICES ASSUME NEW k \in 1..(N + 2), plan[k] = <<"mark", x>>
                 PROVE  \E i \in 1..(N + 2) : i < k /\ plan[i] = <<"move", x>>
    BY <1>7 DEF MovesLead
  <2>2. k \in 1..N  BY <1>7, <1>8, <2>1
  <2>3. E[k][1] = "mark" /\ E[k][2] = x  BY <1>7, <2>1, <2>2
  <2>4. PICK m \in 1..N : m < k /\ E[m] = <<"move", x>>  BY <1>5, <2>2, <2>3
  <2> QED  BY <1>7, <2>4
<1>10. \A x \in Range(plan) : /\ x[1] \in {"move", "record", "mark", "hash", "commit"}
                             /\ x[2] \in Range(items)
  <2>1. TAKE x \in Range(plan)
  <2>2. PICK i \in 1..(N + 2) : x = plan[i]  BY <1>7, RangeIs
  <2> QED  BY <1>2, <1>4, <1>7, <1>8, <2>2
<1>11. \A x \in Range(items) : <<"move", x>> \in Range(plan)
  <2>1. TAKE x \in Range(items)
  <2>2. PICK n \in 1..N : E[n] = <<"move", x>>  BY <1>6
  <2>3. n \in DOMAIN plan /\ plan[n] = <<"move", x>>  BY <1>7, <2>2
  <2> QED  BY <2>3, RangeIs
<1>12. <<"record", p>> \in Range(plan)
  <2>1. N + 1 \in DOMAIN plan  BY <1>7
  <2> QED  BY <1>7, <2>1, RangeIs
<1> QED  BY <1>7, <1>9, <1>d, <1>f, <1>10, <1>11, <1>12 DEF PlanRight, StepsOf, plan

-----------------------------------------------------------------------------
(* The steps of a request *)

RequestRecord ==
  [op : {"none", "delete", "dedupe", "import", "restore"},
   id : Ids \cup {None}, items : Seq(Paths), plan : Seq(Steps)]

\* A request that has only just begun.
LEMMA Begun ==
  ASSUME NEW op \in Ops, NEW id \in Ids, NEW items \in Seq(Paths), items # <<>>,
         NEW plan, PlanRight(op, items, plan),
         op \in {"delete", "import"} => Len(items) = 1,
         op \in {"delete", "dedupe"} => \A p \in Range(items) : p \notin Internal,
         op = "import" => \A p \in Range(items) : p \in Internal,
         NEW q, q = [op |-> op, id |-> id, items |-> items, plan |-> plan]
  PROVE  /\ q \in RequestRecord /\ RequestShape(q)
         /\ Recording(q) /\ \A p \in Range(items) : Moving(q, p)
         /\ op = "restore" => \A p \in Range(items) : MovesLead(q.plan, p)
BY DEF PlanRight, RequestRecord, RequestShape, Recording, Moving, Todo, Ops

\* n has the step x of q less to do, and nothing that had to come before x.
StepLess(q, n, x) ==
  /\ x = q.plan[1] /\ 1 \in DOMAIN q.plan
  /\ x \in Todo(q) /\ x = <<x[1], x[2]>> /\ x[1] \in StepsOf[q.op] /\ x[2] \in Range(q.items)
  /\ x[1] \in Kinds /\ x[2] \in Paths
  /\ n \in RequestRecord /\ n # Idle
  /\ n.op = q.op /\ n.id = q.id /\ n.items = q.items
  /\ \A i \in DOMAIN n.plan : i \in Nat /\ i + 1 \in DOMAIN q.plan /\ n.plan[i] = q.plan[i + 1]
  /\ \A i \in DOMAIN q.plan :
       /\ i \in Nat /\ i >= 1
       /\ i # 1 => i - 1 \in DOMAIN n.plan /\ n.plan[i - 1] = q.plan[i]
  /\ Todo(n) \subseteq Todo(q) /\ Todo(q) \subseteq Todo(n) \cup {x}
  /\ \A y \in Todo(n) : ~Same(y, x) /\ ~Precedes(q.op, y, x)
  /\ InOrder(n.op, n.plan)

LEMMA Advanced ==
  ASSUME NEW q \in RequestRecord, RequestShape(q), q.plan # <<>>,
         NEW n, n = [q EXCEPT !.plan = Tail(@)]
  PROVE  StepLess(q, n, Head(q.plan))
<1> DEFINE x == Head(q.plan)
<1>1. /\ q.plan \in Seq(Steps) /\ x = q.plan[1] /\ 1 \in DOMAIN q.plan /\ x \in Steps
      /\ Tail(q.plan) \in Seq(Steps) /\ Len(Tail(q.plan)) = Len(q.plan) - 1
      /\ \A i \in DOMAIN Tail(q.plan) : i \in Nat /\ i + 1 \in DOMAIN q.plan /\ Tail(q.plan)[i] = q.plan[i + 1]
      /\ \A i \in DOMAIN q.plan :
           i \in Nat /\ i >= 1 /\ (i # 1 => i - 1 \in DOMAIN Tail(q.plan) /\ Tail(q.plan)[i - 1] = q.plan[i])
  BY HeadTailProperties DEF RequestShape
<1>2. x \in Todo(q)  BY <1>1, RangeIs DEF Todo
<1>3. x = <<x[1], x[2]>> /\ x[1] \in Kinds /\ x[2] \in Paths  BY <1>1, StepsAre
<1>4. n \in RequestRecord /\ n.plan = Tail(q.plan) /\ n.op = q.op /\ n.id = q.id /\ n.items = q.items
  BY <1>1 DEF RequestRecord
<1>5. n # Idle  BY <1>4 DEF RequestShape, Ops, Idle
<1>6. \A i \in DOMAIN n.plan : ~Same(n.plan[i], x) /\ ~Precedes(q.op, n.plan[i], x)
  <2>1. TAKE i \in DOMAIN n.plan
  <2>2. i + 1 \in DOMAIN q.plan /\ n.plan[i] = q.plan[i + 1] /\ i + 1 # 1 /\ ~(i + 1 < 1)  BY <1>1, <1>4
  <2> QED  BY <1>1, <2>2 DEF RequestShape, InOrder
<1>7. \A y \in Todo(n) : y \in Todo(q) /\ ~Same(y, x) /\ ~Precedes(q.op, y, x)
  <2>1. TAKE y \in Todo(n)
  <2>2. PICK i \in DOMAIN n.plan : y = n.plan[i]  BY RangeIs DEF Todo
  <2>3. i + 1 \in DOMAIN q.plan /\ y = q.plan[i + 1]  BY <1>1, <1>4, <2>2
  <2>4. y \in Todo(q)  BY <2>3, RangeIs DEF Todo
  <2> QED  BY <1>6, <2>2, <2>4
<1>8. \A y \in Todo(q) : y = x \/ y \in Todo(n)
  <2>1. TAKE y \in Todo(q)
  <2>2. PICK i \in DOMAIN q.plan : y = q.plan[i]  BY RangeIs DEF Todo
  <2>3. CASE i = 1  BY <1>1, <2>2, <2>3
  <2>4. CASE i # 1  BY <1>1, <1>4, <2>2, <2>4, RangeIs DEF Todo
  <2> QED  BY <2>3, <2>4
<1>10. InOrder(n.op, n.plan)
  <2>1. SUFFICES ASSUME NEW i \in DOMAIN n.plan, NEW k \in DOMAIN n.plan
                 PROVE  /\ Same(n.plan[i], n.plan[k]) => i = k
                        /\ Precedes(n.op, n.plan[i], n.plan[k]) => i < k
    BY DEF InOrder
  <2>2. /\ i + 1 \in DOMAIN q.plan /\ n.plan[i] = q.plan[i + 1]
        /\ k + 1 \in DOMAIN q.plan /\ n.plan[k] = q.plan[k + 1]
    BY <1>1, <1>4
  <2>3. /\ Same(q.plan[i + 1], q.plan[k + 1]) => i + 1 = k + 1
        /\ Precedes(q.op, q.plan[i + 1], q.plan[k + 1]) => i + 1 < k + 1
    BY <2>2 DEF RequestShape, InOrder
  <2>4. i \in Int /\ k \in Int  BY <1>1, <1>4
  <2> QED  BY <1>4, <2>2, <2>3, <2>4
<1>11. x[1] \in StepsOf[q.op] /\ x[2] \in Range(q.items)  BY <1>2 DEF RequestShape
<1>12. \A i \in DOMAIN n.plan : i \in Nat /\ i + 1 \in DOMAIN q.plan /\ n.plan[i] = q.plan[i + 1]
  BY <1>1, <1>4
<1>13. \A i \in DOMAIN q.plan :
         /\ i \in Nat /\ i >= 1
         /\ i # 1 => i - 1 \in DOMAIN n.plan /\ n.plan[i - 1] = q.plan[i]
  BY <1>1, <1>4
<1>14. x = q.plan[1] /\ 1 \in DOMAIN q.plan  BY <1>1
<1> HIDE DEF x
<1>15. StepLess(q, n, x)
  BY <1>2, <1>3, <1>4, <1>5, <1>7, <1>8, <1>10, <1>11, <1>12, <1>13, <1>14 DEF StepLess
<1> QED  BY <1>15 DEF x

\* What n still has to do when q has done x, by kind of x.
TodoLess(q, n, x) ==
  /\ \A p : Moving(n, p) => Moving(q, p)
  /\ \A p : Moving(q, p) /\ x # <<"move", p>> => Moving(n, p)
  /\ \A p : Apart(q.items) /\ x = <<"move", p>> => ~Moving(n, p)
  /\ \A p : Marking(n, p) => Marking(q, p)
  /\ \A p : Marking(q, p) /\ x # <<"mark", p>> => Marking(n, p)
  /\ \A p : q.op \in {"delete", "dedupe"} /\ x = <<"move", p>> => Marking(n, p)
  /\ \A p : MovesLead(q.plan, p) /\ x # <<"move", p>> => MovesLead(n.plan, p)
  /\ Recording(n) <=> Recording(q) /\ x[1] # "record"

LEMMA AdvancedTodo ==
  ASSUME NEW q \in RequestRecord, RequestShape(q), q.plan # <<>>,
         NEW n, n = [q EXCEPT !.plan = Tail(@)]
  PROVE  RequestShape(n) /\ TodoLess(q, n, Head(q.plan))
<1> DEFINE x == Head(q.plan)
<1>0. StepLess(q, n, x)  BY Advanced
<1> HIDE DEF x
<1>1. /\ x = q.plan[1] /\ 1 \in DOMAIN q.plan
      /\ x \in Todo(q) /\ x = <<x[1], x[2]>> /\ x[1] \in StepsOf[q.op] /\ x[2] \in Range(q.items)
      /\ x[1] \in Kinds /\ x[2] \in Paths
      /\ n \in RequestRecord /\ n.op = q.op /\ n.id = q.id /\ n.items = q.items
      /\ \A i \in DOMAIN n.plan : i \in Nat /\ i + 1 \in DOMAIN q.plan /\ n.plan[i] = q.plan[i + 1]
      /\ \A i \in DOMAIN q.plan :
           /\ i \in Nat /\ i >= 1
           /\ i # 1 => i - 1 \in DOMAIN n.plan /\ n.plan[i - 1] = q.plan[i]
      /\ Todo(n) \subseteq Todo(q) /\ Todo(q) \subseteq Todo(n) \cup {x}
      /\ \A y \in Todo(n) : ~Same(y, x) /\ ~Precedes(q.op, y, x)
      /\ InOrder(n.op, n.plan)
  BY <1>0 DEF StepLess
<1>2. \A p : /\ Moving(n, p) => Moving(q, p)
             /\ Moving(q, p) /\ x # <<"move", p>> => Moving(n, p)
  BY <1>1 DEF Moving
<1>3. \A p : /\ Marking(n, p) => Marking(q, p)
             /\ Marking(q, p) /\ x # <<"mark", p>> => Marking(n, p)
  BY <1>1 DEF Marking
<1>4. Recording(n) <=> Recording(q) /\ x[1] # "record"
  <2>1. CASE x[1] = "record"
    <3>1. \A p : <<"record", p>> \notin Todo(n)  BY <1>1, <2>1 DEF Same
    <3> QED  BY <2>1, <3>1 DEF Recording
  <2>2. CASE x[1] # "record"
    <3>0. \A p : <<"record", p>>[1] = "record"  OBVIOUS
    <3>1. \A p : <<"record", p>> \in Todo(n) <=> <<"record", p>> \in Todo(q)  BY <1>1, <2>2, <3>0
    <3> QED  BY <2>2, <3>1 DEF Recording
  <2> QED  BY <2>1, <2>2
<1>5. \A y \in Todo(n) : y[1] \in StepsOf[n.op] /\ y[2] \in Range(n.items)  BY <1>1 DEF RequestShape
<1>6. Apart(q.items) => Distinct(n.plan)
  <2>1. SUFFICES ASSUME Apart(q.items), NEW i \in DOMAIN n.plan, NEW k \in DOMAIN n.plan
                 PROVE  /\ n.plan[i] = n.plan[k] => i = k
                        /\ n.plan[i][1] = "move" /\ n.plan[k] = <<"mark", n.plan[i][2]>> => i < k
    BY DEF Distinct
  <2>2. /\ q.plan[i + 1] = q.plan[k + 1] => i + 1 = k + 1
        /\ q.plan[i + 1][1] = "move" /\ q.plan[k + 1] = <<"mark", q.plan[i + 1][2]>> => i + 1 < k + 1
    BY <1>1, <2>1 DEF RequestShape, Distinct
  <2>3. i \in Int /\ k \in Int  BY <1>1
  <2> QED  BY <1>1, <2>2, <2>3
<1>7. ASSUME NEW i \in DOMAIN q.plan, q.plan[i][1] = "move", q.op \in {"delete", "dedupe"}
      PROVE  \E k \in DOMAIN n.plan : i - 1 < k /\ n.plan[k] = <<"mark", q.plan[i][2]>>
  <2>1. PICK k \in DOMAIN q.plan : i < k /\ q.plan[k] = <<"mark", q.plan[i][2]>>
    BY <1>7 DEF RequestShape, MarksFollow
  <2>2. i \in Nat /\ k \in Nat /\ i >= 1 /\ k >= 1  BY <1>1
  <2>3. k # 1 /\ i - 1 < k - 1  BY <2>1, <2>2
  <2>4. k - 1 \in DOMAIN n.plan /\ n.plan[k - 1] = q.plan[k]  BY <1>1, <2>3
  <2> QED  BY <2>1, <2>3, <2>4
<1>8. n.op \in {"delete", "dedupe"} => MarksFollow(n.plan)
  <2>1. SUFFICES ASSUME n.op \in {"delete", "dedupe"}, NEW i \in DOMAIN n.plan, n.plan[i][1] = "move"
                 PROVE  \E k \in DOMAIN n.plan : i < k /\ n.plan[k] = <<"mark", n.plan[i][2]>>
    BY DEF MarksFollow
  <2>2. i \in Nat /\ i + 1 \in DOMAIN q.plan /\ n.plan[i] = q.plan[i + 1]  BY <1>1
  <2>3. PICK k \in DOMAIN n.plan : (i + 1) - 1 < k /\ n.plan[k] = <<"mark", q.plan[i + 1][2]>>
    BY <1>1, <1>7, <2>1, <2>2
  <2>4. (i + 1) - 1 = i  BY <2>2
  <2> QED  BY <2>2, <2>3, <2>4
<1>9. ASSUME NEW p, q.op \in {"delete", "dedupe"}, x = <<"move", p>>  PROVE Marking(n, p)
  <2>0. 1 \in DOMAIN q.plan /\ q.plan[1][1] = "move" /\ q.plan[1][2] = p  BY <1>1, <1>9
  <2>1. PICK k \in DOMAIN n.plan : n.plan[k] = <<"mark", p>>
    <3>1. \E k \in DOMAIN n.plan : 1 - 1 < k /\ n.plan[k] = <<"mark", q.plan[1][2]>>  BY <1>7, <1>9, <2>0
    <3> QED  BY <2>0, <3>1
  <2> QED  BY <2>1, RangeIs DEF Marking, Todo
<1>10. ASSUME NEW p, Apart(q.items), x = <<"move", p>>  PROVE ~Moving(n, p)
  <2>1. SUFFICES ASSUME Moving(n, p)  PROVE FALSE  OBVIOUS
  <2>2. PICK i \in DOMAIN n.plan : n.plan[i] = <<"move", p>>  BY <2>1, RangeIs DEF Moving, Todo
  <2>3. i \in Nat /\ i + 1 \in DOMAIN q.plan /\ q.plan[i + 1] = q.plan[1]  BY <1>1, <1>10, <2>2
  <2>4. i + 1 = 1  BY <1>1, <1>10, <2>3 DEF RequestShape, Distinct
  <2>5. i >= 1
    <3>1. n.plan \in Seq(Steps)  BY <1>1 DEF RequestRecord
    <3> QED  BY <3>1
  <2> QED  BY <2>3, <2>4, <2>5
<1>11. ASSUME NEW p, MovesLead(q.plan, p), x # <<"move", p>>  PROVE MovesLead(n.plan, p)
  <2>1. SUFFICES ASSUME NEW k \in DOMAIN n.plan, n.plan[k] = <<"mark", p>>
                 PROVE  \E i \in DOMAIN n.plan : i < k /\ n.plan[i] = <<"move", p>>
    BY DEF MovesLead
  <2>2. k \in Nat /\ k + 1 \in DOMAIN q.plan /\ q.plan[k + 1] = <<"mark", p>>  BY <1>1, <2>1
  <2>3. PICK i \in DOMAIN q.plan : i < k + 1 /\ q.plan[i] = <<"move", p>>  BY <1>11, <2>2 DEF MovesLead
  <2>4. i \in Nat /\ i # 1  BY <1>1, <1>11, <2>3
  <2>5. i - 1 \in DOMAIN n.plan /\ n.plan[i - 1] = q.plan[i]  BY <1>1, <2>4
  <2>6. i - 1 < k  BY <2>2, <2>3, <2>4
  <2> QED  BY <2>3, <2>5, <2>6
<1>12. n.op # "dedupe" /\ (\E p \in Paths : Moving(n, p)) => Recording(n)
  <2>1. SUFFICES ASSUME n.op # "dedupe", NEW p \in Paths, Moving(n, p)
                 PROVE  Recording(n)
    OBVIOUS
  <2>2. Recording(q)  BY <1>1, <1>2, <2>1 DEF RequestShape
  <2>3. <<"move", p>> \in Todo(n)  BY <2>1 DEF Moving
  <2>4. x[1] # "record"  BY <1>1, <2>1, <2>3 DEF Precedes
  <2> QED  BY <1>4, <2>2, <2>4
<1>13. n.plan \in Seq(Steps)  BY <1>1 DEF RequestRecord
<1>14. RequestShape(n)  BY <1>1, <1>5, <1>6, <1>8, <1>12, <1>13 DEF RequestShape
<1>15. TodoLess(q, n, x)
  <2>1. \A p : q.op \in {"delete", "dedupe"} /\ x = <<"move", p>> => Marking(n, p)  BY <1>9
  <2>2. \A p : Apart(q.items) /\ x = <<"move", p>> => ~Moving(n, p)  BY <1>10
  <2>3. \A p : MovesLead(q.plan, p) /\ x # <<"move", p>> => MovesLead(n.plan, p)  BY <1>11
  <2> QED  BY <1>2, <1>3, <1>4, <2>1, <2>2, <2>3, Zenon DEF TodoLess
<1> QED  BY <1>14, <1>15 DEF x

\* What is behind a request that has come to a step.
LEMMA HeadFacts ==
  ASSUME NEW q \in RequestRecord, RequestShape(q), q.plan # <<>>,
         NEW kind, NEW p, Head(q.plan) = <<kind, p>>
  PROVE  /\ p \in Range(q.items) /\ p \in Paths
         /\ kind = "move" => Moving(q, p) /\ (Recording(q) <=> q.op # "dedupe")
         /\ kind = "record" => Recording(q) /\ (q.op = "dedupe" \/ \A o : ~Moving(q, o))
         /\ kind = "mark" => /\ q.op # "import" /\ Marking(q, p) /\ ~MovesLead(q.plan, p)
                             /\ Apart(q.items) => ~Moving(q, p)
                             /\ q.op \in {"delete", "dedupe"} => ~Recording(q)
         /\ kind = "hash" => q.op = "restore"
         /\ kind = "commit" => /\ q.op # "import" /\ ~Recording(q)
                               /\ \A o : ~Moving(q, o) /\ ~Marking(q, o)
<1> DEFINE x == <<kind, p>>
<1>1. PICK n : n = [q EXCEPT !.plan = Tail(@)]  OBVIOUS
<1>0. StepLess(q, n, x)  BY <1>1, Advanced
<1>2. /\ x \in Todo(q) /\ kind \in StepsOf[q.op] /\ p \in Range(q.items) /\ p \in Paths
      /\ \A y \in Todo(q) : y = x \/ ~Precedes(q.op, y, x)
      /\ 1 \in DOMAIN q.plan /\ q.plan[1] = x /\ \A i \in DOMAIN q.plan : i \in Nat /\ i >= 1
  BY <1>0 DEF StepLess
<1>3. q.op \in Ops  BY DEF RequestShape
<1>4. ASSUME kind = "move"  PROVE Moving(q, p) /\ (Recording(q) <=> q.op # "dedupe")
  <2>1. Moving(q, p)  BY <1>2, <1>4 DEF Moving
  <2>2. q.op # "dedupe" => Recording(q)  BY <1>2, <2>1 DEF RequestShape
  <2>3. q.op = "dedupe" => \A o : <<"record", o>> \notin Todo(q)
    <3>1. q.op = "dedupe" => \A o : Precedes(q.op, <<"record", o>>, x) /\ <<"record", o>> # x
      BY <1>4 DEF Precedes
    <3> QED  BY <1>2, <3>1
  <2> QED  BY <2>1, <2>2, <2>3 DEF Recording
<1>5. ASSUME kind = "record", q.op # "dedupe"  PROVE \A o : ~Moving(q, o)
  <2>1. \A o : Precedes(q.op, <<"move", o>>, x) /\ <<"move", o>> # x  BY <1>5 DEF Precedes
  <2> QED  BY <1>2, <2>1 DEF Moving
<1>r. kind = "record" => Recording(q)  BY <1>2 DEF Recording
<1>6. ASSUME kind = "mark"
      PROVE  /\ q.op # "import" /\ Marking(q, p) /\ ~MovesLead(q.plan, p)
             /\ Apart(q.items) => ~Moving(q, p)
             /\ q.op \in {"delete", "dedupe"} => ~Recording(q)
  <2>1. ASSUME Apart(q.items), Moving(q, p)  PROVE FALSE
    <3>1. PICK i \in DOMAIN q.plan : q.plan[i] = <<"move", p>>  BY <2>1, RangeIs DEF Moving, Todo
    <3>2. i < 1  BY <1>2, <1>6, <2>1, <3>1 DEF RequestShape, Distinct
    <3> QED  BY <1>2, <3>2
  <2>2. q.op \in {"delete", "dedupe"} => \A o : Precedes(q.op, <<"record", o>>, x) /\ <<"record", o>> # x
    BY <1>6 DEF Precedes
  <2>3. q.op # "import"  BY <1>2, <1>6 DEF StepsOf
  <2>4. ASSUME MovesLead(q.plan, p)  PROVE FALSE
    <3>1. PICK i \in DOMAIN q.plan : i < 1  BY <1>2, <1>6, <2>4 DEF MovesLead
    <3> QED  BY <1>2, <3>1
  <2>5. Marking(q, p)  BY <1>2, <1>6 DEF Marking
  <2> QED  BY <1>2, <2>1, <2>2, <2>3, <2>4, <2>5 DEF Recording
<1>7. ASSUME kind = "hash"  PROVE q.op = "restore"
  BY <1>2, <1>3, <1>7 DEF StepsOf, Ops
<1>8. ASSUME kind = "commit"
      PROVE  q.op # "import" /\ ~Recording(q) /\ \A o : ~Moving(q, o) /\ ~Marking(q, o)
  <2>1. \A o, k : k # "commit" => Precedes(q.op, <<k, o>>, x) /\ <<k, o>> # x  BY <1>8 DEF Precedes
  <2>2. \A o, k : k # "commit" => <<k, o>> \notin Todo(q)  BY <1>2, <2>1
  <2>3. q.op # "import"  BY <1>2, <1>8 DEF StepsOf
  <2> QED  BY <2>2, <2>3 DEF Moving, Marking, Recording
<1> QED  BY <1>2, <1>4, <1>5, <1>r, <1>6, <1>7, <1>8

\* A list of one file has nothing to mix up.
LEMMA OneIsApart ==
  ASSUME NEW items \in Seq(Paths), Len(items) = 1
  PROVE  Apart(items)
BY DEF Apart

LEMMA NoneIsNone == None \notin Payloads /\ None \notin Ids
BY ChangeSetsAssumption

LEMMA PlaceOf == \A p \in Paths : Slot[p] \in Places
BY DEF Places

LEMMA IdleFacts == /\ Idle.op = "none" /\ Idle.id = None /\ Idle.plan = <<>>
                   /\ ~RequestShape(Idle) /\ ~Takes(Idle) /\ Idle \in RequestRecord
BY DEF Idle, RequestShape, Ops, Takes, RequestRecord

\* A request that is doing a step.
LEMMA DoingRequest ==
  ASSUME TypeInv, NEW r \in Requests, NEW kind, Doing(r, kind)
  PROVE  /\ request[r] \in RequestRecord /\ RequestShape(request[r]) /\ request[r] # Idle
         /\ request[r].plan # <<>> /\ request[r].op \in Ops
         /\ request[r].id \in Ids /\ request[r].id # None
         /\ Next1(r) = Head(request[r].plan)
         /\ Next1(r) = <<kind, Next1(r)[2]>> /\ Next1(r)[2] \in Range(request[r].items)
         /\ Next1(r)[2] \in Paths
<1>1. request[r] \in RequestRecord /\ request[r].plan # <<>>
  BY DEF TypeInv, TypeOK, RequestRecord, Doing
<1>2. request[r] # Idle  BY <1>1, IdleFacts
<1>3. RequestShape(request[r])  BY <1>2 DEF TypeInv
<1>4. request[r].op \in Ops /\ request[r].id \in Ids /\ request[r].id # None
  BY <1>3, NoneIsNone DEF RequestShape
<1>5. Next1(r) = Head(request[r].plan) /\ Next1(r)[1] = kind  BY DEF Doing, Next1
<1>6. PICK n : n = [request[r] EXCEPT !.plan = Tail(@)]  OBVIOUS
<1> QED  BY <1>1, <1>2, <1>3, <1>4, <1>5, <1>6, Advanced DEF StepLess

-----------------------------------------------------------------------------
(* Every action keeps the invariant *)

LEMMA InitHolds == Init => ChangeInv
<1> SUFFICES ASSUME Init  PROVE ChangeInv  OBVIOUS
<1> USE DEF Init
<1>1. TypeOK
  <2>1. live \in [Paths -> Payloads \cup {None}] /\ kept \subseteq Payloads  OBVIOUS
  <2>2. record \in [Ids -> [status : {"none", "deleted", "moved", "imported", "restored"},
                            items : Seq(Paths), list : BOOLEAN]]
    BY DEF NoRecord
  <2>3. request \in [Requests -> RequestRecord]  BY IdleFacts
  <2> QED  BY <2>1, <2>2, <2>3, ChangeSetsAssumption DEF TypeOK, RequestRecord
<1>2. TypeInv  BY <1>1 DEF TypeInv, RecordShape
<1>3. \A id \in Ids : IdRight(id)  BY DEF IdRight, Untouched, Contents
<1>4. \A r \in Requests : RequestRight(r)  BY IdleFacts DEF RequestRight
<1>5. AloneInv
  <2>1. \A id \in Ids : Agrees(id)  BY DEF Agrees, NoRecord
  <2>2. \A r \in Requests : AloneRight(r)  BY IdleFacts DEF AloneRight
  <2>3. \A p \in Paths : live[p] # None  BY NoneIsNone
  <2> QED  BY <2>1, <2>2, <2>3 DEF AloneInv
<1> QED  BY <1>2, <1>3, <1>4, <1>5 DEF ChangeInv

LEMMA PutStep ==
  ASSUME ChangeInv, NEW p \in Paths, Put(p)
  PROVE  ChangeInv'
<1>1. PICK c \in Payloads : /\ live' = [live EXCEPT ![p] = c]
                            /\ kept' = (kept \ {live[p]}) \cup {c}
                            /\ UNCHANGED <<backup, record, row, note, request, faults, taken, fate, alone, cut, astray>>
  BY DEF Put
<1>2. c # None  BY NoneIsNone
<1>3. TypeInv'
  <2>1. TypeOK'  BY <1>1 DEF ChangeInv, TypeInv, TypeOK
  <2> QED  BY <1>1, <2>1 DEF ChangeInv, TypeInv
<1>4. \A id \in Ids : IdRight(id)'
  BY <1>1 DEF ChangeInv, IdRight, Untouched, Contents, Unlisted, Restorable
<1>5. \A r \in Requests : RequestRight(r)'
  BY <1>1 DEF ChangeInv, RequestRight, TakeRight, RestoreRight
<1>6. ASSUME alone  PROVE AloneInv'
  <2>1. \A o \in Paths : live'[o] = None => live[o] = None
    BY <1>1, <1>2 DEF ChangeInv, TypeInv, TypeOK
  <2>2. \A r \in Requests : AloneRight(r)'
    <3>1. TAKE r \in Requests
    <3>2. AloneRight(r)  BY <1>6 DEF ChangeInv, AloneInv
    <3>3. request[r] = Idle \/ RequestShape(request[r])  BY DEF ChangeInv, TypeInv
    <3>4. CASE request[r] = Idle  BY <1>1, <3>4, IdleFacts DEF AloneRight
    <3>5. CASE RequestShape(request[r])
      <4>1. \A o \in Range(request[r].items) : o \in Paths  BY <3>5, RangeIs DEF RequestShape
      <4> QED  BY <1>1, <2>1, <3>2, <4>1 DEF AloneRight, Agrees
    <3> QED  BY <3>3, <3>4, <3>5
  <2>3. \A id \in Ids : InFlight(id)' \/ Agrees(id)' \/ id \in cut'
    BY <1>1, <1>6 DEF ChangeInv, AloneInv, InFlight, Agrees
  <2>4. \A o \in Paths \ Internal : live'[o] = None => Leads(o)' \/ ToMark(o)' \/ o \in astray'
    BY <1>1, <1>6, <2>1 DEF ChangeInv, AloneInv, Leads, ToMark
  <2> QED  BY <1>1, <1>6, <2>2, <2>3, <2>4 DEF ChangeInv, AloneInv
<1> QED  BY <1>1, <1>3, <1>4, <1>5, <1>6 DEF ChangeInv

\* What a step leaves of the request that did it, and of the others.
LEMMA Stepped ==
  ASSUME TypeInv, NEW r \in Requests, NEW kind, Doing(r, kind), Advance(r)
  PROVE  /\ request' \in [Requests -> RequestRecord]
         /\ \A o \in Requests : o # r => request'[o] = request[o]
         /\ request'[r] # Idle /\ RequestShape(request'[r])
         /\ request'[r].op = request[r].op /\ request'[r].id = request[r].id
         /\ request'[r].items = request[r].items
         /\ \A p : Moving(request'[r], p) => Moving(request[r], p)
         /\ \A p : Moving(request[r], p) /\ Next1(r) # <<"move", p>> => Moving(request'[r], p)
         /\ \A p : Apart(request[r].items) /\ Next1(r) = <<"move", p>> => ~Moving(request'[r], p)
         /\ \A p : Marking(request'[r], p) => Marking(request[r], p)
         /\ \A p : Marking(request[r], p) /\ Next1(r) # <<"mark", p>> => Marking(request'[r], p)
         /\ \A p : request[r].op \in {"delete", "dedupe"} /\ Next1(r) = <<"move", p>>
                    => Marking(request'[r], p)
         /\ \A p : MovesLead(request[r].plan, p) /\ Next1(r) # <<"move", p>>
                    => MovesLead(request'[r].plan, p)
         /\ Recording(request'[r]) <=> Recording(request[r]) /\ kind # "record"
<1>1. PICK q \in RequestRecord : q = request[r]  BY DoingRequest
<1>2. PICK n : n = [q EXCEPT !.plan = Tail(@)]  OBVIOUS
<1>3. request \in [Requests -> RequestRecord]  BY DEF TypeInv, TypeOK, RequestRecord
<1>4. request' = [request EXCEPT ![r] = n]  BY <1>1, <1>2, <1>3 DEF Advance
<1>5. request'[r] = n /\ \A o \in Requests : o # r => request'[o] = request[o]  BY <1>3, <1>4
<1>6. RequestShape(q) /\ q.plan # <<>> /\ Next1(r) = Head(q.plan) /\ Next1(r)[1] = kind
  BY <1>1, DoingRequest DEF Doing
<1>7. /\ n \in RequestRecord /\ n # Idle
      /\ n.op = q.op /\ n.id = q.id /\ n.items = q.items
  BY <1>2, <1>6, Advanced DEF StepLess
<1>t. RequestShape(n) /\ TodoLess(q, n, Next1(r))  BY <1>2, <1>6, AdvancedTodo
<1>8. /\ RequestShape(n)
      /\ \A p : Moving(n, p) => Moving(q, p)
      /\ \A p : Moving(q, p) /\ Next1(r) # <<"move", p>> => Moving(n, p)
      /\ \A p : Apart(q.items) /\ Next1(r) = <<"move", p>> => ~Moving(n, p)
      /\ \A p : Marking(n, p) => Marking(q, p)
      /\ \A p : Marking(q, p) /\ Next1(r) # <<"mark", p>> => Marking(n, p)
      /\ \A p : q.op \in {"delete", "dedupe"} /\ Next1(r) = <<"move", p>> => Marking(n, p)
      /\ \A p : MovesLead(q.plan, p) /\ Next1(r) # <<"move", p>> => MovesLead(n.plan, p)
      /\ Recording(n) <=> Recording(q) /\ kind # "record"
  BY <1>6, <1>t DEF TodoLess
<1> QED  BY <1>1, <1>3, <1>4, <1>5, <1>7, <1>8

\* Requests that end leave the shape of the others.
LEMMA Ended ==
  ASSUME TypeInv, NEW r \in Requests, request' = [request EXCEPT ![r] = Idle]
  PROVE  /\ request' \in [Requests -> RequestRecord]
         /\ request'[r] = Idle
         /\ \A o \in Requests : o # r => request'[o] = request[o]
         /\ \A o \in Requests : request'[o] = Idle \/ RequestShape(request'[o])
<1>1. request \in [Requests -> RequestRecord]  BY DEF TypeInv, TypeOK, RequestRecord
<1> QED  BY <1>1, IdleFacts DEF TypeInv

\* The only request of a change set, while it takes files.
LEMMA OwnId ==
  ASSUME ChangeInv, NEW r \in Requests, Takes(request[r]),
         NEW o \in Requests, request[o].id = request[r].id
  PROVE  o = r
BY DEF ChangeInv, RequestRight, TakeRight

LEMMA WriteRecordStep ==
  ASSUME ChangeInv, NEW r \in Requests, WriteRecord(r)
  PROVE  ChangeInv'
<1>1. /\ Doing(r, "record") /\ Advance(r)
      /\ record' = [record EXCEPT ![request[r].id] =
                      [status |-> Ends[request[r].op], items |-> request[r].items,
                       list |-> @.list \/ request[r].op = "dedupe"]]
      /\ UNCHANGED <<live, backup, row, note, faults, kept, taken, fate, alone, cut, astray>>
  BY DEF WriteRecord
<1>2. PICK q \in RequestRecord : q = request[r]  BY DoingRequest, <1>1 DEF ChangeInv
<1>3. /\ RequestShape(q) /\ q # Idle /\ q.op \in Ops /\ q.id \in Ids /\ q.id # None
      /\ Recording(q) /\ (q.op = "dedupe" \/ \A o : ~Moving(q, o))
  BY <1>1, <1>2, DoingRequest, HeadFacts DEF ChangeInv
<1>4. /\ request' \in [Requests -> RequestRecord]
      /\ \A o \in Requests : o # r => request'[o] = request[o]
      /\ request'[r] # Idle /\ RequestShape(request'[r])
      /\ request'[r].op = q.op /\ request'[r].id = q.id /\ request'[r].items = q.items
      /\ \A p : Moving(request'[r], p) <=> Moving(q, p)
      /\ \A p : Marking(request'[r], p) <=> Marking(q, p)
      /\ \A p : MovesLead(q.plan, p) => MovesLead(request'[r].plan, p)
      /\ ~Recording(request'[r])
  <2>1. TypeInv  BY DEF ChangeInv
  <2>2. \A p : Next1(r) # <<"move", p>> /\ Next1(r) # <<"mark", p>>  BY <1>1 DEF Doing
  <2> QED  BY <1>1, <1>2, <2>1, <2>2, Stepped
<1>5. PICK c : c = [status |-> Ends[q.op], items |-> q.items, list |-> record[q.id].list \/ q.op = "dedupe"]
  OBVIOUS
<1>6. /\ c \in [status : {"deleted", "moved", "imported", "restored"}, items : Seq(Paths), list : BOOLEAN]
      /\ c.status = Ends[q.op] /\ c.items = q.items /\ RecordShape(c)
  <2>1. Ends[q.op] \in {"deleted", "moved", "imported", "restored"}  BY <1>3 DEF Ends, Ops
  <2>2. record[q.id].list \in BOOLEAN  BY <1>3 DEF ChangeInv, TypeInv, TypeOK
  <2>3. c.list \/ Len(c.items) = 1
    <3>1. CASE q.op = "restore"
      <4>1. record[q.id].status # "none" /\ record[q.id].items = q.items
        BY <1>2, <3>1 DEF ChangeInv, RequestRight, RestoreRight
      <4>2. RecordShape(record[q.id])  BY <1>3 DEF ChangeInv, TypeInv
      <4> QED  BY <1>5, <4>1, <4>2 DEF RecordShape, NoRecord
    <3>2. CASE q.op = "dedupe"  BY <1>5, <3>2
    <3> QED  BY <1>3, <1>5, <3>1, <3>2 DEF RequestShape, Ops
  <2>4. q.items \in Seq(Paths) /\ q.items # <<>>  BY <1>3 DEF RequestShape
  <2>5. c.list \in BOOLEAN  BY <1>5, <2>2
  <2> QED  BY <1>5, <2>1, <2>3, <2>4, <2>5 DEF RecordShape
<1>7. /\ record' = [record EXCEPT ![q.id] = c]
      /\ record'[q.id] = c /\ \A id \in Ids : id # q.id => record'[id] = record[id]
      /\ record' \in [Ids -> [status : {"none", "deleted", "moved", "imported", "restored"},
                              items : Seq(Paths), list : BOOLEAN]]
  <2>1. record \in [Ids -> [status : {"none", "deleted", "moved", "imported", "restored"},
                            items : Seq(Paths), list : BOOLEAN]]
    BY DEF ChangeInv, TypeInv, TypeOK
  <2>2. record' = [record EXCEPT ![q.id] = c]  BY <1>1, <1>2, <1>3, <1>5, <2>1
  <2> QED  BY <1>3, <1>6, <2>1, <2>2
<1>8. TypeInv'
  <2>1. TypeOK'  BY <1>1, <1>4, <1>7 DEF ChangeInv, TypeInv, TypeOK, RequestRecord
  <2>2. \A id \in Ids : RecordShape(record'[id])  BY <1>6, <1>7 DEF ChangeInv, TypeInv
  <2>3. \A o \in Requests : request'[o] = Idle \/ RequestShape(request'[o])
    BY <1>4 DEF ChangeInv, TypeInv
  <2> QED  BY <2>1, <2>2, <2>3 DEF TypeInv
<1>9. \A s \in Places : backup[q.id][s] # None =>
        \E p \in Range(q.items) : Slot[p] = s /\ taken[q.id][p] = backup[q.id][s]
  <2>1. CASE q.op = "restore"
    <3>1. RestoreRight(r)  BY <1>2, <2>1 DEF ChangeInv, RequestRight
    <3>2. Contents(q.id)  BY <1>3 DEF ChangeInv, IdRight
    <3> QED  BY <1>2, <3>1, <3>2 DEF RestoreRight, Contents, Unlisted
  <2>2. CASE Takes(q)
    <3>1. TakeRight(r)  BY <1>2, <2>2 DEF ChangeInv, RequestRight
    <3> QED  BY <1>2, <3>1 DEF TakeRight
  <2> QED  BY <1>3, <2>1, <2>2 DEF Ops, Takes
<1>10. fate[q.id] \in {"issued", "tried", "crashed"}
  BY <1>2, <1>3 DEF ChangeInv, RequestRight, TakeRight, RestoreRight, Takes, Ops
<1>11. \A id \in Ids : IdRight(id)'
  <2>1. TAKE id \in Ids
  <2>2. CASE id = q.id
    <3>1. Contents(id)'  BY <1>1, <1>6, <1>7, <1>9, <2>2 DEF Contents
    <3> QED  BY <1>1, <1>10, <2>2, <3>1 DEF IdRight
  <2>3. CASE id # q.id
    <3>1. IdRight(id)  BY DEF ChangeInv
    <3>2. Unlisted(id) => Unlisted(id)'  BY <1>1, <1>2, <1>4, <1>7, <2>3 DEF Unlisted
    <3> QED  BY <1>1, <1>7, <2>3, <3>1, <3>2 DEF IdRight, Untouched, Contents, Restorable
  <2> QED  BY <2>2, <2>3
<1>12. \A o \in Requests : RequestRight(o)'
  <2>1. TAKE o \in Requests
  <2>2. RequestRight(o) /\ RequestRight(r)  BY DEF ChangeInv
  <2>3. CASE o = r /\ Takes(q)
    <3>1. TakeRight(r)  BY <1>2, <2>2, <2>3 DEF RequestRight
    <3>3. c.list = (q.op = "dedupe")  BY <1>2, <1>3, <1>5, <3>1 DEF TakeRight, NoRecord
    <3>4. c = [status |-> Ends[q.op], items |-> q.items, list |-> q.op = "dedupe"]
      BY <1>5, <3>3
    <3>5. \A x \in Requests : request'[x].id = request[x].id  BY <1>2, <1>4
    <3>6. TakeRight(r)'  BY <1>1, <1>2, <1>4, <1>7, <3>1, <3>4, <3>5 DEF TakeRight
    <3> QED  BY <1>4, <2>3, <3>6 DEF RequestRight, Takes
  <2>4. CASE o = r /\ q.op = "restore"
    <3>1. RestoreRight(r)'
      BY <1>1, <1>2, <1>4, <1>6, <1>7, <2>2, <2>4 DEF RequestRight, RestoreRight
    <3> QED  BY <1>4, <2>4, <3>1 DEF RequestRight, Takes
  <2>5. CASE o # r
    <3>1. request'[o] = request[o]  BY <1>4, <2>5
    <3>2. Takes(request[o]) => TakeRight(o)'
      <4>1. SUFFICES ASSUME Takes(request[o])  PROVE TakeRight(o)'  OBVIOUS
      <4>2. TakeRight(o)  BY <2>2, <4>1 DEF RequestRight
      <4>3. request[o].id # q.id  BY <1>2, <2>5, <4>1, OwnId
      <4>4. \A x \in Requests : request'[x].id = request[x].id  BY <1>2, <1>4
      <4>5. request[o].id \in Ids  BY <4>1, IdleFacts DEF ChangeInv, TypeInv, RequestShape
      <4> QED  BY <1>1, <1>7, <3>1, <4>2, <4>3, <4>4, <4>5 DEF TakeRight
    <3>3. request[o].op = "restore" => RestoreRight(o)'
      <4>1. SUFFICES ASSUME request[o].op = "restore"  PROVE RestoreRight(o)'  OBVIOUS
      <4>2. RestoreRight(o)  BY <2>2, <4>1 DEF RequestRight
      <4>3. request[o].id \in Ids  BY <4>1, IdleFacts DEF ChangeInv, TypeInv, RequestShape
      <4>4. CASE request[o].id # q.id  BY <1>1, <1>7, <3>1, <4>2, <4>3, <4>4 DEF RestoreRight
      <4>5. CASE request[o].id = q.id
        <5>1. q.op = "restore"  BY <1>2, <1>3, <2>5, <4>5, OwnId DEF Ops, Takes
        <5>2. record[q.id].items = q.items
          BY <1>2, <2>2, <5>1 DEF RequestRight, RestoreRight
        <5> QED  BY <1>1, <1>6, <1>7, <3>1, <4>2, <4>5, <5>2 DEF RestoreRight
      <4> QED  BY <4>4, <4>5
    <3> QED  BY <3>1, <3>2, <3>3 DEF RequestRight, Takes
  <2> QED  BY <1>3, <2>3, <2>4, <2>5 DEF Ops, Takes
<1>13. ASSUME alone  PROVE AloneInv'
  <2>0. AloneInv  BY <1>13 DEF ChangeInv
  <2>1. \A x, o \in Requests : request'[x] # Idle /\ request'[o] # Idle => x = o
    BY <1>2, <1>3, <1>4, <2>0 DEF AloneInv
  <2>2. \A id \in Ids : InFlight(id)' \/ Agrees(id)' \/ id \in cut'
    <3>1. TAKE id \in Ids
    <3>2. CASE id = q.id  BY <1>4, <3>2 DEF InFlight
    <3>3. CASE id # q.id  BY <1>1, <1>2, <1>4, <1>7, <2>0, <3>3 DEF AloneInv, InFlight, Agrees
    <3> QED  BY <3>2, <3>3
  <2>3. \A o \in Requests : AloneRight(o)'
    <3>1. TAKE o \in Requests
    <3>2. CASE o = r
      <4>1. q.op = "restore" => record'[q.id].status = "restored"  BY <1>6, <1>7 DEF Ends
      <4>2. AloneRight(r)  BY <2>0 DEF AloneInv
      <4> QED  BY <1>1, <1>2, <1>4, <3>2, <4>1, <4>2 DEF AloneRight, Takes
    <3>3. CASE o # r
      <4>1. request'[o] = Idle  BY <1>2, <1>3, <1>4, <2>0, <3>3 DEF AloneInv
      <4> QED  BY <4>1, IdleFacts DEF AloneRight
    <3> QED  BY <3>2, <3>3
  <2>4. ASSUME NEW p \in Paths \ Internal, live'[p] = None
        PROVE  Leads(p)' \/ ToMark(p)' \/ p \in astray'
    <3>1. Leads(p) \/ ToMark(p) \/ p \in astray  BY <1>1, <2>0, <2>4 DEF AloneInv
    <3>2. ToMark(p) => ToMark(p)'  BY <1>2, <1>4 DEF ToMark
    <3>3. ASSUME Leads(p)  PROVE Leads(p)'
      <4>1. note[p].by \in Ids  BY <3>3 DEF Leads, ChangeInv, TypeInv, TypeOK
      <4>2. note[p].by # q.id
        <5>1. SUFFICES ASSUME note[p].by = q.id  PROVE FALSE  OBVIOUS
        <5>2. CASE Takes(q)
          <6>2. record[q.id] = NoRecord  BY <1>2, <1>3, <5>2 DEF ChangeInv, RequestRight, TakeRight
          <6> QED  BY <3>3, <5>1, <6>2 DEF Leads, NoRecord
        <5>3. CASE q.op = "restore"
          <6>1. record[q.id].items = q.items
            BY <1>2, <5>3 DEF ChangeInv, RequestRight, RestoreRight
          <6>2. p \in Range(q.items) /\ ~Moving(q, p)  BY <1>3, <3>3, <5>1, <5>3, <6>1 DEF Leads
          <6> QED  BY <1>1, <1>2, <2>0, <2>4, <5>3, <6>2 DEF AloneInv, AloneRight
        <5> QED  BY <1>3, <5>2, <5>3 DEF Ops, Takes
      <4> QED  BY <1>1, <1>7, <3>3, <4>1, <4>2 DEF Leads
    <3> QED  BY <1>1, <3>1, <3>2, <3>3
  <2> QED  BY <2>1, <2>2, <2>3, <2>4 DEF AloneInv
<1> QED  BY <1>1, <1>8, <1>11, <1>12, <1>13 DEF ChangeInv

\* The step of a move that finds its file: what is known before it.
LEMMA TakeStep ==
  ASSUME ChangeInv, NEW r \in Requests, Doing(r, "move"), Advance(r),
         Takes(request[r]), NEW p, p = Next1(r)[2], live[p] # None, Take(r, p),
         UNCHANGED <<record, row, note, faults, kept, fate, alone, cut, astray>>
  PROVE  ChangeInv'
<1>1. PICK q \in RequestRecord : q = request[r]  BY DoingRequest DEF ChangeInv
<1>2. /\ RequestShape(q) /\ q # Idle /\ q.op \in Ops /\ q.id \in Ids /\ q.id # None
      /\ p \in Paths /\ p \in Range(q.items) /\ Moving(q, p)
      /\ Next1(r) = <<"move", p>>
  BY <1>1, DoingRequest, HeadFacts DEF ChangeInv
<1>3. /\ request' \in [Requests -> RequestRecord]
      /\ \A o \in Requests : o # r => request'[o] = request[o]
      /\ request'[r] # Idle /\ RequestShape(request'[r])
      /\ request'[r].op = q.op /\ request'[r].id = q.id /\ request'[r].items = q.items
      /\ \A o : Moving(request'[r], o) => Moving(q, o)
      /\ \A o : Moving(q, o) /\ o # p => Moving(request'[r], o)
      /\ Apart(q.items) => ~Moving(request'[r], p)
      /\ \A o : Marking(request'[r], o) <=> Marking(q, o)
      /\ q.op \in {"delete", "dedupe"} => Marking(request'[r], p)
      /\ Recording(request'[r]) <=> Recording(q)
  <2>1. TypeInv  BY DEF ChangeInv
  <2>2. \A o : (Next1(r) # <<"move", o>> <=> o # p) /\ Next1(r) # <<"mark", o>>  BY <1>2
  <2>3. "move" # "record"  OBVIOUS
  <2> QED  BY <1>1, <2>1, <2>2, <2>3, Stepped
<1>4. PICK v \in Payloads : v = live[p]  BY <1>2 DEF ChangeInv, TypeInv, TypeOK
<1>5. Slot[p] \in Places /\ v # None  BY <1>2, <1>4, PlaceOf, NoneIsNone
<1>6. /\ backup' \in [Ids -> [Places -> Payloads \cup {None}]]
      /\ backup'[q.id][Slot[p]] = v
      /\ \A id \in Ids, s \in Places : id # q.id \/ s # Slot[p] => backup'[id][s] = backup[id][s]
      /\ \A id \in Ids : id # q.id => backup'[id] = backup[id]
  BY <1>1, <1>2, <1>4, <1>5 DEF Take, ChangeInv, TypeInv, TypeOK
<1>7. /\ live' \in [Paths -> Payloads \cup {None}]
      /\ live'[p] = None
      /\ \A o \in Paths : o # p => live'[o] = live[o]
  BY <1>2 DEF Take, ChangeInv, TypeInv, TypeOK
<1>8. /\ taken' \in [Ids -> [Paths -> Payloads \cup {None}]]
      /\ taken'[q.id][p] = v
      /\ \A id \in Ids, o \in Paths : id # q.id \/ o # p => taken'[id][o] = taken[id][o]
      /\ \A id \in Ids : id # q.id => taken'[id] = taken[id]
  BY <1>1, <1>2, <1>4 DEF Take, ChangeInv, TypeInv, TypeOK
<1>9. TypeInv'
  <2>1. TypeOK'  BY <1>3, <1>6, <1>7, <1>8 DEF ChangeInv, TypeInv, TypeOK, RequestRecord
  <2>2. \A o \in Requests : request'[o] = Idle \/ RequestShape(request'[o])
    BY <1>3 DEF ChangeInv, TypeInv
  <2> QED  BY <2>1, <2>2 DEF ChangeInv, TypeInv
<1>10. TakeRight(r)  BY <1>1 DEF ChangeInv, RequestRight
<1>11. \A o \in Range(q.items) : o \in Paths /\ (Apart(q.items) /\ Slot[o] = Slot[p] => o = p)
  BY <1>2, RangeIs DEF RequestShape, Apart
<1>12. \A id \in Ids : IdRight(id)'
  <2>1. TAKE id \in Ids
  <2>2. IdRight(id)  BY DEF ChangeInv
  <2>3. Unlisted(id) => Unlisted(id)'
    <3>1. \A o \in Requests : /\ request'[o].id = request[o].id
                              /\ Recording(request'[o]) <=> Recording(request[o])
      BY <1>1, <1>3
    <3> QED  BY <3>1 DEF Unlisted
  <2>4. CASE id # q.id
    <3>1. backup'[id] = backup[id] /\ taken'[id] = taken[id]  BY <1>6, <1>8, <2>4
    <3> QED  BY <2>2, <2>3, <3>1 DEF IdRight, Untouched, Contents, Restorable
  <2>5. CASE id = q.id
    <3>1. fate'[id] = "issued"  BY <1>1, <1>10, <2>5 DEF TakeRight
    <3>2. ASSUME NEW s \in Places, backup'[id][s] # None
          PROVE  \/ \E o \in Range(record'[id].items) : Slot[o] = s /\ taken'[id][o] = backup'[id][s]
                 \/ Unlisted(id)'
      <4>1. CASE Recording(q)
        <5>1. record[id] = NoRecord  BY <1>1, <1>10, <2>5, <4>1 DEF TakeRight
        <5> QED  BY <1>3, <2>5, <4>1, <5>1 DEF Unlisted, NoRecord
      <4>2. CASE ~Recording(q)
        <5>1. record[id].items = q.items  BY <1>1, <1>10, <2>5, <4>2 DEF TakeRight
        <5>2. CASE s = Slot[p]  BY <1>2, <1>6, <1>8, <2>5, <5>1, <5>2
        <5>3. CASE s # Slot[p]
          <6>1. backup[id][s] # None /\ backup'[id][s] = backup[id][s]  BY <1>6, <3>2, <5>3
          <6>2. CASE Unlisted(id)  BY <2>3, <6>2
          <6>3. CASE \E o \in Range(record[id].items) : Slot[o] = s /\ taken[id][o] = backup[id][s]
            <7>1. PICK o \in Range(q.items) : Slot[o] = s /\ taken[id][o] = backup[id][s]
              BY <5>1, <6>3
            <7>2. taken'[id][o] = taken[id][o]
              <8>1. o # p /\ o \in Paths  BY <1>11, <5>3, <7>1
              <8> QED  BY <1>8, <8>1
            <7> QED  BY <5>1, <6>1, <7>1, <7>2
          <6> QED  BY <2>2, <6>1, <6>2, <6>3 DEF IdRight, Contents
        <5> QED  BY <5>2, <5>3
      <4> QED  BY <4>1, <4>2
    <3> QED  BY <3>1, <3>2 DEF IdRight, Contents
  <2> QED  BY <2>4, <2>5
<1>13. \A o \in Requests : RequestRight(o)'
  <2>1. TAKE o \in Requests
  <2>2. RequestRight(o)  BY DEF ChangeInv
  <2>3. \A x \in Requests : request'[x].id = request[x].id  BY <1>1, <1>3
  <2>4. CASE o = r
    <3>1. Apart(q.items) => \A x \in Range(q.items) :
            IF Moving(request'[r], x)
            THEN backup'[q.id][Slot[x]] = None
            ELSE backup'[q.id][Slot[x]] = taken'[q.id][x] /\ taken'[q.id][x] # None
      <4>0. HAVE Apart(q.items)
      <4>1. TAKE x \in Range(q.items)
      <4>2. CASE x = p  BY <1>3, <1>5, <1>6, <1>8, <4>0, <4>2
      <4>3. CASE x # p
        <5>1. x \in Paths /\ Slot[x] \in Places /\ Slot[x] # Slot[p]  BY <1>11, <4>0, <4>3, PlaceOf
        <5>2. backup'[q.id][Slot[x]] = backup[q.id][Slot[x]] /\ taken'[q.id][x] = taken[q.id][x]
          BY <1>2, <1>6, <1>8, <4>3, <5>1
        <5>3. Moving(request'[r], x) <=> Moving(q, x)  BY <1>3, <4>3
        <5> QED  BY <1>1, <1>10, <4>0, <5>2, <5>3 DEF TakeRight
      <4> QED  BY <4>2, <4>3
    <3>2. ASSUME NEW s \in Places, backup'[q.id][s] # None
          PROVE  \E x \in Range(q.items) : Slot[x] = s /\ taken'[q.id][x] = backup'[q.id][s]
      <4>1. CASE s = Slot[p]  BY <1>2, <1>6, <1>8, <4>1
      <4>2. CASE s # Slot[p]
        <5>1. backup'[q.id][s] = backup[q.id][s]  BY <1>2, <1>6, <4>2
        <5>2. PICK x \in Range(q.items) : Slot[x] = s /\ taken[q.id][x] = backup[q.id][s]
          BY <1>1, <1>10, <3>2, <5>1 DEF TakeRight
        <5>3. x # p /\ x \in Paths  BY <1>11, <4>2, <5>2
        <5>4. taken'[q.id][x] = taken[q.id][x]  BY <1>2, <1>8, <5>3
        <5> QED  BY <5>1, <5>2, <5>4
      <4> QED  BY <4>1, <4>2
    <3>4. ASSUME q.op # "dedupe", NEW x \in Paths, Moving(request'[r], x)  PROVE FALSE
      <4>1. Len(q.items) = 1  BY <1>1, <1>2, <3>4 DEF RequestShape, Takes
      <4>2. q.items \in Seq(Paths)  BY <1>2 DEF RequestShape
      <4>3. Range(q.items) = {p} /\ Apart(q.items)  BY <1>2, <4>1, <4>2, OneItem, OneIsApart
      <4>4. x \in Range(q.items)
        <5>1. <<"move", x>> \in Todo(q)  BY <1>3, <3>4 DEF Moving
        <5> QED  BY <1>2, <5>1 DEF RequestShape
      <4> QED  BY <1>3, <3>4, <4>3, <4>4
    <3>3. TakeRight(r)'  BY <1>1, <1>3, <1>10, <2>3, <3>1, <3>2, <3>4 DEF TakeRight
    <3> QED  BY <1>1, <1>3, <2>4, <3>3 DEF RequestRight, Takes
  <2>5. CASE o # r
    <3>1. request'[o] = request[o] /\ request[o].id # q.id  BY <1>1, <1>3, <2>5, OwnId
    <3>2. ASSUME request[o] # Idle
          PROVE  backup'[request[o].id] = backup[request[o].id] /\ taken'[request[o].id] = taken[request[o].id]
      <4>1. request[o].id \in Ids  BY <3>2 DEF ChangeInv, TypeInv, RequestShape
      <4> QED  BY <1>6, <1>8, <3>1, <4>1
    <3>3. CASE request[o] = Idle  BY <3>1, <3>3, IdleFacts DEF RequestRight
    <3>4. CASE request[o] # Idle
      <4>1. TakeRight(o) => TakeRight(o)'  BY <2>3, <3>1, <3>2, <3>4 DEF TakeRight
      <4>2. RestoreRight(o) => RestoreRight(o)'  BY <3>1 DEF RestoreRight
      <4> QED  BY <2>2, <3>1, <4>1, <4>2 DEF RequestRight, Takes
    <3> QED  BY <3>3, <3>4
  <2> QED  BY <2>4, <2>5
<1>14. ASSUME alone  PROVE AloneInv'
  <2>0. AloneInv  BY <1>14 DEF ChangeInv
  <2>1. \A x, o \in Requests : request'[x] # Idle /\ request'[o] # Idle => x = o
    BY <1>1, <1>2, <1>3, <2>0 DEF AloneInv
  <2>2. \A id \in Ids : InFlight(id)' \/ Agrees(id)' \/ id \in cut'
    BY <1>1, <1>3, <2>0 DEF AloneInv, InFlight, Agrees
  <2>3. \A o \in Requests : AloneRight(o)'
    <3>1. TAKE o \in Requests
    <3>2. CASE o = r
      <4>1. request'[o].op # "restore"  BY <1>1, <1>3, <3>2 DEF Takes
      <4> QED  BY <4>1 DEF AloneRight
    <3>3. CASE o # r
      <4>1. request'[o] = Idle  BY <1>1, <1>2, <1>3, <2>0, <3>3 DEF AloneInv
      <4> QED  BY <4>1, IdleFacts DEF AloneRight
    <3> QED  BY <3>2, <3>3
  <2>4. ASSUME NEW o \in Paths \ Internal, live'[o] = None
        PROVE  Leads(o)' \/ ToMark(o)' \/ o \in astray'
    <3>1. CASE o = p
      <4>1. q.op \in {"delete", "dedupe"}
        BY <1>1, <1>2, <2>4, <3>1 DEF RequestShape, Takes
      <4>2. ToMark(p)'  BY <1>3, <4>1 DEF ToMark
      <4> QED  BY <3>1, <4>2
    <3>2. CASE o # p
      <4>1. live[o] = None  BY <1>7, <2>4, <3>2
      <4>2. ToMark(o) => ToMark(o)'  BY <1>1, <1>3 DEF ToMark
      <4>3. ASSUME Leads(o)  PROVE Leads(o)'
        <5>1. note[o].by \in Ids /\ Slot[o] \in Places
          BY <4>3, PlaceOf DEF Leads, ChangeInv, TypeInv, TypeOK
        <5>2. CASE note[o].by = q.id /\ Slot[o] = Slot[p]
          <6>1. backup'[note[o].by][Slot[o]] # None  BY <1>5, <1>6, <5>2
          <6> QED  BY <4>3, <6>1 DEF Leads
        <5>3. CASE note[o].by # q.id \/ Slot[o] # Slot[p]
          <6>1. backup'[note[o].by][Slot[o]] = backup[note[o].by][Slot[o]]  BY <1>6, <5>1, <5>3
          <6> QED  BY <4>3, <6>1 DEF Leads
        <5> QED  BY <5>2, <5>3
      <4> QED  BY <2>0, <4>1, <4>2, <4>3 DEF AloneInv
    <3> QED  BY <3>1, <3>2
  <2> QED  BY <2>1, <2>2, <2>3, <2>4 DEF AloneInv
<1> QED  BY <1>9, <1>12, <1>13, <1>14 DEF ChangeInv

LEMMA GiveBackStep ==
  ASSUME ChangeInv, NEW r \in Requests, Doing(r, "move"), Advance(r),
         request[r].op = "restore", NEW p, p = Next1(r)[2],
         backup[request[r].id][Slot[p]] # None, GiveBack(r, p),
         UNCHANGED <<record, row, note, faults, kept, fate, alone, cut, astray>>
  PROVE  ChangeInv'
<1>1. PICK q \in RequestRecord : q = request[r]  BY DoingRequest DEF ChangeInv
<1>2. /\ RequestShape(q) /\ q # Idle /\ q.op = "restore" /\ q.id \in Ids /\ q.id # None
      /\ p \in Paths /\ p \in Range(q.items) /\ Moving(q, p)
      /\ Next1(r) = <<"move", p>>
  BY <1>1, DoingRequest, HeadFacts DEF ChangeInv
<1>3. /\ request' \in [Requests -> RequestRecord]
      /\ \A o \in Requests : o # r => request'[o] = request[o]
      /\ request'[r] # Idle /\ RequestShape(request'[r])
      /\ request'[r].op = q.op /\ request'[r].id = q.id /\ request'[r].items = q.items
      /\ \A o : Moving(request'[r], o) => Moving(q, o)
      /\ \A o : Moving(q, o) /\ o # p => Moving(request'[r], o)
      /\ \A o : Marking(request'[r], o) <=> Marking(q, o)
      /\ \A o : MovesLead(q.plan, o) /\ o # p => MovesLead(request'[r].plan, o)
      /\ Recording(request'[r]) <=> Recording(q)
  <2>1. TypeInv  BY DEF ChangeInv
  <2>2. \A o : (Next1(r) # <<"move", o>> <=> o # p) /\ Next1(r) # <<"mark", o>>  BY <1>2
  <2>3. "move" # "record"  OBVIOUS
  <2> QED  BY <1>1, <2>1, <2>2, <2>3, Stepped
<1>5. Slot[p] \in Places  BY <1>2, PlaceOf
<1>4. PICK v \in Payloads : v = backup[q.id][Slot[p]]
  BY <1>1, <1>2, <1>5 DEF ChangeInv, TypeInv, TypeOK
<1>6. /\ backup' \in [Ids -> [Places -> Payloads \cup {None}]]
      /\ backup'[q.id][Slot[p]] = None
      /\ \A id \in Ids, s \in Places : id # q.id \/ s # Slot[p] => backup'[id][s] = backup[id][s]
      /\ \A id \in Ids : id # q.id => backup'[id] = backup[id]
  BY <1>1, <1>2, <1>5 DEF GiveBack, ChangeInv, TypeInv, TypeOK
<1>7. /\ live' \in [Paths -> Payloads \cup {None}]
      /\ live'[p] = v /\ v # None
      /\ \A o \in Paths : o # p => live'[o] = live[o]
  BY <1>1, <1>2, <1>4, NoneIsNone DEF GiveBack, ChangeInv, TypeInv, TypeOK
<1>8. taken' = taken  BY DEF GiveBack
<1>9. TypeInv'
  <2>1. TypeOK'  BY <1>3, <1>6, <1>7, <1>8 DEF ChangeInv, TypeInv, TypeOK, RequestRecord
  <2>2. \A o \in Requests : request'[o] = Idle \/ RequestShape(request'[o])
    BY <1>3 DEF ChangeInv, TypeInv
  <2> QED  BY <2>1, <2>2 DEF ChangeInv, TypeInv
<1>10. RestoreRight(r)  BY <1>1, <1>2 DEF ChangeInv, RequestRight
<1>11. \A o \in Range(q.items) : o \in Paths /\ (Apart(q.items) /\ Slot[o] = Slot[p] => o = p)
  BY <1>2, RangeIs DEF RequestShape, Apart
<1>12. \A id \in Ids : IdRight(id)'
  <2>1. TAKE id \in Ids
  <2>2. IdRight(id)  BY DEF ChangeInv
  <2>3. Unlisted(id) => Unlisted(id)'
    <3>1. \A o \in Requests : /\ request'[o].id = request[o].id
                              /\ Recording(request'[o]) <=> Recording(request[o])
      BY <1>1, <1>3
    <3> QED  BY <3>1 DEF Unlisted
  <2>4. CASE id # q.id
    <3>1. backup'[id] = backup[id]  BY <1>6, <2>4
    <3> QED  BY <1>8, <2>2, <2>3, <3>1 DEF IdRight, Untouched, Contents, Restorable
  <2>5. CASE id = q.id
    <3>1. fate'[id] \in {"tried", "crashed"}  BY <1>1, <1>10, <2>5 DEF RestoreRight
    <3>2. \A s \in Places : backup'[id][s] # None => backup'[id][s] = backup[id][s]
      BY <1>6, <2>5
    <3>3. Contents(id)'  BY <1>8, <2>2, <2>3, <3>2 DEF IdRight, Contents
    <3> QED  BY <3>1, <3>3 DEF IdRight
  <2> QED  BY <2>4, <2>5
<1>13. \A o \in Requests : RequestRight(o)'
  <2>1. TAKE o \in Requests
  <2>2. RequestRight(o)  BY DEF ChangeInv
  <2>3. \A x \in Requests : request'[x].id = request[x].id  BY <1>1, <1>3
  <2>4. CASE o = r
    <3>1. RestoreRight(r)'  BY <1>1, <1>3, <1>10 DEF RestoreRight
    <3> QED  BY <1>2, <1>3, <2>4, <3>1 DEF RequestRight, Takes
  <2>5. CASE o # r
    <3>1. request'[o] = request[o]  BY <1>3, <2>5
    <3>2. ASSUME Takes(request[o])  PROVE TakeRight(o)'
      <4>1. request[o].id # q.id  BY <1>1, <2>5, <3>2, OwnId
      <4>2. request[o].id \in Ids  BY <3>2, IdleFacts DEF ChangeInv, TypeInv, RequestShape
      <4>3. backup'[request[o].id] = backup[request[o].id]  BY <1>6, <4>1, <4>2
      <4>4. TakeRight(o)  BY <2>2, <3>2 DEF RequestRight
      <4> QED  BY <1>8, <2>3, <3>1, <4>3, <4>4 DEF TakeRight
    <3>3. RestoreRight(o) => RestoreRight(o)'  BY <3>1 DEF RestoreRight
    <3> QED  BY <2>2, <3>1, <3>2, <3>3 DEF RequestRight, Takes
  <2> QED  BY <2>4, <2>5
<1>14. ASSUME alone  PROVE AloneInv'
  <2>0. AloneInv  BY <1>14 DEF ChangeInv
  <2>1. \A x, o \in Requests : request'[x] # Idle /\ request'[o] # Idle => x = o
    BY <1>1, <1>2, <1>3, <2>0 DEF AloneInv
  <2>2. \A id \in Ids : InFlight(id)' \/ Agrees(id)' \/ id \in cut'
    BY <1>1, <1>3, <2>0 DEF AloneInv, InFlight, Agrees
  <2>3. \A o \in Requests : AloneRight(o)'
    <3>1. TAKE o \in Requests
    <3>2. CASE o = r
      <4>1. AloneRight(r)  BY <2>0 DEF AloneInv
      <4>2. \A x \in Range(q.items) :
              (Moving(request'[r], x) /\ MovesLead(request'[r].plan, x)) \/ live'[x] # None
        BY <1>1, <1>2, <1>3, <1>7, <1>11, <4>1 DEF AloneRight
      <4> QED  BY <1>1, <1>2, <1>3, <3>2, <4>1, <4>2 DEF AloneRight, Takes, Agrees
    <3>3. CASE o # r
      <4>1. request'[o] = Idle  BY <1>1, <1>2, <1>3, <2>0, <3>3 DEF AloneInv
      <4> QED  BY <4>1, IdleFacts DEF AloneRight
    <3> QED  BY <3>2, <3>3
  <2>4. ASSUME NEW o \in Paths \ Internal, live'[o] = None
        PROVE  Leads(o)' \/ ToMark(o)' \/ o \in astray'
    <3>1. o # p  BY <1>7, <2>4
    <3>2. live[o] = None  BY <1>7, <2>4, <3>1
    <3>3. ToMark(o) => ToMark(o)'  BY <1>1, <1>3 DEF ToMark
    <3>4. ASSUME Leads(o)  PROVE Leads(o)'
      <4>1. note[o].by \in Ids /\ Slot[o] \in Places
        BY <3>4, PlaceOf DEF Leads, ChangeInv, TypeInv, TypeOK
      <4>2. CASE note[o].by = q.id /\ Slot[o] = Slot[p]
        <5>1. record[q.id].items = q.items  BY <1>1, <1>10 DEF RestoreRight
        <5> QED  BY <1>11, <3>1, <3>4, <4>2, <5>1 DEF Leads
      <4>3. CASE note[o].by # q.id \/ Slot[o] # Slot[p]
        <5>1. backup'[note[o].by][Slot[o]] = backup[note[o].by][Slot[o]]  BY <1>6, <4>1, <4>3
        <5> QED  BY <3>4, <5>1 DEF Leads
      <4> QED  BY <4>2, <4>3
    <3> QED  BY <2>0, <3>2, <3>3, <3>4 DEF AloneInv
  <2> QED  BY <2>1, <2>2, <2>3, <2>4 DEF AloneInv
<1> QED  BY <1>9, <1>12, <1>13, <1>14 DEF ChangeInv

\* An error ends a request, after it may have marked one more note.
LEMMA StopStep ==
  ASSUME ChangeInv, NEW r \in Requests, RequestShape(request[r]), Stop(r),
         Takes(request[r]) /\ Recording(request[r]) =>
           \A s \in Places : backup[request[r].id][s] = None,
         UNCHANGED <<live, backup, record, row, kept, taken, fate, alone>>,
         faults' \in 0..MaxFaults,
         note' \in [Paths -> [status : {"active", "deleted"}, by : Ids \cup {None}]],
         astray' \subseteq Paths,
         alone => \A p \in Paths : live[p] = None =>
                    \/ p \in astray' \/ Leads(p)'
                    \/ note'[p] = note[p] /\ p \notin Unmarked(r) /\ p \notin astray
  PROVE  ChangeInv'
<1>1. PICK q \in RequestRecord : q = request[r]
  BY DEF ChangeInv, TypeInv, TypeOK, RequestRecord
<1>2. /\ RequestShape(q) /\ q.op \in Ops /\ q.id \in Ids /\ q.id # None /\ q # Idle
  BY <1>1, NoneIsNone, IdleFacts DEF RequestShape
<1>3. /\ request' \in [Requests -> RequestRecord]
      /\ request'[r] = Idle
      /\ \A o \in Requests : o # r => request'[o] = request[o]
      /\ \A o \in Requests : request'[o] = Idle \/ RequestShape(request'[o])
      /\ UNCHANGED <<live, backup, record, row, kept, taken, fate, alone>>
  <2>1. TypeInv /\ request' = [request EXCEPT ![r] = Idle]  BY DEF ChangeInv, Stop
  <2> QED  BY <2>1, Ended
<1>c. cut' = IF Recording(q) THEN cut ELSE cut \cup {q.id}
  BY <1>1 DEF Stop, Recording, Todo
<1>4. TypeInv'
  <2>1. cut' \subseteq Ids  BY <1>2, <1>c DEF ChangeInv, TypeInv, TypeOK
  <2>2. TypeOK'  BY <1>3, <2>1 DEF ChangeInv, TypeInv, TypeOK, RequestRecord
  <2> QED  BY <1>3, <2>2 DEF ChangeInv, TypeInv
<1>5. \A id \in Ids : IdRight(id)'
  <2>1. TAKE id \in Ids
  <2>2. IdRight(id)  BY DEF ChangeInv
  <2>3. CASE id # q.id
    <3>1. Unlisted(id) => Unlisted(id)'  BY <1>1, <1>3, <2>3 DEF Unlisted
    <3> QED  BY <1>3, <2>2, <3>1 DEF IdRight, Untouched, Contents, Restorable
  <2>4. CASE id = q.id
    <3>1. Contents(id)'
      <4>1. CASE Takes(q) /\ Recording(q)  BY <1>1, <1>3, <2>4, <4>1 DEF Contents
      <4>2. CASE Takes(q) /\ ~Recording(q)
        <5>0. TakeRight(r)  BY <1>1, <4>2 DEF ChangeInv, RequestRight
        <5>1. record[id].status = Ends[q.op]  BY <1>1, <2>4, <4>2, <5>0 DEF TakeRight
        <5>2. ~Unlisted(id)  BY <4>2, <5>1 DEF Unlisted, Ends, Takes
        <5> QED  BY <1>3, <2>2, <5>2 DEF IdRight, Contents
      <4>3. CASE q.op = "restore"
        <5>1. ~Unlisted(id)
          BY <1>1, <2>4, <4>3 DEF ChangeInv, RequestRight, RestoreRight, Unlisted
        <5> QED  BY <1>3, <2>2, <5>1 DEF IdRight, Contents
      <4> QED  BY <1>2, <4>1, <4>2, <4>3 DEF Ops, Takes
    <3> QED  BY <1>3, <2>2, <3>1 DEF IdRight, Untouched, Restorable
  <2> QED  BY <2>3, <2>4
<1>6. \A o \in Requests : RequestRight(o)'
  <2>1. TAKE o \in Requests
  <2>2. RequestRight(o)  BY DEF ChangeInv
  <2>3. CASE o = r  BY <1>3, <2>3, IdleFacts DEF RequestRight
  <2>4. CASE o # r
    <3>1. request'[o] = request[o]  BY <1>3, <2>4
    <3>2. ASSUME Takes(request[o])  PROVE TakeRight(o)'
      <4>1. TakeRight(o)  BY <2>2, <3>2 DEF RequestRight
      <4>2. request[o].id # None  BY <3>2, IdleFacts, NoneIsNone DEF ChangeInv, TypeInv, RequestShape
      <4>3. \A x \in Requests : request'[x].id = request[o].id => x = o
        BY <1>3, <4>1, <4>2, IdleFacts DEF TakeRight
      <4> QED  BY <1>3, <3>1, <4>1, <4>3 DEF TakeRight
    <3>3. RestoreRight(o) => RestoreRight(o)'  BY <1>3, <3>1 DEF RestoreRight
    <3> QED  BY <2>2, <3>1, <3>2, <3>3 DEF RequestRight, Takes
  <2> QED  BY <2>3, <2>4
<1>7. ASSUME alone  PROVE AloneInv'
  <2>0. AloneInv  BY <1>7 DEF ChangeInv
  <2>1. \A o \in Requests : request'[o] = Idle /\ (o # r => request[o] = Idle)
    BY <1>1, <1>2, <1>3, <2>0 DEF AloneInv
  <2>2. \A id \in Ids : Agrees(id)' \/ id \in cut'
    <3>1. TAKE id \in Ids
    <3>2. CASE id = q.id
      <4>1. CASE ~Recording(q)  BY <1>c, <3>2, <4>1
      <4>2. CASE Recording(q) /\ Takes(q)
        <5>1. TakeRight(r)  BY <1>1, <4>2 DEF ChangeInv, RequestRight
        <5>2. record[id] = NoRecord /\ row[id] = "none"  BY <1>1, <3>2, <4>2, <5>1 DEF TakeRight
        <5> QED  BY <1>3, <5>2 DEF Agrees, NoRecord
      <4>3. CASE Recording(q) /\ q.op = "restore"
        BY <1>1, <1>3, <1>c, <2>0, <3>2, <4>3 DEF AloneInv, AloneRight, Agrees
      <4> QED  BY <1>2, <4>1, <4>2, <4>3 DEF Ops, Takes
    <3>3. CASE id # q.id
      <4>1. ~InFlight(id)  BY <1>1, <2>1, <3>3, IdleFacts, NoneIsNone DEF InFlight
      <4> QED  BY <1>3, <1>c, <2>0, <4>1 DEF AloneInv, Agrees
    <3> QED  BY <3>2, <3>3
  <2>3. \A o \in Requests : AloneRight(o)'  BY <2>1, IdleFacts DEF AloneRight
  <2>4. ASSUME NEW p \in Paths \ Internal, live'[p] = None
        PROVE  Leads(p)' \/ p \in astray'
    <3>1. SUFFICES ASSUME note'[p] = note[p], p \notin Unmarked(r), p \notin astray
                   PROVE  Leads(p)'
      BY <1>3, <1>7, <2>4
    <3>2. ~ToMark(p)
      <4>1. SUFFICES ASSUME ToMark(p)  PROVE FALSE  OBVIOUS
      <4>2. PICK o \in Requests : request[o].op \in {"delete", "dedupe"} /\ Marking(request[o], p)
        BY <4>1 DEF ToMark
      <4>3. o = r  BY <2>1, <4>2, IdleFacts
      <4> QED  BY <2>4, <3>1, <4>2, <4>3 DEF Unmarked, Marking, Todo
    <3>3. Leads(p)  BY <1>3, <2>0, <2>4, <3>1, <3>2 DEF AloneInv
    <3> QED  BY <1>3, <3>1, <3>3 DEF Leads
  <2> QED  BY <2>1, <2>2, <2>3, <2>4 DEF AloneInv
<1> QED  BY <1>3, <1>4, <1>5, <1>6, <1>7 DEF ChangeInv

LEMMA FailStep ==
  ASSUME ChangeInv, NEW r \in Requests, RequestShape(request[r]), Fail(r),
         Takes(request[r]) /\ Recording(request[r]) =>
           \A s \in Places : backup[request[r].id][s] = None
  PROVE  ChangeInv'
<1>1. /\ Stop(r) /\ astray' = astray \cup Unmarked(r)
      /\ UNCHANGED <<live, backup, record, row, note, faults, kept, taken, fate, alone>>
  BY DEF Fail
<1>2. TypeOK /\ astray' \subseteq Paths  BY <1>1 DEF ChangeInv, TypeInv, TypeOK, Unmarked
<1>3. /\ note' \in [Paths -> [status : {"active", "deleted"}, by : Ids \cup {None}]]
      /\ faults' \in 0..MaxFaults
  BY <1>1, <1>2 DEF TypeOK
<1>4. \A p \in Paths : p \in astray' \/ (note'[p] = note[p] /\ p \notin Unmarked(r) /\ p \notin astray)
  BY <1>1
<1> QED  BY <1>1, <1>2, <1>3, <1>4, StopStep

LEMMA MoveStep ==
  ASSUME ChangeInv, NEW r \in Requests, Move(r)
  PROVE  ChangeInv'
<1>1. PICK p : p = Next1(r)[2]  OBVIOUS
<1>2. PICK q \in RequestRecord : q = request[r]  BY DoingRequest DEF ChangeInv, Move
<1>3. /\ Doing(r, "move") /\ TypeInv
      /\ RequestShape(q) /\ q # Idle /\ q.op \in Ops
      /\ p \in Paths /\ p \in Range(q.items)
      /\ Moving(q, p) /\ (Recording(q) <=> q.op # "dedupe")
  <2>1. Doing(r, "move") /\ TypeInv  BY DEF ChangeInv, Move
  <2>2. /\ RequestShape(q) /\ q # Idle /\ q.op \in Ops /\ q.plan # <<>>
        /\ Head(q.plan) = <<"move", p>>
    BY <1>1, <1>2, <2>1, DoingRequest
  <2> QED  BY <2>1, <2>2, HeadFacts
<1>4. CASE Source(r, p) = None
  <2>1. Fail(r)  BY <1>1, <1>4 DEF Move
  <2>2. ASSUME Takes(q), Recording(q)
        PROVE  \A s \in Places : backup[q.id][s] = None
    <3>1. TakeRight(r)  BY <1>2, <2>2 DEF ChangeInv, RequestRight
    <3> QED  BY <1>2, <1>3, <2>2, <3>1 DEF TakeRight
  <2> QED  BY <1>2, <1>3, <2>1, <2>2, FailStep
<1>5. CASE Source(r, p) # None
  <2>1. /\ IF q.op = "restore" THEN GiveBack(r, p) ELSE Take(r, p)
        /\ Advance(r)
        /\ UNCHANGED <<record, row, note, faults, kept, fate, alone, cut, astray>>
    BY <1>1, <1>2, <1>5 DEF Move
  <2>2. CASE q.op = "restore"
    <3>1. backup[request[r].id][Slot[p]] # None  BY <1>2, <1>5, <2>2 DEF Source
    <3> QED  BY <1>1, <1>2, <1>3, <2>1, <2>2, <3>1, GiveBackStep
  <2>3. CASE q.op # "restore"
    <3>1. live[p] # None  BY <1>2, <1>5, <2>3 DEF Source
    <3>2. Takes(q)  BY <1>3, <2>3 DEF Takes, Ops
    <3> QED  BY <1>1, <1>2, <1>3, <2>1, <2>3, <3>1, <3>2, TakeStep
  <2> QED  BY <2>2, <2>3
<1> QED  BY <1>4, <1>5

\* A step that moves nothing, records nothing and commits nothing.
LEMMA QuietStep ==
  ASSUME ChangeInv, NEW r \in Requests, NEW kind \in {"mark", "hash"}, Doing(r, kind), Advance(r),
         NEW p, p = Next1(r)[2],
         UNCHANGED <<live, backup, record, row, kept, taken, fate, alone, cut>>,
         faults' \in 0..MaxFaults,
         note' \in [Paths -> [status : {"active", "deleted"}, by : Ids \cup {None}]],
         astray' \subseteq Paths,
         \A o \in Paths : o # p \/ kind = "hash" => note'[o] = note[o] /\ (o \in astray => o \in astray'),
         alone /\ kind = "mark" /\ live[p] = None => Leads(p)' \/ p \in astray'
  PROVE  ChangeInv'
<1>1. PICK q \in RequestRecord : q = request[r]  BY DoingRequest DEF ChangeInv
<1>2. /\ RequestShape(q) /\ q # Idle /\ q.op \in Ops /\ q.id \in Ids /\ q.id # None
      /\ Next1(r) = <<kind, p>>
  BY <1>1, DoingRequest DEF ChangeInv
<1>3. /\ request' \in [Requests -> RequestRecord]
      /\ \A o \in Requests : o # r => request'[o] = request[o]
      /\ request'[r] # Idle /\ RequestShape(request'[r])
      /\ request'[r].op = q.op /\ request'[r].id = q.id /\ request'[r].items = q.items
      /\ \A o : Moving(request'[r], o) <=> Moving(q, o)
      /\ \A o : o # p \/ kind = "hash" => (Marking(request'[r], o) <=> Marking(q, o))
      /\ \A o : MovesLead(q.plan, o) => MovesLead(request'[r].plan, o)
      /\ Recording(request'[r]) <=> Recording(q)
  <2>1. TypeInv  BY DEF ChangeInv
  <2>2. /\ \A o : Next1(r) # <<"move", o>>
        /\ \A o : o # p \/ kind = "hash" => Next1(r) # <<"mark", o>>
        /\ kind # "record"
    BY <1>2
  <2> QED  BY <1>1, <2>1, <2>2, Stepped
<1>4. /\ \A o \in Requests : /\ request'[o].op = request[o].op /\ request'[o].id = request[o].id
                             /\ request'[o].items = request[o].items
                             /\ Recording(request'[o]) <=> Recording(request[o])
                             /\ \A x : Moving(request'[o], x) <=> Moving(request[o], x)
                             /\ \A x : x # p \/ kind = "hash" => (Marking(request'[o], x) <=> Marking(request[o], x))
                             /\ \A x : MovesLead(request[o].plan, x) => MovesLead(request'[o].plan, x)
                             /\ request'[o] # Idle => request[o] # Idle
  BY <1>1, <1>2, <1>3
<1>5. TypeInv'
  <2>1. TypeOK'  BY <1>3 DEF ChangeInv, TypeInv, TypeOK, RequestRecord
  <2> QED  BY <1>3, <2>1 DEF ChangeInv, TypeInv
<1>6. \A id \in Ids : IdRight(id)'
  BY <1>4 DEF ChangeInv, IdRight, Untouched, Contents, Restorable, Unlisted
<1>7. \A o \in Requests : RequestRight(o)'
  <2>1. TAKE o \in Requests
  <2>2. RequestRight(o)  BY DEF ChangeInv
  <2>3. \A x \in Requests : request'[x].id = request[x].id  BY <1>4
  <2>e. /\ request'[o].op = request[o].op /\ request'[o].id = request[o].id
        /\ request'[o].items = request[o].items
        /\ Recording(request'[o]) <=> Recording(request[o])
        /\ \A x : Moving(request'[o], x) <=> Moving(request[o], x)
    BY <1>4
  <2>4. TakeRight(o) => TakeRight(o)'
    <3>1. SUFFICES ASSUME TakeRight(o)  PROVE TakeRight(o)'  OBVIOUS
    <3>2. Apart(request'[o].items) => \A x \in Range(request'[o].items) :
            IF Moving(request'[o], x)
            THEN backup'[request'[o].id][Slot[x]] = None
            ELSE /\ backup'[request'[o].id][Slot[x]] = taken'[request'[o].id][x]
                 /\ taken'[request'[o].id][x] # None
      BY <2>e, <3>1 DEF TakeRight
    <3> QED  BY <2>3, <2>e, <3>1, <3>2 DEF TakeRight
  <2>5. RestoreRight(o) => RestoreRight(o)'  BY <1>4 DEF RestoreRight
  <2> QED  BY <1>4, <2>2, <2>4, <2>5 DEF RequestRight, Takes
<1>8. ASSUME alone  PROVE AloneInv'
  <2>0. AloneInv  BY <1>8 DEF ChangeInv
  <2>1. \A o \in Requests : AloneRight(o)'
    <3>1. TAKE o \in Requests
    <3>2. AloneRight(o)  BY <2>0 DEF AloneInv
    <3>3. /\ request'[o].op = request[o].op /\ request'[o].id = request[o].id
          /\ request'[o].items = request[o].items
          /\ Recording(request'[o]) <=> Recording(request[o])
          /\ \A x : Moving(request'[o], x) <=> Moving(request[o], x)
          /\ \A x : MovesLead(request[o].plan, x) => MovesLead(request'[o].plan, x)
      BY <1>4
    <3>4. Agrees(request[o].id) => Agrees(request[o].id)'  BY <3>3 DEF Agrees
    <3> QED  BY <3>2, <3>3, <3>4 DEF AloneRight, Takes
  <2>2. \A id \in Ids : InFlight(id)' \/ Agrees(id)' \/ id \in cut'
    BY <1>4, <2>0 DEF AloneInv, InFlight, Agrees
  <2>3. ASSUME NEW o \in Paths \ Internal, live'[o] = None
        PROVE  Leads(o)' \/ ToMark(o)' \/ o \in astray'
    <3>1. CASE o # p \/ kind = "hash"
      <4>1. Leads(o) => Leads(o)'  BY <3>1 DEF Leads
      <4>2. ToMark(o) => ToMark(o)'  BY <1>4, <3>1 DEF ToMark
      <4> QED  BY <2>0, <2>3, <3>1, <4>1, <4>2 DEF AloneInv
    <3>2. CASE o = p /\ kind = "mark"  BY <1>8, <2>3, <3>2
    <3> QED  BY <3>1, <3>2
  <2> QED  BY <1>4, <2>0, <2>1, <2>2, <2>3 DEF AloneInv
<1> QED  BY <1>5, <1>6, <1>7, <1>8 DEF ChangeInv

\* A request that is about to mark a note.
LEMMA AboutToMark ==
  ASSUME ChangeInv, NEW r \in Requests, Doing(r, "mark"), NEW p, p = Next1(r)[2]
  PROVE  /\ RequestShape(request[r]) /\ request[r].id \in Ids /\ request[r].id # None
         /\ p \in Paths /\ p \in Range(request[r].items)
         /\ \/ request[r].op = "restore"
            \/ /\ request[r].op \in {"delete", "dedupe"} /\ Takes(request[r])
               /\ ~Recording(request[r]) /\ p \in Unmarked(r)
         /\ ~MovesLead(request[r].plan, p)
         /\ Apart(request[r].items) => ~Moving(request[r], p)
         /\ alone /\ request[r].op = "restore" => live[p] # None
<1>1. PICK q \in RequestRecord : q = request[r]  BY DoingRequest DEF ChangeInv
<1>2. /\ RequestShape(q) /\ q.op \in Ops /\ q.plan # <<>> /\ q.id \in Ids /\ q.id # None
      /\ Head(q.plan) = <<"mark", p>>
  BY <1>1, DoingRequest DEF ChangeInv
<1>3. /\ p \in Paths /\ p \in Range(q.items)
      /\ q.op # "import" /\ Marking(q, p) /\ ~MovesLead(q.plan, p)
      /\ Apart(q.items) => ~Moving(q, p)
      /\ q.op \in {"delete", "dedupe"} => ~Recording(q)
  BY <1>2, HeadFacts
<1>4. q.op # "restore" => p \in Unmarked(r)  BY <1>1, <1>3 DEF Unmarked, Marking, Todo
<1>5. alone /\ q.op = "restore" => live[p] # None
  BY <1>1, <1>3 DEF ChangeInv, AloneInv, AloneRight
<1>6. q.op = "restore" \/ (q.op \in {"delete", "dedupe"} /\ Takes(q))  BY <1>2, <1>3 DEF Ops, Takes
<1> QED  BY <1>1, <1>2, <1>3, <1>4, <1>5, <1>6

\* A note that was marked for a file that is gone leads to it.
LEMMA MarkLeads ==
  ASSUME ChangeInv, NEW r \in Requests, Doing(r, "mark"), NEW p, p = Next1(r)[2],
         Mark(r, p), UNCHANGED <<live, backup, record>>
  PROVE  /\ note' \in [Paths -> [status : {"active", "deleted"}, by : Ids \cup {None}]]
         /\ \A o \in Paths : o # p => note'[o] = note[o]
         /\ alone /\ live[p] = None => Leads(p)'
<1>1. PICK q \in RequestRecord : q = request[r]  BY DoingRequest DEF ChangeInv
<1>2. /\ RequestShape(q) /\ q.id \in Ids /\ q.id # None /\ p \in Paths /\ p \in Range(q.items)
      /\ q.op = "restore" \/ (q.op \in {"delete", "dedupe"} /\ Takes(q) /\ ~Recording(q))
      /\ Apart(q.items) => ~Moving(q, p)
      /\ alone /\ q.op = "restore" => live[p] # None
  BY <1>1, AboutToMark
<1>3. Marks[q.op] = IF q.op = "restore" THEN "active" ELSE "deleted"  BY <1>2 DEF Marks
<1>4. note' = [note EXCEPT ![p] = [status |-> Marks[q.op], by |-> q.id]]  BY <1>1 DEF Mark
<1>5. /\ note' \in [Paths -> [status : {"active", "deleted"}, by : Ids \cup {None}]]
      /\ note'[p] = [status |-> Marks[q.op], by |-> q.id]
      /\ \A o \in Paths : o # p => note'[o] = note[o]
  BY <1>2, <1>3, <1>4 DEF ChangeInv, TypeInv, TypeOK
<1>6. ASSUME alone, live[p] = None  PROVE Leads(p)'
  <2>1. q.op \in {"delete", "dedupe"} /\ Takes(q) /\ ~Recording(q)  BY <1>2, <1>6
  <2>2. TakeRight(r)  BY <1>1, <2>1 DEF ChangeInv, RequestRight
  <2>3. /\ record[q.id].status = Ends[q.op] /\ record[q.id].items = q.items
        /\ Apart(q.items) => backup[q.id][Slot[p]] # None
    BY <1>1, <1>2, <2>1, <2>2 DEF TakeRight
  <2>4. Ends[q.op] \in {"deleted", "moved"}  BY <2>1 DEF Ends
  <2>5. note'[p].status = "deleted" /\ note'[p].by = q.id  BY <1>3, <1>5, <2>1
  <2> QED  BY <1>2, <2>3, <2>4, <2>5 DEF Leads
<1> QED  BY <1>5, <1>6

LEMMA MarkNoteStep ==
  ASSUME ChangeInv, NEW r \in Requests, MarkNote(r)
  PROVE  ChangeInv'
<1>1. PICK p : p = Next1(r)[2]  OBVIOUS
<1>2. /\ Doing(r, "mark") /\ Mark(r, p) /\ Advance(r) /\ astray' = astray \ {p}
      /\ UNCHANGED <<live, backup, record, row, faults, kept, taken, fate, alone, cut>>
  BY <1>1 DEF MarkNote
<1>3. /\ note' \in [Paths -> [status : {"active", "deleted"}, by : Ids \cup {None}]]
      /\ \A o \in Paths : o # p => note'[o] = note[o]
      /\ alone /\ live[p] = None => Leads(p)'
  BY <1>1, <1>2, MarkLeads
<1>4. astray' \subseteq Paths /\ faults' \in 0..MaxFaults  BY <1>2 DEF ChangeInv, TypeInv, TypeOK
<1> QED  BY <1>1, <1>2, <1>3, <1>4, QuietStep

LEMMA MissNoteStep ==
  ASSUME ChangeInv, NEW r \in Requests, MissNote(r)
  PROVE  ChangeInv'
<1>1. PICK p : p = Next1(r)[2]  OBVIOUS
<1>2. /\ Doing(r, "mark") /\ Advance(r) /\ astray' = astray \cup (Unmarked(r) \cap {p})
      /\ faults < MaxFaults /\ faults' = faults + 1
      /\ UNCHANGED <<live, backup, record, row, note, kept, taken, fate, alone, cut>>
  BY <1>1 DEF MissNote
<1>3. astray' \subseteq Paths /\ faults' \in 0..MaxFaults
  BY <1>2, ChangeSetsAssumption DEF ChangeInv, TypeInv, TypeOK, Unmarked
<1>4. alone /\ live[p] = None => p \in astray'  BY <1>1, <1>2, AboutToMark
<1>5. note' \in [Paths -> [status : {"active", "deleted"}, by : Ids \cup {None}]]
  BY <1>2 DEF ChangeInv, TypeInv, TypeOK
<1>6. \A o \in Paths : note'[o] = note[o] /\ (o \in astray => o \in astray')  BY <1>2
<1> QED  BY <1>1, <1>2, <1>3, <1>4, <1>5, <1>6, QuietStep

LEMMA MarkFailsStep ==
  ASSUME ChangeInv, NEW r \in Requests, MarkFails(r)
  PROVE  ChangeInv'
<1>1. PICK p : p = Next1(r)[2]  OBVIOUS
<1>2. /\ Doing(r, "mark") /\ Stop(r) /\ faults < MaxFaults /\ faults' = faults + 1
      /\ \/ astray' = astray \cup Unmarked(r) /\ note' = note
         \/ Mark(r, p) /\ astray' = (astray \cup Unmarked(r)) \ {p}
      /\ UNCHANGED <<live, backup, record, row, kept, taken, fate, alone>>
  BY <1>1 DEF MarkFails
<1>3. /\ RequestShape(request[r]) /\ p \in Paths
      /\ ~(Takes(request[r]) /\ Recording(request[r]))
  <2>1. request[r].op = "restore" => ~Takes(request[r])  BY DEF Takes
  <2>2. /\ RequestShape(request[r]) /\ p \in Paths
        /\ request[r].op = "restore" \/ ~Recording(request[r])
    BY <1>1, <1>2, AboutToMark
  <2> QED  BY <2>1, <2>2
<1>4. faults' \in 0..MaxFaults /\ astray' \subseteq Paths
  <2>1. faults \in 0..MaxFaults /\ astray \subseteq Paths  BY DEF ChangeInv, TypeInv, TypeOK
  <2>2. Unmarked(r) \subseteq Paths  BY DEF Unmarked
  <2>3. faults' \in 0..MaxFaults  BY <1>2, <2>1, ChangeSetsAssumption
  <2>4. astray' \subseteq Paths  BY <1>2, <2>1, <2>2
  <2> QED  BY <2>3, <2>4
<1>5. CASE astray' = astray \cup Unmarked(r) /\ note' = note
  <2>1. note' \in [Paths -> [status : {"active", "deleted"}, by : Ids \cup {None}]]
    BY <1>5 DEF ChangeInv, TypeInv, TypeOK
  <2>2. \A o \in Paths : o \in astray' \/ (note'[o] = note[o] /\ o \notin Unmarked(r) /\ o \notin astray)
    BY <1>5
  <2> QED  BY <1>2, <1>3, <1>4, <2>1, <2>2, StopStep
<1>6. CASE Mark(r, p) /\ astray' = (astray \cup Unmarked(r)) \ {p}
  <2>1. /\ note' \in [Paths -> [status : {"active", "deleted"}, by : Ids \cup {None}]]
        /\ \A o \in Paths : o # p => note'[o] = note[o]
        /\ alone /\ live[p] = None => Leads(p)'
    BY <1>1, <1>2, <1>6, MarkLeads
  <2>2. alone => \A o \in Paths : live[o] = None =>
          \/ o \in astray' \/ Leads(o)'
          \/ note'[o] = note[o] /\ o \notin Unmarked(r) /\ o \notin astray
    <3>1. HAVE alone
    <3>2. TAKE o \in Paths
    <3>3. HAVE live[o] = None
    <3>4. CASE o = p  BY <2>1, <3>1, <3>3, <3>4
    <3>5. CASE o # p  BY <1>6, <2>1, <3>5
    <3> QED  BY <3>4, <3>5
  <2> QED  BY <1>2, <1>3, <1>4, <2>1, <2>2, StopStep
<1> QED  BY <1>2, <1>5, <1>6

\* A note somebody else writes is not the doing of a request.
LEMMA RewrittenStep ==
  ASSUME ChangeInv, NEW p \in Paths, Rewritten(p)
  PROVE  ChangeInv'
<1>1. /\ note' = [note EXCEPT ![p] = [status |-> "active", by |-> None]]
      /\ astray' = astray \cup {p} /\ faults < MaxFaults /\ faults' = faults + 1
      /\ UNCHANGED <<live, backup, record, row, request, kept, taken, fate, alone, cut>>
  BY DEF Rewritten
<1>2. /\ note' \in [Paths -> [status : {"active", "deleted"}, by : Ids \cup {None}]]
      /\ \A o \in Paths : o # p => note'[o] = note[o]
  BY <1>1 DEF ChangeInv, TypeInv, TypeOK
<1>3. TypeInv'
  <2>1. astray' \subseteq Paths /\ faults' \in 0..MaxFaults
    BY <1>1, ChangeSetsAssumption DEF ChangeInv, TypeInv, TypeOK
  <2>2. TypeOK'  BY <1>1, <1>2, <2>1 DEF ChangeInv, TypeInv, TypeOK
  <2> QED  BY <1>1, <2>2 DEF ChangeInv, TypeInv
<1>4. \A id \in Ids : IdRight(id)'
  BY <1>1 DEF ChangeInv, IdRight, Untouched, Contents, Unlisted, Restorable
<1>5. \A r \in Requests : RequestRight(r)'
  BY <1>1 DEF ChangeInv, RequestRight, TakeRight, RestoreRight
<1>6. ASSUME alone  PROVE AloneInv'
  <2>0. AloneInv  BY <1>6 DEF ChangeInv
  <2>1. \A r \in Requests : AloneRight(r)'  BY <1>1, <2>0 DEF AloneInv, AloneRight, Agrees
  <2>2. \A id \in Ids : InFlight(id)' \/ Agrees(id)' \/ id \in cut'
    BY <1>1, <2>0 DEF AloneInv, InFlight, Agrees
  <2>3. ASSUME NEW o \in Paths \ Internal, live'[o] = None
        PROVE  Leads(o)' \/ ToMark(o)' \/ o \in astray'
    <3>1. CASE o = p  BY <1>1, <3>1
    <3>2. CASE o # p
      <4>1. Leads(o) => Leads(o)'  BY <1>1, <1>2, <3>2 DEF Leads
      <4>2. ToMark(o) => ToMark(o)'  BY <1>1 DEF ToMark
      <4> QED  BY <1>1, <2>0, <2>3, <4>1, <4>2 DEF AloneInv
    <3> QED  BY <3>1, <3>2
  <2> QED  BY <1>1, <2>0, <2>1, <2>2, <2>3 DEF AloneInv
<1> QED  BY <1>1, <1>3, <1>4, <1>5, <1>6 DEF ChangeInv

LEMMA HashRestoredStep ==
  ASSUME ChangeInv, NEW r \in Requests, HashRestored(r)
  PROVE  ChangeInv'
<1>1. PICK p : p = Next1(r)[2]  OBVIOUS
<1>2. PICK q \in RequestRecord : q = request[r]  BY DoingRequest DEF ChangeInv, HashRestored
<1>3. /\ Doing(r, "hash") /\ TypeInv
      /\ RequestShape(q) /\ p \in Paths /\ p \in Range(q.items)
      /\ q.op = "restore"
  <2>1. Doing(r, "hash") /\ TypeInv  BY DEF ChangeInv, HashRestored
  <2>2. RequestShape(q) /\ q.plan # <<>> /\ Head(q.plan) = <<"hash", p>>
    BY <1>1, <1>2, <2>1, DoingRequest
  <2> QED  BY <2>1, <2>2, HeadFacts
<1>4. CASE live[p] = None
  <2>1. Fail(r)  BY <1>1, <1>4 DEF HashRestored
  <2>2. ~Takes(q)  BY <1>3 DEF Takes
  <2> QED  BY <1>2, <1>3, <2>1, <2>2, FailStep
<1>5. CASE live[p] # None
  <2>1. /\ Advance(r)
        /\ UNCHANGED <<live, backup, record, row, note, faults, kept, taken, fate, alone, cut, astray>>
    BY <1>1, <1>5 DEF HashRestored
  <2>2. /\ note' \in [Paths -> [status : {"active", "deleted"}, by : Ids \cup {None}]]
        /\ astray' \subseteq Paths /\ faults' \in 0..MaxFaults
    BY <2>1 DEF ChangeInv, TypeInv, TypeOK
  <2>3. \A o \in Paths : note'[o] = note[o] /\ (o \in astray => o \in astray')  BY <2>1
  <2> QED  BY <1>1, <1>3, <1>5, <2>1, <2>2, <2>3, QuietStep
<1> QED  BY <1>4, <1>5

\* A request that ends well, with or without a row.
LEMMA AnswerStep ==
  ASSUME ChangeInv, NEW r \in Requests, RequestShape(request[r]), Answered(r),
         request' = [request EXCEPT ![r] = Idle],
         ~Recording(request[r]),
         \A p : ~Moving(request[r], p) /\ ~Marking(request[r], p),
         \/ /\ row' = [row EXCEPT ![request[r].id] = Ends[request[r].op]] /\ request[r].op # "import"
            /\ cut' = cut \ {request[r].id}
         \/ row' = row /\ request[r].op = "import" /\ cut' = cut,
         UNCHANGED <<live, backup, record, note, faults, kept, taken, alone, astray>>
  PROVE  ChangeInv'
<1>1. PICK q \in RequestRecord : q = request[r]
  BY DEF ChangeInv, TypeInv, TypeOK, RequestRecord
<1>2. /\ RequestShape(q) /\ q.op \in Ops /\ q.id \in Ids /\ q.id # None /\ q # Idle
      /\ ~Recording(q) /\ \A p : ~Moving(q, p) /\ ~Marking(q, p)
      /\ q.items # <<>> /\ \A p \in Range(q.items) : p \in Paths
  BY <1>1, NoneIsNone, IdleFacts, RangeIs DEF RequestShape
<1>3. /\ request' \in [Requests -> RequestRecord]
      /\ request'[r] = Idle
      /\ \A o \in Requests : o # r => request'[o] = request[o]
      /\ \A o \in Requests : request'[o] = Idle \/ RequestShape(request'[o])
  <2>1. TypeInv  BY DEF ChangeInv
  <2> QED  BY <2>1, Ended
<1>4. /\ fate' \in [Ids -> {"unused", "issued", "returned", "tried", "crashed"}]
      /\ fate'[q.id] = IF fate[q.id] = "issued" THEN "returned" ELSE fate[q.id]
      /\ \A id \in Ids : id # q.id => fate'[id] = fate[id]
  BY <1>1, <1>2 DEF Answered, ChangeInv, TypeInv, TypeOK
<1>5. /\ row' \in [Ids -> {"none", "deleted", "moved", "restored"}]
      /\ q.op # "import" => row'[q.id] = Ends[q.op]
      /\ \A id \in Ids : id # q.id => row'[id] = row[id] /\ (id \in cut => id \in cut')
      /\ cut' \subseteq Ids
  <2>1. row \in [Ids -> {"none", "deleted", "moved", "restored"}] /\ cut \subseteq Ids
    BY DEF ChangeInv, TypeInv, TypeOK
  <2>2. CASE row' = row /\ q.op = "import" /\ cut' = cut  BY <2>1, <2>2
  <2>3. CASE /\ row' = [row EXCEPT ![q.id] = Ends[q.op]] /\ q.op # "import"
             /\ cut' = cut \ {q.id}
    <3>1. Ends[q.op] \in {"deleted", "moved", "restored"}  BY <1>2, <2>3 DEF Ops, Ends
    <3> QED  BY <1>2, <2>1, <2>3, <3>1
  <2> QED  BY <1>1, <2>2, <2>3
<1>6. TypeInv'
  <2>1. TypeOK'  BY <1>3, <1>4, <1>5 DEF ChangeInv, TypeInv, TypeOK, RequestRecord
  <2> QED  BY <1>3, <2>1 DEF ChangeInv, TypeInv
<1>7. Takes(q) => TakeRight(r)  BY <1>1 DEF ChangeInv, RequestRight
<1>8. q.op = "restore" => RestoreRight(r)  BY <1>1 DEF ChangeInv, RequestRight
<1>9. Takes(q) \/ q.op = "restore"  BY <1>2 DEF Takes, Ops
<1>10. \A id \in Ids : IdRight(id)'
  <2>1. TAKE id \in Ids
  <2>2. IdRight(id)  BY DEF ChangeInv
  <2>3. CASE id # q.id
    <3>1. Unlisted(id) => Unlisted(id)'  BY <1>1, <1>3, <1>4, <2>3 DEF Unlisted
    <3> QED  BY <1>4, <1>5, <2>2, <2>3, <3>1 DEF IdRight, Untouched, Contents, Restorable
  <2>4. CASE id = q.id
    <3>1. record[id].status # "none"
      <4>1. CASE Takes(q)
        <5>1. record[id].status = Ends[q.op]  BY <1>1, <1>2, <1>7, <2>4, <4>1 DEF TakeRight
        <5> QED  BY <4>1, <5>1 DEF Takes, Ends
      <4>2. CASE q.op = "restore"  BY <1>1, <1>8, <2>4, <4>2 DEF RestoreRight
      <4> QED  BY <1>9, <4>1, <4>2
    <3>2. Contents(id)'  BY <2>2, <3>1 DEF IdRight, Contents, Unlisted
    <3>3. CASE Takes(q)
      <4>1. fate'[id] = "returned"  BY <1>1, <1>4, <1>7, <2>4, <3>3 DEF TakeRight
      <4>2. record[id] = [status |-> Ends[q.op], items |-> q.items, list |-> q.op = "dedupe"]
        BY <1>1, <1>2, <1>7, <2>4, <3>3 DEF TakeRight
      <4>3. record[id].status # "imported" => record[id].items # <<>> /\ (Apart(record[id].items) => Restorable(id))
        <5>1. SUFFICES ASSUME record[id].status # "imported"
                       PROVE  record[id].items # <<>> /\ (Apart(record[id].items) => Restorable(id))
          OBVIOUS
        <5>2. q.op \in {"delete", "dedupe"}  BY <3>3, <4>2, <5>1 DEF Takes, Ends
        <5>3. Apart(q.items) => \A p \in Range(q.items) :
                p \notin Internal /\ backup[id][Slot[p]] = taken[id][p] /\ taken[id][p] # None
          BY <1>1, <1>2, <1>7, <2>4, <3>3, <5>2 DEF TakeRight, RequestShape
        <5> QED  BY <1>2, <4>2, <5>3 DEF Restorable
      <4> QED  BY <3>2, <4>1, <4>3 DEF IdRight, Restorable
    <3>4. CASE q.op = "restore"
      <4>1. fate'[id] \in {"tried", "crashed"}  BY <1>1, <1>4, <1>8, <2>4, <3>4 DEF RestoreRight
      <4> QED  BY <3>2, <4>1 DEF IdRight
    <3> QED  BY <1>9, <3>3, <3>4
  <2> QED  BY <2>3, <2>4
<1>11. \A o \in Requests : RequestRight(o)'
  <2>1. TAKE o \in Requests
  <2>2. RequestRight(o)  BY DEF ChangeInv
  <2>3. CASE o = r  BY <1>3, <2>3, IdleFacts DEF RequestRight
  <2>4. CASE o # r
    <3>1. request'[o] = request[o]  BY <1>3, <2>4
    <3>2. ASSUME Takes(request[o])  PROVE TakeRight(o)'
      <4>1. TakeRight(o)  BY <2>2, <3>2 DEF RequestRight
      <4>2. request[o].id \in Ids /\ request[o].id # None
        BY <3>2, IdleFacts, NoneIsNone DEF ChangeInv, TypeInv, RequestShape
      <4>3. \A x \in Requests : request'[x].id = request[o].id => x = o
        BY <1>3, <4>1, <4>2, IdleFacts DEF TakeRight
      <4>4. request[o].id # q.id  BY <1>1, <2>4, <3>2, OwnId
      <4>5. fate'[request[o].id] = fate[request[o].id] /\ row'[request[o].id] = row[request[o].id]
        BY <1>4, <1>5, <4>2, <4>4
      <4> QED  BY <3>1, <4>1, <4>3, <4>5 DEF TakeRight
    <3>3. ASSUME request[o].op = "restore"  PROVE RestoreRight(o)'
      <4>1. RestoreRight(o)  BY <2>2, <3>3 DEF RequestRight
      <4>2. request[o].id \in Ids  BY <3>3, IdleFacts DEF ChangeInv, TypeInv, RequestShape
      <4>3. fate'[request[o].id] \in {"tried", "crashed"}  BY <1>4, <4>1, <4>2 DEF RestoreRight
      <4> QED  BY <3>1, <4>1, <4>3 DEF RestoreRight
    <3> QED  BY <3>1, <3>2, <3>3 DEF RequestRight, Takes
  <2> QED  BY <2>3, <2>4
<1>12. ASSUME alone  PROVE AloneInv'
  <2>0. AloneInv  BY <1>12 DEF ChangeInv
  <2>1. \A o \in Requests : request'[o] = Idle /\ (o # r => request[o] = Idle)
    BY <1>1, <1>2, <1>3, <2>0 DEF AloneInv
  <2>2. \A id \in Ids : Agrees(id)' \/ id \in cut'
    <3>1. TAKE id \in Ids
    <3>2. CASE id = q.id
      <4>1. record[id].status = Ends[q.op]
        <5>1. CASE Takes(q)  BY <1>1, <1>2, <1>7, <3>2, <5>1 DEF TakeRight
        <5>2. CASE q.op = "restore"
          BY <1>1, <1>2, <2>0, <3>2, <5>2 DEF AloneInv, AloneRight, Ends
        <5> QED  BY <1>9, <5>1, <5>2
      <4>2. q.op = "import" => record[id].status = "imported"  BY <4>1 DEF Ends
      <4> QED  BY <1>5, <3>2, <4>1, <4>2 DEF Agrees
    <3>3. CASE id # q.id
      <4>1. ~InFlight(id)  BY <1>1, <2>1, <3>3, IdleFacts, NoneIsNone DEF InFlight
      <4> QED  BY <1>5, <2>0, <3>3, <4>1 DEF AloneInv, Agrees
    <3> QED  BY <3>2, <3>3
  <2>3. \A o \in Requests : AloneRight(o)'  BY <2>1, IdleFacts DEF AloneRight
  <2>4. \A p \in Paths \ Internal : live'[p] = None => Leads(p)' \/ p \in astray'
    <3>1. \A p : ~ToMark(p)  BY <1>1, <1>2, <2>1, IdleFacts DEF ToMark
    <3> QED  BY <2>0, <3>1 DEF AloneInv, Leads
  <2> QED  BY <2>1, <2>2, <2>3, <2>4 DEF AloneInv
<1> QED  BY <1>6, <1>10, <1>11, <1>12 DEF ChangeInv

LEMMA CommitStep ==
  ASSUME ChangeInv, NEW r \in Requests, Commit(r)
  PROVE  ChangeInv'
<1>1. Doing(r, "commit") /\ TypeInv  BY DEF ChangeInv, Commit
<1>2. /\ RequestShape(request[r])
      /\ request[r].op # "import" /\ ~Recording(request[r])
      /\ \A o : ~Moving(request[r], o) /\ ~Marking(request[r], o)
  <2>1. PICK q \in RequestRecord : q = request[r]  BY <1>1, DoingRequest
  <2>2. PICK p : RequestShape(q) /\ q.plan # <<>> /\ Head(q.plan) = <<"commit", p>>
    BY <1>1, <2>1, DoingRequest
  <2>3. q.op # "import" /\ ~Recording(q) /\ \A o : ~Moving(q, o) /\ ~Marking(q, o)
    BY <2>2, HeadFacts
  <2> QED  BY <2>1, <2>2, <2>3
<1> QED  BY <1>2, AnswerStep DEF Commit

LEMMA NothingLeft ==
  ASSUME NEW q, q.plan = <<>>
  PROVE  ~Recording(q) /\ \A p : ~Moving(q, p) /\ ~Marking(q, p)
<1>1. Todo(q) = {}  BY RangeIs DEF Todo
<1> QED  BY <1>1 DEF Recording, Moving, Marking

LEMMA EndImportStep ==
  ASSUME ChangeInv, NEW r \in Requests, EndImport(r)
  PROVE  ChangeInv'
<1>1. request[r].op = "import" /\ request[r].plan = <<>>  BY DEF EndImport
<1>2. RequestShape(request[r])  BY <1>1, IdleFacts DEF ChangeInv, TypeInv
<1>3. /\ ~Recording(request[r])
      /\ \A p : ~Moving(request[r], p) /\ ~Marking(request[r], p)
  BY <1>1, NothingLeft
<1> QED  BY <1>1, <1>2, <1>3, AnswerStep DEF EndImport

LEMMA CrashStep ==
  ASSUME ChangeInv, NEW r \in Requests, Crash(r)
  PROVE  ChangeInv'
<1>1. PICK q \in RequestRecord : q = request[r]
  BY DEF ChangeInv, TypeInv, TypeOK, RequestRecord
<1>2. /\ RequestShape(q) /\ q.op \in Ops /\ q.id \in Ids /\ q.id # None /\ q # Idle
  BY <1>1, NoneIsNone DEF RequestShape, ChangeInv, TypeInv, Crash
<1>3. /\ request' \in [Requests -> RequestRecord]
      /\ request'[r] = Idle
      /\ \A o \in Requests : o # r => request'[o] = request[o]
      /\ \A o \in Requests : request'[o] = Idle \/ RequestShape(request'[o])
  <2>1. TypeInv /\ request' = [request EXCEPT ![r] = Idle]  BY DEF ChangeInv, Crash
  <2> QED  BY <2>1, Ended
<1>4. /\ fate' \in [Ids -> {"unused", "issued", "returned", "tried", "crashed"}]
      /\ fate'[q.id] = "crashed"
      /\ \A id \in Ids : id # q.id => fate'[id] = fate[id]
      /\ alone' = FALSE /\ faults' \in 0..MaxFaults
      /\ UNCHANGED <<live, backup, record, row, note, kept, taken, cut, astray>>
  BY <1>1, <1>2, ChangeSetsAssumption DEF Crash, ChangeInv, TypeInv, TypeOK
<1>5. TypeInv'
  <2>1. TypeOK'  BY <1>3, <1>4 DEF ChangeInv, TypeInv, TypeOK, RequestRecord
  <2> QED  BY <1>3, <1>4, <2>1 DEF ChangeInv, TypeInv
<1>6. \A id \in Ids : IdRight(id)'
  <2>1. TAKE id \in Ids
  <2>2. IdRight(id)  BY DEF ChangeInv
  <2>3. CASE id # q.id
    <3>1. Unlisted(id) => Unlisted(id)'  BY <1>1, <1>3, <1>4, <2>3 DEF Unlisted
    <3> QED  BY <1>4, <2>2, <2>3, <3>1 DEF IdRight, Untouched, Contents, Restorable
  <2>4. CASE id = q.id
    <3>1. Unlisted(id) => Unlisted(id)'  BY <1>4, <2>4 DEF Unlisted
    <3>2. Contents(id)'  BY <1>4, <2>2, <3>1 DEF IdRight, Contents
    <3> QED  BY <1>4, <2>4, <3>2 DEF IdRight
  <2> QED  BY <2>3, <2>4
<1>7. \A o \in Requests : RequestRight(o)'
  <2>1. TAKE o \in Requests
  <2>2. RequestRight(o)  BY DEF ChangeInv
  <2>3. CASE o = r  BY <1>3, <2>3, IdleFacts DEF RequestRight
  <2>4. CASE o # r
    <3>1. request'[o] = request[o]  BY <1>3, <2>4
    <3>2. ASSUME Takes(request[o])  PROVE TakeRight(o)'
      <4>1. TakeRight(o)  BY <2>2, <3>2 DEF RequestRight
      <4>2. request[o].id \in Ids /\ request[o].id # None
        BY <3>2, IdleFacts, NoneIsNone DEF ChangeInv, TypeInv, RequestShape
      <4>3. \A x \in Requests : request'[x].id = request[o].id => x = o
        BY <1>3, <4>1, <4>2, IdleFacts DEF TakeRight
      <4>4. request[o].id # q.id  BY <1>1, <2>4, <3>2, OwnId
      <4>5. fate'[request[o].id] = fate[request[o].id]  BY <1>4, <4>2, <4>4
      <4> QED  BY <1>4, <3>1, <4>1, <4>3, <4>5 DEF TakeRight
    <3>3. ASSUME request[o].op = "restore"  PROVE RestoreRight(o)'
      <4>1. RestoreRight(o)  BY <2>2, <3>3 DEF RequestRight
      <4>2. request[o].id \in Ids  BY <3>3, IdleFacts DEF ChangeInv, TypeInv, RequestShape
      <4>3. fate'[request[o].id] \in {"tried", "crashed"}  BY <1>4, <4>1, <4>2 DEF RestoreRight
      <4> QED  BY <1>4, <3>1, <4>1, <4>3 DEF RestoreRight
    <3> QED  BY <3>1, <3>2, <3>3 DEF RequestRight, Takes
  <2> QED  BY <2>3, <2>4
<1> QED  BY <1>4, <1>5, <1>6, <1>7 DEF ChangeInv

-----------------------------------------------------------------------------
(* The beginning of a request *)

\* What a request that begins leaves of the others.
LEMMA Started ==
  ASSUME TypeInv, NEW r \in Requests, NEW op \in Ops, NEW id \in Ids,
         NEW items \in Seq(Paths), items # <<>>, NEW plan, PlanRight(op, items, plan),
         op \in {"delete", "import"} => Len(items) = 1,
         op \in {"delete", "dedupe"} => \A p \in Range(items) : p \notin Internal,
         op = "import" => \A p \in Range(items) : p \in Internal,
         Start(r, op, id, items, plan)
  PROVE  /\ TypeInv'
         /\ \A o \in Requests : o # r => request'[o] = request[o]
         /\ request'[r].op = op /\ request'[r].id = id /\ request'[r].items = items
         /\ Recording(request'[r]) /\ \A p \in Range(items) : Moving(request'[r], p)
         /\ op = "restore" => \A p \in Range(items) : MovesLead(request'[r].plan, p)
         /\ \A i \in Ids : fate'[i] = IF i # id THEN fate[i]
                                      ELSE IF op = "restore" THEN "tried" ELSE "issued"
         /\ alone' => alone /\ \A o \in Requests : o # r => request[o] = Idle
         /\ UNCHANGED <<live, backup, record, row, note, faults, kept, taken, cut, astray>>
<1>1. PICK q : q = [op |-> op, id |-> id, items |-> items, plan |-> plan]  OBVIOUS
<1>2. /\ q \in RequestRecord /\ RequestShape(q)
      /\ Recording(q) /\ \A p \in Range(items) : Moving(q, p)
      /\ op = "restore" => \A p \in Range(items) : MovesLead(q.plan, p)
  BY <1>1, Begun
<1>3. request \in [Requests -> RequestRecord]  BY DEF TypeInv, TypeOK, RequestRecord
<1>4. request' = [request EXCEPT ![r] = q]  BY <1>1 DEF Start
<1>5. /\ request' \in [Requests -> RequestRecord] /\ request'[r] = q
      /\ \A o \in Requests : o # r => request'[o] = request[o]
  BY <1>2, <1>3, <1>4
<1>6. /\ fate' \in [Ids -> {"unused", "issued", "returned", "tried", "crashed"}]
      /\ \A i \in Ids : fate'[i] = IF i # id THEN fate[i]
                                   ELSE IF op = "restore" THEN "tried" ELSE "issued"
  BY DEF Start, TypeInv, TypeOK
<1>7. /\ alone' = (alone /\ \A o \in Requests \ {r} : request[o] = Idle)
      /\ UNCHANGED <<live, backup, record, row, note, faults, kept, taken, cut, astray>>
  BY DEF Start
<1>8. TypeOK'  BY <1>5, <1>6, <1>7 DEF TypeInv, TypeOK, RequestRecord
<1>9. TypeInv'  BY <1>2, <1>5, <1>7, <1>8 DEF TypeInv
<1>10. q.op = op /\ q.id = id /\ q.items = items  BY <1>1
<1>11. alone' => alone /\ \A o \in Requests : o # r => request[o] = Idle  BY <1>7
<1> QED  BY <1>2, <1>5, <1>6, <1>7, <1>9, <1>10, <1>11

\* A request that is about to take files into a change set of its own.
LEMMA StartTakeStep ==
  ASSUME ChangeInv, NEW r \in Requests, NEW op \in {"delete", "dedupe", "import"}, NEW id \in Ids,
         NEW items \in Seq(Paths), items # <<>>, NEW plan, PlanRight(op, items, plan),
         op \in {"delete", "import"} => Len(items) = 1,
         op \in {"delete", "dedupe"} => \A p \in Range(items) : p \notin Internal,
         op = "import" => \A p \in Range(items) : p \in Internal,
         request[r] = Idle \/ (request[r].op = "import" /\ request[r].plan = <<>>),
         fate[id] = "unused",
         Start(r, op, id, items, plan)
  PROVE  ChangeInv'
<1>1. op \in Ops /\ op # "restore"  BY DEF Ops
<1>2. /\ TypeInv'
      /\ \A o \in Requests : o # r => request'[o] = request[o]
      /\ request'[r].op = op /\ request'[r].id = id /\ request'[r].items = items
      /\ Recording(request'[r]) /\ \A p \in Range(items) : Moving(request'[r], p)
      /\ \A i \in Ids : fate'[i] = IF i # id THEN fate[i] ELSE "issued"
      /\ alone' => alone /\ \A o \in Requests : o # r => request[o] = Idle
      /\ UNCHANGED <<live, backup, record, row, note, faults, kept, taken, cut, astray>>
  <2>1. TypeInv  BY DEF ChangeInv
  <2> QED  BY <1>1, <2>1, Started
<1>3. Untouched(id)  BY DEF ChangeInv, IdRight
<1>4. /\ ~Recording(request[r])
      /\ \A p : ~Moving(request[r], p) /\ ~Marking(request[r], p)
  BY IdleFacts, NothingLeft
<1>5. \A o \in Requests : request[o].id # id
  <2>1. TAKE o \in Requests
  <2>2. CASE request[o] = Idle  BY <2>2, IdleFacts, NoneIsNone
  <2>3. CASE RequestShape(request[o])
    <3>1. Takes(request[o]) \/ request[o].op = "restore"  BY <2>3 DEF RequestShape, Ops, Takes
    <3> QED  BY <3>1 DEF ChangeInv, RequestRight, TakeRight, RestoreRight
  <2> QED  BY <2>2, <2>3 DEF ChangeInv, TypeInv
<1>6. \A i \in Ids : IdRight(i)'
  <2>1. TAKE i \in Ids
  <2>2. IdRight(i)  BY DEF ChangeInv
  <2>3. CASE i # id
    <3>1. Unlisted(i) => Unlisted(i)'  BY <1>2, <1>4, <2>3 DEF Unlisted
    <3> QED  BY <1>2, <2>2, <2>3, <3>1 DEF IdRight, Untouched, Contents, Restorable
  <2>4. CASE i = id  BY <1>2, <1>3, <2>4 DEF IdRight, Untouched, Contents
  <2> QED  BY <2>3, <2>4
<1>7. \A o \in Requests : RequestRight(o)'
  <2>1. TAKE o \in Requests
  <2>2. CASE o = r
    <3>1. \A x \in Requests : request'[x].id = id => x = r  BY <1>2, <1>5
    <3>2. \A p \in Range(items) : backup[id][Slot[p]] = None
      BY <1>3, PlaceOf, RangeIs DEF Untouched
    <3>3. TakeRight(r)'  BY <1>2, <1>3, <3>1, <3>2 DEF TakeRight, Untouched
    <3> QED  BY <1>1, <1>2, <2>2, <3>3 DEF RequestRight
  <2>3. CASE o # r
    <3>1. request'[o] = request[o] /\ request[o].id # id /\ RequestRight(o)
      BY <1>2, <1>5, <2>3 DEF ChangeInv
    <3>2. CASE request[o] = Idle  BY <3>1, <3>2, IdleFacts DEF RequestRight
    <3>3. CASE RequestShape(request[o])
      <4>1. fate'[request[o].id] = fate[request[o].id]  BY <1>2, <3>1, <3>3 DEF RequestShape
      <4>2. TakeRight(o) => TakeRight(o)'
        <5>1. SUFFICES ASSUME TakeRight(o)  PROVE TakeRight(o)'  OBVIOUS
        <5>2. \A x \in Requests : request'[x].id = request[o].id => x = o
          BY <1>2, <3>1, <5>1 DEF TakeRight
        <5> QED  BY <1>2, <3>1, <4>1, <5>1, <5>2 DEF TakeRight
      <4>3. RestoreRight(o) => RestoreRight(o)'  BY <1>2, <3>1, <4>1 DEF RestoreRight
      <4> QED  BY <3>1, <4>2, <4>3 DEF RequestRight, Takes
    <3> QED  BY <3>2, <3>3 DEF ChangeInv, TypeInv
  <2> QED  BY <2>2, <2>3
<1>8. ASSUME alone'  PROVE AloneInv'
  <2>0. AloneInv /\ \A o \in Requests : o # r => request[o] = Idle  BY <1>2, <1>8 DEF ChangeInv
  <2>1. \A o \in Requests : o # r => request'[o] = Idle  BY <1>2, <2>0
  <2>2. ASSUME NEW i \in Ids  PROVE InFlight(i)' \/ Agrees(i)' \/ i \in cut'
    <3>1. Agrees(i) \/ request[r].id = i \/ i \in cut
      BY <2>0, IdleFacts, NoneIsNone DEF AloneInv, InFlight
    <3>2. CASE request[r].id = i
      <4>1. request[r].op = "import" /\ Takes(request[r])
        BY <3>2, IdleFacts, NoneIsNone DEF Takes
      <4>2. record[i].status = Ends["import"]
        <5>1. TakeRight(r)  BY <4>1 DEF ChangeInv, RequestRight
        <5> QED  BY <1>4, <3>2, <4>1, <5>1 DEF TakeRight
      <4> QED  BY <1>2, <4>2 DEF Agrees, Ends
    <3> QED  BY <1>2, <3>1, <3>2 DEF Agrees
  <2>3. \A o \in Requests : AloneRight(o)'
    <3>1. AloneRight(r)'  BY <1>1, <1>2 DEF AloneRight
    <3> QED  BY <2>1, <3>1, IdleFacts DEF AloneRight
  <2>4. \A p \in Paths \ Internal : live'[p] = None => Leads(p)' \/ p \in astray'
    <3>1. \A p : ~ToMark(p)
      <4>1. \A o \in Requests : request[o].op \notin {"delete", "dedupe"}  BY <2>0, IdleFacts
      <4> QED  BY <4>1 DEF ToMark
    <3> QED  BY <1>2, <2>0, <3>1 DEF AloneInv, Leads
  <2> QED  BY <2>1, <2>2, <2>3, <2>4 DEF AloneInv
<1> QED  BY <1>2, <1>6, <1>7, <1>8 DEF ChangeInv

LEMMA StartRestoreStep ==
  ASSUME ChangeInv, NEW r \in Requests, NEW id \in Ids, StartRestore(r, id)
  PROVE  ChangeInv'
<1> DEFINE items == record[id].items
<1>1. /\ request[r] = Idle /\ record[id].status # "none"
      /\ \A o \in Requests : request[o].id = id => request[o].op = "restore"
      /\ Start(r, "restore", id, items, RestorePlan(items, record[id].list))
  BY DEF StartRestore
<1>2. /\ items \in Seq(Paths) /\ items # <<>>
      /\ record[id].list \in BOOLEAN /\ (record[id].list \/ Len(items) = 1)
  BY <1>1 DEF ChangeInv, TypeInv, RecordShape, NoRecord
<1>3. PICK plan : plan = RestorePlan(items, record[id].list) /\ PlanRight("restore", items, plan)
  <2>1. CASE record[id].list = TRUE  BY <1>2, <2>1, RestoreListPlanRight
  <2>2. CASE record[id].list = FALSE  BY <1>2, <2>2, RestoreOnePlanRight
  <2> QED  BY <1>2, <2>1, <2>2
<1>4. /\ TypeInv'
      /\ \A o \in Requests : o # r => request'[o] = request[o]
      /\ request'[r].op = "restore" /\ request'[r].id = id /\ request'[r].items = items
      /\ Recording(request'[r])
      /\ \A p \in Range(items) : Moving(request'[r], p) /\ MovesLead(request'[r].plan, p)
      /\ \A i \in Ids : fate'[i] = IF i # id THEN fate[i] ELSE "tried"
      /\ alone' => alone /\ \A o \in Requests : o # r => request[o] = Idle
      /\ UNCHANGED <<live, backup, record, row, note, faults, kept, taken, cut, astray>>
  <2>1. TypeInv /\ "restore" \in Ops  BY DEF ChangeInv, Ops
  <2> HIDE DEF items
  <2> QED  BY <1>1, <1>2, <1>3, <2>1, Started
<1>5. \A i \in Ids : IdRight(i)'
  <2>1. TAKE i \in Ids
  <2>2. IdRight(i)  BY DEF ChangeInv
  <2>3. CASE i # id
    <3>1. Unlisted(i) => Unlisted(i)'  BY <1>1, <1>4, <2>3, IdleFacts, NoneIsNone DEF Unlisted
    <3> QED  BY <1>4, <2>2, <2>3, <3>1 DEF IdRight, Untouched, Contents, Restorable
  <2>4. CASE i = id
    <3>1. ~Unlisted(i)  BY <1>1, <2>4 DEF Unlisted
    <3> QED  BY <1>4, <2>2, <2>4, <3>1 DEF IdRight, Contents
  <2> QED  BY <2>3, <2>4
<1>6. \A o \in Requests : RequestRight(o)'
  <2>1. TAKE o \in Requests
  <2>2. CASE o = r
    <3>1. RestoreRight(r)'  BY <1>1, <1>4 DEF RestoreRight
    <3> QED  BY <1>4, <2>2, <3>1 DEF RequestRight, Takes
  <2>3. CASE o # r
    <3>1. request'[o] = request[o] /\ RequestRight(o)  BY <1>4, <2>3 DEF ChangeInv
    <3>2. CASE request[o] = Idle  BY <3>1, <3>2, IdleFacts DEF RequestRight
    <3>3. CASE RequestShape(request[o])
      <4>1. request[o].id \in Ids  BY <3>3 DEF RequestShape
      <4>2. ASSUME Takes(request[o])  PROVE TakeRight(o)'
        <5>1. TakeRight(o)  BY <3>1, <4>2 DEF RequestRight
        <5>2. request[o].id # id  BY <1>1, <4>2 DEF Takes
        <5>3. \A x \in Requests : request'[x].id = request[o].id => x = o
          BY <1>4, <5>1, <5>2 DEF TakeRight
        <5> QED  BY <1>4, <3>1, <4>1, <5>1, <5>2, <5>3 DEF TakeRight
      <4>3. RestoreRight(o) => RestoreRight(o)'  BY <1>4, <3>1, <4>1 DEF RestoreRight
      <4> QED  BY <3>1, <4>2, <4>3 DEF RequestRight, Takes
    <3> QED  BY <3>2, <3>3 DEF ChangeInv, TypeInv
  <2> QED  BY <2>2, <2>3
<1>7. ASSUME alone'  PROVE AloneInv'
  <2>0. AloneInv /\ \A o \in Requests : request[o] = Idle  BY <1>1, <1>4, <1>7 DEF ChangeInv
  <2>1. \A o \in Requests : o # r => request'[o] = Idle  BY <1>4, <2>0
  <2>2. \A i \in Ids : Agrees(i)' \/ i \in cut'
    BY <1>4, <2>0, IdleFacts, NoneIsNone DEF AloneInv, InFlight, Agrees
  <2>3. \A o \in Requests : AloneRight(o)'
    <3>1. AloneRight(r)'  BY <1>4, <2>2 DEF AloneRight, Takes
    <3> QED  BY <2>1, <3>1, IdleFacts DEF AloneRight
  <2>4. \A p \in Paths \ Internal : live'[p] = None => Leads(p)' \/ p \in astray'
    <3>1. \A p : ~ToMark(p)  BY <2>0, IdleFacts DEF ToMark
    <3> QED  BY <1>4, <2>0, <3>1 DEF AloneInv, Leads
  <2> QED  BY <2>1, <2>2, <2>3, <2>4 DEF AloneInv
<1> QED  BY <1>4, <1>5, <1>6, <1>7 DEF ChangeInv

LEMMA StartDeleteStep ==
  ASSUME ChangeInv, NEW r \in Requests, NEW p \in Paths, StartDelete(r, p)
  PROVE  ChangeInv'
<1> DEFINE items == <<p>>
<1>1. PICK id \in Ids : fate[id] = "unused" /\ Start(r, "delete", id, items, DeletePlan(items))
  BY DEF StartDelete
<1>2. items \in Seq(Paths) /\ items # <<>> /\ Len(items) = 1 /\ items[1] = p
  OBVIOUS
<1> HIDE DEF items
<1>3. Range(items) = {p}  BY <1>2, OneItem
<1>4. PlanRight("delete", items, DeletePlan(items))  BY <1>2, DeletePlanRight
<1>5. p \notin Internal /\ request[r] = Idle  BY DEF StartDelete
<1> QED  BY <1>1, <1>2, <1>3, <1>4, <1>5, StartTakeStep

LEMMA StartDedupeStep ==
  ASSUME ChangeInv, NEW r \in Requests, NEW items \in Groups, StartDedupe(r, items)
  PROVE  ChangeInv'
<1>1. PICK id \in Ids : fate[id] = "unused" /\ Start(r, "dedupe", id, items, DedupePlan(items))
  BY DEF StartDedupe
<1>2. /\ items \in Seq(Paths) /\ items # <<>>
      /\ \A p \in Range(items) : p \notin Internal
  <2>1. items \in Seq(Paths \ Internal) /\ items # <<>>  BY ChangeSetsAssumption
  <2>2. items \in Seq(Paths)  BY <2>1, SeqMonotonic
  <2>3. \A i \in DOMAIN items : items[i] \notin Internal  BY <2>1
  <2>4. \A p \in Range(items) : p \notin Internal  BY <2>3, RangeIs
  <2> QED  BY <2>1, <2>2, <2>4
<1>3. PlanRight("dedupe", items, DedupePlan(items))  BY <1>2, DedupePlanRight
<1>4. request[r] = Idle  BY DEF StartDedupe
<1> QED  BY <1>1, <1>2, <1>3, <1>4, StartTakeStep

LEMMA StartImportStep ==
  ASSUME ChangeInv, NEW r \in Requests, StartImport(r)
  PROVE  ChangeInv'
<1>1. PICK p \in Internal, id \in Ids :
        live[p] # None /\ fate[id] = "unused" /\ Start(r, "import", id, <<p>>, ImportPlan(<<p>>))
  BY DEF StartImport
<1>2. PICK items : items = <<p>>  OBVIOUS
<1>3. p \in Paths  BY ChangeSetsAssumption
<1>4. items \in Seq(Paths) /\ items # <<>> /\ Len(items) = 1 /\ items[1] = p
  BY <1>2, <1>3
<1>5. Range(items) = {p}  BY <1>4, OneItem
<1>6. PlanRight("import", items, ImportPlan(items))  BY <1>4, ImportPlanRight
<1>7. request[r] = Idle \/ (request[r].op = "import" /\ request[r].plan = <<>>)  BY DEF StartImport
<1> QED  BY <1>1, <1>2, <1>4, <1>5, <1>6, <1>7, StartTakeStep

LEMMA StepKeeps ==
  ASSUME ChangeInv, [Next]_vars
  PROVE  ChangeInv'
<1>1. CASE Next
  <2>1. CASE \E p \in Paths : Put(p) \/ Rewritten(p)  BY <2>1, PutStep, RewrittenStep
  <2>2. ASSUME NEW r \in Requests, \E p \in Paths : StartDelete(r, p)  PROVE ChangeInv'
    BY <2>2, StartDeleteStep
  <2>3. ASSUME NEW r \in Requests, \E items \in Groups : StartDedupe(r, items)  PROVE ChangeInv'
    BY <2>3, StartDedupeStep
  <2>4. ASSUME NEW r \in Requests, \E id \in Ids : StartRestore(r, id)  PROVE ChangeInv'
    BY <2>4, StartRestoreStep
  <2>5. ASSUME NEW r \in Requests,
               StartImport(r) \/ Move(r) \/ WriteRecord(r) \/ MarkNote(r) \/ MissNote(r) \/ MarkFails(r)
                 \/ HashRestored(r) \/ Commit(r) \/ EndImport(r) \/ Crash(r)
        PROVE  ChangeInv'
    BY <2>5, StartImportStep, MoveStep, WriteRecordStep, MarkNoteStep, MissNoteStep,
       MarkFailsStep, HashRestoredStep, CommitStep, EndImportStep, CrashStep
  <2> QED  BY <1>1, <2>1, <2>2, <2>3, <2>4, <2>5 DEF Next
<1>2. CASE UNCHANGED vars
  <2> USE <1>2 DEF vars
  <2>1. TypeInv'  BY DEF ChangeInv, TypeInv, TypeOK
  <2>2. \A id \in Ids : IdRight(id)'
    BY DEF ChangeInv, IdRight, Untouched, Contents, Unlisted, Restorable
  <2>3. \A r \in Requests : RequestRight(r)'
    BY DEF ChangeInv, RequestRight, TakeRight, RestoreRight
  <2>4. AloneInv => AloneInv'
    BY DEF AloneInv, InFlight, Agrees, AloneRight, Leads, ToMark
  <2> QED  BY <2>1, <2>2, <2>3, <2>4 DEF ChangeInv
<1> QED  BY <1>1, <1>2

-----------------------------------------------------------------------------
(* The theorems *)

\* The invariant, of every state the service can be in.
THEOREM ChangeInvariant == Spec => []ChangeInv
<1>1. ChangeInv /\ [Next]_vars => ChangeInv'  BY StepKeeps
<1> QED  BY <1>1, InitHolds, PTL DEF Spec

\* The variables keep their types.
THEOREM ChangeTypes == Spec => []TypeOK
<1>1. ChangeInv => TypeOK  BY DEF ChangeInv, TypeInv
<1> QED  BY <1>1, ChangeInvariant, PTL

\* Whatever other requests do, and die of, in between: a delete or a dedupe that
\* was answered can be undone in full, if the names of its files differ.
THEOREM AnsweredIsUndoable == Spec => []Undoable
<1>1. ChangeInv => Undoable  BY DEF ChangeInv, IdRight, Undoable
<1> QED  BY <1>1, ChangeInvariant, PTL

\* Every payload is named by the change-set.json beside it, unless the process
\* that moved it died.
THEOREM PayloadsAreListed == Spec => []Listed
<1>1. ChangeInv => Listed
  <2>1. SUFFICES ASSUME ChangeInv, NEW id \in Ids, NEW s \in Places,
                        backup[id][s] # None, ~InFlight(id)
                 PROVE  \/ \E p \in Range(record[id].items) : Slot[p] = s /\ taken[id][p] = backup[id][s]
                        \/ record[id].status = "none" /\ fate[id] = "crashed"
    BY DEF Listed
  <2>2. Contents(id)  BY <2>1 DEF ChangeInv, IdRight
  <2> QED  BY <2>1, <2>2 DEF Contents, Unlisted, InFlight
<1> QED  BY <1>1, ChangeInvariant, PTL

\* At rest, as long as requests came one at a time and none died, the database
\* and change-set.json agree but on what a request left that failed in between.
THEOREM StoresAgree == Spec => []Agreement
<1>1. ChangeInv => Agreement
  <2>1. SUFFICES ASSUME ChangeInv, AllIdle, alone, NEW id \in Ids \ cut  PROVE Agrees(id)
    BY DEF Agreement, Agrees
  <2>2. ~InFlight(id)  BY <2>1, IdleFacts, NoneIsNone DEF AllIdle, InFlight
  <2> QED  BY <2>1, <2>2 DEF ChangeInv, AloneInv
<1> QED  BY <1>1, ChangeInvariant, PTL

\* At rest and under the same condition, the note of a file that is gone leads to
\* the change set that brings it back, unless its request missed the note, or
\* failed before it, or somebody rewrote it.
THEOREM GoneFilesAreMarked == Spec => []NotesLead
<1>1. ChangeInv => NotesLead
  <2>1. SUFFICES ASSUME ChangeInv, AllIdle, alone, NEW p \in Paths \ (Internal \cup astray), live[p] = None
                 PROVE  Leads(p)
    BY DEF NotesLead, Leads
  <2>2. ~ToMark(p)  BY <2>1, IdleFacts DEF AllIdle, ToMark
  <2> QED  BY <2>1, <2>2 DEF ChangeInv, AloneInv
<1> QED  BY <1>1, ChangeInvariant, PTL

-----------------------------------------------------------------------------
(* What a step may not do *)

LEMMA StoredIs ==
  \A c : c \in Stored <=> c # None /\ \/ \E p \in Paths : live[p] = c
                                      \/ \E id \in Ids, s \in Places : backup[id][s] = c
BY DEF Stored

\* A move of a request that takes files loses what its place in the payload holds, at most.
LEMMA TakeLosesOne ==
  ASSUME ChangeInv, NEW r \in Requests, Doing(r, "move"), Takes(request[r]),
         NEW p, p = Next1(r)[2], Take(r, p),
         NEW c \in Stored, c \notin Stored'
  PROVE  backup[request[r].id][Slot[p]] = c
<1>1. PICK q \in RequestRecord : q = request[r]  BY DoingRequest DEF ChangeInv
<1>2. /\ RequestShape(q) /\ q.id \in Ids /\ p \in Paths /\ p \in Range(q.items) /\ Moving(q, p)
  BY <1>1, DoingRequest, HeadFacts DEF ChangeInv
<1>3. Slot[p] \in Places  BY <1>2, PlaceOf
<1>4. /\ backup'[q.id][Slot[p]] = live[p]
      /\ \A id \in Ids, s \in Places : id # q.id \/ s # Slot[p] => backup'[id][s] = backup[id][s]
      /\ \A o \in Paths : o # p => live'[o] = live[o]
  BY <1>1, <1>2, <1>3 DEF Take, ChangeInv, TypeInv, TypeOK
<1>5. c # None  BY StoredIs
<1>6. /\ \A o \in Paths : live'[o] # c
      /\ \A id \in Ids, s \in Places : backup'[id][s] # c
  BY <1>5 DEF Stored
<1>7. CASE \E o \in Paths : live[o] = c  BY <1>2, <1>3, <1>4, <1>6, <1>7
<1>8. CASE \E id \in Ids, s \in Places : backup[id][s] = c
  <2>1. PICK id \in Ids, s \in Places : backup[id][s] = c  BY <1>8
  <2>2. id = q.id /\ s = Slot[p]  BY <1>4, <1>6, <2>1
  <2> QED  BY <1>1, <2>1, <2>2
<1> QED  BY <1>7, <1>8, StoredIs

\* ... which is nothing if the names of its files differ.
LEMMA TakeFindsRoom ==
  ASSUME ChangeInv, NEW r \in Requests, Doing(r, "move"), Takes(request[r]),
         NEW p, p = Next1(r)[2], backup[request[r].id][Slot[p]] # None
  PROVE  request[r].op = "dedupe" /\ ~Apart(request[r].items)
<1>1. PICK q \in RequestRecord : q = request[r]  BY DoingRequest DEF ChangeInv
<1>2. /\ RequestShape(q) /\ p \in Paths /\ p \in Range(q.items) /\ Moving(q, p)
  BY <1>1, DoingRequest, HeadFacts DEF ChangeInv
<1>3. TakeRight(r)  BY <1>1 DEF ChangeInv, RequestRight
<1>4. ~Apart(q.items)  BY <1>1, <1>2, <1>3 DEF TakeRight
<1>5. q.items \in Seq(Paths) /\ (q.op \in {"delete", "import"} => Len(q.items) = 1)
  BY <1>2 DEF RequestShape
<1>6. q.op = "dedupe"  BY <1>1, <1>4, <1>5, OneIsApart DEF Takes
<1> QED  BY <1>1, <1>4, <1>6

\* A restore loses what the path of its file holds, at most.
LEMMA GiveBackLosesOne ==
  ASSUME ChangeInv, NEW r \in Requests, Doing(r, "move"), request[r].op = "restore",
         NEW p, p = Next1(r)[2], GiveBack(r, p),
         NEW c \in Stored, c \notin Stored'
  PROVE  live[p] = c
<1>1. PICK q \in RequestRecord : q = request[r]  BY DoingRequest DEF ChangeInv
<1>2. q.id \in Ids /\ p \in Paths  BY <1>1, DoingRequest DEF ChangeInv
<1>3. Slot[p] \in Places  BY <1>2, PlaceOf
<1>4. /\ live'[p] = backup[q.id][Slot[p]]
      /\ \A id \in Ids, s \in Places : id # q.id \/ s # Slot[p] => backup'[id][s] = backup[id][s]
      /\ \A o \in Paths : o # p => live'[o] = live[o]
  BY <1>1, <1>2, <1>3 DEF GiveBack, ChangeInv, TypeInv, TypeOK
<1>5. c # None  BY StoredIs
<1>6. /\ \A o \in Paths : live'[o] # c
      /\ \A id \in Ids, s \in Places : backup'[id][s] # c
  BY <1>5 DEF Stored
<1>7. CASE \E o \in Paths : live[o] = c  BY <1>2, <1>4, <1>6, <1>7
<1>8. CASE \E id \in Ids, s \in Places : backup[id][s] = c
  <2>1. PICK id \in Ids, s \in Places : backup[id][s] = c  BY <1>8
  <2>2. id = q.id /\ s = Slot[p]  BY <1>4, <1>6, <2>1
  <2> QED  BY <1>2, <1>4, <1>6, <2>1, <2>2
<1> QED  BY <1>7, <1>8, StoredIs

LEMMA StepLoses ==
  ASSUME ChangeInv, Next, NEW c \in Stored \ Stored', c \in kept'
  PROVE  \E r \in Requests : Overwrites(r, c) \/ Collides(r, c)
<1>1. live' # live \/ backup' # backup
  <2>1. live' = live /\ backup' = backup => Stored' = Stored  BY DEF Stored
  <2> QED  BY <2>1
<1>2. ASSUME NEW p \in Paths, Put(p)  PROVE FALSE
  <2>1. PICK x \in Payloads \ (kept \cup Stored) :
          /\ live' = [live EXCEPT ![p] = x]
          /\ kept' = (kept \ {live[p]}) \cup {x}
          /\ backup' = backup
    BY <1>2 DEF Put
  <2>2. c # x /\ c # live[p]  BY <2>1
  <2>3. \A o \in Paths : live[o] = c => live'[o] = c
    BY <2>1, <2>2 DEF ChangeInv, TypeInv, TypeOK
  <2>4. c # None  BY StoredIs
  <2>5. c \in Stored'  BY <2>1, <2>3, <2>4, StoredIs DEF Stored
  <2> QED  BY <2>5
<1>3. ASSUME NEW r \in Requests, Move(r)  PROVE Overwrites(r, c) \/ Collides(r, c)
  <2>1. PICK p : p = Next1(r)[2]  OBVIOUS
  <2>2. Doing(r, "move")  BY <1>3 DEF Move
  <2>3. Source(r, p) # None
    <3>1. Source(r, p) = None => Fail(r)  BY <1>3, <2>1 DEF Move
    <3> QED  BY <1>1, <3>1 DEF Fail
  <2>4. IF request[r].op = "restore" THEN GiveBack(r, p) ELSE Take(r, p)
    BY <1>3, <2>1, <2>3 DEF Move
  <2>5. CASE request[r].op # "restore"
    <3>1. Takes(request[r])  BY <2>2, <2>5, DoingRequest DEF ChangeInv, Ops, Takes
    <3>2. backup[request[r].id][Slot[p]] = c  BY <2>1, <2>2, <2>4, <2>5, <3>1, TakeLosesOne
    <3>3. c # None  BY StoredIs
    <3>4. request[r].op = "dedupe" /\ ~Apart(request[r].items)
      BY <2>1, <2>2, <3>1, <3>2, <3>3, TakeFindsRoom
    <3> QED  BY <2>1, <2>2, <3>2, <3>4 DEF Collides
  <2>6. CASE request[r].op = "restore"
    <3>1. live[p] = c  BY <2>1, <2>2, <2>4, <2>6, GiveBackLosesOne
    <3> QED  BY <2>1, <2>2, <2>3, <2>6, <3>1 DEF Overwrites
  <2> QED  BY <2>5, <2>6
<1>4. ASSUME NEW r \in Requests, NEW p \in Paths, StartDelete(r, p)  PROVE FALSE
  BY <1>1, <1>4 DEF StartDelete, Start
<1>5. ASSUME NEW r \in Requests, NEW items \in Groups, StartDedupe(r, items)  PROVE FALSE
  BY <1>1, <1>5 DEF StartDedupe, Start
<1>6. ASSUME NEW r \in Requests, StartImport(r)  PROVE FALSE
  BY <1>1, <1>6 DEF StartImport, Start
<1>7. ASSUME NEW r \in Requests, NEW id \in Ids, StartRestore(r, id)  PROVE FALSE
  BY <1>1, <1>7 DEF StartRestore, Start
<1>8. ASSUME NEW r \in Requests, WriteRecord(r) \/ MarkNote(r) \/ MissNote(r) \/ MarkFails(r) \/ HashRestored(r)
                                   \/ Commit(r) \/ EndImport(r) \/ Crash(r)
      PROVE  FALSE
  BY <1>1, <1>8 DEF WriteRecord, MarkNote, MissNote, MarkFails, HashRestored, Fail, Commit, EndImport, Crash
<1>9. ASSUME NEW p \in Paths, Rewritten(p)  PROVE FALSE  BY <1>1, <1>9 DEF Rewritten
<1> QED  BY <1>2, <1>3, <1>4, <1>5, <1>6, <1>7, <1>8, <1>9 DEF Next

\* Deletes and imports never destroy a copy; a restore destroys the one that lies
\* at the path of the file it brings back, and a dedupe of files of one name those
\* it has moved before.
THEOREM LossesAreKnown == Spec => OnlyKnownLosses
<1>1. ChangeInv /\ [Next]_vars =>
        [\A c \in Stored \ Stored' :
           c \in kept' => \E r \in Requests : Overwrites(r, c) \/ Collides(r, c)]_vars
  BY StepLoses
<1> QED  BY <1>1, ChangeInvariant, PTL DEF Spec, OnlyKnownLosses

\* The file a restore moves is the one its change set took from that path, if the
\* names of its files differ.
LEMMA GivesBackWhatItTook ==
  ASSUME ChangeInv, NEW r \in Requests, Doing(r, "move"), request[r].op = "restore",
         Apart(request[r].items), NEW p, p = Next1(r)[2], backup[request[r].id][Slot[p]] # None
  PROVE  backup[request[r].id][Slot[p]] = taken[request[r].id][p]
<1>1. PICK q \in RequestRecord : q = request[r]  BY DoingRequest DEF ChangeInv
<1>2. RequestShape(q) /\ q.id \in Ids /\ p \in Paths /\ p \in Range(q.items)
  BY <1>1, DoingRequest DEF ChangeInv
<1>3. RestoreRight(r)  BY <1>1 DEF ChangeInv, RequestRight
<1>4. Contents(q.id)  BY <1>2 DEF ChangeInv, IdRight
<1>5. PICK o \in Range(q.items) : Slot[o] = Slot[p] /\ taken[q.id][o] = backup[q.id][Slot[p]]
  BY <1>1, <1>2, <1>3, <1>4, PlaceOf DEF Contents, RestoreRight, Unlisted
<1>6. o = p  BY <1>1, <1>2, <1>5, RangeIs DEF RequestShape, Apart
<1> QED  BY <1>1, <1>5, <1>6

LEMMA StepRestores ==
  ASSUME ChangeInv, Next, NEW r \in Requests, Doing(r, "move"), request[r].op = "restore",
         Apart(request[r].items),
         request'[r] # Idle, request'[r] # request[r]
  PROVE  live'[Next1(r)[2]] = taken[request[r].id][Next1(r)[2]]
<1>1. PICK p : p = Next1(r)[2]  OBVIOUS
<1>2. /\ request \in [Requests -> RequestRecord] /\ request[r].plan # <<>>
      /\ Next1(r)[1] = "move" /\ request[r] # Idle /\ p \in Paths
  BY <1>1, DoingRequest DEF ChangeInv, TypeInv, TypeOK, RequestRecord, Doing
<1>3. CASE Move(r)
  <2>1. Source(r, p) # None
    <3>1. Source(r, p) = None => Fail(r)  BY <1>1, <1>3 DEF Move
    <3> QED  BY <1>2, <3>1 DEF Fail, Stop
  <2>2. GiveBack(r, p)  BY <1>1, <1>3, <2>1 DEF Move
  <2>3. live'[p] = backup[request[r].id][Slot[p]]
    BY <1>2, <2>2 DEF GiveBack, ChangeInv, TypeInv, TypeOK
  <2>4. backup[request[r].id][Slot[p]] # None  BY <2>1 DEF Source
  <2> QED  BY <1>1, <2>3, <2>4, GivesBackWhatItTook
<1>4. ASSUME NEW o \in Requests, \E x \in Paths : StartDelete(o, x)  PROVE FALSE
  BY <1>2, <1>4 DEF StartDelete, Start
<1>5. ASSUME NEW o \in Requests, \E items \in Groups : StartDedupe(o, items)  PROVE FALSE
  BY <1>2, <1>5 DEF StartDedupe, Start
<1>6. ASSUME NEW o \in Requests, StartImport(o)  PROVE FALSE
  BY <1>2, <1>6 DEF StartImport, Start
<1>7. ASSUME NEW o \in Requests, \E id \in Ids : StartRestore(o, id)  PROVE FALSE
  BY <1>2, <1>7 DEF StartRestore, Start
<1>8. ASSUME NEW o \in Requests, Move(o), o # r  PROVE FALSE
  BY <1>2, <1>8 DEF Move, Fail, Stop, Advance
<1>9. ASSUME NEW o \in Requests, WriteRecord(o) \/ MarkNote(o) \/ MissNote(o) \/ HashRestored(o)
      PROVE  FALSE
  <2>1. CASE o = r  BY <1>2, <1>9, <2>1 DEF WriteRecord, MarkNote, MissNote, HashRestored, Doing
  <2>2. CASE o # r  BY <1>2, <1>9, <2>2 DEF WriteRecord, MarkNote, MissNote, HashRestored, Fail, Stop, Advance
  <2> QED  BY <2>1, <2>2
<1>10. ASSUME NEW o \in Requests, MarkFails(o) \/ Commit(o) \/ EndImport(o) \/ Crash(o)  PROVE FALSE
  BY <1>2, <1>10 DEF MarkFails, Stop, Commit, EndImport, Crash
<1>11. ASSUME NEW x \in Paths, Put(x) \/ Rewritten(x)  PROVE FALSE
  BY <1>11 DEF Put, Rewritten
<1> QED  BY <1>3, <1>4, <1>5, <1>6, <1>7, <1>8, <1>9, <1>10, <1>11 DEF Next

\* A restore puts at a path exactly what its change set took from it, if the names
\* of the files of the change set differ.
THEOREM RestoresAreExact == Spec => RestoresWhatItTook
<1>1. ChangeInv /\ [Next]_vars =>
        [\A r \in Requests :
           Doing(r, "move") /\ request[r].op = "restore" /\ Apart(request[r].items) =>
             \/ request'[r] \in {Idle, request[r]}
             \/ live'[Next1(r)[2]] = taken[request[r].id][Next1(r)[2]]]_vars
  BY StepRestores
<1> QED  BY <1>1, ChangeInvariant, PTL DEF Spec, RestoresWhatItTook
=============================================================================
