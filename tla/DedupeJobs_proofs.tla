------------------------- MODULE DedupeJobs_proofs -------------------------
(***************************************************************************)
(* Proofs about DedupeJobs, for any number of files, jobs and runners:     *)
(* what a complete job may have left out (JobCovers), although runners     *)
(* share its cursor without a lease, and what a group holds (GroupsSound). *)
(*                                                                         *)
(* JobCovers is a matter of counting.  For each job there is a set of      *)
(* files, those that were rows at some time since it began, of which there *)
(* are at most as many as it counted plus those revived since; whoever     *)
(* stands at a cursor has counted no more files than this set has up to    *)
(* there, and every candidate that is missing lies behind the cursor.      *)
(***************************************************************************)
EXTENDS DedupeJobs, TLAPS, FiniteSetTheorems, SequenceTheorems, WellFoundedInduction

\* What an item of a group of this fingerprint looks like
Members(p) == {[file |-> f, exists |-> f \in Sources] : f \in {f \in Files : Fingerprint[f] = p}}

Groups(p) == [items : Seq(Members(p)), duplicates : Int, keep : Files \cup {0}]

Changes == UNION {[print : {p}, old : Groups(p), new : Groups(p)] : p \in Prints}

RunnerRecord ==
  [at : {"rest", "begun", "rows", "analysed", "limit", "report"}, job : Jobs \cup {0},
   known : Rows, mine : Rows, rows : Seq(Files), seen : SUBSET Files,
   empty : BOOLEAN, idle : BOOLEAN, item : SUBSET Changes]

TypeInv ==
  /\ live \subseteq Files
  /\ job \in [Jobs -> Rows]
  /\ DOMAIN group = Jobs
  /\ \A j \in Jobs : DOMAIN group[j] = Prints /\ \A p \in Prints : group[j][p] \in Groups(p)
  /\ task \in [status : {"queued", "running", "completed", "failed"}, job : Jobs \cup {0}]
  /\ runner \in [Runners -> RunnerRecord]
  /\ missing \in [Jobs -> SUBSET live]
  /\ raced \subseteq Jobs \X (Prints \cup {NoPrint})
  /\ spent \in [faults : Nat, crashes : Nat, removed : Nat, revived : Nat]

Working(r) == r.at \in {"rows", "analysed", "limit"}

\* The rows of a chunk that are still to be visited lie behind the cursor, in order
InOrder(r) ==
  /\ \A i \in DOMAIN r.rows : r.rows[i] > r.mine.cursor
  /\ \A i, k \in DOMAIN r.rows : i < k => r.rows[i] < r.rows[k]

\* A runner by itself: how far what it has differs from what it knew
Local(r) ==
  /\ r.at \in {"begun", "report"} \/ Working(r) => r.job \in Jobs
  /\ r.at # "analysed" => r.item = {}
  /\ Working(r) =>
       /\ r.known.status \in {"queued", "running"} /\ r.mine.status = "running"
       /\ r.mine.total = r.known.total /\ r.mine.found = r.known.found
       /\ \/ r.mine.cursor = r.known.cursor /\ r.mine.processed = r.known.processed
          \/ r.mine.cursor > r.known.cursor /\ r.mine.processed > r.known.processed
       /\ r.at = "analysed" => r.mine.cursor > r.known.cursor
       /\ r.rows = <<>> /\ r.idle /\ ~ r.empty => r.mine.cursor > r.known.cursor
       /\ ~ r.idle => r.known.status = "running"
       /\ r.at = "limit" => r.mine = r.known /\ r.known.found >= MaxGroups
       /\ InOrder(r)

\* A runner and its job: no missing file lies before the cursor it knew, and those that it
\* has passed since are among the files it has seen
Covers(r, row, lost) ==
  Working(r) =>
    /\ row.status # "none"
    /\ row.total = r.mine.total
    /\ r.known.found <= row.found
    /\ \A f \in lost :
         /\ f > r.known.cursor
         /\ f <= r.mine.cursor => f \in r.seen
         /\ f > r.mine.cursor => \A i \in DOMAIN r.rows :
              f < r.rows[i] => \E k \in DOMAIN r.rows : r.rows[k] = f
    /\ r.empty => lost = {}

JobRight(row, lost, revived) ==
  /\ \A f \in lost : f > row.cursor
  /\ row.status = "complete" /\ row.found < MaxGroups => Cardinality(lost) <= revived

UpTo(files, c) == {f \in files : f <= c}

\* ever holds the files that were rows at some time since the job began
Counts(row, lost, ever, revived) ==
  /\ lost \subseteq ever
  /\ Cardinality(ever) <= row.total + revived
  /\ row.status \in {"queued", "running"} => row.processed <= Cardinality(UpTo(ever, row.cursor))

RunnerCounts(r, ever) ==
  Working(r) =>
    /\ \A i \in DOMAIN r.rows : r.rows[i] \in ever
    /\ r.mine.processed <= Cardinality(UpTo(ever, r.mine.cursor))

EverOf(j, ever) ==
  /\ live \subseteq ever
  /\ Counts(job[j], missing[j], ever, spent.revived)
  /\ \A e \in Runners : runner[e].job = j => RunnerCounts(runner[e], ever)

JobsInv ==
  /\ \A e \in Runners : Local(runner[e])
  /\ \A e \in Runners : runner[e].job \in Jobs =>
       Covers(runner[e], job[runner[e].job], missing[runner[e].job])
  /\ \A j \in Jobs : JobRight(job[j], missing[j], spent.revived) /\ job[j].found <= Found(j)
  /\ \A j \in Jobs : job[j].status # "none" => \E ever \in SUBSET Files : EverOf(j, ever)

\* A group that was created counts no duplicate when it has one item, whoever wrote it
Shape(g) ==
  \/ g = NoGroup
  \/ Len(g.items) >= 1 /\ g.duplicates >= 0 /\ (Len(g.items) = 1 => g.duplicates = 0)

Distinct(items) == \A k, n \in DOMAIN items : items[k].file = items[n].file => k = n

BestKept(g) ==
  \A k, n \in DOMAIN g.items : g.items[k].file = g.keep => ~ Better(g.items[n], g.items[k])

Sound(g) ==
  g # NoGroup => /\ g.duplicates = Cardinality(DOMAIN g.items) - 1
                 /\ Distinct(g.items) /\ BestKept(g)

\* What a runner wants to do to a group of which it read old
Wanted(i) ==
  /\ Shape(i.old)
  /\ i.new = Summary(i.new.items)
  /\ \/ i.new.items = i.old.items /\ i.old # NoGroup
     \/ \E m \in Members(i.print) : /\ \A k \in DOMAIN i.old.items : i.old.items[k].file # m.file
                                    /\ i.new.items = Append(i.old.items, m)

\* What a runner has read and not committed, against what is stored
ReadRight(e) ==
  LET r == runner[e] IN
  /\ \A i, k \in r.item : i = k
  /\ \A i \in r.item :
       /\ r.at = "analysed" /\ r.job \in Jobs
       /\ Wanted(i)
       /\ Len(i.old.items) <= Len(group[r.job][i.print].items)
       /\ <<r.job, i.print>> \notin raced =>
            /\ i.old = group[r.job][i.print]
            /\ \A o \in Runners \ {e} : runner[o].job = r.job =>
                 \A k \in runner[o].item : k.print # i.print

\* Groups only grow; one that no two runners had read at once is as its only reader knows it
GroupsInv ==
  /\ \A j \in Jobs, p \in Prints : Shape(group[j][p]) /\ (<<j, p>> \notin raced => Sound(group[j][p]))
  /\ \A e \in Runners : ReadRight(e)

\* The inductive invariant
DedupeInv == TypeInv /\ JobsInv /\ GroupsInv

-----------------------------------------------------------------------------
(* Counting files *)

\* Ids are positive numbers.
LEMMA FileIds == Files \subseteq Nat /\ 0 \notin Files
BY DedupeJobsAssumption

\* Any set of files is finite.
LEMMA SomeFiles ==
  ASSUME NEW S \in SUBSET Files
  PROVE  IsFiniteSet(S) /\ Cardinality(S) \in Nat
BY DedupeJobsAssumption, FS_Subset, FS_CardinalityType

\* A file of the set further on makes one more.
LEMMA OneMore ==
  ASSUME NEW ever \in SUBSET Files, NEW c \in Nat, NEW d \in ever, c < d
  PROVE  Cardinality(UpTo(ever, c)) + 1 <= Cardinality(UpTo(ever, d))
<1>1. UpTo(ever, c) \in SUBSET Files /\ UpTo(ever, d) \in SUBSET Files
  BY DEF UpTo
<1>2. UpTo(ever, c) \cup {d} \in SUBSET UpTo(ever, d) /\ d \notin UpTo(ever, c)
  <2>1. \A f \in ever : f \in Nat
    BY FileIds
  <2>. QED  BY <2>1 DEF UpTo
<1>3. Cardinality(UpTo(ever, c) \cup {d}) = Cardinality(UpTo(ever, c)) + 1
  BY <1>1, <1>2, SomeFiles, FS_AddElement
<1>4. Cardinality(UpTo(ever, c) \cup {d}) <= Cardinality(UpTo(ever, d))
  BY <1>1, <1>2, SomeFiles, FS_Subset
<1>. QED  BY <1>3, <1>4

\* More files are more files up to any cursor.
LEMMA MoreFiles ==
  ASSUME NEW T \in SUBSET Files, NEW S \in SUBSET T, NEW c
  PROVE  Cardinality(UpTo(S, c)) <= Cardinality(UpTo(T, c))
<1>1. UpTo(T, c) \in SUBSET Files /\ UpTo(S, c) \in SUBSET UpTo(T, c)
  BY DEF UpTo
<1>. QED  BY <1>1, SomeFiles, FS_Subset

\* What lies behind a cursor is not among what lies before it.
LEMMA LeftOver ==
  ASSUME NEW ever \in SUBSET Files, NEW lost \in SUBSET ever, NEW c \in Nat,
         \A f \in lost : f > c
  PROVE  Cardinality(lost) + Cardinality(UpTo(ever, c)) <= Cardinality(ever)
<1>1. /\ lost \in SUBSET Files /\ UpTo(ever, c) \in SUBSET Files
      /\ lost \cup UpTo(ever, c) \in SUBSET ever
  BY DEF UpTo
<1>2. lost \cap UpTo(ever, c) = {}
  <2>1. \A f \in lost : f \in Nat
    BY FileIds
  <2>. QED  BY <2>1 DEF UpTo
<1>3. Cardinality(lost \cup UpTo(ever, c))
        = Cardinality(lost) + Cardinality(UpTo(ever, c)) - Cardinality(lost \cap UpTo(ever, c))
  BY <1>1, SomeFiles, FS_Union
<1>4. Cardinality(lost \cap UpTo(ever, c)) = 0
  BY <1>2, FS_EmptySet
<1>5. Cardinality(lost \cup UpTo(ever, c)) <= Cardinality(ever)
  BY <1>1, SomeFiles, FS_Subset
<1>. QED  BY <1>1, <1>3, <1>4, <1>5, SomeFiles

\* There are finitely many groups to count.
LEMMA SomePrints ==
  ASSUME NEW S \in SUBSET Prints
  PROVE  IsFiniteSet(S) /\ Cardinality(S) \in 0..Cardinality(Prints)
<1>. DEFINE printOf == [f \in Files |-> Fingerprint[f]]
            all     == {Fingerprint[f] : f \in Files}
<1>1. printOf \in Surjection(Files, all)
  BY DEF Surjection
<1>2. IsFiniteSet(all)
  BY <1>1, DedupeJobsAssumption, FS_Surjection
<1>3. IsFiniteSet(Prints)
  BY <1>2, FS_Subset DEF Prints
<1>. QED  BY <1>3, FS_Subset, FS_CardinalityType

-----------------------------------------------------------------------------
(* The file to keep *)

\* A set of numbers that is not empty has a least one.
LEMMA Least ==
  ASSUME NEW T \in SUBSET Nat, T # {}
  PROVE  \E x \in T : \A y \in T : x <= y
<1>1. PICK x \in T : \A y \in T : ~ (<<y, x>> \in OpToRel(<, Nat))
  BY NatLessThanWellFounded, WFMin
<1>2. ASSUME NEW y \in T
      PROVE  x <= y
  <2>1. ~ (y < x)
    BY <1>1 DEF OpToRel
  <2>. QED  BY <2>1
<1>. QED  BY <1>2

\* Of records of the same fingerprint, one at least is not worse than any of the others.
LEMMA SomeBest ==
  ASSUME NEW p, NEW S \in SUBSET Members(p), S # {}
  PROVE  \E a \in S : \A b \in S : b.file # a.file => ~ Better(b, a)
<1>0. \A a \in Members(p) : /\ a.file \in Nat /\ a.exists \in BOOLEAN /\ Rank[a.file] \in Nat
  <2>1. \A f \in Files : f \in Nat /\ Rank[f] \in Nat
    BY DedupeJobsAssumption
  <2>2. ASSUME NEW a \in Members(p)
        PROVE  a.file \in Files /\ a.exists \in BOOLEAN
    <3>1. PICK f \in Files : a = [file |-> f, exists |-> f \in Sources]
      BY DEF Members
    <3>2. a.file = f /\ a.exists = (f \in Sources)
      BY <3>1
    <3>. QED  BY <3>2
  <2>. QED  BY <2>1, <2>2
<1>. DEFINE T == IF \E a \in S : a.exists THEN {a \in S : a.exists} ELSE S
<1>1. /\ T # {} /\ T \in SUBSET S
      /\ \A a \in T, b \in S : b.exists => a.exists
  OBVIOUS
<1>. HIDE DEF T
<1>2. PICK n \in {Rank[a.file] : a \in T} : \A y \in {Rank[a.file] : a \in T} : n <= y
  <2>1. {Rank[a.file] : a \in T} \in SUBSET Nat /\ {Rank[a.file] : a \in T} # {}
    BY <1>0, <1>1
  <2>. QED  BY <2>1, Least
<1>. DEFINE U == {a \in T : Rank[a.file] = n}
<1>3. U # {} /\ U \in SUBSET T
  BY <1>2
<1>4. PICK f \in {a.file : a \in U} : \A y \in {a.file : a \in U} : f <= y
  <2>1. {a.file : a \in U} \in SUBSET Nat /\ {a.file : a \in U} # {}
    BY <1>0, <1>1, <1>3
  <2>. QED  BY <2>1, Least
<1>5. PICK a \in U : a.file = f
  BY <1>4
<1>6. ASSUME NEW b \in S, b.file # a.file
      PROVE  ~ Better(b, a)
  <2>1. /\ a \in T /\ a \in S /\ Rank[a.file] = n
        /\ b.exists => a.exists
    BY <1>1, <1>3, <1>5
  <2>2. /\ a.exists \in BOOLEAN /\ b.exists \in BOOLEAN
        /\ a.file \in Nat /\ b.file \in Nat /\ Rank[a.file] \in Nat /\ Rank[b.file] \in Nat
    BY <1>0, <2>1
  <2>3. CASE a.exists # b.exists
    BY <2>1, <2>2, <2>3 DEF Better
  <2>4. CASE a.exists = b.exists
    <3>1. b \in T
      BY <1>1, <2>1, <2>4 DEF T
    <3>2. n <= Rank[b.file]
      BY <1>2, <3>1
    <3>3. Rank[b.file] = n => f <= b.file
      BY <1>4, <3>1
    <3>. QED  BY <1>5, <2>1, <2>2, <2>4, <3>2, <3>3 DEF Better
  <2>. QED  BY <2>3, <2>4
<1>. QED  BY <1>1, <1>3, <1>6

\* Records of one fingerprint that have the same file are the same.
LEMMA SameFile ==
  ASSUME NEW p, NEW a \in Members(p), NEW b \in Members(p), a.file = b.file
  PROVE  a = b
BY DEF Members

\* _pick_recommended_keep keeps the best file.
LEMMA KeepsBest ==
  ASSUME NEW p, NEW items \in Seq(Members(p)), items # <<>>
  PROVE  /\ Keep(items) \in Files
         /\ \A k, n \in DOMAIN items :
              items[k].file = Keep(items) => ~ Better(items[n], items[k])
<1>. DEFINE S == {items[k] : k \in DOMAIN items}
            best(a) == \A k \in DOMAIN items : items[k].file # a.file => ~ Better(items[k], a)
            kept == CHOOSE a \in S : best(a)
<1>1. S \in SUBSET Members(p) /\ S # {}
  <2>1. DOMAIN items = 1..Len(items) /\ Len(items) \in Nat /\ Len(items) # 0
    BY EmptySeq, LenProperties
  <2>. QED  BY <2>1
<1>2. PICK a \in S : \A b \in S : b.file # a.file => ~ Better(b, a)
  BY <1>1, SomeBest
<1>3. best(a)
  BY <1>2
<1>4. kept \in S /\ best(kept)
  BY <1>3
<1>5. Keep(items) = kept.file
  BY DEF Keep
<1>. HIDE DEF kept
<1>6. kept.file \in Files
  BY <1>1, <1>4 DEF Members
<1>7. ASSUME NEW k \in DOMAIN items, NEW n \in DOMAIN items, items[k].file = kept.file
      PROVE  ~ Better(items[n], items[k])
  <2>1. items[k] = kept
    BY <1>1, <1>4, <1>7, SameFile
  <2>2. CASE items[n].file # kept.file
    BY <1>4, <2>1, <2>2
  <2>3. CASE items[n].file = kept.file
    <3>1. items[n] = kept
      BY <1>1, <1>4, <2>3, SameFile
    <3>2. kept.file \in Nat /\ Rank[kept.file] \in Nat
      BY <1>6, DedupeJobsAssumption
    <3>. QED  BY <2>1, <3>1, <3>2 DEF Better
  <2>. QED  BY <2>2, <2>3
<1>. QED  BY <1>5, <1>6, <1>7

-----------------------------------------------------------------------------
(* Shapes *)

\* A commit, column by column.
LEMMA FlushedRow ==
  ASSUME NEW row \in Rows, NEW known \in Rows, NEW mine \in Rows
  PROVE  LET new == Flushed(row, known, mine) IN
         /\ new \in Rows
         /\ new.status = IF mine.status # known.status THEN mine.status ELSE row.status
         /\ new.cursor = IF mine.cursor # known.cursor THEN mine.cursor ELSE row.cursor
         /\ new.processed = IF mine.processed # known.processed THEN mine.processed ELSE row.processed
         /\ new.total = IF mine.total # known.total THEN mine.total ELSE row.total
         /\ new.found = IF mine.found # known.found THEN mine.found ELSE row.found
<1>1. DOMAIN row = {"status", "cursor", "processed", "total", "found"}
  BY DEF Rows
<1>2. Flushed(row, known, mine) =
        [status |-> IF mine.status # known.status THEN mine.status ELSE row.status,
         cursor |-> IF mine.cursor # known.cursor THEN mine.cursor ELSE row.cursor,
         processed |-> IF mine.processed # known.processed THEN mine.processed ELSE row.processed,
         total |-> IF mine.total # known.total THEN mine.total ELSE row.total,
         found |-> IF mine.found # known.found THEN mine.found ELSE row.found]
  BY <1>1 DEF Flushed
<1>. QED  BY <1>2 DEF Rows

\* The counters of a job after one more record.
LEMMA Further ==
  ASSUME NEW mine \in Rows, NEW f \in Files
  PROVE  LET new == [mine EXCEPT !.processed = @ + 1, !.cursor = f] IN
         /\ new \in Rows
         /\ new.status = mine.status /\ new.total = mine.total /\ new.found = mine.found
         /\ new.processed = mine.processed + 1 /\ new.cursor = f
<1>1. PICK n \in Nat : n = mine.processed + 1
  BY DEF Rows
<1>2. [mine EXCEPT !.processed = n, !.cursor = f] \in Rows
  BY DEF Rows
<1>3. [mine EXCEPT !.processed = @ + 1, !.cursor = f] = [mine EXCEPT !.processed = n, !.cursor = f]
  BY <1>1
<1>. QED  BY <1>1, <1>2, <1>3 DEF Rows

LEMMA RestRight == NoJob \in Rows /\ Rest \in RunnerRecord
<1>1. NoJob \in Rows
  BY SomeFiles, SomePrints DEF NoJob, Rows
<1>2. <<>> \in Seq(Files)
  BY EmptySeq
<1>. QED  BY <1>1, <1>2 DEF Rest, RunnerRecord

LEMMA ChangeRight ==
  ASSUME NEW i \in Changes
  PROVE  i.print \in Prints /\ i.old \in Groups(i.print) /\ i.new \in Groups(i.print)
<1>1. PICK p \in Prints : i \in [print : {p}, old : Groups(p), new : Groups(p)]
  BY DEF Changes
<1>. QED  BY <1>1

\* A group after a file was put into it: what _upsert_group_membership leaves.
LEMMA Joined ==
  ASSUME NEW p, NEW g \in Groups(p), Shape(g), NEW m \in Members(p)
  PROVE  LET new == GroupAfter(g, m) IN
         /\ new \in Groups(p)
         /\ new = Summary(new.items)
         /\ \/ new.items = g.items /\ g # NoGroup
            \/ /\ \A k \in DOMAIN g.items : g.items[k].file # m.file
               /\ new.items = Append(g.items, m)
<1>. DEFINE items == IF Joins(g, m) THEN Append(g.items, m) ELSE g.items
<1>1. g.items \in Seq(Members(p)) /\ Append(g.items, m) \in Seq(Members(p)) /\ Append(g.items, m) # <<>>
  BY AppendProperties DEF Groups
<1>2. ~ Joins(g, m) => g.items # <<>> /\ g # NoGroup
  <2>1. g = NoGroup => DOMAIN g.items = {}
    BY DEF NoGroup
  <2>2. g.items = <<>> => DOMAIN g.items = {}
    BY EmptySeq, LenProperties
  <2>. QED  BY <2>1, <2>2 DEF Joins
<1>3. items \in Seq(Members(p)) /\ items # <<>>
  BY <1>1, <1>2
<1>4. Keep(items) \in Files /\ Len(items) \in Nat
  BY <1>3, KeepsBest, LenProperties
<1>5. GroupAfter(g, m) = Summary(items)
  BY DEF GroupAfter
<1>6. GroupAfter(g, m).items = items
  BY <1>5 DEF Summary
<1>7. GroupAfter(g, m) \in Groups(p)
  BY <1>3, <1>4, <1>5 DEF Groups, Summary
<1>. QED  BY <1>2, <1>5, <1>6, <1>7 DEF Joins

\* What a commit leaves of a group.
WritesAs(p, g, old, new, after) ==
  /\ after = GroupWritten(g, old, new)
  /\ after \in Groups(p)
  /\ \/ new.items = old.items /\ after.items = g.items
     \/ \E m \in Members(p) : new.items = Append(old.items, m) /\ after.items = Append(g.items, m)
  /\ after.duplicates = IF new.duplicates # old.duplicates THEN new.duplicates ELSE g.duplicates
  /\ after.keep = IF new.keep # old.keep THEN new.keep ELSE g.keep

LEMMA Written ==
  ASSUME NEW p, NEW g \in Groups(p), NEW old \in Groups(p), NEW new \in Groups(p),
         NEW i, i.print = p, i.old = old, i.new = new, Wanted(i)
  PROVE  WritesAs(p, g, old, new, GroupWritten(g, old, new))
<1>. DEFINE more == SubSeq(new.items, Len(old.items) + 1, Len(new.items))
<1>1. /\ g.items \in Seq(Members(p)) /\ old.items \in Seq(Members(p)) /\ new.items \in Seq(Members(p))
      /\ Len(old.items) \in Nat /\ Len(g.items) \in Nat
  BY LenProperties DEF Groups
<1>2. CASE new.items = old.items
  <2>1. more = <<>>
    BY <1>1, <1>2, SubSeqEmpty
  <2>2. g.items \o more = g.items
    BY <1>1, <2>1, ConcatEmptySeq
  <2>. QED  BY <1>2, <2>2 DEF GroupWritten, Groups, WritesAs
<1>3. ASSUME NEW m \in Members(p), new.items = Append(old.items, m)
      PROVE  g.items \o more = Append(g.items, m)
  <2>1. /\ Len(new.items) = Len(old.items) + 1
        /\ new.items[Len(old.items) + 1] = m
    BY <1>1, <1>3, AppendProperties
  <2>2. Len(new.items) \in 1..Len(new.items)
    BY <1>1, <2>1
  <2>3. /\ more = SubSeq(new.items, Len(new.items), Len(new.items) - 1) \o <<new.items[Len(new.items)]>>
    BY <1>1, <2>1, <2>2, SubSeqRecursiveSecond
  <2>4. SubSeq(new.items, Len(new.items), Len(new.items) - 1) = <<>>
    BY <1>1, <2>1, SubSeqEmpty
  <2>5. <<m>> \in Seq(Members(p))
    OBVIOUS
  <2>6. more = <<m>>
    BY <2>1, <2>3, <2>4, <2>5, ConcatEmptySeq
  <2>. QED  BY <1>1, <2>6, AppendIsConcat
<1>4. \/ new.items = old.items
      \/ \E m \in Members(p) : new.items = Append(old.items, m)
  BY DEF Wanted
<1>5. CASE \E m \in Members(p) : new.items = Append(old.items, m)
  <2>1. PICK m \in Members(p) : new.items = Append(old.items, m)
    BY <1>5
  <2>2. g.items \o more = Append(g.items, m) /\ Append(g.items, m) \in Seq(Members(p))
    BY <1>1, <1>3, <2>1, AppendProperties
  <2>. QED  BY <2>1, <2>2 DEF GroupWritten, Groups, WritesAs
<1>. QED  BY <1>2, <1>4, <1>5

-----------------------------------------------------------------------------
(* Every variable keeps its shape *)

\* A runner that has something else in mind.
LEMMA RunnerTypes ==
  ASSUME TypeInv, NEW e \in Runners, NEW r \in RunnerRecord, runner' = [runner EXCEPT ![e] = r]
  PROVE  /\ runner' \in [Runners -> RunnerRecord]
         /\ runner'[e] = r
         /\ \A o \in Runners \ {e} : runner'[o] = runner[o]
BY DEF TypeInv

\* A job that is written.
LEMMA JobTypes ==
  ASSUME TypeInv, NEW j \in Jobs, NEW row \in Rows, job' = [job EXCEPT ![j] = row]
  PROVE  /\ job' \in [Jobs -> Rows]
         /\ job'[j] = row
         /\ \A k \in Jobs \ {j} : job'[k] = job[k]
BY DEF TypeInv

LEMMA FoundTypes ==
  ASSUME NEW j
  PROVE  Found(j) \in 0..Cardinality(Prints)
<1>1. {p \in Prints : group[j][p].duplicates >= 1} \in SUBSET Prints
  OBVIOUS
<1>. QED  BY <1>1, SomePrints DEF Found

\* The runner that acts, as a value.
LEMMA RunnerShape ==
  ASSUME TypeInv, NEW e \in Runners
  PROVE  /\ runner[e] \in RunnerRecord
         /\ runner[e].known \in Rows /\ runner[e].mine \in Rows /\ runner[e].rows \in Seq(Files)
         /\ runner[e].item \in SUBSET Changes
         /\ runner[e].rows # <<>> =>
              Head(runner[e].rows) \in Files /\ Tail(runner[e].rows) \in Seq(Files)
<1>1. /\ runner[e] \in RunnerRecord
      /\ runner[e].known \in Rows /\ runner[e].mine \in Rows /\ runner[e].rows \in Seq(Files)
      /\ runner[e].item \in SUBSET Changes
  BY DEF TypeInv, RunnerRecord
<1>. QED  BY <1>1, HeadTailProperties

\* What Return leaves of a runner.
Returned(e, mine) ==
  IF e = Worker THEN [Rest EXCEPT !.at = "report", !.job = runner[e].job, !.mine.status = mine.status] ELSE Rest

LEMMA ReturnTypes ==
  ASSUME TypeInv, NEW e \in Runners, NEW mine \in Rows
  PROVE  Returned(e, mine) \in RunnerRecord
<1>1. /\ Rest \in RunnerRecord /\ runner[e].job \in Jobs \cup {0}
      /\ [Rest.mine EXCEPT !.status = mine.status] \in Rows
  BY RestRight DEF TypeInv, RunnerRecord, Rows
<1>. QED  BY <1>1 DEF Returned, RunnerRecord

\* What a step leaves alone keeps its shape.
LEMMA SameTypes ==
  ASSUME TypeInv, UNCHANGED <<live, group, task, missing, raced, spent>>,
         job' \in [Jobs -> Rows], runner' \in [Runners -> RunnerRecord]
  PROVE  TypeInv'
BY DEF TypeInv

LEMMA TypesSkip ==
  ASSUME TypeInv, NEW e \in Runners, SkipInternal(e)
  PROVE  TypeInv'
<1>1. PICK r \in RunnerRecord : r = runner[e]
  BY RunnerShape
<1>2. r.rows # <<>> /\ Head(r.rows) \in Files /\ Tail(r.rows) \in Seq(Files) /\ r.mine \in Rows
  BY <1>1, RunnerShape DEF SkipInternal
<1>3. PICK q : q = [r EXCEPT !.rows = Tail(@), !.mine.processed = @ + 1,
                             !.mine.cursor = Head(r.rows), !.seen = @ \cup {Head(r.rows)}]
  OBVIOUS
<1>4. [r.mine EXCEPT !.processed = @ + 1, !.cursor = Head(r.rows)] \in Rows
  BY <1>2, Further
<1>5. q \in RunnerRecord
  BY <1>2, <1>3, <1>4 DEF RunnerRecord
<1>6. runner' = [runner EXCEPT ![e] = q]
  <2>1. runner \in [Runners -> RunnerRecord]
    BY DEF TypeInv
  <2>. QED  BY <1>1, <1>3, <2>1 DEF SkipInternal, RunnerRecord, Rows
<1>. QED  BY <1>5, <1>6, RunnerTypes, SameTypes DEF SkipInternal, history, TypeInv

LEMMA ChangeTypes ==
  ASSUME TypeInv, GroupsInv, NEW j \in Jobs, NEW f \in Files
  PROVE  /\ ChangeOf(j, f) \in SUBSET Changes
         /\ \A i, k \in ChangeOf(j, f) : i = k
         /\ \A i \in ChangeOf(j, f) :
              /\ i.print = Fingerprint[f] /\ i.print \in Prints
              /\ i.old = group[j][i.print]
              /\ Wanted(i)
<1>1. CASE Fingerprint[f] = NoPrint
  BY <1>1 DEF ChangeOf, Items
<1>2. CASE Fingerprint[f] # NoPrint
  <2>1. PICK p : p = Fingerprint[f]
    OBVIOUS
  <2>2. PICK m : m = [file |-> f, exists |-> f \in Sources]
    OBVIOUS
  <2>3. p \in Prints /\ m \in Members(p) /\ Items(f) = {m}
    BY <1>2, <2>1, <2>2 DEF Prints, Members, Items
  <2>4. PICK g : g = group[j][p]
    OBVIOUS
  <2>5. g \in Groups(p) /\ Shape(g)
    BY <2>3, <2>4 DEF TypeInv, GroupsInv
  <2>6. PICK new : new = GroupAfter(g, m)
    OBVIOUS
  <2>7. PICK i : i = [print |-> p, old |-> g, new |-> new]
    OBVIOUS
  <2>8. ChangeOf(j, f) = {i}
    BY <2>1, <2>3, <2>4, <2>6, <2>7 DEF ChangeOf
  <2>9. /\ new \in Groups(p) /\ new = Summary(new.items)
        /\ \/ new.items = g.items /\ g # NoGroup
           \/ \E x \in Members(p) : /\ \A k \in DOMAIN g.items : g.items[k].file # x.file
                                    /\ new.items = Append(g.items, x)
    BY <2>3, <2>5, <2>6, Joined
  <2>10. i \in Changes
    BY <2>3, <2>5, <2>7, <2>9 DEF Changes
  <2>11. i.print = p /\ i.old = g /\ i.new = new
    BY <2>7
  <2>12. Wanted(i)
    BY <2>5, <2>9, <2>11 DEF Wanted
  <2>. QED  BY <2>1, <2>3, <2>4, <2>8, <2>10, <2>11, <2>12
<1>. QED  BY <1>1, <1>2

\* The runner after its analysis of a record.
LEMMA Analysed ==
  ASSUME TypeInv, GroupsInv, \A e \in Runners : Local(runner[e]), NEW e \in Runners, Analyse(e)
  PROVE  \E r, q \in RunnerRecord :
           /\ r = runner[e] /\ runner' = [runner EXCEPT ![e] = q]
           /\ r.at = "rows" /\ r.rows # <<>> /\ Head(r.rows) \in Files
           /\ q = [r EXCEPT !.at = "analysed", !.rows = Tail(@), !.mine.processed = @ + 1,
                            !.mine.cursor = Head(r.rows), !.seen = @ \cup {Head(r.rows)},
                            !.item = ChangeOf(r.job, Head(r.rows))]
<1>1. PICK r \in RunnerRecord : r = runner[e]
  BY RunnerShape
<1>2. /\ r.at = "rows" /\ r.rows # <<>> /\ Head(r.rows) \in Files /\ Tail(r.rows) \in Seq(Files)
      /\ r.mine \in Rows
  BY <1>1, RunnerShape DEF Analyse
<1>3. PICK q : q = [r EXCEPT !.at = "analysed", !.rows = Tail(@), !.mine.processed = @ + 1,
                            !.mine.cursor = Head(r.rows), !.seen = @ \cup {Head(r.rows)},
                            !.item = ChangeOf(r.job, Head(r.rows))]
  OBVIOUS
<1>4. [r.mine EXCEPT !.processed = @ + 1, !.cursor = Head(r.rows)] \in Rows
  BY <1>2, Further
<1>5. r.job \in Jobs
  BY <1>1, <1>2 DEF Local, Working
<1>6. ChangeOf(r.job, Head(r.rows)) \in SUBSET Changes
  BY <1>2, <1>5, ChangeTypes
<1>7. q \in RunnerRecord
  BY <1>2, <1>3, <1>4, <1>6 DEF RunnerRecord
<1>8. runner' = [runner EXCEPT ![e] = q]
  <2>1. runner \in [Runners -> RunnerRecord]
    BY DEF TypeInv
  <2>. QED  BY <1>1, <1>3, <2>1 DEF Analyse, RunnerRecord, Rows
<1>. QED  BY <1>1, <1>2, <1>3, <1>7, <1>8

LEMMA TypesAnalyse ==
  ASSUME TypeInv, GroupsInv, \A e \in Runners : Local(runner[e]), NEW e \in Runners, Analyse(e)
  PROVE  TypeInv'
<1>1. PICK r, q \in RunnerRecord :
        /\ r = runner[e] /\ runner' = [runner EXCEPT ![e] = q]
        /\ r.at = "rows" /\ r.rows # <<>> /\ Head(r.rows) \in Files
  BY Analysed
<1>2. r.job \in Jobs
  BY <1>1 DEF Local, Working
<1>3. Fingerprint[Head(r.rows)] \in Prints \cup {NoPrint}
  BY <1>1 DEF Prints
<1>4. raced' \subseteq Jobs \X (Prints \cup {NoPrint})
  <2>1. raced' = raced \cup {<<r.job, Fingerprint[Head(r.rows)]>> :
                               o \in Readers(e, r.job, Fingerprint[Head(r.rows)])}
    BY <1>1 DEF Analyse
  <2>. QED  BY <1>2, <1>3, <2>1 DEF TypeInv
<1>5. runner' \in [Runners -> RunnerRecord]
  BY <1>1 DEF TypeInv
<1>. QED  BY <1>4, <1>5 DEF Analyse, TypeInv

\* A row with another count of groups or another status.
LEMMA Counted ==
  ASSUME NEW mine \in Rows, NEW n \in 0..Cardinality(Prints),
         NEW status \in {"running", "complete", "failed"}
  PROVE  LET new == [mine EXCEPT !.found = n, !.status = status] IN
         /\ new \in Rows
         /\ new.status = status /\ new.total = mine.total /\ new.found = n
         /\ new.processed = mine.processed /\ new.cursor = mine.cursor
BY DEF Rows

\* A commit of a record, in values.
CommitsAs(e, r, q, j, mine, new) ==
  /\ r = runner[e] /\ r.at = "analysed" /\ j = r.job
  /\ mine.found = Found(j) /\ mine.status = r.mine.status /\ mine.total = r.mine.total
  /\ mine.cursor = r.mine.cursor /\ mine.processed = r.mine.processed
  /\ new = Flushed(job[j], r.known, mine)
  /\ q.at = IF LimitReached(mine) THEN "limit" ELSE "rows"
  /\ q.job = j /\ q.known = mine /\ q.mine = mine /\ q.rows = r.rows /\ q.seen = {}
  /\ q.empty = r.empty /\ q.idle = FALSE /\ q.item = {}
  /\ job' = [job EXCEPT ![j] = new]
  /\ runner' = [runner EXCEPT ![e] = q]
  /\ missing' = [missing EXCEPT ![j] = @ \ r.seen]
  /\ ~ Collides(j, r.item)

LEMMA Committed ==
  ASSUME TypeInv, \A e \in Runners : Local(runner[e]), NEW e \in Runners, CommitRecord(e)
  PROVE  \E r, q \in RunnerRecord, j \in Jobs, mine, new \in Rows : CommitsAs(e, r, q, j, mine, new)
<1>1. PICK r \in RunnerRecord : r = runner[e]
  BY RunnerShape
<1>2. r.at = "analysed" /\ r.job \in Jobs /\ r.mine \in Rows /\ r.known \in Rows
  BY <1>1, RunnerShape DEF CommitRecord, Local, Working
<1>3. PICK j \in Jobs : j = r.job
  BY <1>2
<1>4. PICK mine : mine = [r.mine EXCEPT !.found = Found(j)]
  OBVIOUS
<1>5. /\ mine \in Rows
      /\ mine.found = Found(j) /\ mine.status = r.mine.status /\ mine.total = r.mine.total
      /\ mine.cursor = r.mine.cursor /\ mine.processed = r.mine.processed
  BY <1>2, <1>4, FoundTypes DEF Rows
<1>6. PICK new \in Rows : new = Flushed(job[j], r.known, mine)
  BY <1>2, <1>5, FlushedRow DEF TypeInv
<1>7. PICK q : q = [r EXCEPT !.at = IF LimitReached(mine) THEN "limit" ELSE "rows",
                            !.known = mine, !.mine = mine, !.seen = {}, !.item = {}, !.idle = FALSE]
  OBVIOUS
<1>8. q \in RunnerRecord
  BY <1>5, <1>7 DEF RunnerRecord
<1>9. /\ job' = [job EXCEPT ![j] = new]
      /\ runner' = [runner EXCEPT ![e] = q]
      /\ missing' = [missing EXCEPT ![j] = @ \ r.seen]
      /\ ~ Collides(j, r.item)
  BY <1>1, <1>3, <1>4, <1>6, <1>7 DEF CommitRecord
<1>a. PICK at : at = IF LimitReached(mine) THEN "limit" ELSE "rows"
  OBVIOUS
<1>b. q = [r EXCEPT !.at = at, !.known = mine, !.mine = mine, !.seen = {}, !.item = {}, !.idle = FALSE]
  BY <1>7, <1>a
<1>c. q.at = at /\ q.known = mine /\ q.mine = mine /\ q.rows = r.rows /\ q.seen = {}
      /\ q.empty = r.empty /\ q.idle = FALSE /\ q.item = {} /\ q.job = r.job
  BY <1>b DEF RunnerRecord
<1>10. CommitsAs(e, r, q, j, mine, new)
  BY <1>1, <1>2, <1>3, <1>5, <1>6, <1>9, <1>a, <1>c DEF CommitsAs
<1>. QED  BY <1>5, <1>8, <1>10

\* What the commit does to the groups.
LEMMA GroupsCommitted ==
  ASSUME TypeInv, GroupsInv, \A e \in Runners : Local(runner[e]), NEW e \in Runners, CommitRecord(e)
  PROVE  /\ DOMAIN group' = Jobs /\ \A k \in Jobs : DOMAIN group'[k] = Prints
         /\ \A k \in Jobs, p \in Prints :
              \/ /\ group'[k][p] = group[k][p]
                 /\ k = runner[e].job => \A i \in runner[e].item : i.print # p
              \/ /\ k = runner[e].job
                 /\ \E i \in runner[e].item :
                      i.print = p /\ group'[k][p] = GroupWritten(group[k][p], i.old, i.new)
<1>c. PICK r, q \in RunnerRecord, j \in Jobs, mine, new \in Rows : CommitsAs(e, r, q, j, mine, new)
  BY Committed
<1>1. r = runner[e] /\ j = r.job
  BY <1>c DEF CommitsAs
<1>2. PICK S : S = r.item
  OBVIOUS
<1>3. \A i, k \in S : i = k
  BY <1>1, <1>2 DEF GroupsInv, ReadRight
<1>4. PICK G : G = [p \in Prints |-> IF \E i \in S : i.print = p
                              THEN LET i == CHOOSE i \in S : TRUE
                                   IN GroupWritten(group[j][p], i.old, i.new)
                              ELSE group[j][p]]
  OBVIOUS
<1>5. group' = [group EXCEPT ![j] = G]
  BY <1>1, <1>2, <1>4 DEF CommitRecord
<1>6. \A p \in Prints : \/ G[p] = group[j][p] /\ \A i \in S : i.print # p
                        \/ \E i \in S : i.print = p /\ G[p] = GroupWritten(group[j][p], i.old, i.new)
  <2>1. TAKE p \in Prints
  <2>2. CASE \E i \in S : i.print = p
    <3>1. PICK i \in S : i.print = p
      BY <2>2
    <3>2. (CHOOSE k \in S : TRUE) = i
      BY <1>3, <3>1
    <3>. QED  BY <1>4, <2>2, <3>1, <3>2
  <2>. QED  BY <1>4, <2>2
<1>. QED  BY <1>1, <1>2, <1>4, <1>5, <1>6 DEF TypeInv

LEMMA TypesCommit ==
  ASSUME TypeInv, GroupsInv, \A e \in Runners : Local(runner[e]), NEW e \in Runners, CommitRecord(e)
  PROVE  TypeInv'
<1>1. PICK r, q \in RunnerRecord, j \in Jobs, mine, new \in Rows : CommitsAs(e, r, q, j, mine, new)
  BY Committed
<1>2. job' \in [Jobs -> Rows] /\ runner' \in [Runners -> RunnerRecord] /\ missing' \in [Jobs -> SUBSET live]
  BY <1>1 DEF TypeInv, CommitsAs
<1>3. ASSUME NEW k \in Jobs, NEW p \in Prints
      PROVE  group'[k][p] \in Groups(p)
  <2>1. group[k][p] \in Groups(p)
    BY DEF TypeInv
  <2>2. CASE group'[k][p] = group[k][p]
    BY <2>1, <2>2
  <2>3. CASE k = runner[e].job /\ \E i \in runner[e].item :
               i.print = p /\ group'[k][p] = GroupWritten(group[k][p], i.old, i.new)
    <3>1. PICK i \in runner[e].item : i.print = p /\ group'[k][p] = GroupWritten(group[k][p], i.old, i.new)
      BY <2>3
    <3>2. i.old \in Groups(p) /\ i.new \in Groups(p) /\ Wanted(i)
      BY <3>1, RunnerShape, ChangeRight DEF GroupsInv, ReadRight
    <3>. QED  BY <2>1, <3>1, <3>2, Written DEF WritesAs
  <2>. QED  BY <2>2, <2>3, GroupsCommitted
<1>. QED  BY <1>2, <1>3, GroupsCommitted DEF CommitRecord, TypeInv

\* The end of a chunk, of a job at its limit and of a job that failed, in values: the status
\* and the columns that are written back.
EndsAs(e, r, q, j, mine, new) ==
  /\ r = runner[e] /\ j = r.job
  /\ new = Flushed(job[j], r.known, mine)
  /\ mine.total = r.mine.total /\ mine.processed = r.mine.processed
  /\ job' = [job EXCEPT ![j] = new]
  /\ q = Returned(e, mine) /\ runner' = [runner EXCEPT ![e] = q]
  /\ \/ /\ StopAtLimit(e)
        /\ mine.cursor = r.mine.cursor /\ mine.found = Found(j) /\ mine.status = "complete"
        /\ UNCHANGED missing
     \/ /\ EndChunk(e)
        /\ mine.cursor = r.mine.cursor /\ mine.found = Found(j)
        /\ mine.status = IF AllDone(r) THEN "complete" ELSE "running"
        /\ missing' = [missing EXCEPT ![j] = @ \ r.seen]
     \/ /\ AnalysisFails(e)
        /\ mine.cursor = r.known.cursor /\ mine.found = r.mine.found /\ mine.status = "failed"
        /\ UNCHANGED missing

LEMMA Ended ==
  ASSUME TypeInv, \A o \in Runners : Local(runner[o]), NEW e \in Runners,
         StopAtLimit(e) \/ EndChunk(e) \/ AnalysisFails(e)
  PROVE  \E r, q \in RunnerRecord, j \in Jobs, mine, new \in Rows : EndsAs(e, r, q, j, mine, new)
<1>1. PICK r \in RunnerRecord : r = runner[e]
  BY RunnerShape
<1>2. r.mine \in Rows /\ r.known \in Rows
  BY <1>1, RunnerShape
<1>3. r.job \in Jobs
  BY <1>1 DEF StopAtLimit, EndChunk, AnalysisFails, Local, Working
<1>4. PICK j \in Jobs : j = r.job
  BY <1>3
<1>5. job[j] \in Rows
  BY DEF TypeInv
<1>6. CASE StopAtLimit(e)
  <2>1. PICK mine : mine = [r.mine EXCEPT !.status = "complete", !.found = Found(j)]
    OBVIOUS
  <2>2. /\ mine \in Rows /\ mine.total = r.mine.total /\ mine.processed = r.mine.processed
        /\ mine.cursor = r.mine.cursor /\ mine.found = Found(j) /\ mine.status = "complete"
    BY <1>2, <2>1, FoundTypes DEF Rows
  <2>3. PICK new \in Rows : new = Flushed(job[j], r.known, mine)
    BY <1>2, <1>5, <2>2, FlushedRow
  <2>4. PICK q \in RunnerRecord : q = Returned(e, mine)
    BY <2>2, ReturnTypes
  <2>5. job' = [job EXCEPT ![j] = new] /\ runner' = [runner EXCEPT ![e] = q] /\ UNCHANGED missing
    BY <1>1, <1>4, <1>6, <2>1, <2>3, <2>4 DEF StopAtLimit, Return, Returned, history
  <2>10. EndsAs(e, r, q, j, mine, new)
    BY <1>1, <1>4, <1>6, <2>2, <2>3, <2>4, <2>5 DEF EndsAs
  <2>. QED  BY <2>2, <2>10
<1>7. CASE EndChunk(e)
  <2>1. PICK status \in {"complete", "running"} : status = IF AllDone(r) THEN "complete" ELSE "running"
    OBVIOUS
  <2>2. PICK mine : mine = [r.mine EXCEPT !.found = Found(j), !.status = status]
    OBVIOUS
  <2>3. /\ mine \in Rows /\ mine.total = r.mine.total /\ mine.processed = r.mine.processed
        /\ mine.cursor = r.mine.cursor /\ mine.found = Found(j) /\ mine.status = status
    BY <1>2, <2>1, <2>2, FoundTypes DEF Rows
  <2>4. PICK new \in Rows : new = Flushed(job[j], r.known, mine)
    BY <1>2, <1>5, <2>3, FlushedRow
  <2>5. PICK q \in RunnerRecord : q = Returned(e, mine)
    BY <2>3, ReturnTypes
  <2>6. /\ job' = [job EXCEPT ![j] = new] /\ runner' = [runner EXCEPT ![e] = q]
        /\ missing' = [missing EXCEPT ![j] = @ \ r.seen]
    BY <1>1, <1>4, <1>7, <2>1, <2>2, <2>4, <2>5 DEF EndChunk, Return, Returned
  <2>10. EndsAs(e, r, q, j, mine, new)
    BY <1>1, <1>4, <1>7, <2>1, <2>3, <2>4, <2>5, <2>6 DEF EndsAs
  <2>. QED  BY <2>3, <2>10
<1>8. CASE AnalysisFails(e)
  <2>1. PICK mine : mine = [r.mine EXCEPT !.status = "failed", !.cursor = r.known.cursor]
    OBVIOUS
  <2>2. /\ mine \in Rows /\ mine.total = r.mine.total /\ mine.processed = r.mine.processed
        /\ mine.cursor = r.known.cursor /\ mine.found = r.mine.found /\ mine.status = "failed"
    BY <1>2, <2>1 DEF Rows
  <2>3. PICK new \in Rows : new = Flushed(job[j], r.known, mine)
    BY <1>2, <1>5, <2>2, FlushedRow
  <2>4. PICK q \in RunnerRecord : q = Returned(e, mine)
    BY <2>2, ReturnTypes
  <2>5. job' = [job EXCEPT ![j] = new] /\ runner' = [runner EXCEPT ![e] = q] /\ UNCHANGED missing
    BY <1>1, <1>4, <1>8, <2>1, <2>3, <2>4 DEF AnalysisFails, Return, Returned, history
  <2>10. EndsAs(e, r, q, j, mine, new)
    BY <1>1, <1>4, <1>8, <2>2, <2>3, <2>4, <2>5 DEF EndsAs
  <2>. QED  BY <2>2, <2>10
<1>. QED  BY <1>6, <1>7, <1>8

LEMMA TypesEnded ==
  ASSUME TypeInv, \A o \in Runners : Local(runner[o]), NEW e \in Runners,
         StopAtLimit(e) \/ EndChunk(e) \/ AnalysisFails(e)
  PROVE  TypeInv'
<1>1. PICK r, q \in RunnerRecord, j \in Jobs, mine, new \in Rows : EndsAs(e, r, q, j, mine, new)
  BY Ended
<1>2. job' \in [Jobs -> Rows] /\ runner' \in [Runners -> RunnerRecord]
  BY <1>1, JobTypes, RunnerTypes DEF EndsAs
<1>3. missing' \in [Jobs -> SUBSET live]
  BY <1>1 DEF EndsAs, TypeInv
<1>4. spent' \in [faults : Nat, crashes : Nat, removed : Nat, revived : Nat]
  BY DEF TypeInv, StopAtLimit, EndChunk, AnalysisFails
<1>5. UNCHANGED <<live, group, task, raced>>
  BY DEF StopAtLimit, EndChunk, AnalysisFails, history
<1>. QED  BY <1>2, <1>3, <1>4, <1>5 DEF TypeInv

\* A chunk lies behind the cursor, in order, and leaves out nothing that it passes.
LEMMA ChunkRight ==
  ASSUME NEW candidates \in SUBSET Files, NEW rows \in Chunks(candidates)
  PROVE  /\ rows \in Seq(Files)
         /\ \A i \in DOMAIN rows : rows[i] \in candidates
         /\ \A i, k \in DOMAIN rows : i < k => rows[i] < rows[k]
         /\ \A f \in candidates : \A i \in DOMAIN rows :
              f < rows[i] => \E k \in DOMAIN rows : rows[k] = f
         /\ rows = <<>> => candidates = {}
<1>1. PICK n \in 0..Chunk : rows \in [1..n -> candidates]
  BY DEF Chunks
<1>2. IsChunk(rows, candidates)
  BY DEF Chunks
<1>3. n \in Nat /\ Chunk \in Nat \ {0}
  BY <1>1, DedupeJobsAssumption
<1>4. rows \in Seq(candidates) /\ rows \in Seq(Files) /\ DOMAIN rows = 1..n
  <2>1. rows \in Seq(candidates)
    BY <1>1, <1>3, SeqDef
  <2>. QED  BY <1>1, <2>1, SeqMonotonic
<1>5. \A f \in candidates : f \in Nat
  BY FileIds
<1>6. ASSUME NEW f \in candidates, NEW i \in DOMAIN rows, f < rows[i],
             \A k \in DOMAIN rows : rows[k] # f
      PROVE  FALSE
  <2>1. rows[i] < f /\ rows[i] \in Nat /\ f \in Nat
    BY <1>1, <1>2, <1>4, <1>5, <1>6 DEF IsChunk
  <2>. QED  BY <1>6, <2>1
<1>7. ASSUME rows = <<>>, NEW f \in candidates
      PROVE  FALSE
  <2>1. Len(rows) = 0 /\ DOMAIN rows = {}
    BY <1>4, <1>7, EmptySeq, LenProperties
  <2>2. Len(rows) = Chunk
    BY <1>2, <2>1 DEF IsChunk
  <2>. QED  BY <1>3, <2>1, <2>2
<1>. QED  BY <1>1, <1>2, <1>4, <1>6, <1>7 DEF IsChunk

\* A runner that has loaded a job and its next chunk.
LoadsAs(e, q, j) ==
  /\ job[j].status \in {"queued", "running"}
  /\ runner' = [runner EXCEPT ![e] = q]
  /\ q.at = "rows" /\ q.job = j /\ q.known = job[j] /\ q.rows \in Chunks(Candidates(j))
  /\ q.mine \in Rows /\ q.mine.status = "running" /\ q.mine.total = job[j].total
  /\ q.mine.cursor = job[j].cursor /\ q.mine.processed = job[j].processed
  /\ q.mine.found = job[j].found
  /\ q.seen = {} /\ q.item = {} /\ q.idle = TRUE /\ q.empty = (q.rows = <<>>)

LEMMA Loaded ==
  ASSUME TypeInv, NEW e \in Runners, NEW j \in Jobs, Continue(e, j)
  PROVE  \E q \in RunnerRecord : LoadsAs(e, q, j)
<1>1. PICK row \in Rows : row = job[j] /\ row.status \in {"queued", "running"}
  BY DEF TypeInv, Continue
<1>2. PICK rows \in Chunks(Candidates(j)) :
        runner' = [runner EXCEPT ![e] =
          [Rest EXCEPT !.at = "rows", !.job = j, !.known = job[j], !.rows = rows,
                       !.mine = [job[j] EXCEPT !.status = "running"], !.empty = rows = <<>>]]
  BY DEF Continue
<1>3. PICK mine : mine = [row EXCEPT !.status = "running"]
  OBVIOUS
<1>4. /\ mine \in Rows /\ mine.status = "running" /\ mine.total = row.total
      /\ mine.cursor = row.cursor /\ mine.processed = row.processed /\ mine.found = row.found
  BY <1>3 DEF Rows
<1>5. PICK empty \in BOOLEAN : empty = (rows = <<>>)
  OBVIOUS
<1>6. PICK q : q = [Rest EXCEPT !.at = "rows", !.job = j, !.known = row, !.rows = rows,
                                !.mine = mine, !.empty = empty]
  OBVIOUS
<1>7. Candidates(j) \in SUBSET Files
  BY DEF Candidates, CandidateRows, TypeInv
<1>8. rows \in Seq(Files)
  BY <1>7, ChunkRight
<1>9. q \in RunnerRecord
  BY <1>4, <1>6, <1>8, RestRight DEF RunnerRecord
<1>10. runner' = [runner EXCEPT ![e] = q]
  BY <1>1, <1>2, <1>3, <1>5, <1>6
<1>11. /\ q.at = "rows" /\ q.job = j /\ q.known = row /\ q.rows = rows /\ q.mine = mine
       /\ q.empty = empty /\ q.seen = {} /\ q.item = {} /\ q.idle = TRUE
  BY <1>6, RestRight DEF Rest, RunnerRecord
<1>12. LoadsAs(e, q, j)
  BY <1>1, <1>4, <1>5, <1>10, <1>11 DEF LoadsAs
<1>. QED  BY <1>9, <1>12

LEMMA TypesContinue ==
  ASSUME TypeInv, NEW e \in Runners, NEW j \in Jobs, Continue(e, j)
  PROVE  TypeInv'
<1>1. PICK q \in RunnerRecord : LoadsAs(e, q, j)
  BY Loaded
<1>2. runner' \in [Runners -> RunnerRecord]
  BY <1>1, RunnerTypes DEF LoadsAs
<1>. QED  BY <1>2, SameTypes DEF Continue, TypeInv

\* Steps that leave a runner at rest, before its job or with its answer.
LetsGo(e, q) ==
  /\ runner' = [runner EXCEPT ![e] = q]
  /\ ~ Working(q) /\ Local(q)

LEMMA Started ==
  ASSUME TypeInv, BeginSlice
  PROVE  \E q \in RunnerRecord : LetsGo(Worker, q) /\ q.at = "begun"
<1>1. PICK j \in Jobs : runner' = [runner EXCEPT ![Worker] = [Rest EXCEPT !.at = "begun", !.job = j]]
  BY DEF BeginSlice, NeedsJob, TypeInv
<1>2. PICK q : q = [Rest EXCEPT !.at = "begun", !.job = j]
  OBVIOUS
<1>3. q \in RunnerRecord /\ q.at = "begun" /\ q.job = j /\ q.item = {}
  BY <1>2, RestRight DEF Rest, RunnerRecord
<1>4. LetsGo(Worker, q)
  BY <1>1, <1>2, <1>3 DEF LetsGo, Working, Local
<1>. QED  BY <1>3, <1>4

LEMMA Dropped ==
  ASSUME TypeInv, \A o \in Runners : Local(runner[o]), NEW e \in Runners,
         InsertCollides(e) \/ Crash(e) \/ (e = Worker /\ (AnswerEnded \/ Report))
  PROVE  \E q \in RunnerRecord : LetsGo(e, q)
<1>1. Rest \in RunnerRecord /\ ~ Working(Rest) /\ Local(Rest)
  BY RestRight DEF Rest, Working, Local
<1>2. CASE InsertCollides(e) \/ Crash(e) \/ (e = Worker /\ Report)
  BY <1>1, <1>2 DEF InsertCollides, Crash, Report, LetsGo
<1>3. CASE e = Worker /\ AnswerEnded
  <2>1. runner[Worker].job \in Jobs
    BY <1>3 DEF AnswerEnded, Local, Working
  <2>2. PICK mine \in Rows : mine = job[runner[Worker].job]
    BY <2>1 DEF TypeInv
  <2>3. PICK q \in RunnerRecord : q = Returned(e, mine)
    BY ReturnTypes
  <2>4. q.at = "report" /\ q.item = {} /\ q.job = runner[Worker].job
    BY <1>3, <2>3, RestRight DEF Returned, Rest, RunnerRecord
  <2>5. runner' = [runner EXCEPT ![e] = q]
    BY <1>3, <2>2, <2>3 DEF AnswerEnded, Return, Returned
  <2>6. LetsGo(e, q)
    BY <2>1, <2>4, <2>5 DEF LetsGo, Working, Local
  <2>. QED  BY <2>6
<1>. QED  BY <1>2, <1>3

LEMMA TypesBegin ==
  ASSUME TypeInv, BeginSlice
  PROVE  TypeInv'
<1>1. PICK q \in RunnerRecord : LetsGo(Worker, q)
  BY Started
<1>2. runner' \in [Runners -> RunnerRecord]
  BY <1>1, RunnerTypes DEF LetsGo, Runners
<1>3. task' \in [status : {"queued", "running", "completed", "failed"}, job : Jobs \cup {0}]
  BY DEF BeginSlice, TypeInv
<1>4. Cardinality(live) \in 0..Cardinality(Files)
  <2>1. live \in SUBSET Files
    BY DEF TypeInv
  <2>2. Cardinality(live) <= Cardinality(Files)
    BY <2>1, SomeFiles, FS_Subset
  <2>. QED  BY <2>1, <2>2, SomeFiles
<1>5. PICK row : row = [NoJob EXCEPT !.status = "queued", !.total = Cardinality(CandidateRows)]
  OBVIOUS
<1>6. row \in Rows
  BY <1>4, <1>5, RestRight DEF Rows, NoJob, CandidateRows
<1>7. job' \in [Jobs -> Rows] /\ missing' \in [Jobs -> SUBSET live]
  <2>1. \/ UNCHANGED <<job, missing>>
        \/ \E j \in Jobs : StartJob(j)
    BY DEF BeginSlice
  <2>2. ASSUME NEW j \in Jobs, StartJob(j)
        PROVE  job' = [job EXCEPT ![j] = row] /\ missing' = [missing EXCEPT ![j] = live]
    BY <1>5, <2>2 DEF StartJob, CandidateRows
  <2>. QED  BY <1>6, <2>1, <2>2 DEF TypeInv
<1>. QED  BY <1>2, <1>3, <1>7 DEF BeginSlice, TypeInv

LEMMA TypesDropped ==
  ASSUME TypeInv, \A o \in Runners : Local(runner[o]), NEW e \in Runners,
         InsertCollides(e) \/ Crash(e) \/ (e = Worker /\ (AnswerEnded \/ Report))
  PROVE  TypeInv'
<1>1. PICK q \in RunnerRecord : LetsGo(e, q)
  BY Dropped
<1>2. runner' \in [Runners -> RunnerRecord]
  BY <1>1, RunnerTypes DEF LetsGo
<1>3. task' \in [status : {"queued", "running", "completed", "failed"}, job : Jobs \cup {0}]
  <2>1. runner[e].job \in Jobs \cup {0}
    BY DEF TypeInv, RunnerRecord
  <2>. QED  BY <2>1 DEF InsertCollides, Crash, AnswerEnded, Report, TypeInv
<1>4. spent' \in [faults : Nat, crashes : Nat, removed : Nat, revived : Nat]
  BY DEF InsertCollides, Crash, AnswerEnded, Report, TypeInv
<1>5. UNCHANGED <<live, job, group, missing, raced>>
  BY DEF InsertCollides, Crash, AnswerEnded, Report, history
<1>. QED  BY <1>2, <1>3, <1>4, <1>5 DEF TypeInv

LEMMA TypesRow ==
  ASSUME TypeInv, NEW f \in Files, RowRemoved(f) \/ RowRevived(f)
  PROVE  TypeInv'
<1>1. CASE RowRemoved(f)
  BY <1>1 DEF TypeInv, RowRemoved
<1>2. CASE RowRevived(f)
  BY <1>2 DEF TypeInv, RowRevived, history
<1>. QED  BY <1>1, <1>2

-----------------------------------------------------------------------------
(* Groups *)

LEMMA GroupFacts ==
  ASSUME NEW p, NEW g \in Groups(p)
  PROVE  /\ g.items \in Seq(Members(p)) /\ Len(g.items) \in Nat /\ DOMAIN g.items = 1..Len(g.items)
         /\ g.duplicates \in Int
         /\ Len(g.items) >= 1 <=> g.items # <<>>
         /\ Shape(g) => (g # NoGroup <=> Len(g.items) >= 1)
         /\ g = NoGroup => g.items = <<>> /\ Len(g.items) = 0 /\ g.duplicates = -1
<1>1. g.items \in Seq(Members(p)) /\ g.duplicates \in Int
  BY DEF Groups
<1>2. Len(g.items) \in Nat /\ DOMAIN g.items = 1..Len(g.items)
  BY <1>1, LenProperties
<1>3. Len(g.items) >= 1 <=> g.items # <<>>
  BY <1>1, <1>2, EmptySeq
<1>4. g = NoGroup => g.items = <<>> /\ Len(g.items) = 0 /\ g.duplicates = -1
  BY <1>1, <1>2, <1>3 DEF NoGroup
<1>. QED  BY <1>1, <1>2, <1>3, <1>4 DEF Shape

\* A commit leaves the group that it found, or one that is larger.
LEMMA GroupGrows ==
  ASSUME NEW p, NEW g \in Groups(p), NEW i, i.print = p, i.old \in Groups(p), i.new \in Groups(p),
         Shape(g), Wanted(i), Len(i.old.items) <= Len(g.items), ~ (i.old = NoGroup /\ g # NoGroup)
  PROVE  LET after == GroupWritten(g, i.old, i.new) IN
         /\ Shape(after)
         /\ Len(after.items) >= Len(g.items)
         /\ g.duplicates >= 1 => after.duplicates >= 1
<1>1. PICK old \in Groups(p), new \in Groups(p) : old = i.old /\ new = i.new
  OBVIOUS
<1>2. PICK after : after = GroupWritten(g, old, new)
  OBVIOUS
<1>w. WritesAs(p, g, old, new, after)
  BY <1>1, <1>2, Written
<1>3. /\ \/ new.items = old.items /\ after.items = g.items
         \/ \E m \in Members(p) : new.items = Append(old.items, m) /\ after.items = Append(g.items, m)
      /\ after.duplicates = IF new.duplicates # old.duplicates THEN new.duplicates ELSE g.duplicates
  BY <1>w DEF WritesAs
<1>d. after.duplicates = IF new.duplicates # old.duplicates THEN new.duplicates ELSE g.duplicates
  BY <1>3
<1>4. new.duplicates = Len(new.items) - 1 /\ Shape(old)
  BY <1>1 DEF Wanted, Summary
<1>5. \/ new.items = old.items /\ old # NoGroup /\ after.items = g.items
      \/ Len(new.items) = Len(old.items) + 1 /\ Len(after.items) = Len(g.items) + 1
  <2>1. \/ new.items = old.items /\ old # NoGroup
        \/ \E m \in Members(p) : new.items = Append(old.items, m)
    BY <1>1 DEF Wanted
  <2>2. \A m \in Members(p) : /\ Len(Append(old.items, m)) = Len(old.items) + 1
                              /\ Len(Append(g.items, m)) = Len(g.items) + 1
    BY GroupFacts, AppendProperties
  <2>3. Len(old.items) \in Nat
    BY GroupFacts
  <2>. QED  BY <1>3, <2>1, <2>2, <2>3
<1>6. /\ Len(g.items) \in Nat /\ Len(old.items) \in Nat /\ Len(new.items) \in Nat /\ Len(after.items) \in Nat
      /\ g.duplicates \in Int /\ old.duplicates \in Int /\ new.duplicates \in Int /\ after.duplicates \in Int
  BY <1>w, GroupFacts DEF WritesAs
<1>7. /\ g # NoGroup <=> Len(g.items) >= 1
      /\ old # NoGroup <=> Len(old.items) >= 1
      /\ g = NoGroup => g.duplicates = -1
      /\ old = NoGroup => old.duplicates = -1
  BY <1>4, GroupFacts
<1>8. /\ g # NoGroup => g.duplicates >= 0 /\ (Len(g.items) = 1 => g.duplicates = 0)
      /\ old # NoGroup => old.duplicates >= 0 /\ (Len(old.items) = 1 => old.duplicates = 0)
  BY <1>4 DEF Shape
<1>9. Len(old.items) <= Len(g.items) /\ ~ (old = NoGroup /\ g # NoGroup)
  BY <1>1
<1>10. CASE new.items = old.items /\ old # NoGroup /\ after.items = g.items
  <2>a. Len(new.items) = Len(old.items) /\ Len(after.items) = Len(g.items)
    BY <1>10
  <2>b. Len(old.items) >= 1 /\ Len(g.items) >= 1
    BY <1>6, <1>7, <1>9, <1>10
  <2>c. g # NoGroup /\ old # NoGroup
    BY <1>7, <2>b
  <2>d. /\ g.duplicates >= 0 /\ (Len(g.items) = 1 => g.duplicates = 0)
        /\ old.duplicates >= 0 /\ (Len(old.items) = 1 => old.duplicates = 0)
    BY <1>8, <2>c
  <2>e. new.duplicates = Len(old.items) - 1
    BY <1>4, <2>a
  <2>f. Len(old.items) = 1 => after.duplicates = g.duplicates
    BY <1>d, <2>d, <2>e
  <2>g. after.duplicates = Len(old.items) - 1 \/ after.duplicates = g.duplicates
    BY <1>d, <2>e
  <2>h. PICK a \in Nat, b \in Nat, d \in Int, x \in Int :
          a = Len(old.items) /\ b = Len(g.items) /\ d = after.duplicates /\ x = g.duplicates
    BY <1>6
  <2>i. /\ a >= 1 /\ b >= 1 /\ a <= b /\ x >= 0 /\ (b = 1 => x = 0)
        /\ (a = 1 => d = x) /\ (d = a - 1 \/ d = x)
    BY <1>9, <2>b, <2>d, <2>f, <2>g, <2>h
  <2>j. d >= 0 /\ (b = 1 => d = 0) /\ (x >= 1 => d >= 1)
    BY <2>i
  <2>1. Len(after.items) >= 1 /\ after.duplicates >= 0 /\ (Len(after.items) = 1 => after.duplicates = 0)
    BY <2>a, <2>h, <2>i, <2>j
  <2>2. g.duplicates >= 1 => after.duplicates >= 1
    BY <2>h, <2>j
  <2>. QED  BY <1>1, <1>2, <1>6, <1>10, <2>1, <2>2 DEF Shape
<1>11. CASE Len(new.items) = Len(old.items) + 1 /\ Len(after.items) = Len(g.items) + 1
  <2>1. Len(after.items) >= 1 /\ after.duplicates >= 0 /\ (Len(after.items) = 1 => after.duplicates = 0)
    BY <1>d, <1>4, <1>6, <1>7, <1>8, <1>9, <1>11
  <2>2. g.duplicates >= 1 => after.duplicates >= 1
    BY <1>d, <1>4, <1>6, <1>7, <1>8, <1>9, <1>11
  <2>. QED  BY <1>1, <1>2, <1>6, <1>11, <2>1, <2>2 DEF Shape
<1>. QED  BY <1>5, <1>10, <1>11

\* A group that is as its only reader knows it stays sound.
LEMMA StaysSound ==
  ASSUME NEW p, NEW i, i.print = p, i.old \in Groups(p), i.new \in Groups(p), Wanted(i), Sound(i.old)
  PROVE  Sound(GroupWritten(i.old, i.old, i.new))
<1>1. PICK old \in Groups(p), new \in Groups(p) : old = i.old /\ new = i.new
  OBVIOUS
<1>2. PICK after : after = GroupWritten(old, old, new)
  OBVIOUS
<1>3. /\ new.duplicates = Len(new.items) - 1 /\ new.keep = Keep(new.items)
      /\ Shape(old)
      /\ \/ new.items = old.items /\ old # NoGroup
         \/ \E m \in Members(p) : /\ \A k \in DOMAIN old.items : old.items[k].file # m.file
                                  /\ new.items = Append(old.items, m)
  BY <1>1 DEF Wanted, Summary
<1>w. WritesAs(p, old, old, new, after)
  BY <1>1, <1>2, Written
<1>4. after.items = new.items /\ after.duplicates = new.duplicates /\ after.keep = new.keep
  BY <1>w DEF WritesAs
<1>5. /\ old.items \in Seq(Members(p)) /\ DOMAIN old.items = 1..Len(old.items) /\ Len(old.items) \in Nat
      /\ new.items \in Seq(Members(p)) /\ DOMAIN new.items = 1..Len(new.items) /\ Len(new.items) \in Nat
      /\ old = NoGroup => Len(old.items) = 0
      /\ old # NoGroup => old.items # <<>>
  BY <1>3, GroupFacts
<1>6. old # NoGroup => Distinct(old.items)
  BY <1>1 DEF Sound
<1>7. new.items # <<>> /\ Distinct(new.items)
  <2>1. CASE new.items = old.items /\ old # NoGroup
    BY <1>5, <1>6, <2>1
  <2>2. ASSUME NEW m \in Members(p), \A k \in DOMAIN old.items : old.items[k].file # m.file,
               new.items = Append(old.items, m)
        PROVE  new.items # <<>> /\ Distinct(new.items)
    <3>1. /\ new.items # <<>> /\ Len(new.items) = Len(old.items) + 1
          /\ \A k \in 1..Len(old.items) : new.items[k] = old.items[k]
          /\ new.items[Len(old.items) + 1] = m
      BY <1>5, <2>2, AppendProperties
    <3>2. \A k \in 1..Len(new.items) : k \in 1..Len(old.items) \/ k = Len(old.items) + 1
      BY <1>5, <3>1
    <3>3. \A k, n \in 1..Len(old.items) : old.items[k].file = old.items[n].file => k = n
      BY <1>5, <1>6 DEF Distinct
    <3>4. \A k \in 1..Len(old.items) : old.items[k].file # m.file
      BY <1>5, <2>2
    <3>5. ASSUME NEW k \in 1..Len(new.items), NEW n \in 1..Len(new.items),
                 new.items[k].file = new.items[n].file
          PROVE  k = n
      BY <3>1, <3>2, <3>3, <3>4, <3>5
    <3>. QED  BY <1>5, <3>1, <3>5 DEF Distinct
  <2>. QED  BY <1>3, <2>1, <2>2
<1>8. \A k, n \in DOMAIN new.items : new.items[k].file = new.keep => ~ Better(new.items[n], new.items[k])
  BY <1>3, <1>5, <1>7, KeepsBest
<1>9. Cardinality(DOMAIN new.items) = Len(new.items)
  <2>1. PICK n \in Nat : n = Len(new.items)
    BY <1>5
  <2>2. Cardinality(1..n) = n
    BY FS_Interval
  <2>. QED  BY <1>5, <2>1, <2>2
<1>10. Sound(after)
  BY <1>3, <1>4, <1>7, <1>8, <1>9 DEF Sound, BestKept
<1>. QED  BY <1>1, <1>2, <1>10

\* Steps that write no group, of runners that keep what they have read or let go of it.
LEMMA GroupsKept ==
  ASSUME GroupsInv, UNCHANGED <<group, raced>>,
         \A o \in Runners : \/ runner'[o].item = {}
                            \/ /\ runner'[o].item = runner[o].item
                               /\ runner'[o].job = runner[o].job /\ runner'[o].at = runner[o].at
  PROVE  GroupsInv'
BY DEF GroupsInv, ReadRight

LEMMA GroupsAnalyse ==
  ASSUME TypeInv, GroupsInv, \A o \in Runners : Local(runner[o]), NEW e \in Runners, Analyse(e)
  PROVE  GroupsInv'
<1>1. PICK r, q \in RunnerRecord :
        /\ r = runner[e] /\ runner' = [runner EXCEPT ![e] = q]
        /\ r.at = "rows" /\ r.rows # <<>> /\ Head(r.rows) \in Files
        /\ q = [r EXCEPT !.at = "analysed", !.rows = Tail(@), !.mine.processed = @ + 1,
                         !.mine.cursor = Head(r.rows), !.seen = @ \cup {Head(r.rows)},
                         !.item = ChangeOf(r.job, Head(r.rows))]
  BY Analysed
<1>2. PICK f \in Files : f = Head(r.rows)
  BY <1>1
<1>3. PICK j \in Jobs : j = r.job
  BY <1>1 DEF Local, Working
<1>4. PICK S : S = ChangeOf(j, f)
  OBVIOUS
<1>5. q.at = "analysed" /\ q.job = j /\ q.item = S
  BY <1>1, <1>2, <1>3, <1>4 DEF RunnerRecord
<1>6. /\ runner'[e] = q
      /\ \A o \in Runners \ {e} : runner'[o] = runner[o]
  BY <1>1, RunnerTypes
<1>7. /\ \A i, k \in S : i = k
      /\ \A i \in S : i.print = Fingerprint[f] /\ i.print \in Prints /\ i.old = group[j][i.print] /\ Wanted(i)
  BY <1>4, ChangeTypes
<1>8. raced' = raced \cup {<<j, Fingerprint[f]>> : o \in Readers(e, j, Fingerprint[f])}
  BY <1>1, <1>2, <1>3 DEF Analyse
<1>9. UNCHANGED group
  BY DEF Analyse
<1>10. \A o \in Runners \ {e}, i \in S :
         runner[o].job = j /\ (\E k \in runner[o].item : k.print = i.print) => <<j, i.print>> \in raced'
  BY <1>7, <1>8 DEF Readers
<1>11. \A k \in Jobs, p \in Prints : Shape(group[k][p]) /\ (<<k, p>> \notin raced' => Sound(group[k][p]))
  BY <1>8 DEF GroupsInv
<1>12. \A i \in S : Len(group[j][i.print].items) \in Nat
  BY <1>7, GroupFacts DEF TypeInv
<1>13. \A i \in S :
         /\ i.old = group[j][i.print] /\ Wanted(i)
         /\ Len(i.old.items) <= Len(group[j][i.print].items)
         /\ <<j, i.print>> \notin raced' =>
              \A o \in Runners \ {e} : runner[o].job = j => \A k \in runner[o].item : k.print # i.print
  BY <1>7, <1>10, <1>12
<1>14. ASSUME NEW o \in Runners \ {e}
       PROVE  ReadRight(o)'
  <2>1. ASSUME NEW i \in runner[o].item, <<runner[o].job, i.print>> \notin raced',
               NEW u \in Runners \ {o}, runner'[u].job = runner[o].job, NEW k \in runner'[u].item
        PROVE  k.print # i.print
    <3>1. CASE u = e
      BY <1>5, <1>6, <1>10, <2>1, <3>1
    <3>2. CASE u # e
      <4>1. <<runner[o].job, i.print>> \notin raced
        BY <1>8, <2>1
      <4>. QED  BY <1>6, <2>1, <3>2, <4>1 DEF GroupsInv, ReadRight
    <3>. QED  BY <3>1, <3>2
  <2>2. \A i \in runner[o].item : <<runner[o].job, i.print>> \notin raced' => <<runner[o].job, i.print>> \notin raced
    BY <1>8
  <2>3. ReadRight(o)
    BY DEF GroupsInv
  <2>4. runner'[o] = runner[o]
    BY <1>6
  <2>. QED  BY <1>9, <2>1, <2>2, <2>3, <2>4 DEF ReadRight
<1>15. ReadRight(e)'
  <2>1. runner'[e] = q /\ q.at = "analysed" /\ q.job = j /\ q.item = S
    BY <1>5, <1>6
  <2>. QED  BY <1>6, <1>7, <1>9, <1>13, <2>1 DEF ReadRight
<1>. QED  BY <1>9, <1>11, <1>14, <1>15 DEF GroupsInv

\* What the commit of a record means for one group.
LEMMA OneGroup ==
  ASSUME TypeInv, GroupsInv, \A o \in Runners : Local(runner[o]), NEW e \in Runners, CommitRecord(e),
         NEW k \in Jobs, NEW p \in Prints
  PROVE  /\ group'[k][p] \in Groups(p)
         /\ Shape(group'[k][p])
         /\ Len(group'[k][p].items) >= Len(group[k][p].items)
         /\ group[k][p].duplicates >= 1 => group'[k][p].duplicates >= 1
         /\ <<k, p>> \notin raced => Sound(group'[k][p])
         /\ \/ group'[k][p] = group[k][p]
            \/ k = runner[e].job /\ \E i \in runner[e].item : i.print = p
<1>1. PICK g \in Groups(p) : g = group[k][p] /\ Shape(g) /\ (<<k, p>> \notin raced => Sound(g))
  BY DEF TypeInv, GroupsInv
<1>2. Len(g.items) \in Nat
  BY GroupFacts
<1>3. CASE group'[k][p] = group[k][p]
  BY <1>1, <1>2, <1>3
<1>4. CASE k = runner[e].job /\ \E i \in runner[e].item :
               i.print = p /\ group'[k][p] = GroupWritten(group[k][p], i.old, i.new)
  <2>1. PICK i \in runner[e].item : i.print = p /\ group'[k][p] = GroupWritten(g, i.old, i.new)
    BY <1>1, <1>4
  <2>2. i.old \in Groups(p) /\ i.new \in Groups(p)
    BY <2>1, RunnerShape, ChangeRight
  <2>3. ReadRight(e)
    BY DEF GroupsInv
  <2>4. /\ Wanted(i) /\ Len(i.old.items) <= Len(g.items)
        /\ <<k, p>> \notin raced => i.old = g
    BY <1>1, <1>4, <2>1, <2>3 DEF ReadRight
  <2>5. ~ (i.old = NoGroup /\ g # NoGroup)
    BY <1>1, <1>4, <2>1 DEF CommitRecord, Collides
  <2>6. group'[k][p] \in Groups(p)
    BY <2>1, <2>2, <2>4, Written DEF WritesAs
  <2>7. /\ Shape(group'[k][p])
        /\ Len(group'[k][p].items) >= Len(g.items)
        /\ g.duplicates >= 1 => group'[k][p].duplicates >= 1
    BY <1>1, <2>1, <2>2, <2>4, <2>5, GroupGrows
  <2>8. <<k, p>> \notin raced => Sound(group'[k][p])
    BY <1>1, <2>1, <2>2, <2>4, StaysSound
  <2>. QED  BY <1>1, <1>4, <2>1, <2>6, <2>7, <2>8
<1>. QED  BY <1>3, <1>4, GroupsCommitted

LEMMA GroupsCommit ==
  ASSUME TypeInv, GroupsInv, \A o \in Runners : Local(runner[o]), NEW e \in Runners, CommitRecord(e)
  PROVE  GroupsInv'
<1>1. PICK r, q \in RunnerRecord, j \in Jobs, mine, new \in Rows : CommitsAs(e, r, q, j, mine, new)
  BY Committed
<1>2. /\ runner'[e] = q /\ q.item = {}
      /\ \A o \in Runners \ {e} : runner'[o] = runner[o]
  <2>1. runner'[e] = q
    <3>1. runner' = [runner EXCEPT ![e] = q]
      BY <1>1 DEF CommitsAs
    <3>. QED  BY <3>1, RunnerTypes
  <2>3. q.item = {}
    BY <1>1 DEF CommitsAs
  <2>2. \A o \in Runners \ {e} : runner'[o] = runner[o]
    BY <1>1, RunnerTypes DEF CommitsAs
  <2>. QED  BY <2>1, <2>2, <2>3
<1>3. UNCHANGED raced
  BY DEF CommitRecord
<1>4. \A k \in Jobs, p \in Prints : Shape(group'[k][p]) /\ (<<k, p>> \notin raced' => Sound(group'[k][p]))
  BY <1>3, OneGroup
<1>g. \A k \in Jobs, p \in Prints :
        \/ group'[k][p] = group[k][p]
        \/ k = runner[e].job /\ \E i \in runner[e].item : i.print = p
  BY OneGroup
<1>5. ASSUME NEW o \in Runners \ {e}
      PROVE  ReadRight(o)'
  <2>1. PICK u \in RunnerRecord : u = runner[o] /\ u = runner'[o]
    BY <1>2, RunnerShape
  <2>2. ReadRight(o) /\ ReadRight(e)
    BY DEF GroupsInv
  <2>3. /\ \A i, k \in u.item : i = k
        /\ \A i \in u.item : /\ u.at = "analysed" /\ u.job \in Jobs /\ Wanted(i) /\ i.print \in Prints
                             /\ Len(i.old.items) <= Len(group[u.job][i.print].items)
                             /\ i.old \in Groups(i.print)
    BY <2>1, <2>2, RunnerShape, ChangeRight DEF ReadRight
  <2>4. ASSUME NEW i \in u.item
        PROVE  Len(i.old.items) <= Len(group'[u.job][i.print].items)
    <3>1. PICK p \in Prints, k \in Jobs : p = i.print /\ k = u.job
      BY <2>3
    <3>2. /\ Len(group'[k][p].items) \in Nat /\ Len(group[k][p].items) \in Nat /\ Len(i.old.items) \in Nat
      BY <2>3, <3>1, OneGroup, GroupFacts DEF TypeInv
    <3>3. Len(group'[k][p].items) >= Len(group[k][p].items)
      BY <3>1, OneGroup
    <3>4. Len(i.old.items) <= Len(group[k][p].items)
      BY <2>3, <3>1
    <3>5. PICK a \in Nat, b \in Nat, c \in Nat :
            a = Len(i.old.items) /\ b = Len(group[k][p].items) /\ c = Len(group'[k][p].items)
      BY <3>2
    <3>6. a <= b /\ c >= b
      BY <3>3, <3>4, <3>5
    <3>7. a <= c
      BY <3>6
    <3>8. c = Len(group'[u.job][i.print].items)
      BY <3>1, <3>5
    <3>. QED  BY <3>5, <3>7, <3>8
  <2>5. ASSUME NEW i \in u.item, <<u.job, i.print>> \notin raced
        PROVE  /\ i.old = group'[u.job][i.print]
               /\ \A v \in Runners \ {o} : runner'[v].job = u.job =>
                    \A k \in runner'[v].item : k.print # i.print
    <3>1. /\ i.old = group[u.job][i.print]
          /\ \A v \in Runners \ {o} : runner[v].job = u.job =>
               \A k \in runner[v].item : k.print # i.print
      BY <2>1, <2>2, <2>5 DEF ReadRight
    <3>2. group'[u.job][i.print] = group[u.job][i.print]
      <4>1. PICK p \in Prints, k \in Jobs : p = i.print /\ k = u.job
        BY <2>3
      <4>2. \A x \in runner[e].item : k = runner[e].job => x.print # p
        BY <3>1, <4>1
      <4>3. group'[k][p] = group[k][p]
        BY <1>g, <4>2
      <4>. QED  BY <4>1, <4>3
    <3>. QED  BY <1>2, <3>1, <3>2
  <2>. QED  BY <1>3, <2>1, <2>3, <2>4, <2>5 DEF ReadRight
<1>6. ReadRight(e)'
  BY <1>2 DEF ReadRight
<1>. QED  BY <1>4, <1>5, <1>6 DEF GroupsInv

\* The number of groups with duplicates never falls.
LEMMA FoundGrows ==
  ASSUME TypeInv, GroupsInv, \A o \in Runners : Local(runner[o]), NEW e \in Runners, CommitRecord(e),
         NEW k \in Jobs
  PROVE  Found(k)' >= Found(k)
<1>. DEFINE some(G) == {p \in Prints : G[p].duplicates >= 1}
<1>1. some(group[k]) \in SUBSET some(group'[k])
  BY OneGroup
<1>2. IsFiniteSet(some(group'[k]))
  BY SomePrints
<1>. QED  BY <1>1, <1>2, FS_Subset, SomePrints DEF Found

-----------------------------------------------------------------------------
(* Jobs: what a step means for the runner that does it *)

LEMMA RowFacts ==
  ASSUME NEW row \in Rows
  PROVE  /\ row.cursor \in Nat /\ row.processed \in Nat /\ row.total \in Nat /\ row.found \in Nat
         /\ row.status \in {"none", "queued", "running", "complete", "failed"}
<1>1. Cardinality(Files) \in Nat /\ Cardinality(Prints) \in Nat
  BY SomeFiles, SomePrints
<1>2. /\ row.cursor \in Files \cup {0} /\ row.processed \in Nat /\ row.total \in 0..Cardinality(Files)
      /\ row.found \in 0..Cardinality(Prints)
      /\ row.status \in {"none", "queued", "running", "complete", "failed"}
  BY DEF Rows
<1>3. row.cursor \in Nat
  <2>1. \A f \in Files \cup {0} : f \in Nat
    BY FileIds
  <2>. QED  BY <1>2, <2>1
<1>. QED  BY <1>1, <1>2, <1>3

\* A runner after one more record.
VisitsAs(r, q, f) ==
  /\ r.at = "rows" /\ r.rows # <<>> /\ f = Head(r.rows)
  /\ q.at \in {"rows", "analysed"} /\ (q.at # "analysed" => q.item = {})
  /\ q.job = r.job /\ q.known = r.known /\ q.rows = Tail(r.rows) /\ q.seen = r.seen \cup {f}
  /\ q.mine = [r.mine EXCEPT !.processed = @ + 1, !.cursor = f]
  /\ q.empty = r.empty /\ q.idle = r.idle

LEMMA VisitMoves ==
  ASSUME NEW r \in RunnerRecord, NEW q \in RunnerRecord, NEW f, VisitsAs(r, q, f), Local(r)
  PROVE  /\ f \in Files /\ f > r.mine.cursor
         /\ q.mine.cursor = f /\ q.mine.processed = r.mine.processed + 1
         /\ q.mine.status = r.mine.status /\ q.mine.total = r.mine.total /\ q.mine.found = r.mine.found
         /\ \A i \in DOMAIN q.rows : i + 1 \in DOMAIN r.rows /\ q.rows[i] = r.rows[i + 1]
         /\ \A i \in DOMAIN r.rows : r.rows[i] = f \/ (i - 1 \in DOMAIN q.rows /\ q.rows[i - 1] = r.rows[i])
         /\ 1 \in DOMAIN r.rows /\ r.rows[1] = f
         /\ \A i \in DOMAIN q.rows : q.rows[i] > f
<1>1. r.rows \in Seq(Files) /\ r.rows # <<>> /\ r.mine \in Rows /\ f = Head(r.rows) /\ q.rows = Tail(r.rows)
  BY DEF RunnerRecord, VisitsAs
<1>2. /\ f \in Files /\ q.rows \in Seq(Files) /\ Len(q.rows) = Len(r.rows) - 1
      /\ \A i \in 1..Len(q.rows) : q.rows[i] = r.rows[i + 1]
  BY <1>1, HeadTailProperties
<1>3. /\ DOMAIN r.rows = 1..Len(r.rows) /\ Len(r.rows) \in Nat /\ Len(r.rows) # 0
      /\ DOMAIN q.rows = 1..Len(q.rows) /\ r.rows[1] = f
  BY <1>1, <1>2, EmptySeq, LenProperties
<1>4. /\ \A i \in DOMAIN r.rows : r.rows[i] > r.mine.cursor
      /\ \A i, k \in DOMAIN r.rows : i < k => r.rows[i] < r.rows[k]
  BY DEF VisitsAs, Local, Working, InOrder
<1>5. \A i \in DOMAIN r.rows : r.rows[i] \in Nat
  BY <1>1, <1>3, ElementOfSeq, FileIds
<1>6. \A i \in DOMAIN q.rows : i + 1 \in DOMAIN r.rows /\ q.rows[i] = r.rows[i + 1] /\ 1 < i + 1
  BY <1>2, <1>3
<1>7. \A i \in DOMAIN r.rows : i = 1 \/ (i - 1 \in DOMAIN q.rows /\ q.rows[i - 1] = r.rows[i])
  <2>1. TAKE i \in DOMAIN r.rows
  <2>2. CASE i # 1
    <3>1. i - 1 \in DOMAIN q.rows
      BY <1>2, <1>3, <2>2
    <3>2. q.rows[i - 1] = r.rows[(i - 1) + 1]
      BY <1>2, <1>3, <3>1
    <3>. QED  BY <1>3, <3>1, <3>2
  <2>. QED  BY <2>2
<1>8. 1 \in DOMAIN r.rows /\ f > r.mine.cursor
  BY <1>3, <1>4
<1>9. \A i \in DOMAIN q.rows : q.rows[i] > f
  <2>1. TAKE i \in DOMAIN q.rows
  <2>2. r.rows[1] < r.rows[i + 1]
    BY <1>4, <1>6, <1>8
  <2>. QED  BY <1>3, <1>6, <2>2
<1>10. /\ q.mine.cursor = f /\ q.mine.processed = r.mine.processed + 1
       /\ q.mine.status = r.mine.status /\ q.mine.total = r.mine.total /\ q.mine.found = r.mine.found
  <2>1. q.mine = [r.mine EXCEPT !.processed = @ + 1, !.cursor = f]
    BY DEF VisitsAs
  <2>2. PICK mine \in Rows : mine = r.mine
    BY <1>1
  <2>3. PICK new : new = [mine EXCEPT !.processed = @ + 1, !.cursor = f]
    OBVIOUS
  <2>4. /\ new.status = mine.status /\ new.total = mine.total /\ new.found = mine.found
        /\ new.processed = mine.processed + 1 /\ new.cursor = f
    BY <1>2, <2>3, Further
  <2>. QED  BY <2>1, <2>2, <2>3, <2>4
<1>. QED  BY <1>2, <1>3, <1>6, <1>7, <1>8, <1>9, <1>10

LEMMA VisitRight ==
  ASSUME NEW r \in RunnerRecord, NEW q \in RunnerRecord, NEW f, VisitsAs(r, q, f), Local(r)
  PROVE  /\ Local(q)
         /\ \A row, lost : lost \subseteq Files /\ Covers(r, row, lost) => Covers(q, row, lost)
         /\ \A ever \in SUBSET Files : RunnerCounts(r, ever) => RunnerCounts(q, ever)
<1>1. /\ f \in Files /\ f \in Nat /\ f > r.mine.cursor
      /\ q.mine.cursor = f /\ q.mine.processed = r.mine.processed + 1
      /\ q.mine.status = r.mine.status /\ q.mine.total = r.mine.total /\ q.mine.found = r.mine.found
      /\ \A i \in DOMAIN q.rows : i + 1 \in DOMAIN r.rows /\ q.rows[i] = r.rows[i + 1]
      /\ \A i \in DOMAIN r.rows : r.rows[i] = f \/ (i - 1 \in DOMAIN q.rows /\ q.rows[i - 1] = r.rows[i])
      /\ 1 \in DOMAIN r.rows /\ r.rows[1] = f
      /\ \A i \in DOMAIN q.rows : q.rows[i] > f
  <2>1. /\ f \in Files /\ f > r.mine.cursor
        /\ q.mine.cursor = f /\ q.mine.processed = r.mine.processed + 1
        /\ q.mine.status = r.mine.status /\ q.mine.total = r.mine.total /\ q.mine.found = r.mine.found
    BY VisitMoves
  <2>2. /\ \A i \in DOMAIN q.rows : i + 1 \in DOMAIN r.rows /\ q.rows[i] = r.rows[i + 1]
        /\ \A i \in DOMAIN r.rows : r.rows[i] = f \/ (i - 1 \in DOMAIN q.rows /\ q.rows[i - 1] = r.rows[i])
        /\ 1 \in DOMAIN r.rows /\ r.rows[1] = f
        /\ \A i \in DOMAIN q.rows : q.rows[i] > f
    BY VisitMoves
  <2>. QED  BY <2>1, <2>2, FileIds
<1>2. /\ r.at = "rows" /\ q.at \in {"rows", "analysed"} /\ (q.at # "analysed" => q.item = {})
      /\ q.job = r.job /\ q.known = r.known /\ q.seen = r.seen \cup {f}
      /\ q.empty = r.empty /\ q.idle = r.idle
  BY DEF VisitsAs
<1>3. r.mine \in Rows /\ r.known \in Rows
  BY DEF RunnerRecord
<1>4. /\ r.mine.cursor \in Nat /\ r.mine.processed \in Nat /\ r.known.cursor \in Nat /\ r.known.processed \in Nat
  BY <1>3, RowFacts
<1>5. /\ r.job \in Jobs
      /\ r.known.status \in {"queued", "running"} /\ r.mine.status = "running"
      /\ r.mine.total = r.known.total /\ r.mine.found = r.known.found
      /\ \/ r.mine.cursor = r.known.cursor /\ r.mine.processed = r.known.processed
         \/ r.mine.cursor > r.known.cursor /\ r.mine.processed > r.known.processed
      /\ ~ r.idle => r.known.status = "running"
      /\ \A i, k \in DOMAIN r.rows : i < k => r.rows[i] < r.rows[k]
  BY <1>2 DEF Local, Working, InOrder
<1>6. q.mine.cursor > q.known.cursor /\ q.mine.processed > q.known.processed
  BY <1>1, <1>2, <1>4, <1>5
<1>7. InOrder(q)
  <2>1. ASSUME NEW i \in DOMAIN q.rows, NEW k \in DOMAIN q.rows, i < k
        PROVE  q.rows[i] < q.rows[k]
    <3>1. i \in Int /\ k \in Int
      BY LenProperties DEF RunnerRecord
    <3>2. i + 1 < k + 1
      BY <2>1, <3>1
    <3>. QED  BY <1>1, <1>5, <3>2
  <2>. QED  BY <1>1, <2>1 DEF InOrder
<1>8. Local(q)
  BY <1>1, <1>2, <1>5, <1>6, <1>7 DEF Local, Working
<1>9. ASSUME NEW row, NEW lost \in SUBSET Files, Covers(r, row, lost)
      PROVE  Covers(q, row, lost)
  <2>1. /\ row.status # "none" /\ row.total = r.mine.total /\ r.known.found <= row.found
        /\ r.empty => lost = {}
        /\ \A g \in lost :
             /\ g > r.known.cursor
             /\ g <= r.mine.cursor => g \in r.seen
             /\ g > r.mine.cursor => \A i \in DOMAIN r.rows :
                  g < r.rows[i] => \E k \in DOMAIN r.rows : r.rows[k] = g
    BY <1>2, <1>9 DEF Covers, Working
  <2>2. ASSUME NEW g \in lost, g <= f
        PROVE  g \in q.seen
    <3>1. g \in Nat
      BY FileIds
    <3>2. CASE g <= r.mine.cursor
      BY <1>2, <2>1, <3>2
    <3>3. CASE g > r.mine.cursor /\ g < f
      <4>1. PICK k \in DOMAIN r.rows : r.rows[k] = g
        BY <1>1, <2>1, <3>3
      <4>2. g = f \/ g > f
        BY <1>1, <4>1
      <4>. QED  BY <1>1, <3>1, <3>3, <4>2
    <3>4. CASE g = f
      BY <1>2, <3>4
    <3>. QED  BY <1>1, <1>4, <2>2, <3>1, <3>2, <3>3, <3>4
  <2>3. ASSUME NEW g \in lost, g > f, NEW i \in DOMAIN q.rows, g < q.rows[i]
        PROVE  \E k \in DOMAIN q.rows : q.rows[k] = g
    <3>1. g \in Nat /\ g > r.mine.cursor
      BY <1>1, <1>4, <2>3, FileIds
    <3>2. PICK k \in DOMAIN r.rows : r.rows[k] = g
      BY <1>1, <2>1, <2>3, <3>1
    <3>3. g # f
      BY <1>1, <2>3, <3>1
    <3>. QED  BY <1>1, <3>2, <3>3
  <2>. QED  BY <1>1, <1>2, <2>1, <2>2, <2>3 DEF Covers
<1>10. ASSUME NEW ever \in SUBSET Files, RunnerCounts(r, ever)
       PROVE  RunnerCounts(q, ever)
  <2>1. /\ \A i \in DOMAIN r.rows : r.rows[i] \in ever
        /\ r.mine.processed <= Cardinality(UpTo(ever, r.mine.cursor))
    BY <1>2, <1>10 DEF RunnerCounts, Working
  <2>2. f \in ever
    BY <1>1, <2>1
  <2>3. Cardinality(UpTo(ever, r.mine.cursor)) + 1 <= Cardinality(UpTo(ever, f))
    BY <1>1, <1>4, <2>2, OneMore
  <2>4. UpTo(ever, r.mine.cursor) \in SUBSET Files /\ UpTo(ever, f) \in SUBSET Files
    BY DEF UpTo
  <2>5. PICK a \in Nat, b \in Nat :
          a = Cardinality(UpTo(ever, r.mine.cursor)) /\ b = Cardinality(UpTo(ever, f))
    BY <2>4, SomeFiles
  <2>6. q.mine.processed <= b
    BY <1>1, <1>4, <2>1, <2>3, <2>5
  <2>. QED  BY <1>1, <2>1, <2>5, <2>6 DEF RunnerCounts
<1>. QED  BY <1>8, <1>9, <1>10

-----------------------------------------------------------------------------
(* Jobs: steps of one runner *)

\* A step that writes nothing but what one runner has in mind.
LEMMA JobsRunner ==
  ASSUME TypeInv, JobsInv, NEW e \in Runners, NEW q \in RunnerRecord,
         runner' = [runner EXCEPT ![e] = q], UNCHANGED <<live, job, group, missing>>,
         spent'.revived = spent.revived, Local(q),
         q.job \in Jobs => Covers(q, job[q.job], missing[q.job]),
         \A ever \in SUBSET Files : q.job \in Jobs /\ EverOf(q.job, ever) => RunnerCounts(q, ever)
  PROVE  JobsInv'
<1>1. /\ runner'[e] = q
      /\ \A o \in Runners \ {e} : runner'[o] = runner[o]
  BY RunnerTypes
<1>2. \A o \in Runners : Local(runner'[o])
  BY <1>1 DEF JobsInv
<1>3. \A o \in Runners : runner'[o].job \in Jobs =>
        Covers(runner'[o], job[runner'[o].job], missing[runner'[o].job])
  BY <1>1 DEF JobsInv
<1>4. \A j \in Jobs : /\ JobRight(job[j], missing[j], spent.revived)
                      /\ job[j].found <= Found(j) /\ Found(j)' = Found(j)
  BY DEF JobsInv, Found
<1>5. \A j \in Jobs : job[j].status # "none" => \E ever \in SUBSET Files : EverOf(j, ever)'
  <2>1. SUFFICES ASSUME NEW j \in Jobs, job[j].status # "none"
                 PROVE  \E ever \in SUBSET Files : EverOf(j, ever)'
    OBVIOUS
  <2>2. PICK ever \in SUBSET Files : EverOf(j, ever)
    BY <2>1 DEF JobsInv
  <2>3. \A o \in Runners : runner'[o].job = j => RunnerCounts(runner'[o], ever)
    BY <1>1, <2>2 DEF EverOf
  <2>4. EverOf(j, ever)'
    BY <2>2, <2>3 DEF EverOf
  <2>. QED  BY <2>4
<1>. QED  BY <1>2, <1>3, <1>4, <1>5 DEF JobsInv

\* A step that writes one job, for a runner that works on it.
LEMMA JobsWritten ==
  ASSUME TypeInv, JobsInv, NEW e \in Runners, NEW q \in RunnerRecord, NEW j \in Jobs, NEW new \in Rows,
         NEW lost \in SUBSET missing[j],
         runner' = [runner EXCEPT ![e] = q], job' = [job EXCEPT ![j] = new],
         missing' = [missing EXCEPT ![j] = lost], UNCHANGED live, spent'.revived = spent.revived,
         \A k \in Jobs : Found(k)' >= Found(k),
         Local(q), ~ Working(q) \/ (q.job = j /\ Covers(q, new, lost)),
         job[j].status # "none", new.status # "none",
         new.total = job[j].total, new.found >= job[j].found, new.found <= Found(j)',
         JobRight(new, lost, spent.revived),
         \A ever \in SUBSET Files : EverOf(j, ever) =>
           /\ new.status \in {"queued", "running"} =>
                new.processed <= Cardinality(UpTo(ever, new.cursor))
           /\ RunnerCounts(q, ever)
  PROVE  JobsInv'
<1>1. /\ runner'[e] = q
      /\ \A o \in Runners \ {e} : runner'[o] = runner[o]
  BY RunnerTypes
<1>2. /\ job'[j] = new /\ \A k \in Jobs \ {j} : job'[k] = job[k]
      /\ missing'[j] = lost /\ \A k \in Jobs \ {j} : missing'[k] = missing[k]
  BY DEF TypeInv
<1>3. \A k \in Jobs : job[k] \in Rows /\ Found(k) \in Nat /\ Found(k)' \in Nat
  <2>1. TAKE k \in Jobs
  <2>2. {p \in Prints : group[k][p].duplicates >= 1} \in SUBSET Prints
    OBVIOUS
  <2>3. {p \in Prints : group'[k][p].duplicates >= 1} \in SUBSET Prints
    OBVIOUS
  <2>. QED  BY <2>2, <2>3, SomePrints DEF Found, TypeInv
<1>4. \A o \in Runners : Local(runner'[o])
  BY <1>1 DEF JobsInv
<1>5. ASSUME NEW o \in Runners, runner'[o].job \in Jobs
      PROVE  Covers(runner'[o], job'[runner'[o].job], missing'[runner'[o].job])
  <2>1. CASE o = e
    <3>1. CASE ~ Working(q)
      BY <1>1, <2>1, <3>1 DEF Covers
    <3>2. CASE q.job = j /\ Covers(q, new, lost)
      BY <1>1, <1>2, <2>1, <3>2
    <3>. QED  BY <3>1, <3>2
  <2>2. CASE o # e /\ runner[o].job # j
    BY <1>1, <1>2, <1>5, <2>2 DEF JobsInv
  <2>3. CASE o # e /\ runner[o].job = j
    <3>1. PICK r \in RunnerRecord : r = runner[o] /\ r = runner'[o] /\ r.job = j
      BY <1>1, <2>3, RunnerShape
    <3>2. Covers(r, job[j], missing[j])
      BY <3>1 DEF JobsInv
    <3>3. r.known.found \in Nat /\ job[j].found \in Nat /\ new.found \in Nat
      BY <1>3, RowFacts DEF RunnerRecord
    <3>4. r.known.found <= job[j].found => r.known.found <= new.found
      BY <3>3
    <3>5. Covers(r, new, lost)
      BY <3>2, <3>4 DEF Covers
    <3>. QED  BY <1>2, <3>1, <3>5
  <2>. QED  BY <2>1, <2>2, <2>3
<1>6. ASSUME NEW k \in Jobs
      PROVE  JobRight(job'[k], missing'[k], spent'.revived) /\ job'[k].found <= Found(k)'
  <2>1. CASE k = j
    BY <1>2, <2>1
  <2>2. CASE k # j
    <3>1. job'[k] = job[k] /\ missing'[k] = missing[k]
      BY <1>2, <2>2
    <3>2. JobRight(job[k], missing[k], spent.revived) /\ job[k].found <= Found(k)
      BY DEF JobsInv
    <3>3. job[k].found \in Nat
      BY <1>3, RowFacts
    <3>4. Found(k)' >= Found(k) /\ Found(k) \in Nat /\ Found(k)' \in Nat
      BY <1>3
    <3>5. job[k].found <= Found(k)'
      BY <3>2, <3>3, <3>4
    <3>. QED  BY <3>1, <3>2, <3>5
  <2>. QED  BY <2>1, <2>2
<1>7. ASSUME NEW k \in Jobs, job'[k].status # "none"
      PROVE  \E ever \in SUBSET Files : EverOf(k, ever)'
  <2>1. job[k].status # "none"
    BY <1>2, <1>7
  <2>2. PICK ever \in SUBSET Files : EverOf(k, ever)
    BY <2>1 DEF JobsInv
  <2>3. CASE k = j
    <3>1. Counts(new, lost, ever, spent.revived)
      BY <2>2, <2>3 DEF EverOf, Counts
    <3>2. \A o \in Runners : runner'[o].job = j => RunnerCounts(runner'[o], ever)
      BY <1>1, <2>2, <2>3 DEF EverOf
    <3>3. EverOf(k, ever)'
      BY <1>2, <2>2, <2>3, <3>1, <3>2 DEF EverOf
    <3>. QED  BY <3>3
  <2>4. CASE k # j
    <3>1. job'[k] = job[k] /\ missing'[k] = missing[k]
      BY <1>2, <2>4
    <3>2. RunnerCounts(q, ever) \/ q.job # k
      BY <2>4 DEF RunnerCounts
    <3>3. \A o \in Runners : runner'[o].job = k => RunnerCounts(runner'[o], ever)
      BY <1>1, <2>2, <3>2 DEF EverOf
    <3>4. EverOf(k, ever)'
      BY <2>2, <3>1, <3>3 DEF EverOf
    <3>. QED  BY <3>4
  <2>. QED  BY <2>3, <2>4
<1>. QED  BY <1>4, <1>5, <1>6, <1>7 DEF JobsInv

LEMMA JobsLetGo ==
  ASSUME TypeInv, JobsInv, NEW e \in Runners, NEW q \in RunnerRecord, LetsGo(e, q),
         UNCHANGED <<live, job, group, missing>>, spent'.revived = spent.revived
  PROVE  JobsInv'
<1>1. runner' = [runner EXCEPT ![e] = q] /\ Local(q) /\ ~ Working(q)
  BY DEF LetsGo
<1>2. \A row, lost, ever : Covers(q, row, lost) /\ RunnerCounts(q, ever)
  BY <1>1 DEF Covers, RunnerCounts
<1>. QED  BY <1>1, <1>2, JobsRunner

LEMMA JobsVisit ==
  ASSUME TypeInv, JobsInv, NEW e \in Runners, NEW q \in RunnerRecord, NEW f,
         VisitsAs(runner[e], q, f), runner' = [runner EXCEPT ![e] = q],
         UNCHANGED <<live, job, group, missing, spent>>
  PROVE  JobsInv'
<1>1. PICK r \in RunnerRecord : r = runner[e] /\ Local(r) /\ VisitsAs(r, q, f)
  BY RunnerShape DEF JobsInv
<1>2. r.job \in Jobs /\ q.job = r.job
  BY <1>1 DEF VisitsAs, Local, Working
<1>3. Local(q)
  BY <1>1, VisitRight
<1>4. missing[q.job] \subseteq Files
  BY <1>2 DEF TypeInv
<1>5. Covers(r, job[q.job], missing[q.job])
  BY <1>1, <1>2 DEF JobsInv
<1>6. Covers(q, job[q.job], missing[q.job])
  BY <1>1, <1>4, <1>5, VisitRight
<1>7. ASSUME NEW ever \in SUBSET Files, EverOf(q.job, ever)
      PROVE  RunnerCounts(q, ever)
  <2>1. RunnerCounts(r, ever)
    BY <1>1, <1>2, <1>7 DEF EverOf
  <2>. QED  BY <1>1, <2>1, VisitRight
<1>. QED  BY <1>3, <1>6, <1>7, JobsRunner

LEMMA JobsSkip ==
  ASSUME TypeInv, JobsInv, NEW e \in Runners, SkipInternal(e)
  PROVE  JobsInv'
<1>1. PICK r \in RunnerRecord : r = runner[e]
  BY RunnerShape
<1>2. /\ r.at = "rows" /\ r.rows # <<>> /\ Head(r.rows) \in Files /\ Tail(r.rows) \in Seq(Files)
      /\ r.mine \in Rows
  BY <1>1, RunnerShape DEF SkipInternal
<1>3. PICK q : q = [r EXCEPT !.rows = Tail(@), !.mine.processed = @ + 1,
                             !.mine.cursor = Head(r.rows), !.seen = @ \cup {Head(r.rows)}]
  OBVIOUS
<1>4. [r.mine EXCEPT !.processed = @ + 1, !.cursor = Head(r.rows)] \in Rows
  BY <1>2, Further
<1>5. q \in RunnerRecord
  BY <1>2, <1>3, <1>4 DEF RunnerRecord
<1>6. runner' = [runner EXCEPT ![e] = q]
  <2>1. runner \in [Runners -> RunnerRecord]
    BY DEF TypeInv
  <2>. QED  BY <1>1, <1>3, <2>1 DEF SkipInternal, RunnerRecord, Rows
<1>7. r.item = {}
  BY <1>1, <1>2 DEF JobsInv, Local
<1>8. q.mine = [r.mine EXCEPT !.processed = @ + 1, !.cursor = Head(r.rows)]
  BY <1>2, <1>3 DEF RunnerRecord, Rows
<1>9. VisitsAs(runner[e], q, Head(r.rows))
  <2>1. q.at = "rows" /\ q.item = {}
    BY <1>1, <1>2, <1>3, <1>7 DEF RunnerRecord
  <2>2. q.rows = Tail(r.rows)
    BY <1>2, <1>3 DEF RunnerRecord
  <2>3. q.seen = r.seen \cup {Head(r.rows)}
    BY <1>2, <1>3 DEF RunnerRecord
  <2>4. q.job = r.job /\ q.known = r.known /\ q.empty = r.empty /\ q.idle = r.idle
    BY <1>2, <1>3 DEF RunnerRecord
  <2>. QED  BY <1>1, <1>2, <1>8, <2>1, <2>2, <2>3, <2>4 DEF VisitsAs
<1>. QED  BY <1>5, <1>6, <1>9, JobsVisit DEF SkipInternal, history

LEMMA JobsAnalyse ==
  ASSUME TypeInv, GroupsInv, JobsInv, NEW e \in Runners, Analyse(e)
  PROVE  JobsInv'
<1>1. PICK r, q \in RunnerRecord :
        /\ r = runner[e] /\ runner' = [runner EXCEPT ![e] = q]
        /\ r.at = "rows" /\ r.rows # <<>> /\ Head(r.rows) \in Files
        /\ q = [r EXCEPT !.at = "analysed", !.rows = Tail(@), !.mine.processed = @ + 1,
                         !.mine.cursor = Head(r.rows), !.seen = @ \cup {Head(r.rows)},
                         !.item = ChangeOf(r.job, Head(r.rows))]
  BY Analysed DEF JobsInv
<1>a. r.mine \in Rows
  BY DEF RunnerRecord
<1>b. q.mine = [r.mine EXCEPT !.processed = @ + 1, !.cursor = Head(r.rows)]
  BY <1>1, <1>a DEF RunnerRecord, Rows
<1>2. VisitsAs(r, q, Head(r.rows))
  <2>1. q.at = "analysed"
    BY <1>1 DEF RunnerRecord
  <2>2. q.rows = Tail(r.rows)
    BY <1>1 DEF RunnerRecord
  <2>3. q.seen = r.seen \cup {Head(r.rows)}
    BY <1>1 DEF RunnerRecord
  <2>4. q.job = r.job /\ q.known = r.known /\ q.empty = r.empty /\ q.idle = r.idle
    BY <1>1 DEF RunnerRecord
  <2>. QED  BY <1>1, <1>b, <2>1, <2>2, <2>3, <2>4 DEF VisitsAs
<1>. QED  BY <1>1, <1>2, JobsVisit DEF Analyse

-----------------------------------------------------------------------------
(* Jobs: commits and ends *)

\* What is left of the missing files after a commit lies behind the runner's cursor.
LEMMA LeftBehind ==
  ASSUME NEW r \in RunnerRecord, NEW row, NEW lost \in SUBSET Files, Working(r), Covers(r, row, lost)
  PROVE  /\ \A f \in lost \ r.seen : f > r.mine.cursor
         /\ IsFiniteSet(lost) /\ lost \ r.seen \in SUBSET lost
         /\ Cardinality(lost \ r.seen) <= Cardinality(lost)
         /\ Cardinality(lost) \in Nat /\ Cardinality(lost \ r.seen) \in Nat
<1>1. r.mine.cursor \in Nat
  BY RowFacts DEF RunnerRecord
<1>2. ASSUME NEW f \in lost \ r.seen
      PROVE  f > r.mine.cursor
  <2>1. ~ (f <= r.mine.cursor)
    BY DEF Covers
  <2>2. f \in Nat
    BY FileIds
  <2>. QED  BY <1>1, <2>1, <2>2
<1>3. lost \ r.seen \in SUBSET lost /\ lost \ r.seen \in SUBSET Files
  OBVIOUS
<1>. QED  BY <1>2, <1>3, SomeFiles, FS_Subset

LEMMA JobsCommit ==
  ASSUME TypeInv, GroupsInv, JobsInv, NEW e \in Runners, CommitRecord(e)
  PROVE  JobsInv'
<1>0. \A o \in Runners : Local(runner[o])
  BY DEF JobsInv
<1>1. PICK r, q \in RunnerRecord, j \in Jobs, mine, new \in Rows : CommitsAs(e, r, q, j, mine, new)
  BY <1>0, Committed
<1>2. /\ r = runner[e] /\ r.at = "analysed" /\ j = r.job
      /\ mine.found = Found(j) /\ mine.status = r.mine.status /\ mine.total = r.mine.total
      /\ mine.cursor = r.mine.cursor /\ mine.processed = r.mine.processed
      /\ runner' = [runner EXCEPT ![e] = q] /\ job' = [job EXCEPT ![j] = new]
      /\ missing' = [missing EXCEPT ![j] = @ \ r.seen]
      /\ new = Flushed(job[j], r.known, mine)
  BY <1>1 DEF CommitsAs
<1>3. /\ q.at = IF LimitReached(mine) THEN "limit" ELSE "rows"
      /\ q.job = j /\ q.known = mine /\ q.mine = mine /\ q.rows = r.rows /\ q.seen = {}
      /\ q.empty = r.empty /\ q.idle = FALSE /\ q.item = {}
  BY <1>1 DEF CommitsAs
<1>4. PICK row \in Rows : row = job[j]
  BY DEF TypeInv
<1>5. PICK lost \in SUBSET Files : lost = missing[j]
  BY DEF TypeInv
<1>6. PICK left : left = lost \ r.seen
  OBVIOUS
<1>7. /\ r.known \in Rows /\ r.mine \in Rows /\ Working(r) /\ Local(r) /\ Covers(r, row, lost)
      /\ JobRight(row, lost, spent.revived) /\ row.found <= Found(j)
  BY <1>0, <1>2, <1>4, <1>5 DEF JobsInv, Working, RunnerRecord
<1>8. /\ r.known.status \in {"queued", "running"} /\ r.mine.status = "running"
      /\ r.mine.total = r.known.total /\ r.mine.found = r.known.found
      /\ r.mine.cursor > r.known.cursor /\ r.mine.processed > r.known.processed
      /\ InOrder(r)
      /\ row.status # "none" /\ row.total = r.mine.total /\ r.known.found <= row.found
      /\ r.empty => lost = {}
  <2>1. /\ r.known.status \in {"queued", "running"} /\ r.mine.status = "running"
        /\ r.mine.total = r.known.total /\ r.mine.found = r.known.found
        /\ r.mine.cursor > r.known.cursor
        /\ \/ r.mine.cursor = r.known.cursor /\ r.mine.processed = r.known.processed
           \/ r.mine.cursor > r.known.cursor /\ r.mine.processed > r.known.processed
        /\ InOrder(r)
    BY <1>2, <1>7 DEF Local
  <2>2. r.mine.cursor \in Nat /\ r.known.cursor \in Nat
    BY <1>7, RowFacts
  <2>3. row.status # "none" /\ row.total = r.mine.total /\ r.known.found <= row.found
        /\ (r.empty => lost = {})
    BY <1>7 DEF Covers
  <2>. QED  BY <2>1, <2>2, <2>3
<1>9. /\ r.mine.cursor \in Nat /\ r.known.cursor \in Nat /\ r.mine.processed \in Nat
      /\ r.known.processed \in Nat /\ r.known.found \in Nat /\ row.found \in Nat /\ Found(j) \in Nat
      /\ new.found \in Nat
  BY <1>2, <1>7, RowFacts
<1>10. /\ new.status = IF r.known.status = "queued" THEN "running" ELSE row.status
       /\ new.cursor = r.mine.cursor /\ new.processed = r.mine.processed
       /\ new.total = row.total
       /\ new.found = IF Found(j) # r.known.found THEN Found(j) ELSE row.found
  <2>1. /\ new.status = IF mine.status # r.known.status THEN mine.status ELSE row.status
        /\ new.cursor = IF mine.cursor # r.known.cursor THEN mine.cursor ELSE row.cursor
        /\ new.processed = IF mine.processed # r.known.processed THEN mine.processed ELSE row.processed
        /\ new.total = IF mine.total # r.known.total THEN mine.total ELSE row.total
        /\ new.found = IF mine.found # r.known.found THEN mine.found ELSE row.found
    BY <1>2, <1>4, <1>7, FlushedRow
  <2>2. mine.status # r.known.status <=> r.known.status = "queued"
    BY <1>2, <1>8
  <2>3. mine.cursor # r.known.cursor /\ mine.processed # r.known.processed
    BY <1>2, <1>8, <1>9
  <2>4. mine.total = r.known.total
    BY <1>2, <1>8
  <2>5. mine.status = "running"
    BY <1>2, <1>8
  <2>. QED  BY <1>2, <2>1, <2>2, <2>3, <2>4, <2>5
<1>11. new.found >= row.found /\ new.found <= Found(j) /\ Found(j) <= new.found
  BY <1>7, <1>8, <1>9, <1>10
<1>12. /\ \A f \in left : f > r.mine.cursor
       /\ left \in SUBSET lost /\ Cardinality(left) <= Cardinality(lost)
       /\ Cardinality(lost) \in Nat /\ Cardinality(left) \in Nat
  BY <1>6, <1>7, LeftBehind
<1>13. JobRight(new, left, spent.revived)
  <2>1. ASSUME new.status = "complete", new.found < MaxGroups
        PROVE  Cardinality(left) <= spent.revived
    <3>1. row.status = "complete"
      BY <1>10, <2>1
    <3>2. row.found < MaxGroups
      BY <1>9, <1>11, <2>1, DedupeJobsAssumption
    <3>3. Cardinality(lost) <= spent.revived
      BY <1>7, <3>1, <3>2 DEF JobRight
    <3>4. spent.revived \in Nat
      BY DEF TypeInv
    <3>. QED  BY <1>12, <3>3, <3>4
  <2>. QED  BY <1>10, <1>12, <2>1 DEF JobRight
<1>14. Local(q)
  <2>1. InOrder(q)
    BY <1>2, <1>3, <1>8 DEF InOrder
  <2>2. q.at = "limit" => mine.found >= MaxGroups
    BY <1>3 DEF LimitReached
  <2>3. q.known.status = "running" /\ q.at \in {"limit", "rows"}
    BY <1>2, <1>3, <1>8
  <2>. QED  BY <1>3, <2>1, <2>2, <2>3 DEF Local, Working
<1>15. Covers(q, new, left)
  <2>1. new.status # "none" /\ new.total = q.mine.total /\ q.known.found <= new.found
    BY <1>2, <1>3, <1>8, <1>10, <1>11
  <2>2. \A f \in left : /\ f > q.known.cursor
                        /\ ~ (f <= q.mine.cursor)
    <3>1. \A f \in left : f \in Nat
      BY <1>12, FileIds
    <3>. QED  BY <1>2, <1>3, <1>9, <1>12, <3>1
  <2>3. \A f \in left : \A i \in DOMAIN q.rows :
          f < q.rows[i] => \E k \in DOMAIN q.rows : q.rows[k] = f
    BY <1>3, <1>7, <1>12 DEF Covers
  <2>4. q.empty => left = {}
    BY <1>3, <1>8, <1>12
  <2>. QED  BY <2>1, <2>2, <2>3, <2>4 DEF Covers
<1>16. ASSUME NEW ever \in SUBSET Files, EverOf(j, ever)
       PROVE  /\ new.processed <= Cardinality(UpTo(ever, new.cursor))
              /\ RunnerCounts(q, ever)
  <2>1. RunnerCounts(r, ever)
    BY <1>2, <1>16 DEF EverOf
  <2>2. /\ \A i \in DOMAIN r.rows : r.rows[i] \in ever
        /\ r.mine.processed <= Cardinality(UpTo(ever, r.mine.cursor))
    BY <1>7, <2>1 DEF RunnerCounts
  <2>. QED  BY <1>2, <1>3, <1>10, <2>2 DEF RunnerCounts
<1>17. /\ \A k \in Jobs : Found(k)' >= Found(k)
       /\ new.found <= Found(j)'
  <2>1. \A k \in Jobs : Found(k)' >= Found(k)
    BY <1>0, FoundGrows
  <2>2. Found(j)' \in Nat
    <3>1. {p \in Prints : group'[j][p].duplicates >= 1} \in SUBSET Prints
      OBVIOUS
    <3>. QED  BY <3>1, SomePrints DEF Found
  <2>3. Found(j)' >= Found(j)
    BY <2>1
  <2>. QED  BY <1>9, <1>11, <2>1, <2>2, <2>3
<1>18. missing' = [missing EXCEPT ![j] = left] /\ left \in SUBSET missing[j]
  BY <1>2, <1>5, <1>6
<1>19. UNCHANGED <<live, spent>>
  BY DEF CommitRecord
<1>20. job[j].status # "none" /\ new.status # "none" /\ new.total = job[j].total /\ new.found >= job[j].found
  BY <1>4, <1>8, <1>10, <1>11
<1>. QED  BY <1>2, <1>3, <1>13, <1>14, <1>15, <1>16, <1>17, <1>18, <1>19, <1>20, JobsWritten

\* What the end of a call leaves of its job.
LeavesAs(j, row, lost, new, left) ==
  /\ missing' = [missing EXCEPT ![j] = left] /\ left \in SUBSET lost
  /\ new.status # "none" /\ new.found >= row.found /\ new.found <= Found(j)
  /\ JobRight(new, left, spent.revived)
  /\ \A ever \in SUBSET Files : EverOf(j, ever) /\ new.status \in {"queued", "running"} =>
       new.processed <= Cardinality(UpTo(ever, new.cursor))

LEMMA JobsEnded ==
  ASSUME TypeInv, JobsInv, NEW e \in Runners, StopAtLimit(e) \/ EndChunk(e) \/ AnalysisFails(e)
  PROVE  JobsInv'
<1>0. \A o \in Runners : Local(runner[o])
  BY DEF JobsInv
<1>1. PICK r, q \in RunnerRecord, j \in Jobs, mine, new \in Rows : EndsAs(e, r, q, j, mine, new)
  BY <1>0, Ended
<1>2. /\ r = runner[e] /\ j = r.job
      /\ mine.total = r.mine.total /\ mine.processed = r.mine.processed
      /\ runner' = [runner EXCEPT ![e] = q] /\ job' = [job EXCEPT ![j] = new]
      /\ q = Returned(e, mine)
      /\ new = Flushed(job[j], r.known, mine)
  BY <1>1 DEF EndsAs
<1>3. PICK row \in Rows : row = job[j]
  BY DEF TypeInv
<1>4. PICK lost \in SUBSET Files : lost = missing[j]
  BY DEF TypeInv
<1>5. Working(r)
  BY <1>2 DEF Working, StopAtLimit, EndChunk, AnalysisFails
<1>6. /\ r.known \in Rows /\ r.mine \in Rows /\ Local(r) /\ Covers(r, row, lost)
      /\ JobRight(row, lost, spent.revived) /\ row.found <= Found(j)
  BY <1>0, <1>2, <1>3, <1>4 DEF JobsInv, RunnerRecord
<1>7. /\ r.known.status \in {"queued", "running"} /\ r.mine.status = "running"
      /\ r.mine.total = r.known.total /\ r.mine.found = r.known.found
      /\ \/ r.mine.cursor = r.known.cursor /\ r.mine.processed = r.known.processed
         \/ r.mine.cursor > r.known.cursor /\ r.mine.processed > r.known.processed
      /\ r.rows = <<>> /\ r.idle /\ ~ r.empty => r.mine.cursor > r.known.cursor
      /\ ~ r.idle => r.known.status = "running"
      /\ r.at = "limit" => r.mine = r.known /\ r.known.found >= MaxGroups
  BY <1>5, <1>6 DEF Local
<1>8. /\ row.status # "none" /\ row.total = r.mine.total /\ r.known.found <= row.found
      /\ r.empty => lost = {}
      /\ \A f \in lost : f > row.cursor
      /\ row.status = "complete" /\ row.found < MaxGroups => Cardinality(lost) <= spent.revived
  BY <1>5, <1>6 DEF Covers, JobRight
<1>9. /\ r.mine.cursor \in Nat /\ r.known.cursor \in Nat /\ r.mine.processed \in Nat
      /\ r.known.processed \in Nat /\ r.known.found \in Nat /\ row.found \in Nat /\ Found(j) \in Nat
      /\ new.found \in Nat /\ MaxGroups \in Nat /\ spent.revived \in Nat /\ row.total \in Nat
  <2>1. Found(j) \in Nat
    BY FoundTypes, SomePrints
  <2>. QED  BY <1>6, <2>1, RowFacts, DedupeJobsAssumption DEF TypeInv
<1>10. /\ new.status = IF mine.status # r.known.status THEN mine.status ELSE row.status
       /\ new.cursor = IF mine.cursor # r.known.cursor THEN mine.cursor ELSE row.cursor
       /\ new.processed = IF mine.processed # r.known.processed THEN mine.processed ELSE row.processed
       /\ new.total = IF mine.total # r.known.total THEN mine.total ELSE row.total
       /\ new.found = IF mine.found # r.known.found THEN mine.found ELSE row.found
  BY <1>2, <1>3, <1>6, FlushedRow
<1>11. new.total = row.total
  BY <1>2, <1>7, <1>10
<1>12. PICK left : left = lost \ r.seen
  OBVIOUS
<1>13. /\ \A f \in left : f > r.mine.cursor
       /\ left \in SUBSET lost /\ Cardinality(left) <= Cardinality(lost)
       /\ Cardinality(lost) \in Nat /\ Cardinality(left) \in Nat
  BY <1>5, <1>6, <1>12, LeftBehind
<1>14. mine.found = Found(j) => /\ new.found >= row.found /\ new.found <= Found(j)
                                /\ new.found >= r.known.found
  BY <1>6, <1>8, <1>9, <1>10
<1>15. ASSUME AnalysisFails(e), mine.cursor = r.known.cursor, mine.found = r.mine.found,
              mine.status = "failed", UNCHANGED missing
       PROVE  LeavesAs(j, row, lost, new, lost)
  <2>1. new.status = "failed" /\ new.cursor = row.cursor /\ new.found = row.found
    BY <1>7, <1>10, <1>15
  <2>2. missing' = [missing EXCEPT ![j] = lost]
    BY <1>4, <1>15 DEF TypeInv
  <2>3. LeavesAs(j, row, lost, new, lost)
    BY <1>6, <1>8, <1>9, <2>1, <2>2 DEF JobRight, LeavesAs
  <2>. QED  BY <2>3
<1>16. ASSUME StopAtLimit(e), mine.cursor = r.mine.cursor, mine.found = Found(j),
              mine.status = "complete", UNCHANGED missing
       PROVE  LeavesAs(j, row, lost, new, lost)
  <2>1. r.mine = r.known /\ r.known.found >= MaxGroups
    BY <1>2, <1>7, <1>16 DEF StopAtLimit
  <2>2. new.status = "complete" /\ new.cursor = row.cursor
    BY <1>7, <1>10, <1>16, <2>1
  <2>3. ~ (new.found < MaxGroups)
    BY <1>9, <1>14, <1>16, <2>1
  <2>4. missing' = [missing EXCEPT ![j] = lost]
    BY <1>4, <1>16 DEF TypeInv
  <2>5. LeavesAs(j, row, lost, new, lost)
    BY <1>8, <1>14, <1>16, <2>2, <2>3, <2>4 DEF JobRight, LeavesAs
  <2>. QED  BY <2>5
<1>17. ASSUME EndChunk(e), mine.cursor = r.mine.cursor, mine.found = Found(j),
              mine.status = IF AllDone(r) THEN "complete" ELSE "running",
              missing' = [missing EXCEPT ![j] = @ \ r.seen]
       PROVE  LeavesAs(j, row, lost, new, left)
  <2>1. missing' = [missing EXCEPT ![j] = left]
    BY <1>4, <1>12, <1>17
  <2>2. \A f \in left : f > new.cursor
    BY <1>8, <1>10, <1>13, <1>17
  <2>3. ASSUME NEW ever \in SUBSET Files, EverOf(j, ever)
        PROVE  /\ r.mine.processed <= Cardinality(UpTo(ever, r.mine.cursor))
               /\ left \in SUBSET ever /\ Cardinality(ever) <= row.total + spent.revived
               /\ row.status \in {"queued", "running"} => row.processed <= Cardinality(UpTo(ever, row.cursor))
    BY <1>2, <1>3, <1>4, <1>5, <1>13, <2>3 DEF EverOf, Counts, RunnerCounts
  <2>4. CASE AllDone(r)
    <3>1. new.status = "complete"
      BY <1>7, <1>10, <1>17, <2>4
    <3>2. Cardinality(left) <= spent.revived
      <4>1. CASE r.empty
        BY <1>8, <1>9, <1>13, <4>1, FS_EmptySet
      <4>2. CASE r.mine.processed >= r.mine.total
        <5>1. PICK ever \in SUBSET Files : EverOf(j, ever)
          BY <1>3, <1>8 DEF JobsInv
        <5>2. Cardinality(left) + Cardinality(UpTo(ever, r.mine.cursor)) <= Cardinality(ever)
          BY <1>9, <1>13, <2>3, <5>1, LeftOver
        <5>3. UpTo(ever, r.mine.cursor) \in SUBSET Files
          BY DEF UpTo
        <5>4. PICK a \in Nat, b \in Nat : a = Cardinality(UpTo(ever, r.mine.cursor)) /\ b = Cardinality(ever)
          BY <5>3, SomeFiles
        <5>5. r.mine.processed <= a /\ b <= row.total + spent.revived /\ Cardinality(left) + a <= b
          BY <2>3, <5>1, <5>2, <5>4
        <5>6. r.mine.processed >= row.total
          BY <1>8, <4>2
        <5>. QED  BY <1>9, <1>13, <5>5, <5>6
      <4>. QED  BY <2>4, <4>1, <4>2 DEF AllDone
    <3>. QED  BY <1>13, <1>14, <1>17, <2>1, <2>2, <3>1, <3>2 DEF JobRight, LeavesAs
  <2>5. CASE ~ AllDone(r)
    <3>1. mine.status = "running"
      BY <1>17, <2>5
    <3>2. CASE r.mine.cursor > r.known.cursor
      <4>1. new.cursor = r.mine.cursor /\ new.processed = r.mine.processed
        BY <1>2, <1>7, <1>9, <1>10, <1>17, <3>2
      <4>2. new.status = "complete" /\ new.found < MaxGroups => row.status = "complete" /\ row.found < MaxGroups
        BY <1>9, <1>10, <1>14, <1>17, <3>1
      <4>3. JobRight(new, left, spent.revived)
        BY <1>8, <1>9, <1>13, <2>2, <4>2 DEF JobRight
      <4>4. new.status # "none"
        BY <1>8, <1>10, <3>1
      <4>. QED  BY <1>13, <1>14, <1>17, <2>1, <2>3, <4>1, <4>3, <4>4 DEF LeavesAs
    <3>3. CASE ~ (r.mine.cursor > r.known.cursor)
      <4>1. r.at = "rows" /\ (r.rows # <<>> => ~ r.idle) /\ ~ r.empty
        BY <1>2, <1>17, <2>5 DEF EndChunk, AllDone
      <4>2. r.known.status = "running"
        BY <1>7, <3>3, <4>1
      <4>3. r.mine.cursor = r.known.cursor /\ r.mine.processed = r.known.processed
        BY <1>7, <3>3
      <4>4. new.status = row.status /\ new.cursor = row.cursor /\ new.processed = row.processed
        BY <1>2, <1>10, <1>17, <3>1, <4>2, <4>3
      <4>5. new.found < MaxGroups => row.found < MaxGroups
        BY <1>9, <1>14, <1>17
      <4>6. JobRight(new, left, spent.revived)
        BY <1>8, <1>9, <1>13, <2>2, <4>4, <4>5 DEF JobRight
      <4>. QED  BY <1>8, <1>13, <1>14, <1>17, <2>1, <2>3, <4>4, <4>6 DEF LeavesAs
    <3>. QED  BY <3>2, <3>3
  <2>. QED  BY <2>4, <2>5
<1>18. PICK rest \in SUBSET lost : LeavesAs(j, row, lost, new, rest)
  <2>1. LeavesAs(j, row, lost, new, lost) \/ LeavesAs(j, row, lost, new, left)
    BY <1>1, <1>15, <1>16, <1>17 DEF EndsAs
  <2>. QED  BY <1>13, <2>1
<1>19. Local(q) /\ ~ Working(q)
  <2>1. Local(Rest) /\ ~ Working(Rest)
    BY DEF Rest, Local, Working
  <2>2. CASE e = Worker
    <3>1. q.at = "report" /\ q.job = j /\ q.item = {}
      BY <1>2, <2>2, RestRight DEF Returned, Rest, RunnerRecord
    <3>. QED  BY <3>1 DEF Local, Working
  <2>. QED  BY <1>2, <2>1, <2>2 DEF Returned
<1>20. \A k \in Jobs : Found(k)' = Found(k)
  BY DEF Found, StopAtLimit, EndChunk, AnalysisFails
<1>21. \A k \in Jobs : Found(k)' >= Found(k)
  <2>1. \A k \in Jobs : Found(k) \in Nat
    BY FoundTypes, SomePrints
  <2>. QED  BY <1>20, <2>1
<1>22. UNCHANGED live /\ spent'.revived = spent.revived
  BY DEF StopAtLimit, EndChunk, AnalysisFails, TypeInv
<1>23. \A ever : RunnerCounts(q, ever)
  BY <1>19 DEF RunnerCounts
<1>24. /\ rest \in SUBSET missing[j] /\ missing' = [missing EXCEPT ![j] = rest]
       /\ job[j].status # "none" /\ new.status # "none"
       /\ new.total = job[j].total /\ new.found >= job[j].found /\ new.found <= Found(j)'
       /\ JobRight(new, rest, spent.revived)
       /\ \A ever \in SUBSET Files : EverOf(j, ever) /\ new.status \in {"queued", "running"} =>
            new.processed <= Cardinality(UpTo(ever, new.cursor))
  BY <1>3, <1>4, <1>8, <1>11, <1>18, <1>20 DEF LeavesAs
<1>. QED  BY <1>2, <1>19, <1>21, <1>22, <1>23, <1>24, JobsWritten

-----------------------------------------------------------------------------
(* Jobs: the steps around the runners *)

LEMMA JobsContinue ==
  ASSUME TypeInv, JobsInv, NEW e \in Runners, NEW j \in Jobs, Continue(e, j)
  PROVE  JobsInv'
<1>1. PICK q \in RunnerRecord : LoadsAs(e, q, j)
  BY Loaded
<1>2. PICK row \in Rows, lost \in SUBSET live : row = job[j] /\ lost = missing[j]
  BY DEF TypeInv
<1>3. /\ q.known = row /\ q.mine.status = "running" /\ q.mine.total = row.total
      /\ q.mine.cursor = row.cursor /\ q.mine.processed = row.processed /\ q.mine.found = row.found
      /\ row.status \in {"queued", "running"} /\ q.at = "rows" /\ q.job = j /\ q.item = {} /\ q.idle = TRUE
      /\ q.rows \in Chunks(Candidates(j)) /\ q.empty = (q.rows = <<>>)
      /\ runner' = [runner EXCEPT ![e] = q]
  BY <1>1, <1>2 DEF LoadsAs
<1>4. row.cursor \in Nat /\ row.found \in Nat
  BY RowFacts
<1>5. /\ live \in SUBSET Files /\ Candidates(j) \in SUBSET Files
      /\ Candidates(j) = {f \in live : f > row.cursor}
  BY <1>2 DEF TypeInv, Candidates, CandidateRows
<1>6. /\ \A i \in DOMAIN q.rows : q.rows[i] \in Candidates(j)
      /\ \A i, k \in DOMAIN q.rows : i < k => q.rows[i] < q.rows[k]
      /\ \A f \in Candidates(j) : \A i \in DOMAIN q.rows :
           f < q.rows[i] => \E k \in DOMAIN q.rows : q.rows[k] = f
      /\ q.rows = <<>> => Candidates(j) = {}
  <2>1. PICK candidates \in SUBSET Files : candidates = Candidates(j)
    BY <1>5
  <2>2. q.rows \in Chunks(candidates)
    BY <1>3, <2>1
  <2>. QED  BY <2>1, <2>2, ChunkRight
<1>7. \A f \in lost : f \in Candidates(j) /\ f > row.cursor /\ f \in Nat
  BY <1>2, <1>5, FileIds DEF JobsInv, JobRight
<1>8. Local(q)
  BY <1>3, <1>5, <1>6 DEF Local, Working, InOrder
<1>9. Covers(q, row, lost)
  <2>1. \A f \in lost : ~ (f <= q.mine.cursor)
    BY <1>3, <1>4, <1>7
  <2>2. q.known.found <= row.found
    BY <1>3, <1>4
  <2>3. q.empty => lost = {}
    BY <1>3, <1>6, <1>7
  <2>. QED  BY <1>3, <1>6, <1>7, <2>1, <2>2, <2>3 DEF Covers
<1>10. ASSUME NEW ever \in SUBSET Files, EverOf(j, ever)
       PROVE  RunnerCounts(q, ever)
  <2>1. live \subseteq ever /\ row.processed <= Cardinality(UpTo(ever, row.cursor))
    BY <1>2, <1>3, <1>10 DEF EverOf, Counts
  <2>. QED  BY <1>3, <1>5, <1>6, <2>1 DEF RunnerCounts
<1>. QED  BY <1>2, <1>3, <1>8, <1>9, <1>10, JobsRunner DEF Continue

\* A job begins: its candidates are all that there ever were.
LEMMA JobsStart ==
  ASSUME TypeInv, JobsInv, NEW q \in RunnerRecord, LetsGo(Worker, q), NEW j \in Jobs, StartJob(j),
         UNCHANGED <<live, group, spent>>
  PROVE  JobsInv'
<1>1. PICK new : new = [NoJob EXCEPT !.status = "queued", !.total = Cardinality(CandidateRows)]
  OBVIOUS
<1>2. /\ new.status = "queued" /\ new.cursor = 0 /\ new.processed = 0 /\ new.found = 0
      /\ new.total = Cardinality(live)
  BY <1>1 DEF NoJob, CandidateRows
<1>3. /\ job'[j] = new /\ \A k \in Jobs \ {j} : job'[k] = job[k]
      /\ missing'[j] = live /\ \A k \in Jobs \ {j} : missing'[k] = missing[k]
  BY <1>1 DEF StartJob, CandidateRows, TypeInv
<1>4. /\ runner'[Worker] = q /\ Local(q) /\ ~ Working(q)
      /\ \A o \in Runners \ {Worker} : runner'[o] = runner[o]
  BY RunnerTypes DEF LetsGo, Runners
<1>5. job[j].status = "none"
  BY DEF StartJob, Fresh
<1>6. \A o \in Runners : runner'[o].job = j => ~ Working(runner'[o])
  BY <1>4, <1>5 DEF JobsInv, Covers
<1>7. \A o \in Runners : Local(runner'[o])
  BY <1>4 DEF JobsInv
<1>8. \A o \in Runners : runner'[o].job \in Jobs =>
        Covers(runner'[o], job'[runner'[o].job], missing'[runner'[o].job])
  <2>1. TAKE o \in Runners
  <2>2. CASE ~ Working(runner'[o])
    BY <2>2 DEF Covers
  <2>3. CASE o # Worker /\ runner'[o].job # j
    BY <1>3, <1>4, <2>3 DEF JobsInv
  <2>. QED  BY <1>4, <1>6, <2>2, <2>3
<1>9. live \in SUBSET Files /\ \A f \in Files : f > 0 /\ f \in Nat
  <2>1. \A f \in Files : f \in Nat /\ f # 0
    BY FileIds
  <2>2. live \in SUBSET Files
    BY DEF TypeInv
  <2>. QED  BY <2>1, <2>2
<1>10. ASSUME NEW k \in Jobs
       PROVE  JobRight(job'[k], missing'[k], spent'.revived) /\ job'[k].found <= Found(k)'
  <2>1. Found(k)' = Found(k) /\ Found(k) \in Nat
    BY FoundTypes, SomePrints DEF Found
  <2>2. CASE k = j
    BY <1>2, <1>3, <1>9, <2>1, <2>2 DEF JobRight
  <2>3. CASE k # j
    BY <1>3, <2>1, <2>3 DEF JobsInv
  <2>. QED  BY <2>2, <2>3
<1>11. ASSUME NEW k \in Jobs, job'[k].status # "none"
       PROVE  \E ever \in SUBSET Files : EverOf(k, ever)'
  <2>1. CASE k = j
    <3>1. Counts(new, live, live, spent.revived)
      <4>1. UpTo(live, 0) \in SUBSET Files
        BY <1>9 DEF UpTo
      <4>2. Cardinality(live) \in Nat /\ Cardinality(UpTo(live, 0)) \in Nat /\ spent.revived \in Nat
        BY <1>9, <4>1, SomeFiles DEF TypeInv
      <4>. QED  BY <1>2, <4>2 DEF Counts
    <3>2. \A o \in Runners : runner'[o].job = j => RunnerCounts(runner'[o], live)
      BY <1>6 DEF RunnerCounts
    <3>3. EverOf(j, live)'
      BY <1>3, <3>1, <3>2 DEF EverOf
    <3>. QED  BY <1>9, <2>1, <3>3
  <2>2. CASE k # j
    <3>1. job'[k] = job[k] /\ missing'[k] = missing[k]
      BY <1>3, <2>2
    <3>2. PICK ever \in SUBSET Files : EverOf(k, ever)
      BY <1>11, <3>1 DEF JobsInv
    <3>3. \A o \in Runners : runner'[o].job = k => RunnerCounts(runner'[o], ever)
      BY <1>4, <3>2 DEF EverOf, RunnerCounts
    <3>4. EverOf(k, ever)'
      BY <3>1, <3>2, <3>3 DEF EverOf
    <3>. QED  BY <3>4
  <2>. QED  BY <2>1, <2>2
<1>. QED  BY <1>7, <1>8, <1>10, <1>11 DEF JobsInv

LEMMA JobsBegin ==
  ASSUME TypeInv, JobsInv, BeginSlice
  PROVE  JobsInv'
<1>1. PICK q \in RunnerRecord : LetsGo(Worker, q)
  BY Started
<1>2. \/ \E j \in Jobs : StartJob(j)
      \/ UNCHANGED <<job, missing>>
  BY DEF BeginSlice
<1>3. UNCHANGED <<live, group, spent>>
  BY DEF BeginSlice
<1>4. Worker \in Runners
  BY DEF Runners
<1>. QED  BY <1>1, <1>2, <1>3, <1>4, JobsStart, JobsLetGo

LEMMA JobsDropped ==
  ASSUME TypeInv, JobsInv, NEW e \in Runners,
         InsertCollides(e) \/ Crash(e) \/ (e = Worker /\ (AnswerEnded \/ Report))
  PROVE  JobsInv'
<1>1. PICK q \in RunnerRecord : LetsGo(e, q)
  BY Dropped DEF JobsInv
<1>2. UNCHANGED <<live, job, group, missing>> /\ spent'.revived = spent.revived
  BY DEF InsertCollides, Crash, AnswerEnded, Report, history, TypeInv
<1>. QED  BY <1>1, <1>2, JobsLetGo

LEMMA JobsRemoved ==
  ASSUME TypeInv, JobsInv, NEW f \in Files, RowRemoved(f)
  PROVE  JobsInv'
<1>1. /\ UNCHANGED <<job, group, runner>> /\ spent'.revived = spent.revived
      /\ live' \in SUBSET live
      /\ \A j \in Jobs : missing'[j] = missing[j] \ {f}
  BY DEF RowRemoved, TypeInv
<1>2. \A j \in Jobs : missing'[j] \in SUBSET missing[j] /\ missing[j] \in SUBSET Files
  BY <1>1 DEF TypeInv
<1>3. \A e \in Runners : runner[e].job \in Jobs =>
        Covers(runner[e], job[runner[e].job], missing'[runner[e].job])
  <2>1. TAKE e \in Runners
  <2>2. HAVE runner[e].job \in Jobs
  <2>3. PICK r, row, lost, left : /\ r = runner[e] /\ row = job[runner[e].job]
                                  /\ lost = missing[runner[e].job] /\ left = missing'[runner[e].job]
    OBVIOUS
  <2>4. Covers(r, row, lost) /\ left \in SUBSET lost
    BY <1>2, <2>2, <2>3 DEF JobsInv
  <2>5. Covers(r, row, left)
    BY <2>4 DEF Covers
  <2>. QED  BY <2>3, <2>5
<1>4. ASSUME NEW j \in Jobs
      PROVE  JobRight(job[j], missing'[j], spent.revived) /\ job[j].found <= Found(j)'
  <2>1. JobRight(job[j], missing[j], spent.revived) /\ job[j].found <= Found(j) /\ Found(j)' = Found(j)
    BY <1>1 DEF JobsInv, Found
  <2>2. PICK a \in Nat, b \in Nat : a = Cardinality(missing[j]) /\ b = Cardinality(missing'[j]) /\ b <= a
    <3>1. missing'[j] \in SUBSET Files
      BY <1>2
    <3>. QED  BY <1>2, <3>1, SomeFiles, FS_Subset
  <2>3. spent.revived \in Nat
    BY DEF TypeInv
  <2>4. a <= spent.revived => b <= spent.revived
    BY <2>2, <2>3
  <2>. QED  BY <1>2, <2>1, <2>2, <2>4 DEF JobRight
<1>5. ASSUME NEW j \in Jobs, job[j].status # "none"
      PROVE  \E ever \in SUBSET Files : EverOf(j, ever)'
  <2>1. PICK ever \in SUBSET Files : EverOf(j, ever)
    BY <1>5 DEF JobsInv
  <2>2. Counts(job[j], missing'[j], ever, spent.revived)
    BY <1>2, <2>1 DEF EverOf, Counts
  <2>3. EverOf(j, ever)'
    BY <1>1, <2>1, <2>2 DEF EverOf
  <2>. QED  BY <2>3
<1>. QED  BY <1>1, <1>3, <1>4, <1>5 DEF JobsInv

\* A row that comes back is one more file that a job may leave out.
LEMMA JobsRevived ==
  ASSUME TypeInv, JobsInv, NEW f \in Files, RowRevived(f)
  PROVE  JobsInv'
<1>1. PICK revived \in Nat : revived = spent.revived
  BY DEF TypeInv
<1>2. /\ UNCHANGED <<job, group, runner, missing>> /\ live' = live \cup {f}
      /\ spent'.revived = revived + 1
  BY <1>1 DEF RowRevived, history, TypeInv
<1>3. ASSUME NEW j \in Jobs
      PROVE  JobRight(job[j], missing[j], revived + 1) /\ job[j].found <= Found(j)'
  <2>1. JobRight(job[j], missing[j], revived) /\ job[j].found <= Found(j) /\ Found(j)' = Found(j)
    BY <1>1, <1>2 DEF JobsInv, Found
  <2>2. PICK a \in Nat : a = Cardinality(missing[j])
    <3>1. missing[j] \in SUBSET Files
      BY DEF TypeInv
    <3>. QED  BY <3>1, SomeFiles
  <2>3. a <= revived => a <= revived + 1
    OBVIOUS
  <2>. QED  BY <2>1, <2>2, <2>3 DEF JobRight
<1>4. ASSUME NEW j \in Jobs, job[j].status # "none"
      PROVE  \E ever \in SUBSET Files : EverOf(j, ever)'
  <2>1. PICK old \in SUBSET Files : EverOf(j, old)
    BY <1>4 DEF JobsInv
  <2>2. PICK ever : ever = old \cup {f}
    OBVIOUS
  <2>3. ever \in SUBSET Files /\ old \in SUBSET ever
    BY <2>2
  <2>4. PICK a \in Nat, b \in Nat : a = Cardinality(old) /\ b = Cardinality(ever) /\ b <= a + 1
    <3>1. IsFiniteSet(old) /\ Cardinality(old) \in Nat /\ Cardinality(ever) \in Nat
      BY <2>3, SomeFiles
    <3>2. Cardinality(ever) = IF f \in old THEN Cardinality(old) ELSE Cardinality(old) + 1
      BY <2>2, <3>1, FS_AddElement
    <3>. QED  BY <3>1, <3>2
  <2>5. ASSUME NEW c, NEW n \in Nat, n <= Cardinality(UpTo(old, c))
        PROVE  n <= Cardinality(UpTo(ever, c))
    <3>1. Cardinality(UpTo(old, c)) <= Cardinality(UpTo(ever, c))
      BY <2>3, MoreFiles
    <3>2. UpTo(old, c) \in SUBSET Files /\ UpTo(ever, c) \in SUBSET Files
      BY <2>3 DEF UpTo
    <3>3. PICK x \in Nat, y \in Nat : x = Cardinality(UpTo(old, c)) /\ y = Cardinality(UpTo(ever, c))
      BY <3>2, SomeFiles
    <3>. QED  BY <2>5, <3>1, <3>3
  <2>6. job[j].processed \in Nat /\ job[j].total \in Nat
    BY RowFacts DEF TypeInv
  <2>7. Counts(job[j], missing[j], ever, revived + 1)
    <3>1. Counts(job[j], missing[j], old, revived)
      BY <1>1, <2>1 DEF EverOf
    <3>2. a <= job[j].total + revived => b <= job[j].total + (revived + 1)
      BY <2>4, <2>6
    <3>. QED  BY <2>3, <2>4, <2>5, <2>6, <3>1, <3>2 DEF Counts
  <2>8. \A e \in Runners : runner[e].job = j => RunnerCounts(runner[e], ever)
    <3>1. TAKE e \in Runners
    <3>2. HAVE runner[e].job = j
    <3>3. RunnerCounts(runner[e], old)
      BY <2>1, <3>2 DEF EverOf
    <3>4. runner[e].mine.processed \in Nat
      BY RunnerShape, RowFacts
    <3>. QED  BY <2>3, <2>5, <3>3, <3>4 DEF RunnerCounts
  <2>9. EverOf(j, ever)'
    BY <1>2, <2>1, <2>2, <2>7, <2>8 DEF EverOf
  <2>. QED  BY <2>3, <2>9
<1>5. \A e \in Runners : /\ Local(runner[e])
                         /\ runner[e].job \in Jobs => Covers(runner[e], job[runner[e].job], missing[runner[e].job])
  BY DEF JobsInv
<1>. QED  BY <1>2, <1>3, <1>4, <1>5 DEF JobsInv

-----------------------------------------------------------------------------
(* The theorems *)

LEMMA InitRight == Init => DedupeInv
<1>. SUFFICES ASSUME Init PROVE DedupeInv
  OBVIOUS
<1>1. Cardinality(Files) \in Nat /\ \A j \in Jobs : Found(j) \in Nat
  BY SomeFiles, FoundTypes, SomePrints
<1>2. \A p \in Prints : NoGroup \in Groups(p)
  <2>1. TAKE p \in Prints
  <2>2. <<>> \in Seq(Members(p)) /\ -1 \in Int /\ 0 \in Files \cup {0}
    BY EmptySeq
  <2>. QED  BY <2>2 DEF NoGroup, Groups
<1>3. TypeInv
  <2>1. live \subseteq Files /\ job \in [Jobs -> Rows] /\ runner \in [Runners -> RunnerRecord]
    BY RestRight DEF Init
  <2>2. /\ DOMAIN group = Jobs
        /\ \A j \in Jobs : DOMAIN group[j] = Prints /\ \A p \in Prints : group[j][p] \in Groups(p)
    BY <1>2 DEF Init
  <2>3. /\ task \in [status : {"queued", "running", "completed", "failed"}, job : Jobs \cup {0}]
        /\ missing \in [Jobs -> SUBSET live] /\ raced \subseteq Jobs \X (Prints \cup {NoPrint})
        /\ spent \in [faults : Nat, crashes : Nat, removed : Nat, revived : Nat]
    BY DEF Init
  <2>. QED  BY <2>1, <2>2, <2>3 DEF TypeInv
<1>4. JobsInv
  <2>1. Local(Rest) /\ ~ Working(Rest) /\ \A e \in Runners : runner[e] = Rest
    BY DEF Init, Local, Working, Rest
  <2>2. \A j \in Jobs : job[j].status = "none" /\ job[j].found = 0 /\ missing[j] = {}
    BY DEF Init, NoJob
  <2>3. \A j \in Jobs : JobRight(job[j], missing[j], spent.revived) /\ job[j].found <= Found(j)
    BY <1>1, <2>2 DEF JobRight
  <2>. QED  BY <2>1, <2>2, <2>3 DEF JobsInv, Covers
<1>5. GroupsInv
  <2>1. \A j \in Jobs, p \in Prints : Shape(group[j][p]) /\ Sound(group[j][p])
    BY DEF Init, Shape, Sound
  <2>2. \A e \in Runners : runner[e].item = {}
    BY DEF Init, Rest
  <2>. QED  BY <2>1, <2>2 DEF GroupsInv, ReadRight
<1>. QED  BY <1>3, <1>4, <1>5 DEF DedupeInv

\* Steps that do not write groups.
LEMMA GroupsAlone ==
  ASSUME TypeInv, JobsInv, GroupsInv, NEW e \in Runners, NEW q \in RunnerRecord,
         runner' = [runner EXCEPT ![e] = q], q.item = {}, UNCHANGED <<group, raced>>
  PROVE  GroupsInv'
<1>1. runner'[e] = q /\ \A o \in Runners \ {e} : runner'[o] = runner[o]
  BY RunnerTypes
<1>2. \A o \in Runners : \/ runner'[o].item = {}
                         \/ /\ runner'[o].item = runner[o].item
                            /\ runner'[o].job = runner[o].job /\ runner'[o].at = runner[o].at
  BY <1>1
<1>. QED  BY <1>2, GroupsKept

LEMMA GroupsLetGo ==
  ASSUME TypeInv, JobsInv, GroupsInv, NEW e \in Runners, NEW q \in RunnerRecord, LetsGo(e, q),
         UNCHANGED <<group, raced>>
  PROVE  GroupsInv'
<1>1. q.item = {} /\ runner' = [runner EXCEPT ![e] = q]
  BY DEF LetsGo, Local, Working
<1>. QED  BY <1>1, GroupsAlone

\* What every runner does.
LEMMA RunnerPreserves ==
  ASSUME DedupeInv, NEW e \in Runners, RunnerStep(e) \/ AnalysisFails(e) \/ Crash(e)
  PROVE  DedupeInv'
<1>1. TypeInv /\ JobsInv /\ GroupsInv /\ \A o \in Runners : Local(runner[o])
  BY DEF DedupeInv, JobsInv
<1>2. CASE SkipInternal(e)
  <2>1. runner[e].item = {}
    BY <1>1, <1>2 DEF SkipInternal, Local
  <2>2. runner'[e].item = {} /\ \A o \in Runners \ {e} : runner'[o] = runner[o]
    <3>1. runner \in [Runners -> RunnerRecord]
      BY <1>1 DEF TypeInv
    <3>. QED  BY <1>2, <2>1, <3>1 DEF SkipInternal, RunnerRecord
  <2>3. \A o \in Runners : \/ runner'[o].item = {}
                           \/ /\ runner'[o].item = runner[o].item
                              /\ runner'[o].job = runner[o].job /\ runner'[o].at = runner[o].at
    BY <2>2
  <2>4. UNCHANGED <<group, raced>>
    BY <1>2 DEF SkipInternal, history
  <2>5. GroupsInv'
    BY <1>1, <2>3, <2>4, GroupsKept
  <2>. QED  BY <1>1, <1>2, <2>5, TypesSkip, JobsSkip DEF DedupeInv
<1>3. CASE Analyse(e)
  BY <1>1, <1>3, TypesAnalyse, JobsAnalyse, GroupsAnalyse DEF DedupeInv
<1>4. CASE CommitRecord(e)
  BY <1>1, <1>4, TypesCommit, JobsCommit, GroupsCommit DEF DedupeInv
<1>5. CASE StopAtLimit(e) \/ EndChunk(e) \/ AnalysisFails(e)
  <2>1. PICK r, q \in RunnerRecord, j \in Jobs, mine, new \in Rows : EndsAs(e, r, q, j, mine, new)
    BY <1>1, <1>5, Ended
  <2>2. q = Returned(e, mine) /\ runner' = [runner EXCEPT ![e] = q]
    BY <2>1 DEF EndsAs
  <2>3. q.item = {}
    BY <2>2, RestRight DEF Returned, Rest, RunnerRecord
  <2>4. UNCHANGED <<group, raced>>
    BY <1>5 DEF StopAtLimit, EndChunk, AnalysisFails, history
  <2>5. GroupsInv'
    BY <1>1, <2>2, <2>3, <2>4, GroupsAlone
  <2>. QED  BY <1>1, <1>5, <2>5, TypesEnded, JobsEnded DEF DedupeInv
<1>6. CASE InsertCollides(e) \/ Crash(e)
  <2>1. PICK q \in RunnerRecord : LetsGo(e, q)
    BY <1>1, <1>6, Dropped
  <2>2. UNCHANGED <<group, raced>>
    BY <1>6 DEF InsertCollides, Crash, history
  <2>3. GroupsInv'
    BY <1>1, <2>1, <2>2, GroupsLetGo
  <2>. QED  BY <1>1, <1>6, <2>3, TypesDropped, JobsDropped DEF DedupeInv
<1>. QED  BY <1>2, <1>3, <1>4, <1>5, <1>6 DEF RunnerStep

LEMMA ContinuePreserves ==
  ASSUME DedupeInv, NEW e \in Runners, NEW j \in Jobs, Continue(e, j)
  PROVE  DedupeInv'
<1>1. TypeInv /\ JobsInv /\ GroupsInv
  BY DEF DedupeInv
<1>2. PICK q \in RunnerRecord : LoadsAs(e, q, j)
  BY <1>1, Loaded
<1>3. q.item = {} /\ runner' = [runner EXCEPT ![e] = q]
  BY <1>2 DEF LoadsAs
<1>4. GroupsInv'
  BY <1>1, <1>3, GroupsAlone DEF Continue
<1>. QED  BY <1>1, <1>4, TypesContinue, JobsContinue DEF DedupeInv

LEMMA WorkerPreserves ==
  ASSUME DedupeInv, WorkerStep
  PROVE  DedupeInv'
<1>1. TypeInv /\ JobsInv /\ GroupsInv /\ Worker \in Runners /\ \A o \in Runners : Local(runner[o])
  BY DEF DedupeInv, JobsInv, Runners
<1>2. CASE BeginSlice
  <2>1. PICK q \in RunnerRecord : LetsGo(Worker, q)
    BY <1>1, <1>2, Started
  <2>2. GroupsInv'
    BY <1>1, <1>2, <2>1, GroupsLetGo DEF BeginSlice
  <2>. QED  BY <1>1, <1>2, <2>2, TypesBegin, JobsBegin DEF DedupeInv
<1>3. CASE WorkerContinues
  <2>1. runner[Worker].job \in Jobs
    BY <1>1, <1>3 DEF WorkerContinues, Local
  <2>. QED  BY <1>1, <1>3, <2>1, ContinuePreserves DEF WorkerContinues
<1>4. CASE AnswerEnded \/ Report
  <2>1. PICK q \in RunnerRecord : LetsGo(Worker, q)
    BY <1>1, <1>4, Dropped
  <2>2. UNCHANGED <<group, raced>>
    BY <1>4 DEF AnswerEnded, Report, history
  <2>3. GroupsInv'
    BY <1>1, <2>1, <2>2, GroupsLetGo
  <2>. QED  BY <1>1, <1>4, <2>3, TypesDropped, JobsDropped DEF DedupeInv
<1>5. CASE RunnerStep(Worker)
  BY <1>1, <1>5, RunnerPreserves
<1>. QED  BY <1>2, <1>3, <1>4, <1>5 DEF WorkerStep

LEMMA RowPreserves ==
  ASSUME DedupeInv, NEW f \in Files, RowRemoved(f) \/ RowRevived(f)
  PROVE  DedupeInv'
<1>1. TypeInv /\ JobsInv /\ GroupsInv
  BY DEF DedupeInv
<1>2. UNCHANGED <<group, raced, runner>>
  BY DEF RowRemoved, RowRevived, history
<1>3. GroupsInv'
  BY <1>1, <1>2, GroupsKept
<1>. QED  BY <1>1, <1>3, TypesRow, JobsRemoved, JobsRevived DEF DedupeInv

LEMMA NextPreserves ==
  ASSUME DedupeInv, [Next]_vars
  PROVE  DedupeInv'
<1>1. ASSUME NEW e \in Callers, RunnerStep(e) \/ CallerContinues(e)
      PROVE  DedupeInv'
  <2>1. e \in Runners
    BY DEF Runners
  <2>2. CallerContinues(e) => task.job \in Jobs /\ Continue(e, task.job)
    BY DEF CallerContinues, DedupeInv, TypeInv
  <2>. QED  BY <1>1, <2>1, <2>2, RunnerPreserves, ContinuePreserves
<1>2. CASE UNCHANGED vars
  <2>1. UNCHANGED <<live, job, group, task, runner, missing, raced, spent>>
    BY <1>2 DEF vars
  <2>2. TypeInv' = TypeInv /\ GroupsInv' = GroupsInv
    BY <2>1 DEF TypeInv, GroupsInv, ReadRight
  <2>3. JobsInv' = JobsInv
    BY <2>1 DEF JobsInv, Found, EverOf
  <2>. QED  BY <2>2, <2>3 DEF DedupeInv
<1>. QED  BY <1>1, <1>2, WorkerPreserves, RunnerPreserves, RowPreserves DEF Next

\* The invariant holds throughout: what the runners of one job know, what is left to visit and
\* what the groups hold stay in agreement, whatever order they commit in.
THEOREM DedupeInvariant == Spec => []DedupeInv
<1>1. DedupeInv /\ [Next]_vars => DedupeInv'
  BY NextPreserves
<1>. QED  BY InitRight, <1>1, PTL DEF Spec

\* Every variable keeps its shape; a group holds only items of its fingerprint.
THEOREM DedupeTypes == Spec => []TypeOK
<1>1. DedupeInv => TypeOK
  <2>. SUFFICES ASSUME DedupeInv PROVE TypeOK
    OBVIOUS
  <2>1. TypeInv
    BY DEF DedupeInv
  <2>2. ASSUME NEW j \in Jobs, NEW p \in Prints, NEW k \in DOMAIN group[j][p].items
        PROVE  Fingerprint[group[j][p].items[k].file] = p
    <3>1. group[j][p].items \in Seq(Members(p))
      BY <2>1 DEF TypeInv, Groups
    <3>2. group[j][p].items[k] \in Members(p)
      BY <2>2, <3>1, ElementOfSeq, LenProperties
    <3>. QED  BY <3>2 DEF Members
  <2>3. \A e \in Runners : /\ runner[e].at \in {"rest", "begun", "rows", "analysed", "limit", "report"}
                           /\ runner[e].known \in Rows /\ runner[e].mine \in Rows
    BY <2>1 DEF TypeInv, RunnerRecord
  <2>. QED  BY <2>1, <2>2, <2>3 DEF TypeInv, TypeOK
<1>. QED  BY <1>1, DedupeInvariant, PTL

\* A job that ended as complete below its limit has visited every candidate that is left, but
\* for as many as rows came back or were new since (continue_dedupe_job: the cursor, the count
\* of processed files and the total of the start, shared by runners without a lease).
THEOREM CompleteJobsCover == Spec => []JobCovers
<1>1. DedupeInv => JobCovers
  BY DEF DedupeInv, JobsInv, JobRight, JobCovers
<1>. QED  BY <1>1, DedupeInvariant, PTL

\* A group that was never read by two runners at once holds each file once, counts its
\* duplicates and keeps its best file (_upsert_group_membership, _refresh_group_summary).
THEOREM GroupsAreSound == Spec => []GroupsSound
<1>1. DedupeInv => GroupsSound
  BY DEF DedupeInv, GroupsInv, GroupsSound, Sound, Distinct, BestKept
<1>. QED  BY <1>1, DedupeInvariant, PTL
=============================================================================
