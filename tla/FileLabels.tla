------------------------------ MODULE FileLabels ------------------------------
(***************************************************************************)
(* The label of one file: how a classification decides it, where the note  *)
(* goes, and what becomes of the corrections that people make by moving    *)
(* the note.                                                               *)
(*  - The classifier (apps/classifier): a reviewed label, the fast path or *)
(*    the model decides, the arbiter may decide anew, every answer is      *)
(*    normalised, and the note is written to the folder of the label.      *)
(*  - The learning loop exports a moved note as a reviewed label           *)
(*    (vault_reconciliation.py).                                           *)
(*  - The worker classifies a file anew when its content changes and when  *)
(*    its note was moved and edited (classification_submission.py).        *)
(*                                                                         *)
(* Abstractions.                                                           *)
(*  - Models, parsers and heuristics answer anything of a few; a           *)
(*    confidence is missing, below 0.70, or not.                           *)
(*  - What a classification finds is chosen when it writes the note: once  *)
(*    it has looked for a reviewed row, nothing that changes is read.      *)
(*  - A folder is what its name, or the map of folders, says: a label and  *)
(*    further labels.                                                      *)
(*  - Time is whether the note is newer than the last completion.          *)
(*  - A note that is moved away and back between two exports is exported   *)
(*    again.  Notes stay below the two generated roots.                    *)
(*  - What is offered for a file is any of a few sets of labels.  The cap  *)
(*    of sixty cuts off what the fast path or a reviewed row may give,     *)
(*    "text-message", and first of all "unknown" and "needs-review".       *)
(*  - The note is among those that the worker's requeue looks at.          *)
(*  - A failed submission is tried again; the limit of attempts and the    *)
(*    races of two submissions are those of ClassificationQueue, crashes   *)
(*    of an export those of ShadowLearning.                                *)
(***************************************************************************)
EXTENDS Integers, FiniteSets

CONSTANTS
  Labels,           \* categories, besides those named below
  Medical, Appeal,  \* the two that share the folder medical/appeals
  Office, Scene,    \* a picture of an Office label may become one of Scene
  Odd,              \* no category
  Fast,             \* labels that the fast paths may give
  Extras,           \* secondary labels that answers carry
  Answers,          \* what a model may answer
  Kinds,            \* what the file may be, out of AllKinds
  DocumentOffers,   \* what select_candidate_categories may offer for a document,
  ImageOffers,      \* and for a picture, with or without text
  Folders,          \* folders that people move the note to
  MaxEvents,        \* bound: moves, edits, new contents and failures, together
  None

AllKinds == {"document", "sheet", "scan", "picture", "message"}
Images   == {"scan", "picture"}   \* a picture that has text is a scan
Special  == {"unknown", "needs-review"}
Category == Labels \cup Special \cup {"text-message"}

\* The file: its kind, its categories, whether the arbiter is enabled
Offers(kind) == IF kind \in Images THEN ImageOffers ELSE DocumentOffers

Files == UNION {[kind : {k}, offered : Offers(k), arbiter : BOOLEAN] : k \in Kinds}

Confidence == {"none", "low", "high"}

\* A result; "used" are its candidate_categories_used
Result == [primary : Category \cup {Odd}, secondary : SUBSET (Labels \cup {"appeals"}),
           conf : Confidence, action : {"keep", "review"}]

NoFolder == [primary |-> None, secondary |-> {}]
Rows     == [primary : Category, secondary : {{}, {Appeal}}]

ASSUME FileLabelsAssumption ==
  /\ {Medical, Appeal, Scene} \subseteq Labels /\ Office \subseteq Labels
  /\ Odd \notin Category /\ None \notin Category
  /\ Fast \subseteq Labels \ {Appeal}
  /\ Extras \subseteq SUBSET Labels
  /\ Answers \subseteq Result
  /\ Kinds \subseteq AllKinds
  /\ DocumentOffers \cup ImageOffers \subseteq (SUBSET Category) \ {{}}
  /\ Folders \subseteq Rows
  /\ MaxEvents \in Nat

VARIABLES
  file,           \* the file, out of Files
  current,        \* is the classification complete for the present content?
  job,            \* the active job: none, or one for the present or an older content
  note,           \* the note and what its frontmatter says
  newer,          \* was the note written after the last completion?
  row,            \* the last reviewed row for the file
  known,          \* is the note exported as it is?
  task,           \* the classification under way
  wish,           \* history: the label of the folder that a person chose last
  heard,          \* history: was that exported?
  overtaken,      \* history: did a classification that had not heard of it end since?
  events

history == <<wish, heard, overtaken>>
vars    == <<file, current, job, note, newer, row, known, task, history, events>>

NoHint == [primary |-> "unknown", conf |-> "low", secondary |-> {}]
NoNote == [root |-> "none", folder |-> NoFolder, primary |-> None, secondary |-> {}, action |-> "keep"]
Rest   == [at |-> "rest", row |-> None, heard |-> FALSE, urged |-> FALSE, wish |-> None, cut |-> FALSE]

Init ==
  /\ file \in Files
  /\ current = FALSE /\ job = "none"
  /\ note = NoNote /\ newer = FALSE
  /\ row = None /\ known = FALSE
  /\ task = Rest
  /\ wish = None /\ heard = FALSE /\ overtaken = FALSE
  /\ events = 0

Event == events < MaxEvents /\ events' = events + 1

-----------------------------------------------------------------------------
(* Results and how they are normalised *)

Usable(label, allowed) == label \in allowed \ Special

\* normalize_vault_classification
Normalized(c, allowed, hint) ==
  LET good      == c.primary \in allowed \ {"unknown"}
      hinted    == ~ good /\ Usable(hint.primary, allowed)
      own       == {x \in c.secondary : Usable(x, allowed)}
      others    == IF own # {} THEN own ELSE {x \in hint.secondary : Usable(x, allowed)}
      rescued   == ~ good /\ ~ hinted /\ others # {}
      primary   == CASE good    -> c.primary
                     [] hinted  -> hint.primary
                     [] rescued -> CHOOSE x \in others : TRUE
                     [] "needs-review" \in allowed -> "needs-review"
                     [] OTHER   -> "unknown"
      guessed   == ~ rescued /\ (~ good \/ c.conf = "none")
      plain     == [c EXCEPT !.primary = primary,
                      !.secondary = ((@ \cup hint.secondary) \cap allowed) \ {"unknown", primary},
                      !.conf   = IF guessed THEN "low" ELSE IF @ = "none" THEN hint.conf ELSE @,
                      !.action = IF guessed THEN "review" ELSE @]
  IN  IF primary = Appeal
      THEN [plain EXCEPT !.primary = Medical, !.secondary = @ \cup {"appeals"}]
      ELSE plain

RequiresReview(c) == c.primary \in Special \/ c.conf # "high"

\* apply_text_message_override
AsMessage(c, allowed, f) ==
  LET plain == Normalized(c, allowed, NoHint)
  IN  IF f.kind # "message" THEN c
      ELSE [plain EXCEPT !.primary = "text-message",
                         !.secondary = (@ \cup {plain.primary}) \ (Special \cup {"text-message"}),
                         !.used = @ \cup ({plain.primary} \ Special) \cup {"text-message"}]

\* normalize_image_classification_result: what the caption says decides
Retouched(c, f) ==
  {c} \cup IF f.kind \in Images /\ c.primary \in Office
           THEN {[c EXCEPT !.primary = Scene, !.secondary = {}]} ELSE {}

\* The hint that a result is to the normalisation that follows
AsHint(c) == [primary |-> c.primary, conf |-> IF c.conf = "high" THEN "high" ELSE "low",
              secondary |-> c.secondary]

Using(c, used) == [primary |-> c.primary, secondary |-> c.secondary, conf |-> c.conf,
                   action |-> c.action, used |-> used]

-----------------------------------------------------------------------------
(* What a classification may find *)

Sure(primaries, actions) ==
  {Using([primary |-> p, secondary |-> s \ {p}, conf |-> "high", action |-> a], {p} \cup s \cup Special) :
     p \in primaries, s \in Extras, a \in actions}

\* classify_document_fast: sure of what it knows, or silent
DocumentResults == Sure(Fast, {"keep", "review"}) \cup Sure({"unknown"}, {"keep"}) \cup {None}

\* classify_spreadsheet_fast: never silent
SheetResults == Sure(Fast \cup {"unknown"}, {"keep"})

Heuristics(f) == IF f.kind = "sheet" THEN SheetResults ELSE DocumentResults

\* The heuristic's label is a further hint; that of a scan stays in classify_image
Seen(fast, f) == IF fast = None \/ f.kind \in Images THEN {} ELSE {fast.primary}

\* mistake: a result that is bound for review is taken all the same
TrustedAlways(fast, light, forced, f) ==
  fast # None /\ (light = "missing" \/ (light = "aligned" /\ ~ forced))

\* choose_live_decision and resolve_hybrid_document_decision: the fast path is taken
\* when LightGBM agrees or is missing, no rule forces the model, and the result is
\* not bound for review
Trusted(fast, light, forced, f) ==
  /\ fast # None
  /\ light = "missing" \/ (light = "aligned" /\ ~ forced)
  /\ ~ RequiresReview(AsMessage(fast, f.offered, f))

\* Draft and hint of the ways to a result, and whether the model was asked
Ways(f) ==
  {[fast |-> fast, asked |-> ~ Trusted(fast, light, forced, f),
    hint |-> [primary |-> IF light = "doubtful" THEN top
                          ELSE IF fast = None THEN "unknown" ELSE fast.primary,
              conf |-> IF light = "missing" THEN "low" ELSE conf,
              secondary |-> Seen(fast, f)]] :
     fast \in Heuristics(f), light \in {"missing", "aligned", "doubtful"},
     forced \in BOOLEAN, top \in Labels, conf \in {"low", "high"}}

\* Draft with its hint, after resolve_hybrid_document_decision
TrustedDrafts(f) ==
  {<<AsMessage(w.fast, f.offered, f), w.hint>> : w \in {x \in Ways(f) : ~ x.asked}}

\* classify_markdown
AskedDrafts(f) ==
  {<<AsMessage(Using(a, f.offered), f.offered, f), h>> :
     a \in Answers, h \in {w.hint : w \in {x \in Ways(f) : x.asked}}}

\* classify_image_vision
ShownDrafts(f) == {<<c, NoHint>> : c \in UNION {Retouched(Using(a, f.offered), f) : a \in Answers}}

\* build_reviewed_override_classification
ReviewedDrafts(r, f) ==
  {<<Using([primary |-> r.primary, secondary |-> r.secondary \ {r.primary}, conf |-> "high", action |-> "keep"],
           {r.primary} \cup r.secondary \cup f.offered),
     [primary |-> r.primary, conf |-> "low", secondary |-> Seen(fast, f)]>> : fast \in Heuristics(f)}

\* run_codex_final_arbiter: an arbiter that fails leaves the local result
Verdicts(local, list) == {local} \cup {Normalized(Using(a, list), list, AsHint(local)) : a \in Answers}

\* apply_codex_arbiter_if_enabled
Arbitrated(local, seen, f) ==
  IF f.arbiter THEN Verdicts(local, local.used \cup {local.primary} \cup local.secondary \cup seen \cup Special)
  ELSE {local}

\* vault_category_parts
Home(primary, secondary) ==
  [primary |-> primary,
   secondary |-> IF primary = Medical /\ {Appeal, "appeals"} \cap secondary # {} THEN {Appeal} ELSE {}]

\* write_obsidian_note
Written(c, f) ==
  LET final  == AsMessage(Normalized(c, c.used, AsHint(c)), c.used, f)
      unsure == final.conf # "high" \/ final.primary = "unknown"
  IN  [root |-> IF unsure THEN "review" ELSE "classified",
       folder |-> IF unsure THEN NoFolder ELSE Home(final.primary, final.secondary),
       primary |-> final.primary, secondary |-> final.secondary, action |-> final.action]

\* What decides: the fast path, the model, or a row
Deciders == [at : {"trusted", "asked"}, row : {None}] \cup [at : {"reviewed"}, row : Rows]

Drafts(by, f) ==
  CASE by.at = "trusted"  -> TrustedDrafts(f)
    [] by.at = "asked"    -> IF f.kind = "picture" THEN ShownDrafts(f) ELSE AskedDrafts(f)
    [] by.at = "reviewed" -> ReviewedDrafts(by.row, f)

\* What becomes of the drafts: the note, whether the arbiter decided it, and whether
\* the label of the draft was cut off from what is offered
Concluded(by, f) ==
  LET locals   == {[result |-> Normalized(d[1], f.offered, d[2]), seen |-> d[2].secondary,
                    cut |-> d[1].primary \notin f.offered] : d \in Drafts(by, f)}
      Notes(c) == {Written(d, f) : d \in Retouched(AsMessage(c, f.offered, f), f)}
      Ends(l)  == UNION {{[decided |-> c # l.result, cut |-> l.cut, note |-> n] : n \in Notes(c)} :
                           c \in Arbitrated(l.result, l.seen, f)}
  IN  UNION {Ends(l) : l \in locals}

\* All that a classification may find, by the file and by what decides
Outcomes == {[file |-> f, by |-> by, found |-> Concluded(by, f)] : f \in Files, by \in Deciders}

-----------------------------------------------------------------------------
(* What a note says by its place *)

\* _expected_generated_category_parts and the state that the action belongs to
InPlace ==
  /\ note.folder = Home(note.primary, note.secondary)
  /\ note.root = "classified" => note.action # "review"
  /\ note.root = "review" => note.action = "review"

\* _infer_label_from_folder_parts, _manual_feedback_entry: the folder speaks first
Said == [primary |-> IF note.folder = NoFolder THEN note.primary ELSE note.folder.primary,
         secondary |-> note.folder.secondary]

\* _row_is_effective_override: a row that repeats the note says nothing
Says ==
  /\ note.root # "none" /\ ~ InPlace
  /\ Said # [primary |-> note.primary, secondary |-> note.secondary]

\* collect_targeted_manual_feedback, and the conditions of the requeue; state.primary_label
\* is looked for in the record of the manifest, which has it elsewhere: it is never set
Urges == Says /\ Said.primary # note.primary /\ newer

-----------------------------------------------------------------------------
(* A classification: the reviewed row is looked up, the note written, the answer stored *)

Begin(at, reviewed) ==
  task' = [at |-> at, row |-> reviewed, heard |-> heard /\ ~ overtaken, urged |-> Urges, wish |-> wish,
           cut |-> FALSE]

Starts == task.at = "rest" /\ job # "none"

\* mistake: the reviewed rows are left to the prompt of the model
Unreviewed == TRUE

NotReviewed == row = None

\* find_reviewed_label_override
DecideByReview ==
  /\ Starts /\ file.kind # "picture"
  /\ row # None
  /\ Begin("reviewed", row)
  /\ UNCHANGED <<file, current, job, note, newer, row, known, history, events>>

TrustFastPath ==
  /\ Starts /\ file.kind # "picture"
  /\ NotReviewed
  /\ Begin("trusted", None)
  /\ UNCHANGED <<file, current, job, note, newer, row, known, history, events>>

\* A picture without text is shown to the vision model, whatever was reviewed
AskModel ==
  /\ Starts
  /\ file.kind = "picture" \/ NotReviewed
  /\ Begin("asked", None)
  /\ UNCHANGED <<file, current, job, note, newer, row, known, history, events>>

\* The model is unreachable, or answers no JSON: the job is queued again
Fail ==
  /\ task.at = "asked"
  /\ Event
  /\ task' = Rest
  /\ UNCHANGED <<file, current, job, note, newer, row, known, history>>

\* write_obsidian_note: the note is found by its source path, wherever it was moved
WriteNote ==
  /\ task.at \in {"reviewed", "trusted", "asked"}
  /\ \E o \in Outcomes :
       /\ o.file = file /\ o.by = [at |-> task.at, row |-> task.row]
       /\ \E end \in o.found :
            /\ note' = end.note
            /\ task' = [task EXCEPT !.at = IF end.decided THEN "arbitrated" ELSE "written",
                                    !.cut = end.cut]
  /\ newer' = TRUE /\ known' = FALSE
  /\ overtaken' = (overtaken \/ (wish # None /\ ~ task.heard))
  /\ UNCHANGED <<file, current, job, row, wish, heard, events>>

\* _persist_completed_classification
Store ==
  /\ task.at \in {"written", "arbitrated"}
  /\ current' = (job = "present")
  /\ job' = "none"
  /\ newer' = FALSE
  /\ task' = Rest
  /\ UNCHANGED <<file, note, row, known, history, events>>

-----------------------------------------------------------------------------
(* Corrections, jobs, people *)

\* sync_manual_note_feedback
Export ==
  /\ Says /\ ~ known
  /\ row' = Said
  /\ known' = TRUE
  /\ heard' = (wish # None /\ ~ overtaken)
  /\ UNCHANGED <<file, current, job, note, newer, task, wish, overtaken, events>>

\* mistake: only files that were never completed are looked at
RequeueIncomplete ==
  /\ job = "none"
  /\ Urges /\ ~ current
  /\ job' = "present"
  /\ UNCHANGED <<file, current, note, newer, row, known, task, history, events>>

\* mistake: the label that is never set is asked of every file
Nameless == current

\* Messages without a label, or whose note awaits review
Unlabelled == file.kind = "message" /\ current

\* enqueue_targeted_reclassification_from_manual_feedback: corrected notes, then messages
Requeue ==
  /\ job = "none"
  /\ Urges \/ Unlabelled
  /\ job' = "present"
  /\ UNCHANGED <<file, current, note, newer, row, known, task, history, events>>

\* enqueue_classification_backfill
Backfill ==
  /\ job = "none" /\ ~ current
  /\ job' = "present"
  /\ UNCHANGED <<file, current, note, newer, row, known, task, history, events>>

\* A person moves the note: its time of modification stays
Move ==
  /\ note.root # "none"
  /\ Event
  /\ \E root \in {"classified", "review"}, folder \in Folders \cup {NoFolder} :
       /\ <<root, folder>> # <<note.root, note.folder>>
       /\ note' = [note EXCEPT !.root = root, !.folder = folder]
       /\ wish' = folder.primary
  /\ known' = FALSE /\ heard' = FALSE /\ overtaken' = FALSE
  /\ UNCHANGED <<file, current, job, newer, row, task>>

\* A person writes in the note
Edit ==
  /\ note.root # "none"
  /\ Event
  /\ newer' = TRUE /\ known' = FALSE
  /\ UNCHANGED <<file, current, job, note, row, task, history>>

\* The refresh indexes a new content
Change ==
  /\ Event
  /\ current' = FALSE
  /\ job' = IF job = "none" THEN "none" ELSE "older"
  /\ UNCHANGED <<file, note, newer, row, known, task, history>>

Classify == DecideByReview \/ TrustFastPath \/ AskModel \/ WriteNote \/ Store
Seed     == Backfill \/ Requeue

Next == Classify \/ Fail \/ Seed \/ Export \/ Move \/ Edit \/ Change

Spec == Init /\ [][Next]_vars

\* The worker polls, the classifier answers, the learning loop goes round.
FairSpec == Spec /\ WF_vars(Classify) /\ WF_vars(Seed) /\ WF_vars(Export)

-----------------------------------------------------------------------------
(* Properties *)

(* Types of the variables. *)
TypeOK ==
  /\ file \in Files /\ {current, newer, known, heard, overtaken} \subseteq BOOLEAN
  /\ job \in {"none", "present", "older"}
  /\ note.root \in {"none", "classified", "review"}
  /\ {row, task.row} \subseteq Rows \cup {None}

\* Corrections that a classification can follow: to a label that is offered for the
\* file and that its kind does not replace
Followable(label) ==
  /\ file.kind \in {"document", "sheet"} /\ ~ file.arbiter
  /\ label \in file.offered \ (Special \cup {Appeal})

(* A classification that began after a person's correction was exported writes the
   note with the label that the person chose, whatever the fast path, the model, and
   the two normalisations of the result say (docs/prompts/classifier.md:173). *)
Sticks ==
  [][WriteNote /\ task.heard /\ Followable(task.wish)
       => note'.root = "classified" /\ note'.primary = task.wish]_vars

(* The same when the correction was not yet exported, though the worker asked for
   the classification because of it. *)
FollowsMove ==
  [][WriteNote /\ task.wish # None /\ task.urged /\ Followable(task.wish)
       => note'.root = "classified" /\ note'.primary = task.wish]_vars

\* The note was written without the model, a reviewed row or the arbiter
Unasked == WriteNote /\ task.at = "trusted" /\ task'.at # "arbitrated"

(* A note of a document or a spreadsheet goes to the review folder only when the
   model was asked about it, or a person or the arbiter decided, or the label was cut
   off from the offered ones: any other result that the later normalisation lets
   down was not taken from the fast path (issue #66 in docs/prompts/classifier.md). *)
AskedFirst ==
  [][Unasked /\ file.kind \notin Images /\ ~ task'.cut => note'.root # "review"]_vars

(* The same of every label: the fast path is given all categories, and what it is
   sure of may be none of the sixty that the result is then held against. *)
CutAskedFirst ==
  [][Unasked /\ file.kind \notin Images => note'.root # "review"]_vars

(* The same of a picture that was read as a document. *)
ScansAskedFirst ==
  [][Unasked /\ file.kind = "scan" => note'.root # "review"]_vars

(* A correction that was exported, and whose note was edited after the last
   completion, is followed in the end, unless the person thinks again: the requeue
   notices it, the classification finds it, and nothing that runs in between
   forgets it. *)
Honoured ==
  (Urges /\ heard /\ Followable(wish) /\ job = "none") ~> (note.primary = wish \/ ~ heard)

(* A file that nobody touches any more is left alone in the end, but for messages:
   neither the note that a classification writes nor the rows that are exported
   for it cause another classification. *)
Settles == file.kind # "message" => <>[](job = "none")
=============================================================================
