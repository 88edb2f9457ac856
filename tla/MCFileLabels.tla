---------------------------- MODULE MCFileLabels ----------------------------
(* Small instances of FileLabels. *)
EXTENDS FileLabels

CONSTANTS medical, appeal, legal, scenery, odd

MCLabels == {medical, appeal, legal, scenery}
MCFast   == {medical, legal}
MCOffice == {legal}
MCExtras == {{}, {appeal}}

\* a label, sure and unsure; no label, and one that is not offered, with a secondary
\* label to rescue it; one without a confidence; an appeal
MCAnswers ==
  [primary : {legal}, secondary : {{}}, conf : {"low", "high"}, action : {"keep"}]
  \cup [primary : {medical, odd}, secondary : {{appeal}}, conf : {"high"}, action : {"review"}]
  \cup [primary : {medical}, secondary : {{}}, conf : {"none"}, action : {"keep"}]
  \cup [primary : {appeal, "needs-review", "unknown"}, secondary : {{}}, conf : {"high"}, action : {"keep"}]

\* documents are not scenery, pictures not legal; what the cap leaves of the first
MCDocumentOffers == {{medical, appeal, legal, "text-message", "unknown", "needs-review"}, {medical, appeal}}
MCImageOffers    == {{medical, scenery, "unknown", "needs-review"}}

\* the folder of a label, medical/appeals, and the folder of a label that is not
\* offered for documents
MCFolders == {[primary |-> legal, secondary |-> {}], [primary |-> medical, secondary |-> {appeal}],
              [primary |-> scenery, secondary |-> {}]}
=============================================================================
