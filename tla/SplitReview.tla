----------------------------- MODULE SplitReview -----------------------------
(***************************************************************************)
(* The split of a PDF under review (SplitPdfPage.tsx,                      *)
(* SplitPdfPageStrip.tsx, processHistory.ts) with what it asks of the      *)
(* server: OCR, the proposal of segments and their application (pdf-       *)
(* split.service.ts).                                                      *)
(*                                                                         *)
(* One document goes through the page once, or is split without a review.  *)
(* A run of handleStart goes on when its page has been left; a review can  *)
(* be taken up again from the storage of the browser or from the process   *)
(* history. Of a segment the model has the pages, the document type and    *)
(* whether it has a name; person and values of a segment come and go with  *)
(* its type. Meanwhile document types are created and deleted, the PDF may *)
(* be archived, purged or split from another page, as any document, and    *)
(* the server may stop after any of the parts it creates.                  *)
(***************************************************************************)
EXTENDS Naturals, Sequences, SequencesExt, FiniteSets

CONSTANTS
  PageCount,    \* pages of the PDF
  Proposals,    \* what Gemini may answer: sequences of segments, in any order
  MaxPolls,     \* maxAttempts of pollOcrUntilDone; 180 in the code
  TypeIds,      \* document types the company may create
  NoType,
  NoReview

VARIABLES
  view,         \* the step the page shows; "away" when another page is shown
  own,          \* whether it is the page that has started the task
  task,         \* where handleStart is
  call,         \* the call of a provider the task waits for
  polls,        \* attempts of the poll of the OCR
  segments,     \* the segments under review
  documentTypes, \* the document types the page has loaded
  strip,        \* the strip of pages of a review: its PDF is loading, shown or missing
  types,        \* the document types of the company
  sent,         \* the segments of an apply request; << >> when there is none
  stage,        \* where the server is with a split: "none", "creating", "answered"
  asked,        \* the segments it splits into
  made,         \* the parts it has created of them
  saved,        \* the review in localStorage
  offered,      \* the review that the page offers to resume
  record,       \* the record of the process history, with its review
  source,       \* the PDF on the server: "live", "archived", "gone" if another page had it
                \* purged or split, "removed" by the split, or "hollow", without its object
  lost          \* history: the answer to an apply request was lost

client == <<view, own, segments, documentTypes, strip>>
storage == <<saved, offered, record>>
server == <<stage, asked, made>>
request == <<sent, server, lost>>
running == <<task, call, polls>>
splitVars == <<client, storage, request, running, source, types>>

Span == [start : 0 .. PageCount + 1, end : 0 .. PageCount + 1]
Pages(s) == s.start .. s.end

ASSUME PagesAssumption == PageCount \in Nat \ {0}
ASSUME ProposalsAssumption == Proposals \subseteq Seq(Span) \ {<< >>}
ASSUME TypesAssumption == NoType \notin TypeIds
ASSUME PollsAssumption == MaxPolls \in Nat \ {0}

Unused == [phase |-> "unused", attempt |-> 0, types |-> {}]
CalledWith(read) == [phase |-> "out", attempt |-> 0, types |-> read]
NoRecord == [status |-> "none", review |-> NoReview]

SplitInit ==
  /\ view = "pick" /\ own = FALSE /\ segments = << >>
  /\ documentTypes = {} /\ strip = "none"
  /\ types = [t \in TypeIds |-> "none"]
  /\ saved = NoReview /\ offered = NoReview /\ record = NoRecord
  /\ sent = << >> /\ stage = "none" /\ asked = << >> /\ made = << >> /\ lost = FALSE
  /\ task = "none" /\ call = Unused /\ polls = 0
  /\ source = "none"

-----------------------------------------------------------------------------
(* Segments.  Sorting is stable, as it is in JavaScript. *)

\* The k-th of them is the one that k - 1 of them come before.
SortedBy(q, Before(_, _)) ==
  LET first(i) == {j \in DOMAIN q : Before(q[j], q[i]) \/ (~Before(q[i], q[j]) /\ j < i)}
  IN  [k \in DOMAIN q |-> q[CHOOSE i \in DOMAIN q : Cardinality(first(i)) = k - 1]]

StartsBefore(s, t) == s.start < t.start
ComesBefore(s, t) == s.start < t.start \/ (s.start = t.start /\ s.end < t.end)

sortSegments(q) == SortedBy(q, StartsBefore)

\* q with n segments from the i-th on replaced by r.
Splice(q, i, n, r) == SubSeq(q, 1, i - 1) \o r \o SubSeq(q, i + n, Len(q))

segmentIndexForPage(q, p) == SelectInSeq(q, LAMBDA s : p \in Pages(s))

\* A merged segment reaches from the start of the first to the end of the second and
\* keeps the type of the first.
Merged(s, t) == [s EXCEPT !.end = t.end, !.named = s.named \/ t.named]

\* Mutant of StartAfter: the boundary belongs to both.
StartAtBoundary(prevEnd, page) == IF page < prevEnd THEN prevEnd + 1 ELSE page

StartAfter(prevEnd, page) == IF page <= prevEnd THEN prevEnd + 1 ELSE page

\* Each page belongs to one segment at most: a later segment gives way, and one
\* that has no page left is dropped.
AddSegment(acc, s) ==
  LET from == IF s.start = 0 THEN 1 ELSE s.start
      to == IF s.end = 0 THEN 1 ELSE s.end
      start == StartAfter(acc.prevEnd, from)
  IN  IF to < start
      THEN [acc EXCEPT !.adjusted = TRUE]
      ELSE [segments |-> Append(acc.segments, [s EXCEPT !.start = start, !.end = to]),
            prevEnd |-> to,
            adjusted |-> acc.adjusted \/ start # from]

normalizeNonOverlappingSegments(q) ==
  FoldLeft(AddSegment, [segments |-> << >>, prevEnd |-> 0, adjusted |-> FALSE],
           SortedBy(q, ComesBefore))

\* The server takes segments that have names, lie in the document and do not
\* overlap; neighbours are compared in the order of their first pages.
validateSegments(q) == q # << >> /\ \A i \in DOMAIN q : q[i].named

InDocument(q) ==
  \A i \in DOMAIN q : 1 <= q[i].start /\ q[i].start <= q[i].end /\ q[i].end <= PageCount

Apart(q) ==
  LET r == sortSegments(q) IN \A i \in 2 .. Len(r) : r[i].start > r[i - 1].end

Accepts(q) == validateSegments(q) /\ InDocument(q) /\ Apart(q)

\* Mutant of applyPdfSplit: the parts are cut in the order of their pages.
applyPdfSplitSorted(q) == [i \in DOMAIN q |-> [pages |-> Pages(sortSegments(q)[i]), of |-> q[i]]]

\* The parts are cut in the order of the request, and the i-th part is filed under
\* the name, the person and the values of the i-th segment.
applyPdfSplit(q) == [i \in DOMAIN q |-> [pages |-> Pages(q[i]), of |-> q[i]]]

-----------------------------------------------------------------------------
(* Document types of the company. *)

listDocumentTypes == {t \in TypeIds : types[t] = "live"}

createDocumentType ==
  /\ \E t \in TypeIds : types[t] = "none" /\ types' = [types EXCEPT ![t] = "live"]
  /\ UNCHANGED <<client, storage, request, running, source>>

\* Documents of the type lose it.
deleteDocumentType ==
  /\ \E t \in TypeIds : types[t] = "live" /\ types' = [types EXCEPT ![t] = "deleted"]
  /\ UNCHANGED <<client, storage, request, running, source>>

\* An answer of Gemini is taken if each of its segments has one of the types that
\* were read for the prompt.
validateSegmentsWithTypes(q, read) == \A i \in DOMAIN q : q[i].type \in read

proposeSplitWithGemini(read) ==
  {q \in UNION {{[i \in DOMAIN p |-> [start |-> p[i].start, end |-> p[i].end,
                                       named |-> TRUE, type |-> f[i]]] :
                   f \in [DOMAIN p -> TypeIds \cup {NoType}]} : p \in Proposals} :
     validateSegmentsWithTypes(q, read)}

-----------------------------------------------------------------------------
(* The run of handleStart.  It writes to the storage of the browser whether or *)
(* not its page is still there; the page sees of it what it has started.       *)

Start ==
  /\ view = "pick" /\ task = "none" /\ source = "none"
  /\ view' = "processing" /\ own' = TRUE
  /\ task' = "upload"
  /\ record' = [NoRecord EXCEPT !.status = "processing"]
  /\ UNCHANGED <<segments, documentTypes, strip, saved, offered, call, polls, request, source, types>>

\* A PDF with a text of its own needs no OCR.
Uploaded ==
  /\ task = "upload"
  /\ source' = "live"
  /\ \/ task' = "ocr" /\ call' = CalledWith({})
     \/ task' = "load" /\ call' = Unused
  /\ UNCHANGED <<client, storage, request, polls, types>>

\* A record that was removed meanwhile does not come back.
updateProcessRecord(r) == record' = IF record = NoRecord THEN record ELSE r

EndTask == task' = "none" /\ call' = Unused /\ polls' = 0

\* The catch of handleStart.
Fail ==
  /\ EndTask
  /\ updateProcessRecord([record EXCEPT !.status = "failed"])
  /\ view' = IF own THEN "pick" ELSE view
  /\ UNCHANGED <<own, segments, documentTypes, strip, saved, offered, request, source, types>>

\* No connection, an error of the server, no text, nothing proposed.
TaskFails == task # "none" /\ Fail

\* Of the errors of a provider, Mistral's are retried but for a refused key and a
\* timeout, and Gemini's if they may pass.
Errors == {"key", "timeout", "busy", "broken", "refused"}
Retried(error) == IF task = "ocr" THEN error \notin {"key", "timeout"}
                                  ELSE error \in {"timeout", "busy", "broken"}

CallSucceeds ==
  /\ call.phase = "out"
  /\ call' = [call EXCEPT !.phase = "done"]
  /\ UNCHANGED <<client, storage, request, task, polls, source, types>>

\* Three attempts are made.
CallFails ==
  /\ call.phase = "out"
  /\ \E error \in Errors :
       call' = [call EXCEPT !.phase =
                  IF Retried(error) /\ call.attempt < 2 THEN "pause" ELSE "failed"]
  /\ UNCHANGED <<client, storage, request, task, polls, source, types>>

\* Mutant of CallAgain: attempts are not counted.
CallForEver ==
  /\ call.phase = "pause"
  /\ call' = [call EXCEPT !.phase = "out"]
  /\ UNCHANGED <<client, storage, request, task, polls, source, types>>

CallAgain ==
  /\ call.phase = "pause"
  /\ call' = [call EXCEPT !.phase = "out", !.attempt = call.attempt + 1]
  /\ UNCHANGED <<client, storage, request, task, polls, source, types>>

\* The client asks for the status of the OCR until it is final, its attempts are
\* used up, or there is no document any more; an archived one has a status.
PollOcr ==
  /\ task = "ocr"
  /\ CASE call.phase = "done" /\ source # "gone" ->
            /\ task' = "load" /\ call' = Unused
            /\ UNCHANGED <<client, storage, request, polls, source, types>>
       [] call.phase = "failed" \/ source = "gone" \/ (call.phase # "done" /\ polls + 1 >= MaxPolls) ->
            Fail
       [] OTHER ->
            /\ polls' = polls + 1
            /\ UNCHANGED <<client, storage, request, task, call, source, types>>

\* Types that cannot be loaded are as none; without the keys the run fails.
ConfigLoaded ==
  /\ task = "load"
  /\ task' = "propose"
  /\ documentTypes' \in IF own THEN {listDocumentTypes, {}} ELSE {documentTypes}
  /\ UNCHANGED <<view, own, segments, strip, storage, request, call, polls, source, types>>

\* The server reads the types once more, and asks Gemini if there are any and the
\* document is not archived.
splitPdfPropose ==
  /\ task = "propose" /\ call = Unused
  /\ IF source # "live" \/ listDocumentTypes = {}
     THEN Fail
     ELSE /\ call' = CalledWith(listDocumentTypes)
          /\ UNCHANGED <<client, storage, request, task, polls, source, types>>

\* The proposal is saved for a later review, and reviewed if its page is there.
Proposed ==
  /\ task = "propose" /\ call.phase = "done"
  /\ \E q \in proposeSplitWithGemini(call.types) :
       /\ saved' = sortSegments(q)
       /\ updateProcessRecord([status |-> "review", review |-> sortSegments(q)])
       /\ IF own THEN view' = "review" /\ segments' = sortSegments(q) /\ strip' = "loading"
                 ELSE UNCHANGED <<view, segments, strip>>
  /\ EndTask
  /\ UNCHANGED <<own, documentTypes, offered, request, source, types>>

ProposalFails == task = "propose" /\ call.phase = "failed" /\ Fail

-----------------------------------------------------------------------------
(* The page. *)

\* What goes with a page that is left; of its review the storage keeps what it had.
Unmount ==
  /\ view' = "away" /\ own' = FALSE
  /\ segments' = << >> /\ documentTypes' = {} /\ strip' = "none" /\ offered' = NoReview

Leave ==
  /\ view # "away" /\ Unmount
  /\ UNCHANGED <<saved, record, request, running, source, types>>

\* A new page offers the review it finds in the storage, if it is not too old.
OfferSaved(review) ==
  /\ view = "away" /\ view' = "pick"
  /\ \E found \in {review, NoReview} : saved' = found /\ offered' = found
  /\ UNCHANGED <<own, segments, documentTypes, strip, record, request, running, source, types>>

Open == OfferSaved(saved)

\* The process history puts the review of its record into the storage, with the
\* age it has.
OpenFromHistory == record.status = "review" /\ OfferSaved(record.review)

\* Any record can be removed; all of those that have ended go together.
RemoveRecord ==
  /\ view = "away" /\ record # NoRecord
  /\ record' = NoRecord
  /\ UNCHANGED <<client, saved, offered, request, running, source, types>>

\* A review that is resumed has the types of its page, which a new page has not loaded.
handleResume ==
  /\ view = "pick" /\ offered # NoReview
  /\ view' = "review" /\ segments' = offered /\ offered' = NoReview /\ strip' = "loading"
  /\ UNCHANGED <<own, documentTypes, saved, record, request, running, source, types>>

handleDiscard ==
  /\ view = "pick" /\ offered # NoReview
  /\ saved' = NoReview /\ offered' = NoReview
  /\ UNCHANGED <<client, record, request, running, source, types>>

\* "Back" is disabled while an apply request of the page is under way.
GoBack ==
  /\ view = "review" /\ sent = << >>
  /\ view' = "pick" /\ segments' = << >> /\ strip' = "none"
  /\ saved' = NoReview
  /\ UNCHANGED <<own, documentTypes, offered, record, request, running, source, types>>

\* The address of the PDF is asked for, and refused when the document is gone.
StripAnswered ==
  /\ strip = "loading"
  /\ strip' \in IF source = "live" THEN {"shown", "missing"} ELSE {"missing"}
  /\ UNCHANGED <<view, own, segments, documentTypes, storage, request, running, source, types>>

\* A bound of the model: while a request is under way its segments are edited once.
OneEditPerRequest == sent = << >> \/ segments = sent

\* The segments can be edited at any time during the review, also while they are
\* being applied.
Edit(q) ==
  /\ view = "review" /\ OneEditPerRequest
  /\ segments' = sortSegments(q)
  /\ UNCHANGED <<view, own, documentTypes, strip, storage, request, running, source, types>>

\* A name that is deleted is as that of an included page, and not looked at.
handleSegmentNameChange(i) ==
  ~segments[i].named /\ Edit([segments EXCEPT ![i].named = TRUE])

handleSegmentDocTypeChange(i) ==
  \E t \in documentTypes : Edit([segments EXCEPT ![i].type = t])

\* The second half gets a name, and no type.
handleSplitAfterPage(p) ==
  LET i == segmentIndexForPage(segments, p)
  IN  /\ i > 0 /\ p < segments[i].end
      /\ Edit(Splice(segments, i, 1,
               <<[segments[i] EXCEPT !.end = p],
                 [segments[i] EXCEPT !.start = p + 1, !.named = TRUE, !.type = NoType]>>))

\* Also across pages that lie between the two and were excluded.
handleMergeCutAfterPage(p) ==
  LET i == SelectInSeq(segments, LAMBDA s : s.end = p)
  IN  /\ 0 < i /\ i < Len(segments)
      /\ Edit(Splice(segments, i, 2, <<Merged(segments[i], segments[i + 1])>>))

\* The pages of a segment go to the one before it, or after it for the first one.
handleRemoveSegment(i) ==
  /\ Len(segments) > 1
  /\ LET k == IF i = 1 THEN 1 ELSE i - 1
     IN  Edit(Splice(segments, k, 2, <<Merged(segments[k], segments[k + 1])>>))

excludePageFromSegments(p) ==
  LET i == segmentIndexForPage(segments, p)
      s == segments[i]
      before == IF s.start < p THEN <<[s EXCEPT !.end = p - 1]>> ELSE << >>
      after == IF p < s.end THEN <<[s EXCEPT !.start = p + 1]>> ELSE << >>
  IN  i > 0 /\ Edit(Splice(segments, i, 1, before \o after))

\* A page in a gap joins its two neighbours, or the one it has.
includePageInSegments(p) ==
  LET n == Len(segments)
      closes == SelectInSeq([k \in 1 .. n - 1 |-> k],
                  LAMBDA k : segments[k].end + 1 = p /\ segments[k + 1].start = p + 1)
      follows == SelectInSeq(segments, LAMBDA s : s.end + 1 = p)
      precedes == SelectInSeq(segments, LAMBDA s : s.start = p + 1)
  IN  /\ segmentIndexForPage(segments, p) = 0
      /\ CASE closes > 0 ->
                Edit(Splice(segments, closes, 2,
                  <<[segments[closes] EXCEPT !.end = segments[closes + 1].end]>>))
           [] closes = 0 /\ follows > 0 -> Edit([segments EXCEPT ![follows].end = p])
           [] closes = 0 /\ follows = 0 /\ precedes > 0 ->
                Edit([segments EXCEPT ![precedes].start = p])
           [] closes = 0 /\ follows = 0 /\ precedes = 0 ->
                n = 0 /\ Edit(<<[start |-> p, end |-> p, named |-> FALSE, type |-> NoType]>>)

togglePageExclude(p) == excludePageFromSegments(p) \/ includePageInSegments(p)

(* What the strip offers.  Its blocks are the segments and the gaps between them, *)
(* before the first and after the last up to the end of the document.             *)

buildLayoutBlocks ==
  (1 .. PageCount) \cup UNION {Pages(segments[i]) : i \in DOMAIN segments}

cutAfterPage(p) == \E k \in 1 .. Len(segments) - 1 : segments[k].end = p

renderBetweenPages(p) ==
  /\ p < PageCount
  /\ IF cutAfterPage(p) THEN handleMergeCutAfterPage(p) ELSE handleSplitAfterPage(p)

PageThumbColumnBlock(p) == togglePageExclude(p) \/ renderBetweenPages(p)

\* Without the pages only the fields of the segments can be edited.
SplitPdfPageStrip ==
  \/ strip = "shown" /\ \E p \in buildLayoutBlocks : PageThumbColumnBlock(p)
  \/ strip = "shown" /\ \E i \in DOMAIN segments : handleRemoveSegment(i)
  \/ \E i \in DOMAIN segments : handleSegmentNameChange(i) \/ handleSegmentDocTypeChange(i)

\* The request carries the normalized segments; the page shows them if they differ
\* because of an overlap.  One request is under way at a time (a bound of the
\* model: a page that was left and opened again could send another one).
handleApply ==
  LET normalized == normalizeNonOverlappingSegments(segments)
  IN  /\ view = "review" /\ sent = << >> /\ segments # << >>
      /\ segments' = IF normalized.adjusted THEN normalized.segments ELSE segments
      /\ sent' = normalized.segments
      /\ UNCHANGED <<view, own, documentTypes, strip, storage, server, lost, running, source, types>>

-----------------------------------------------------------------------------
(* The server splits the document. *)

\* Another page archives the PDF, an archive is purged, or another page splits it and
\* takes it away: to the server it is a document like any other.
removeElsewhere ==
  /\ source \in {"live", "archived", "hollow"}
  /\ source' \in {"archived", "gone"} \ {source}
  /\ UNCHANGED <<client, storage, request, running, types>>

\* Types and persons of the segments are taken as they come.
splitPdfApply ==
  /\ sent # << >> /\ stage = "none" /\ source = "live" /\ Accepts(sent)
  /\ stage' = "creating" /\ asked' = sent /\ made' = << >>
  /\ UNCHANGED <<client, storage, sent, lost, running, source, types>>

\* The source is gone, the segments are refused, or the server fails before it
\* has created anything.
Refused ==
  /\ sent # << >> /\ stage = "none"
  /\ sent' = << >>
  /\ UNCHANGED <<client, storage, server, lost, running, source, types>>

\* An upload that is split without a review takes the proposal as it comes, and
\* its parts get no type; what fails leaves the upload.
splitPdfAuto ==
  /\ source = "none" /\ task = "none" /\ listDocumentTypes # {}
  /\ source' = "live"
  /\ \/ UNCHANGED server
     \/ /\ stage' = "creating" /\ made' = << >>
        /\ \E q \in proposeSplitWithGemini(listDocumentTypes) :
             /\ Accepts(q)
             /\ asked' = [i \in DOMAIN q |-> [q[i] EXCEPT !.type = NoType]]
  /\ UNCHANGED <<client, storage, sent, lost, running, types>>

NextPart == applyPdfSplit(asked)[Len(made) + 1]

\* Mutant of CreatePart: a part whose type is gone is passed over.
CreatePartOrSkip ==
  /\ stage = "creating" /\ Len(made) < Len(asked)
  /\ made' = Append(made,
       IF NextPart.of.type \in listDocumentTypes \cup {NoType}
       THEN NextPart ELSE [NextPart EXCEPT !.pages = {}])
  /\ UNCHANGED <<client, storage, sent, stage, asked, lost, running, source, types>>

\* One part after the other is stored and filed; a type that has been deleted cannot
\* be referred to.
CreatePart ==
  /\ stage = "creating" /\ Len(made) < Len(asked)
  /\ NextPart.of.type \in listDocumentTypes \cup {NoType}
  /\ made' = Append(made, NextPart)
  /\ UNCHANGED <<client, storage, sent, stage, asked, lost, running, source, types>>

NoSplit == stage' = "none" /\ asked' = << >> /\ made' = << >>

\* What fails between two parts ends the request: the parts there are stay, and so
\* does the source.
PartFails ==
  /\ stage = "creating" /\ Len(made) < Len(asked)
  /\ sent' = << >> /\ NoSplit
  /\ UNCHANGED <<client, storage, lost, running, source, types>>

\* After the last part the OCR of all of them is started.  Then the source is kept,
\* removed, archived or not, or left without its object.
RemoveSource ==
  /\ stage = "creating" /\ Len(made) = Len(asked)
  /\ source' \in IF source = "gone" THEN {"gone"} ELSE {source, "removed", "hollow"}
  /\ IF sent = << >> THEN NoSplit ELSE stage' = "answered" /\ UNCHANGED <<asked, made>>
  /\ UNCHANGED <<client, storage, sent, lost, running, types>>

\* Mutant of Created: the storage keeps the review.
CreatedKeepsReview ==
  /\ stage = "answered"
  /\ Unmount /\ saved' = saved
  /\ updateProcessRecord([record EXCEPT !.status = "completed"])
  /\ sent' = << >> /\ NoSplit
  /\ UNCHANGED <<lost, running, source, types>>

Created ==
  /\ stage = "answered"
  /\ Unmount /\ saved' = NoReview
  /\ updateProcessRecord([record EXCEPT !.status = "completed"])
  /\ sent' = << >> /\ NoSplit
  /\ UNCHANGED <<lost, running, source, types>>

\* The connection breaks, or the browser is closed.
AnswerLost ==
  /\ stage = "answered"
  /\ sent' = << >> /\ NoSplit /\ lost' = TRUE
  /\ UNCHANGED <<client, storage, running, source, types>>

-----------------------------------------------------------------------------
Task ==
  \/ Start \/ Uploaded \/ TaskFails
  \/ CallSucceeds \/ CallFails \/ CallAgain \/ PollOcr
  \/ ConfigLoaded \/ splitPdfPropose \/ Proposed \/ ProposalFails

History == OpenFromHistory \/ RemoveRecord

Page ==
  \/ Leave \/ Open \/ handleResume \/ handleDiscard
  \/ StripAnswered \/ SplitPdfPageStrip \/ GoBack \/ handleApply

Server ==
  \/ createDocumentType \/ deleteDocumentType \/ removeElsewhere
  \/ splitPdfApply \/ Refused \/ splitPdfAuto
  \/ CreatePart \/ PartFails \/ RemoveSource \/ Created \/ AnswerLost

SplitNext == Task \/ History \/ Page \/ Server

SplitSpec == SplitInit /\ [][SplitNext]_splitVars

\* Uploads end and requests of the page are answered; so do the pauses of the poll; a
\* call of Gemini ends with an answer, an error or its timeout, and so do the
\* pauses between the attempts.  Nothing of this is assumed of a call of Mistral,
\* whose answer may stop in the middle: its timeout is cleared after the headers.
FairSplitSpec ==
  /\ SplitSpec
  /\ WF_splitVars(Uploaded)
  /\ WF_splitVars(PollOcr)
  /\ WF_splitVars(ConfigLoaded)
  /\ WF_splitVars(splitPdfPropose)
  /\ WF_splitVars(task = "propose" /\ (CallSucceeds \/ CallFails))
  /\ WF_splitVars(task = "propose" /\ CallAgain)
  /\ WF_splitVars(Proposed)
  /\ WF_splitVars(ProposalFails)

-----------------------------------------------------------------------------
(* Properties. *)

Segment == [start : Nat, end : Nat, named : BOOLEAN, type : TypeIds \cup {NoType}]
Review == Seq(Segment) \cup {NoReview}

SplitTypeOK ==
  /\ view \in {"pick", "processing", "review", "away"} /\ own \in BOOLEAN
  /\ task \in {"none", "upload", "ocr", "load", "propose"}
  /\ call \in [phase : {"unused", "out", "pause", "done", "failed"},
               attempt : 0 .. 2, types : SUBSET TypeIds]
  /\ call.phase = "pause" => call.attempt < 2
  /\ polls \in 0 .. MaxPolls
  /\ segments \in Seq(Segment)
  /\ documentTypes \subseteq TypeIds /\ strip \in {"none", "loading", "shown", "missing"}
  /\ types \in [TypeIds -> {"none", "live", "deleted"}]
  /\ sent \in Seq(Segment) /\ asked \in Seq(Segment)
  /\ stage \in {"none", "creating", "answered"}
  /\ made \in Seq([pages : SUBSET Nat, of : Segment])
  /\ saved \in Review /\ offered \in Review
  /\ record \in [status : {"none", "processing", "review", "completed", "failed"}, review : Review]
  /\ source \in {"none", "live", "archived", "gone", "removed", "hollow"} /\ lost \in BOOLEAN

\* "Each page belongs to at most one output file", every page of a file is one of
\* the document, and a file is filed under the segment its pages were reviewed in,
\* whatever the order of the segments and their overlaps were.
PartsAsReviewed ==
  \A i \in DOMAIN made :
    /\ made[i].of = asked[i]
    /\ made[i].pages # {} /\ made[i].pages \subseteq 1 .. PageCount
    /\ made[i].pages = Pages(asked[i])
    /\ \A k \in DOMAIN made : k # i => made[i].pages \cap made[k].pages = {}

\* No page that was reviewed is lost by the split: it takes the PDF, or its object, only
\* when each of its segments is in a file, also when a type of theirs was deleted, or
\* the PDF archived, between two files.
ReviewedIsFiled ==
  [][source' # source /\ source' \in {"removed", "hollow"} =>
       \A i \in DOMAIN asked :
         \E k \in DOMAIN made : Pages(asked[i]) \subseteq made[k].pages]_splitVars

\* What the page sends after any editing is refused only for what the page leaves
\* to its user: a segment without a name, or with pages the document does not have.
NormalizedIsAccepted ==
  sent # << >> =>
    Accepts(sent) \/ \E i \in DOMAIN sent : ~sent[i].named \/ sent[i].end > PageCount

\* A review that the storage or the process history offers has its document on the
\* server, unless the answer that would have ended it was lost, or another page has
\* archived or taken the document: nothing tells the review of that, and what is asked
\* of the server for it is answered with 404.
ResumableIsLive ==
  (saved # NoReview \/ record.status = "review") /\ stage # "answered" /\ ~lost
    => source \in {"live", "archived", "gone"}

\* A split that was started comes to its review or fails, whatever the providers do.
ProposalEnds == task # "none" ~> task = "none"
=============================================================================
