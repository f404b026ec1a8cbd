----------------------------- MODULE DocumentPane -----------------------------
(***************************************************************************)
(* What the documents page of a user keeps beside its list: the timers     *)
(* that poll the recognition of documents, the preview with the text and   *)
(* the history of the document opened, the selection with its bulk         *)
(* requests, and the dialog that asks for an extraction.  Answers come in  *)
(* any order, and state set for one document is still there for the next.  *)
(*                                                                         *)
(* An event and the effects the page runs after it are one action.  Which  *)
(* documents the list holds is the matter of DocumentTree, what the        *)
(* requests do that of OcrPipeline and DocumentStore.                      *)
(***************************************************************************)
EXTENDS Naturals, Sequences, FiniteSets, SequencesExt

CONSTANTS
  Docs, Keys, None,
  Calls,        \* places for requests on selected documents
  Generations,  \* bound on the timers of one document at a time
  Fetches,      \* bound on lists asked for and not shown
  Polls,        \* bound on polls asked for and not answered
  Operations,   \* bound on what the user begins
  Faults        \* bound on requests that fail

ASSUME DocsAssumption == IsFiniteSet(Docs) /\ None \notin Docs
ASSUME BoundsAssumption ==
  {Generations, Fetches, Polls, Operations, Faults} \subseteq Nat /\ Fetches # 0

VARIABLES
  stored, status,    \* the database: documents, and their recognition
  \* the page
  mounted, files, fetches, selected,
  ocrPolling,        \* of each document the timer registered for it
  ticking, polls,    \* timers that have not been cleared, and their requests
  loops,             \* documents to recognise one after the other
  preview, url, text, history,
  dialog,            \* on an extraction
  calls,             \* other requests
  \* history
  keysFor,           \* the document for which the keys of the dialog were chosen
  waiting,           \* documents whose recognition was asked for when the page was left
  stray,             \* addresses of others were there or under way when the preview opened
  begun, faults

server == <<stored, status>>
polling == <<ocrPolling, ticking, polls, loops>>
pane == <<preview, url, stray, text, history>>
asking == <<dialog, keysFor, calls>>
count == <<begun, faults>>
vars == <<server, mounted, files, fetches, selected, polling, pane, asking, waiting, count>>

\* Pending and processing are one here.
Status == {"none", "processing", "completed", "failed"}
InProgress == {"processing"}
List == [Docs -> Status \cup {"absent"}]
Timer == Docs \X (1 .. Generations)
Mode == {"document", "ocr", "split", "history"}
What == {"extract", "bulkExtract", "bulkMetadata", "delete", "bulkDelete"}

\* The document whose address the preview has, and the addresses asked for.
Url == [of : Docs \cup {None}, asked : [Docs -> Nat]]
NoUrl == [of |-> None, asked |-> [d \in Docs |-> 0]]

\* The text and its file, whether it is being loaded, an error, and what has been
\* asked for; the same of the history, whose requests may be cancelled.
Text == [of : Docs \cup {None}, loading : BOOLEAN, error : BOOLEAN, asked : [Docs -> Nat]]
History == [of : Docs \cup {None}, loading : BOOLEAN, error : BOOLEAN,
            asked : [Docs -> Nat], live : Docs \cup {None}]
NoText == [of |-> None, loading |-> FALSE, error |-> FALSE, asked |-> [d \in Docs |-> 0]]
NoHistory == [of |-> None, loading |-> FALSE, error |-> FALSE, asked |-> [d \in Docs |-> 0],
              live |-> None]

\* Nothing lies over the page.
OnPage == preview.file = None /\ ~dialog.open

Begin == mounted /\ begun < Operations /\ begun' = begun + 1
Fault == faults < Faults /\ faults' = faults + 1

-----------------------------------------------------------------------------
(* The timers. *)

Registered == {<<d, ocrPolling[d]>> : d \in {e \in Docs : ocrPolling[e] # 0}}

\* Numbers no timer of the document has any more.
Unused(d) == {g \in 1 .. Generations : <<d, g>> \notin ticking \cup Registered
                                     /\ \A p \in polls : p.timer # <<d, g>>}

\* Mutant of Cleared: only leaving the page clears timers.
ClearedOnLeave(gone) == gone

\* The timers an event and the effect after it clear: whenever a map takes the place
\* of the registered timers, the effect clears all that were in it.
Cleared(gone) == Registered \cup gone

\* Timers for the documents of starting that have none.
StartPolling(starting) ==
  LET new == {d \in starting : ocrPolling[d] = 0}
      fresh == [d \in new |-> CHOOSE g \in Unused(d) : TRUE]
  IN  IF new = {} THEN UNCHANGED <<ocrPolling, ticking>>
      ELSE /\ \A d \in new : Unused(d) # {}
           /\ ocrPolling' = [d \in Docs |-> IF d \in new THEN fresh[d] ELSE ocrPolling[d]]
           /\ ticking' = (ticking \ Cleared({})) \cup {<<d, fresh[d]>> : d \in new}

\* The documents of stopping are not registered any more.  The map is replaced, also
\* when none of them was.
StopPolling(stopping, gone) ==
  /\ ocrPolling' = [d \in Docs |-> IF d \in stopping THEN 0 ELSE ocrPolling[d]]
  /\ ticking' = ticking \ Cleared(gone)

\* The list changes, and with it documents in progress that are not polled begin to be.
ShowFiles(list) ==
  /\ files' = list
  /\ IF list = files THEN UNCHANGED <<ocrPolling, ticking>>
     ELSE StartPolling({d \in Docs : list[d] \in InProgress})

fetchFiles == fetches < Fetches /\ fetches' = fetches + 1

\* The timers of a page that has been left go on when something starts them.
Refetch == IF mounted THEN fetchFiles ELSE UNCHANGED fetches

\* Lists that have been overtaken are the matter of DocumentTree.
FilesAnswered ==
  /\ fetches > 0 /\ fetches' = fetches - 1
  /\ ShowFiles([d \in Docs |-> IF d \in stored THEN status[d] ELSE "absent"])
  /\ UNCHANGED <<server, mounted, selected, polls, loops, pane, asking, waiting, count>>

FilesFail ==
  /\ fetches > 0 /\ Fault /\ fetches' = fetches - 1
  /\ UNCHANGED <<server, mounted, files, selected, polling, pane, asking, waiting, begun>>

Tick(t) ==
  /\ t \in ticking /\ Cardinality(polls) < Polls
  /\ polls' = polls \cup {[timer |-> t, answer |-> "sent"]}
  /\ polls' # polls
  /\ UNCHANGED <<server, mounted, files, fetches, selected, ocrPolling, ticking, loops, pane,
                 asking, waiting, count>>

ReadStatus(p) ==
  /\ p.answer = "sent"
  /\ polls' = (polls \ {p}) \cup {[p EXCEPT !.answer = status[p.timer[1]]]}
  /\ UNCHANGED <<server, mounted, files, fetches, selected, ocrPolling, ticking, loops, pane,
                 asking, waiting, count>>

\* The recognition is over: its timer is cleared, and whatever timer the document
\* has by now is no longer registered.
PollEnds(p) ==
  /\ p.answer \in {"completed", "failed"}
  /\ polls' = polls \ {p}
  /\ IF mounted THEN StopPolling({p.timer[1]}, {p.timer})
     ELSE ticking' = ticking \ {p.timer} /\ UNCHANGED ocrPolling
  /\ Refetch
  /\ UNCHANGED <<server, mounted, files, selected, loops, pane, asking, waiting, count>>

PollGoesOn(p) ==
  /\ p.answer \in InProgress
  /\ polls' = polls \ {p}
  /\ IF mounted /\ files[p.timer[1]] # "absent"
     THEN ShowFiles([files EXCEPT ![p.timer[1]] = p.answer])
     ELSE UNCHANGED <<files, ocrPolling, ticking>>
  /\ UNCHANGED <<server, mounted, fetches, selected, loops, pane, asking, waiting, count>>

\* No recognition is known of the document, or the request fails.
PollFails(p) ==
  /\ \/ p.answer = "none" /\ UNCHANGED faults
     \/ Fault
  /\ polls' = polls \ {p}
  /\ IF mounted THEN StopPolling({p.timer[1]}, {p.timer})
     ELSE ticking' = ticking \ {p.timer} /\ UNCHANGED ocrPolling
  /\ UNCHANGED <<server, mounted, files, fetches, selected, loops, pane, asking, waiting, begun>>

-----------------------------------------------------------------------------
(* Recognition is asked for, of one document or of those selected in turn. *)

\* The button on a document, also in the preview of one without a text.
Offered(d) == files[d] \notin InProgress \cup {"absent"}

\* The server starts over whatever the status is.
Trigger(ds) ==
  IF ds = <<>> THEN UNCHANGED status ELSE status' = [status EXCEPT ![Head(ds)] = "processing"]

triggerOcr(d) ==
  /\ Begin /\ Len(loops) < Cardinality(Calls)
  /\ \/ OnPage /\ Offered(d)
     \/ preview.file = d /\ preview.mode \in {"ocr", "split"}
        /\ preview.status \notin InProgress \cup {"completed"}
  /\ Trigger(<<d>>)
  /\ loops' = Append(loops, <<d>>)
  /\ UNCHANGED <<stored, mounted, files, fetches, selected, ocrPolling, ticking, polls, pane,
                 asking, waiting, faults>>

\* Those selected that have never been recognised.
selectedOcrEligible == {d \in selected : files[d] = "none"}

triggerBulkOcr ==
  /\ Begin /\ Len(loops) < Cardinality(Calls) /\ OnPage
  /\ \E ds \in SetToSeqs(selectedOcrEligible) :
       ds # <<>> /\ Trigger(ds) /\ loops' = Append(loops, ds)
  /\ UNCHANGED <<stored, mounted, files, fetches, selected, ocrPolling, ticking, polls, pane,
                 asking, waiting, faults>>

\* The next of the loop is asked for when the answer is there.
Advance(i) ==
  /\ Trigger(Tail(loops[i]))
  /\ loops' = IF Len(loops[i]) = 1 THEN RemoveAt(loops, i) ELSE [loops EXCEPT ![i] = Tail(@)]
  /\ UNCHANGED <<stored, mounted, files, fetches, selected, polls, pane, asking, waiting, begun>>

\* After the page has been left the timer starts nevertheless, unless changes of the
\* page are still to be worked off; nothing registers it.
TriggerAnswered(i) ==
  LET d == Head(loops[i]) IN
  /\ IF mounted THEN StartPolling({d})
     ELSE /\ UNCHANGED ocrPolling
          /\ \/ UNCHANGED ticking
             \/ /\ ocrPolling[d] = 0 /\ Unused(d) # {}
                /\ ticking' = ticking \cup {<<d, CHOOSE g \in Unused(d) : TRUE>>}
  /\ Advance(i) /\ UNCHANGED faults

TriggerFails(i) == Fault /\ Advance(i) /\ UNCHANGED <<ocrPolling, ticking>>

\* The page is left: its effects clear what they know of, and of the rest nothing
\* is shown any more.
Leave ==
  /\ mounted /\ OnPage
  /\ mounted' = FALSE
  /\ ticking' = ticking \ Registered
  /\ waiting' = UNION {Range(loops[i]) : i \in 1 .. Len(loops)}
  /\ fetches' = 0 /\ calls' = [c \in Calls |-> None]
  /\ url' = NoUrl /\ text' = NoText /\ history' = NoHistory
  /\ UNCHANGED <<server, files, selected, ocrPolling, polls, loops, preview, stray, dialog,
                 keysFor, count>>

\* The server at work.
Recognise(d) ==
  /\ status[d] = "processing"
  /\ \/ status' = [status EXCEPT ![d] = "completed"] /\ UNCHANGED faults
     \/ status' = [status EXCEPT ![d] = "failed"] /\ Fault
  /\ UNCHANGED <<stored, mounted, files, fetches, selected, polling, pane, asking, waiting, begun>>

-----------------------------------------------------------------------------
(* The preview.  While it is open nothing else of the page can be reached. *)

\* Mutant of NeedsText: any text there is will do.
NeedsTextAtAll(x, p) ==
  /\ p.file # None /\ p.mode \in {"ocr", "split"} /\ p.status = "completed"
  /\ ~x.loading /\ x.of = None

NeedsText(x, p) ==
  /\ p.file # None /\ p.mode \in {"ocr", "split"} /\ p.status = "completed"
  /\ ~x.loading /\ x.of # p.file

\* The effect runs after every change of what it looks at.  An error is no reason
\* not to ask again.
LoadPreviewOcr(x, p) ==
  IF NeedsText(x, p)
  THEN [x EXCEPT !.loading = TRUE, !.error = FALSE, !.asked[p.file] = @ + 1]
  ELSE x

\* With every change of document or mode the request under way is cancelled.
LoadPreviewHistory(x, p) ==
  IF p.file # None /\ p.mode = "history"
  THEN [x EXCEPT !.loading = TRUE, !.error = FALSE, !.asked[p.file] = @ + 1, !.live = p.file]
  ELSE [x EXCEPT !.live = None]

Show(p) ==
  /\ preview' = p
  /\ text' = LoadPreviewOcr(text, p)
  /\ history' = LoadPreviewHistory(history, p)

\* What is opened is the document as the list had it.  Its address is asked for; what
\* was asked for another is not cancelled, and its address is not forgotten either.
openPreview(d) ==
  /\ Begin /\ OnPage /\ files[d] # "absent"
  /\ url' = [url EXCEPT !.asked[d] = @ + 1]
  /\ stray' = (url.of \notin {None, d} \/ \E e \in Docs \ {d} : url.asked[e] > 0)
  /\ Show([file |-> d, mode |-> "document", status |-> files[d]])
  /\ UNCHANGED <<server, mounted, files, fetches, selected, polling, asking, waiting, faults>>

setPreviewMode(mode) ==
  /\ preview.file # None /\ mode # preview.mode
  /\ Begin
  /\ Show([preview EXCEPT !.mode = mode])
  /\ UNCHANGED <<server, mounted, files, fetches, selected, polling, url, stray, asking, waiting,
                 faults>>

Nothing == [file |-> None, mode |-> "document", status |-> "none"]

closePreview ==
  /\ preview.file # None
  /\ preview' = Nothing /\ url' = [url EXCEPT !.of = None] /\ stray' = FALSE
  /\ text' = [text EXCEPT !.of = None, !.loading = FALSE, !.error = FALSE]
  /\ history' = [history EXCEPT !.of = None, !.loading = FALSE, !.error = FALSE, !.live = None]
  /\ UNCHANGED <<server, mounted, files, fetches, selected, polling, asking, waiting, count>>

\* The answer is taken whatever is open by now, or nothing.
UrlAnswered(d) ==
  /\ url.asked[d] > 0
  /\ \/ url' = [url EXCEPT !.of = d, !.asked[d] = @ - 1] /\ UNCHANGED faults
     \/ url' = [url EXCEPT !.of = None, !.asked[d] = @ - 1] /\ Fault
  /\ UNCHANGED <<server, mounted, files, fetches, selected, polling, preview, stray, text, history,
                 asking, waiting, begun>>

\* So is a text.
TextAnswered(d) ==
  LET x == [text EXCEPT !.of = d, !.loading = FALSE, !.asked[d] = @ - 1] IN
  /\ text.asked[d] > 0
  /\ text' = LoadPreviewOcr(x, preview)
  /\ UNCHANGED <<server, mounted, files, fetches, selected, polling, preview, url, stray, history,
                 asking, waiting, count>>

TextFails(d) ==
  LET x == [text EXCEPT !.error = TRUE, !.loading = FALSE, !.asked[d] = @ - 1] IN
  /\ text.asked[d] > 0 /\ Fault
  /\ text' = LoadPreviewOcr(x, preview)
  /\ UNCHANGED <<server, mounted, files, fetches, selected, polling, preview, url, stray, history,
                 asking, waiting, begun>>

HistoryAnswered(d) ==
  /\ history.live = d
  /\ \/ /\ history' = [history EXCEPT !.of = d, !.loading = FALSE, !.live = None, !.asked[d] = @ - 1]
        /\ UNCHANGED faults
     \/ /\ Fault
        /\ history' = [history EXCEPT !.of = None, !.error = TRUE, !.loading = FALSE,
                                      !.live = None, !.asked[d] = @ - 1]
  /\ UNCHANGED <<server, mounted, files, fetches, selected, polling, preview, url, stray, text,
                 asking, waiting, begun>>

HistoryCancelled(d) ==
  /\ history.asked[d] > IF history.live = d THEN 1 ELSE 0
  /\ history' = [history EXCEPT !.asked[d] = @ - 1]
  /\ UNCHANGED <<server, mounted, files, fetches, selected, polling, preview, url, stray, text,
                 asking, waiting, count>>

\* What the panes show besides a spinner or an error.
DocumentShown ==
  preview.file # None /\ preview.mode \in {"document", "split"} /\ url.of # None
TextShown ==
  /\ preview.file # None /\ preview.mode \in {"ocr", "split"} /\ preview.status = "completed"
  /\ ~text.loading /\ ~text.error /\ text.of # None
HistoryShown ==
  /\ preview.file # None /\ preview.mode = "history"
  /\ ~history.loading /\ ~history.error

-----------------------------------------------------------------------------
(* The selection, and requests on documents. *)

\* Only documents that are listed can be clicked, but what is selected stays so
\* when a later list goes without it.
handleToggleSelect(d) ==
  /\ Begin /\ OnPage /\ files[d] # "absent"
  /\ selected' = IF d \in selected THEN selected \ {d} ELSE selected \cup {d}
  /\ UNCHANGED <<server, mounted, files, fetches, polling, pane, asking, waiting, faults>>

handleToggleSelectAll ==
  LET listed == {d \in Docs : files[d] # "absent"} IN
  /\ Begin /\ OnPage
  /\ selected' = IF Cardinality(selected) = Cardinality(listed) THEN {} ELSE listed
  /\ UNCHANGED <<server, mounted, files, fetches, polling, pane, asking, waiting, faults>>

Ask(what, ds) ==
  \E c \in Calls :
    /\ calls[c] = None
    /\ calls' = [calls EXCEPT ![c] = [what |-> what, left |-> ds, failed |-> FALSE]]

handleDelete(d) ==
  /\ Begin /\ OnPage /\ files[d] # "absent"
  /\ Ask("delete", {d})
  /\ UNCHANGED <<server, mounted, files, fetches, selected, polling, pane, dialog, keysFor,
                 waiting, faults>>

\* Those selected are no longer polled, before it is known whether they can be deleted.
confirmDeleteSelected ==
  /\ Begin /\ OnPage /\ selected # {}
  /\ StopPolling(selected, {t \in Registered : t[1] \in selected})
  /\ Ask("bulkDelete", selected)
  /\ UNCHANGED <<server, mounted, files, fetches, selected, polls, loops, pane, dialog, keysFor,
                 waiting, faults>>

handleBulkMetadata ==
  /\ Begin /\ OnPage /\ selected # {}
  /\ Ask("bulkMetadata", {None})
  /\ UNCHANGED <<server, mounted, files, fetches, selected, polling, pane, dialog, keysFor,
                 waiting, faults>>

\* The keys of this dialog are forgotten whenever it opens, like those of the other.
handleBulkExtractMetadata ==
  LET eligible == {d \in selected : files[d] = "completed"} IN
  /\ Begin /\ OnPage /\ eligible # {}
  /\ Ask("bulkExtract", eligible)
  /\ UNCHANGED <<server, mounted, files, fetches, selected, polling, pane, dialog, keysFor,
                 waiting, faults>>

NoDialog == [open |-> FALSE, target |-> None, keys |-> {}, submitting |-> FALSE]

Opened(d) == [dialog EXCEPT !.open = TRUE, !.target = d, !.keys = {}]

openExtractMetadataDialog(d) ==
  /\ Begin /\ OnPage /\ files[d] = "completed"
  /\ dialog' = Opened(d)
  /\ UNCHANGED <<server, mounted, files, fetches, selected, polling, pane, keysFor, calls,
                 waiting, faults>>

toggleExtractKeyForFile(k) ==
  /\ Begin /\ dialog.open
  /\ dialog' = [dialog EXCEPT !.keys = IF k \in @ THEN @ \ {k} ELSE @ \cup {k}]
  /\ keysFor' = dialog.target
  /\ UNCHANGED <<server, mounted, files, fetches, selected, polling, pane, calls, waiting, faults>>

\* The button to cancel closes the dialog and no more; the other ways clear it.
closeExtractDialog ==
  /\ dialog.open
  /\ \/ dialog' = [dialog EXCEPT !.open = FALSE]
     \/ dialog' = NoDialog
  /\ UNCHANGED <<server, mounted, files, fetches, selected, polling, pane, keysFor, calls,
                 waiting, count>>

submitExtractMetadata ==
  /\ Begin /\ dialog.open /\ dialog.target # None /\ dialog.keys # {} /\ ~dialog.submitting
  /\ dialog' = [dialog EXCEPT !.submitting = TRUE]
  /\ Ask("extract", {dialog.target})
  /\ UNCHANGED <<server, mounted, files, fetches, selected, polling, pane, keysFor, waiting, faults>>

\* When the last document of a request has its answer, the dialog closes whichever
\* document it is open for, and the bulk requests clear what is selected by now.
Concluded(what, failed) ==
  LET single == what \in {"extract", "delete", "bulkMetadata"} IN
  /\ dialog' = CASE what # "extract" -> dialog
                 [] failed -> [dialog EXCEPT !.submitting = FALSE]
                 [] OTHER -> NoDialog
  /\ selected' = IF what \in {"extract", "delete"} \/ (what = "bulkMetadata" /\ failed)
                 THEN selected ELSE {}
  /\ IF single /\ failed THEN UNCHANGED fetches ELSE fetchFiles

Answered(c, d) ==
  LET call == calls[c] IN
  /\ call # None /\ d \in call.left
  /\ \E failed \in BOOLEAN :
       /\ IF failed THEN Fault ELSE UNCHANGED faults
       /\ stored' = IF failed \/ call.what \notin {"delete", "bulkDelete"} THEN stored
                    ELSE stored \ {d}
       /\ IF call.left = {d}
          THEN /\ calls' = [calls EXCEPT ![c] = None]
               /\ Concluded(call.what, failed)
          ELSE /\ calls' = [calls EXCEPT ![c].left = @ \ {d}, ![c].failed = @ \/ failed]
               /\ UNCHANGED <<dialog, selected, fetches>>
  /\ UNCHANGED <<status, mounted, files, polling, pane, keysFor, waiting, begun>>

-----------------------------------------------------------------------------
Init ==
  /\ stored = Docs /\ status \in [Docs -> {"none", "processing", "completed"}]
  /\ mounted = TRUE /\ files = [d \in Docs |-> "absent"] /\ fetches = 1 /\ selected = {}
  /\ ocrPolling = [d \in Docs |-> 0] /\ ticking = {} /\ polls = {} /\ loops = <<>>
  /\ preview = Nothing /\ url = NoUrl /\ stray = FALSE
  /\ text = NoText /\ history = NoHistory
  /\ dialog = NoDialog /\ keysFor = None /\ calls = [c \in Calls |-> None]
  /\ waiting = {} /\ begun = 0 /\ faults = 0

Requests ==
  \/ FilesAnswered \/ FilesFail
  \/ \E t \in ticking : Tick(t)
  \/ \E p \in polls : ReadStatus(p) \/ PollEnds(p) \/ PollGoesOn(p) \/ PollFails(p)
  \/ \E i \in 1 .. Len(loops) : TriggerAnswered(i) \/ TriggerFails(i)
  \/ \E d \in Docs : Recognise(d) \/ UrlAnswered(d) \/ TextAnswered(d) \/ TextFails(d)
                     \/ HistoryAnswered(d) \/ HistoryCancelled(d)
  \/ \E c \in Calls, d \in Docs \cup {None} : Answered(c, d)

User ==
  \/ \E d \in Docs : \/ triggerOcr(d) \/ openPreview(d) \/ handleToggleSelect(d)
                     \/ handleDelete(d) \/ openExtractMetadataDialog(d)
  \/ \E mode \in Mode : setPreviewMode(mode)
  \/ \E k \in Keys : toggleExtractKeyForFile(k)
  \/ handleToggleSelectAll \/ closePreview \/ triggerBulkOcr \/ confirmDeleteSelected \/ handleBulkMetadata
  \/ handleBulkExtractMetadata \/ closeExtractDialog \/ submitExtractMetadata
  \/ Leave

Next == Requests \/ User

Spec == Init /\ [][Next]_vars

-----------------------------------------------------------------------------
TypeOK ==
  /\ stored \subseteq Docs /\ status \in [Docs -> Status] /\ mounted \in BOOLEAN /\ files \in List
  /\ fetches \in 0 .. Fetches /\ selected \subseteq Docs
  /\ ocrPolling \in [Docs -> 0 .. Generations] /\ ticking \subseteq Timer
  /\ polls \subseteq [timer : Timer, answer : {"sent"} \cup Status]
  /\ loops \in Seq(Seq(Docs) \ {<<>>})
  /\ preview \in [file : Docs \cup {None}, mode : Mode, status : Status]
  /\ url \in Url /\ stray \in BOOLEAN /\ text \in Text /\ history \in History
  /\ dialog \in [open : BOOLEAN, target : Docs \cup {None}, keys : SUBSET Keys, submitting : BOOLEAN]
  /\ calls \in [Calls -> {None} \cup [what : What, left : SUBSET (Docs \cup {None}), failed : BOOLEAN]]
  /\ keysFor \in Docs \cup {None} /\ waiting \subseteq Docs
  /\ begun \in 0 .. Operations /\ faults \in 0 .. Faults

\* What is opened shows its own text and its own history, in whatever order answers for
\* others arrive, and the dialog would send the keys chosen for its document.  Nothing
\* ties the address of the document itself to what is open: the document shown is the
\* one opened unless an address of another was still under way, or had arrived with
\* nothing open, when it was opened.
OpenedShowsItsOwn ==
  /\ DocumentShown /\ ~stray => url.of = preview.file
  /\ TextShown => text.of = preview.file
  /\ HistoryShown => history.of = preview.file
  /\ dialog.open /\ dialog.keys # {} => keysFor = dialog.target

\* A document has at most the one timer that is registered for it, however starts,
\* ends and deletions overlap, so that leaving the page leaves none behind, but
\* those of recognitions that were being asked for.
TimersAreRegistered ==
  IF mounted THEN ticking \subseteq Registered ELSE \A t \in ticking : t[1] \in waiting
=============================================================================
