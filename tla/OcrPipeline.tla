----------------------------- MODULE OcrPipeline -----------------------------
(***************************************************************************)
(* The asynchronous OCR and metadata-extraction pipeline of one document:  *)
(* services/ocr.service.ts chained into                                    *)
(* services/metadata-from-ocr-extraction.service.ts, with the handlers     *)
(* that start it.  Documents share no OCR state, so one document is all    *)
(* there is; what interleaves on it are the server's concurrent calls.     *)
(*                                                                         *)
(* Every call of processDocumentOcr, and every manual extraction request,  *)
(* is a process of Calls.  A step of a call is what it does between two    *)
(* awaits that touch the shared row, so the value a call read at one await *)
(* may be stale at the next one.                                           *)
(***************************************************************************)
EXTENDS Naturals

CONSTANTS
  Calls,      \* the calls that may run on the document
  MaxFaults   \* bound on database errors and server restarts

ASSUME MaxFaultsAssumption == MaxFaults \in Nat

VARIABLES
  \* the files row of the document
  row,        \* "absent" before the upload, "live", "removed" by purge or split
  eligible,   \* its mime type and size pass the checks of processDocumentOcr
  ocr,        \* files.ocr_status
  markdown,   \* files.ocr_markdown: "null", "blank" (only white space) or "text"
  pending,    \* files.ocr_pending_metadata_key_ids names at least one key
  extract,    \* files.metadata_ai_extract_status
  \* the calls
  pc,         \* the await a call is at
  kind,       \* "ocr": processDocumentOcr, "manual": extractMetadataFromOcr
  snap,       \* pendingExtract, computed from the row a call loaded
  faults,     \* database errors and restarts so far
  \* history
  overlapped  \* a call began while another one was at work

file == <<row, eligible, ocr, markdown, pending, extract>>
vars == <<row, eligible, ocr, markdown, pending, extract, pc, kind, snap, faults, overlapped>>

Statuses == {"null", "pending", "processing", "completed", "failed"}
Settled == {"completed", "failed"}
Unsettled == {"pending", "processing"}

\* Where a call can be.  An idle call has not been made; "queue" is the upload
\* handler between the row's creation and the start of OCR; "load" to "save"
\* and "ocrfail" are processDocumentOcr, of which "ocr" and "body" are the request
\* to the provider and its answer; "chain", "mark" and "exfail" are
\* runPendingMetadataExtractionAfterOcr; "exload" to "finish" are
\* extractAndApplyMetadataFromOcr.
Labels == {"idle", "queue", "load", "reject", "start", "download", "ocr", "body", "save",
           "ocrfail", "chain", "mark", "exload", "gemini", "finish", "exfail", "done"}
Transfers == {"download", "body"}
Active(c) == pc[c] \notin {"idle", "done"}

-----------------------------------------------------------------------------
\* Where an exception thrown at a label is handled: the catch of
\* runPendingMetadataExtractionAfterOcr, the catch of processDocumentOcr, or the
\* caller, which only logs it (or answers with an error).
Handler(c) ==
  CASE pc[c] \in {"download", "ocr", "body", "save", "chain", "mark", "exfail"} -> "ocrfail"
    [] pc[c] \in {"exload", "gemini", "finish"} /\ kind[c] = "ocr" -> "exfail"
    [] OTHER -> "done"

Goto(c, l) == pc' = [pc EXCEPT ![c] = l]

\* An exception at the label of c.  The row is as the last completed update
\* left it.
Throw(c) ==
  /\ Goto(c, Handler(c))
  /\ UNCHANGED <<file, kind, snap, faults>>

\* prisma.file.update of a row that is gone throws (P2025).
UpdateMissingRow(c) == row # "live" /\ Throw(c)

-----------------------------------------------------------------------------
(* The handlers that create the document or start a call. *)

\* uploadFlatFile, splitPdfApply and splitPdfAuto create the row; metadata keys
\* to extract are recorded with it when the upload asked for them.  The handler
\* then goes on to start OCR when it was asked to.
UploadFlat(c, ok, wantsOcr, wantsExtract) ==
  /\ row = "absent" /\ pc[c] = "idle"
  /\ wantsExtract => wantsOcr
  /\ row' = "live" /\ eligible' = ok
  /\ pending' = wantsExtract
  /\ extract' = IF wantsExtract THEN "pending" ELSE "null"
  /\ Goto(c, IF wantsOcr THEN "queue" ELSE "done")
  /\ UNCHANGED <<ocr, markdown, kind, snap, faults>>

\* uploadCompanyDocument starts OCR without marking the row as pending.
UploadToFolder(c, ok, wantsOcr) ==
  /\ row = "absent" /\ pc[c] = "idle"
  /\ row' = "live" /\ eligible' = ok
  /\ Goto(c, IF wantsOcr THEN "load" ELSE "done")
  /\ UNCHANGED <<ocr, markdown, pending, extract, kind, snap, faults>>

\* The upload handler marks the row as pending and fires processDocumentOcr.
QueueOcr(c) ==
  /\ pc[c] = "queue"
  /\ \/ /\ row = "live"
        /\ ocr' = "pending"
        /\ Goto(c, "load")
        /\ UNCHANGED <<row, eligible, markdown, pending, extract, kind, snap, faults>>
     \/ UpdateMissingRow(c)

\* Mutant of TriggerOcr: asks for the extraction again as well.
TriggerOcrAndExtraction(c) ==
  /\ row = "live" /\ pc[c] = "idle"
  /\ ocr' = "pending" /\ pending' = TRUE /\ extract' = "pending"
  /\ Goto(c, "load")
  /\ UNCHANGED <<row, eligible, markdown, kind, snap, faults>>

\* triggerOcr: POST /files/:fileId/ocr.  The status of the row is not consulted.
TriggerOcr(c) ==
  /\ row = "live" /\ pc[c] = "idle"
  /\ ocr' = "pending"
  /\ Goto(c, "load")
  /\ UNCHANGED <<row, eligible, markdown, pending, extract, kind, snap, faults>>

\* extractMetadataFromOcr: POST /documents/metadata/extract-from-ocr.
RequestExtraction(c) ==
  /\ row = "live" /\ pc[c] = "idle"
  /\ kind' = [kind EXCEPT ![c] = "manual"]
  /\ Goto(c, "exload")
  /\ UNCHANGED <<file, snap, faults>>

-----------------------------------------------------------------------------
(* processDocumentOcr. *)

\* It loads the row; pendingExtract is computed from what it loads and is not
\* computed again.
Load(c) ==
  /\ pc[c] = "load"
  /\ \/ /\ row = "live"
        /\ snap' = [snap EXCEPT ![c] = pending]
        /\ Goto(c, IF eligible THEN "start" ELSE "reject")
        /\ UNCHANGED <<file, kind, faults>>
     \/ row # "live" /\ Throw(c)

\* Mutant of RecordOcrFailure: the extraction stays pending.
RecordOcrFailureOnly(c) ==
  /\ ocr' = "failed"
  /\ UNCHANGED <<pending, extract>>

\* The update that records a failed OCR: with pendingExtract it also gives up
\* the extraction.
RecordOcrFailure(c) ==
  /\ ocr' = "failed"
  /\ pending' = (pending /\ ~snap[c])
  /\ extract' = IF snap[c] THEN "failed" ELSE extract

\* Unsupported mime type, or larger than 50 MB.
Reject(c) ==
  /\ pc[c] = "reject"
  /\ \/ /\ row = "live"
        /\ RecordOcrFailure(c)
        /\ Goto(c, "done")
        /\ UNCHANGED <<row, eligible, markdown, kind, snap, faults>>
     \/ UpdateMissingRow(c)

StartOcr(c) ==
  /\ pc[c] = "start"
  /\ \/ /\ row = "live"
        /\ ocr' = "processing"
        /\ Goto(c, "download")
        /\ UNCHANGED <<row, eligible, markdown, pending, extract, kind, snap, faults>>
     \/ UpdateMissingRow(c)

\* The object is read from the bucket, to its end.
Download(c) ==
  /\ pc[c] = "download"
  /\ Goto(c, "ocr")
  /\ UNCHANGED <<file, kind, snap, faults>>

\* The provider begins to answer within the timeout of one of three attempts.  The
\* timeout is cleared before the body of the answer is read; attempts whose body
\* was read and refused count as part of "ocr".
ProviderAnswers(c) ==
  /\ pc[c] = "ocr"
  /\ Goto(c, "body")
  /\ UNCHANGED <<file, kind, snap, faults>>
ReadAnswer(c) ==
  /\ pc[c] = "body"
  /\ Goto(c, "save")
  /\ UNCHANGED <<file, kind, snap, faults>>

\* No object, a refusal, a timeout, a connection lost, or the last attempt failed.
ProviderFails(c) == pc[c] \in {"ocr"} \cup Transfers /\ Throw(c)

\* The recognised text, blank for a one-page document without any.
Save(c, text) ==
  /\ pc[c] = "save"
  /\ \/ /\ row = "live"
        /\ ocr' = "completed" /\ markdown' = text
        /\ Goto(c, "chain")
        /\ UNCHANGED <<row, eligible, pending, extract, kind, snap, faults>>
     \/ UpdateMissingRow(c)

\* Mutant of CatchOcr: logs the failure and does not record it.
CatchOcrSilently(c) ==
  /\ pc[c] = "ocrfail"
  /\ Goto(c, "done")
  /\ UNCHANGED <<file, kind, snap, faults>>

\* The catch of processDocumentOcr.
CatchOcr(c) ==
  /\ pc[c] = "ocrfail"
  /\ \/ /\ row = "live"
        /\ RecordOcrFailure(c)
        /\ Goto(c, "done")
        /\ UNCHANGED <<row, eligible, markdown, kind, snap, faults>>
     \/ UpdateMissingRow(c)

-----------------------------------------------------------------------------
(* runPendingMetadataExtractionAfterOcr. *)

\* It reads the row again and returns when there is nothing to extract, when
\* the status is no longer completed, or when the text is blank.
Chain(c) ==
  /\ pc[c] = "chain"
  /\ Goto(c, IF row = "live" /\ pending /\ ocr = "completed" /\ markdown = "text"
             THEN "mark" ELSE "done")
  /\ UNCHANGED <<file, kind, snap, faults>>

MarkExtracting(c) ==
  /\ pc[c] = "mark"
  /\ \/ /\ row = "live"
        /\ extract' = "processing"
        /\ Goto(c, "exload")
        /\ UNCHANGED <<row, eligible, ocr, markdown, pending, kind, snap, faults>>
     \/ UpdateMissingRow(c)

\* The catch of runPendingMetadataExtractionAfterOcr.
CatchExtraction(c) ==
  /\ pc[c] = "exfail"
  /\ \/ /\ row = "live"
        /\ pending' = FALSE /\ extract' = "failed"
        /\ Goto(c, "done")
        /\ UNCHANGED <<row, eligible, ocr, markdown, kind, snap, faults>>
     \/ UpdateMissingRow(c)

-----------------------------------------------------------------------------
(* extractAndApplyMetadataFromOcr, chained or requested by a user.  The rows
   it writes to files_metadata_values are not part of this module. *)

\* The document must be there with OCR completed and some text in it, or the
\* call throws; it also throws when a requested key has been deleted.
LoadForExtraction(c) ==
  /\ pc[c] = "exload"
  /\ row = "live" /\ ocr = "completed" /\ markdown = "text"
  /\ Goto(c, "gemini")
  /\ UNCHANGED <<file, kind, snap, faults>>
RefuseExtraction(c) == pc[c] = "exload" /\ Throw(c)

\* Gemini answers, the values are written; or it fails after its attempts, or a
\* value cannot be written.
GeminiAnswers(c) ==
  /\ pc[c] = "gemini"
  /\ Goto(c, "finish")
  /\ UNCHANGED <<file, kind, snap, faults>>
GeminiFails(c) == pc[c] = "gemini" /\ Throw(c)

\* Mutant of FinishExtraction: the keys stay pending.
FinishExtractionKeepsKeys(c) ==
  /\ pc[c] = "finish"
  /\ \/ /\ row = "live"
        /\ extract' = "completed"
        /\ Goto(c, "done")
        /\ UNCHANGED <<row, eligible, ocr, markdown, pending, kind, snap, faults>>
     \/ UpdateMissingRow(c)

FinishExtraction(c) ==
  /\ pc[c] = "finish"
  /\ \/ /\ row = "live"
        /\ pending' = FALSE /\ extract' = "completed"
        /\ Goto(c, "done")
        /\ UNCHANGED <<row, eligible, ocr, markdown, kind, snap, faults>>
     \/ UpdateMissingRow(c)

-----------------------------------------------------------------------------
(* The rest of the system. *)

\* The archive purge, an administrator or a split removes the row; nothing asks
\* whether a call is at work on it.
RemoveRow ==
  /\ row = "live"
  /\ row' = "removed"
  /\ UNCHANGED <<eligible, ocr, markdown, pending, extract, pc, kind, snap, faults>>

\* A query of c fails.
DatabaseError(c) ==
  /\ faults < MaxFaults
  /\ Active(c) /\ pc[c] \notin {"ocr"} \cup Transfers
  /\ Goto(c, Handler(c))
  /\ faults' = faults + 1
  /\ UNCHANGED <<file, kind, snap>>

\* The server restarts: the calls are lost, and startup looks for none of them.
Restart ==
  /\ faults < MaxFaults
  /\ \E c \in Calls : Active(c)
  /\ pc' = [c \in Calls |-> IF Active(c) THEN "done" ELSE pc[c]]
  /\ faults' = faults + 1
  /\ UNCHANGED <<file, kind, snap>>

-----------------------------------------------------------------------------
Init ==
  /\ row = "absent" /\ eligible = TRUE
  /\ ocr = "null" /\ markdown = "null" /\ pending = FALSE /\ extract = "null"
  /\ pc = [c \in Calls |-> "idle"]
  /\ kind = [c \in Calls |-> "ocr"]
  /\ snap = [c \in Calls |-> FALSE]
  /\ faults = 0
  /\ overlapped = FALSE

BeginCall(c) ==
  \/ \E ok, wantsOcr, wantsExtract \in BOOLEAN : UploadFlat(c, ok, wantsOcr, wantsExtract)
  \/ \E ok, wantsOcr \in BOOLEAN : UploadToFolder(c, ok, wantsOcr)
  \/ TriggerOcr(c)
  \/ RequestExtraction(c)

Begin(c) ==
  /\ BeginCall(c)
  /\ overlapped' = (overlapped \/ \E d \in Calls : Active(d))

StepCall(c) ==
  \/ QueueOcr(c) \/ Load(c) \/ Reject(c) \/ StartOcr(c)
  \/ Download(c) \/ ProviderAnswers(c) \/ ReadAnswer(c) \/ ProviderFails(c)
  \/ \E text \in {"blank", "text"} : Save(c, text)
  \/ CatchOcr(c)
  \/ Chain(c) \/ MarkExtracting(c) \/ CatchExtraction(c)
  \/ LoadForExtraction(c) \/ RefuseExtraction(c)
  \/ GeminiAnswers(c) \/ GeminiFails(c) \/ FinishExtraction(c)

Step(c) == StepCall(c) /\ UNCHANGED overlapped

Next ==
  \/ \E c \in Calls : Begin(c) \/ Step(c)
  \/ (\E c \in Calls : DatabaseError(c)) /\ UNCHANGED overlapped
  \/ RemoveRow /\ UNCHANGED overlapped
  \/ Restart /\ UNCHANGED overlapped

Spec == Init /\ [][Next]_vars

\* A call that was started goes on: the event loop runs it, queries end, and the
\* timeouts cut off Gemini and the request to Mistral.  Nothing cuts off a transfer,
\* of the object or of the body of Mistral's answer, which may hang for ever; and
\* nobody must upload, ask or remove.
FairSpec == Spec /\ \A c \in Calls : WF_vars(pc[c] \notin Transfers /\ Step(c))

-----------------------------------------------------------------------------
TypeOK ==
  /\ row \in {"absent", "live", "removed"}
  /\ eligible \in BOOLEAN
  /\ ocr \in Statuses
  /\ markdown \in {"null", "blank", "text"}
  /\ pending \in BOOLEAN
  /\ extract \in Statuses
  /\ pc \in [Calls -> Labels]
  /\ kind \in [Calls -> {"ocr", "manual"}]
  /\ snap \in [Calls -> BOOLEAN]
  /\ faults \in 0..MaxFaults
  /\ overlapped \in BOOLEAN

\* The keys to extract are kept exactly as long as the extraction the upload
\* asked for is open: a settled extraction has none left, so that a later OCR
\* does not extract again, and one that is still waiting has not lost them.
KeysKeptWhileOpen ==
  /\ pending => extract \in Unsettled
  /\ extract = "pending" => pending

\* A document shown as waiting for OCR, or in OCR, has a call that will move it
\* on, whatever the other calls on it did, unless the server or the database
\* failed.
OcrInProgressHasCall ==
  row = "live" /\ faults = 0 =>
    /\ ocr = "pending" => \E c \in Calls : pc[c] \in {"load", "reject", "start"}
    /\ ocr = "processing" => \E c \in Calls : pc[c] \in {"download", "ocr", "body", "save", "ocrfail"}

\* A document shown as being extracted has a chained call that will settle it.
ExtractingHasCall ==
  row = "live" /\ faults = 0 /\ extract = "processing" =>
    \E c \in Calls : kind[c] = "ocr" /\ pc[c] \in {"exload", "gemini", "finish", "exfail"}

\* Whoever sees OCR or the extraction completed finds recognised text, also
\* when a later OCR is running or failed.
CompletedHasText ==
  ocr = "completed" \/ extract = "completed" => markdown # "null"

\* The document does not stay in an unsettled OCR status for ever, unless a
\* transfer never ends, and then for no other reason.
OcrSettles ==
  row = "live" /\ ocr \in Unsettled
    ~> \/ ocr \in Settled \/ row = "removed" \/ faults > 0
       \/ \E c \in Calls : [](pc[c] \in Transfers)

\* An extraction asked for with the upload is settled in the end, unless OCR
\* found a blank document or is held up by a transfer.
ExtractionSettles ==
  row = "live" /\ extract \in Unsettled
    ~> \/ extract \in Settled \/ markdown = "blank" \/ row = "removed" \/ faults > 0
       \/ \E c \in Calls : [](pc[c] \in Transfers)

-----------------------------------------------------------------------------
(* What the pipeline promises to the readers of the status columns. *)

Progress ==
  INSTANCE DocumentProgress
    WITH doc <- [row |-> row, ocr |-> ocr, extract |-> extract,
                 text |-> markdown # "null",
                 calm |-> ~overlapped, sound |-> faults = 0]

\* Every step of the pipeline is one that DocumentProgress allows: without
\* overlap the statuses go forward only, and with it they never return to what
\* the upload wrote.
ImplementsDocumentProgress == Progress!Spec
=============================================================================
