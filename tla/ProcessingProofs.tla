--------------------------- MODULE ProcessingProofs ---------------------------
(***************************************************************************)
(* What the server and the page make of a PDF: proofs about OcrPipeline,   *)
(* for any number of calls and any bound on faults, and about SplitReview, *)
(* for any number of pages, any proposals and any set of document types.   *)
(***************************************************************************)
EXTENDS OcrPipeline, SplitReview, TLAPS, WellFoundedInduction, FiniteSetTheorems, SequenceTheorems

-----------------------------------------------------------------------------
(* OcrPipeline. *)

LEMMA NextTypeOK == TypeOK /\ [Next]_vars => TypeOK'
<1> SUFFICES ASSUME TypeOK, [Next]_vars PROVE TypeOK'
  OBVIOUS
<1> USE MaxFaultsAssumption DEF TypeOK, Statuses, Labels, file, Goto, Handler, Throw, UpdateMissingRow, Active
<1>1. ASSUME NEW c \in Calls, Begin(c) PROVE TypeOK'
  BY <1>1 DEF Begin, BeginCall, UploadFlat, UploadToFolder, TriggerOcr, RequestExtraction
<1>2. ASSUME NEW c \in Calls, Step(c) PROVE TypeOK'
  <2>0. overlapped' \in BOOLEAN /\ Handler(c) \in {"ocrfail", "exfail", "done"}
    BY <1>2 DEF Step
  <2> HIDE DEF Handler
  <2>1. CASE QueueOcr(c)
    BY <2>0, <2>1 DEF QueueOcr
  <2>2. CASE Load(c)
    BY <2>0, <2>2 DEF Load
  <2>3. CASE StartOcr(c)
    BY <2>0, <2>3 DEF StartOcr
  <2>4. CASE Download(c) \/ ProviderAnswers(c) \/ ReadAnswer(c)
    BY <2>0, <2>4 DEF Download, ProviderAnswers, ReadAnswer
  <2>5. CASE ProviderFails(c)
    BY <2>0, <2>5 DEF ProviderFails, Transfers
  <2>6. CASE Reject(c)
    <3>1. pending' \in BOOLEAN /\ extract' \in Statuses /\ ocr' \in Statuses
      BY <2>0, <2>6 DEF Reject, RecordOcrFailure
    <3>2. pc' = [pc EXCEPT ![c] = "done"] \/ pc' = [pc EXCEPT ![c] = Handler(c)]
      BY <2>6 DEF Reject
    <3>3. pc' \in [Calls -> Labels]
      BY <2>0, <3>2
    <3>4. UNCHANGED <<row, eligible, markdown, kind, snap, faults>>
      BY <2>6 DEF Reject
    <3>5. QED BY <2>0, <3>1, <3>3, <3>4
  <2>7. CASE CatchOcr(c)
    <3>1. pending' \in BOOLEAN /\ extract' \in Statuses /\ ocr' \in Statuses
      BY <2>0, <2>7 DEF CatchOcr, RecordOcrFailure
    <3>2. pc' = [pc EXCEPT ![c] = "done"] \/ pc' = [pc EXCEPT ![c] = Handler(c)]
      BY <2>7 DEF CatchOcr
    <3>3. pc' \in [Calls -> Labels]
      BY <2>0, <3>2
    <3>4. UNCHANGED <<row, eligible, markdown, kind, snap, faults>>
      BY <2>7 DEF CatchOcr
    <3>5. QED BY <2>0, <3>1, <3>3, <3>4
  <2>8. CASE Chain(c)
    BY <2>0, <2>8 DEF Chain
  <2>9. CASE MarkExtracting(c)
    BY <2>0, <2>9 DEF MarkExtracting
  <2>10. CASE LoadForExtraction(c)
    BY <2>0, <2>10 DEF LoadForExtraction
  <2>11. CASE RefuseExtraction(c)
    BY <2>0, <2>11 DEF RefuseExtraction
  <2>12. CASE GeminiAnswers(c)
    BY <2>0, <2>12 DEF GeminiAnswers
  <2>13. CASE GeminiFails(c)
    BY <2>0, <2>13 DEF GeminiFails
  <2>14. CASE FinishExtraction(c)
    <3>1. pending' \in BOOLEAN /\ extract' \in Statuses /\ ocr' \in Statuses
      BY <2>0, <2>14 DEF FinishExtraction
    <3>2. pc' = [pc EXCEPT ![c] = "done"] \/ pc' = [pc EXCEPT ![c] = Handler(c)]
      BY <2>14 DEF FinishExtraction
    <3>3. pc' \in [Calls -> Labels]
      BY <2>0, <3>2
    <3>4. UNCHANGED <<row, eligible, markdown, kind, snap, faults>>
      BY <2>14 DEF FinishExtraction
    <3>5. QED BY <2>0, <3>1, <3>3, <3>4
  <2>15. CASE CatchExtraction(c)
    <3>1. pending' \in BOOLEAN /\ extract' \in Statuses /\ ocr' \in Statuses
      BY <2>0, <2>15 DEF CatchExtraction
    <3>2. pc' = [pc EXCEPT ![c] = "done"] \/ pc' = [pc EXCEPT ![c] = Handler(c)]
      BY <2>15 DEF CatchExtraction
    <3>3. pc' \in [Calls -> Labels]
      BY <2>0, <3>2
    <3>4. UNCHANGED <<row, eligible, markdown, kind, snap, faults>>
      BY <2>15 DEF CatchExtraction
    <3>5. QED BY <2>0, <3>1, <3>3, <3>4
  <2>16. CASE \E text \in {"blank", "text"} : Save(c, text)
    BY <2>0, <2>16 DEF Save
  <2>17. QED
    BY <1>2, <2>1, <2>2, <2>3, <2>4, <2>5, <2>6, <2>7, <2>8, <2>9, <2>10,
       <2>11, <2>12, <2>13, <2>14, <2>15, <2>16
    DEF Step, StepCall
<1>3. ASSUME NEW c \in Calls, DatabaseError(c), UNCHANGED overlapped PROVE TypeOK'
  BY <1>3 DEF DatabaseError, Transfers
<1>4. CASE RemoveRow /\ UNCHANGED overlapped BY <1>4 DEF RemoveRow
<1>5. CASE Restart /\ UNCHANGED overlapped BY <1>5 DEF Restart
<1>6. CASE UNCHANGED vars BY <1>6 DEF vars
<1>7. QED BY <1>1, <1>2, <1>3, <1>4, <1>5, <1>6 DEF Next

LEMMA InitTypeOK == Init => TypeOK
<1> SUFFICES ASSUME Init PROVE TypeOK
  OBVIOUS
<1>1. faults \in 0..MaxFaults
  BY MaxFaultsAssumption DEF Init
<1>2. /\ pc \in [Calls -> Labels]
      /\ kind \in [Calls -> {"ocr", "manual"}]
      /\ snap \in [Calls -> BOOLEAN]
  BY DEF Init, Labels
<1>3. QED BY <1>1, <1>2 DEF Init, TypeOK, Statuses

\* The row and the calls always have a value of their types.
THEOREM TypeCorrect == Spec => []TypeOK
  BY InitTypeOK, NextTypeOK, PTL DEF Spec

-----------------------------------------------------------------------------
(* The inductive invariant.  The properties of interest are strengthened by
   three facts: nothing is recorded of a document before its upload; a manual
   extraction never enters processDocumentOcr; and a call that got past the
   checks of the extraction had text before it, which no update removes. *)

AbsentIsFresh ==
  row = "absent" =>
    /\ ocr = "null" /\ extract = "null" /\ markdown = "null"
    /\ ~overlapped /\ faults = 0
    /\ \A c \in Calls : ~Active(c)

ManualStaysInExtraction ==
  \A c \in Calls : kind[c] = "manual" => pc[c] \in {"exload", "gemini", "finish", "done"}

ExtractionHasText ==
  \A c \in Calls : pc[c] \in {"gemini", "finish"} => markdown # "null"

IInv ==
  /\ TypeOK
  /\ AbsentIsFresh
  /\ ManualStaysInExtraction
  /\ ExtractionHasText
  /\ KeysKeptWhileOpen
  /\ OcrInProgressHasCall
  /\ ExtractingHasCall
  /\ CompletedHasText

LEMMA InitIInv == Init => IInv
<1> SUFFICES ASSUME Init PROVE IInv
  OBVIOUS
<1>1. TypeOK BY InitTypeOK
<1>2. QED
  BY <1>1 DEF Init, IInv, AbsentIsFresh, Active, ManualStaysInExtraction, ExtractionHasText,
     KeysKeptWhileOpen, OcrInProgressHasCall, ExtractingHasCall, CompletedHasText

\* One step keeps the parts that do not speak of which calls are under way.
LEMMA StepSmall ==
  ASSUME IInv, [Next]_vars
  PROVE  /\ AbsentIsFresh' /\ ManualStaysInExtraction' /\ ExtractionHasText'
         /\ KeysKeptWhileOpen' /\ CompletedHasText'
<1> USE DEF IInv, TypeOK, AbsentIsFresh, ManualStaysInExtraction, ExtractionHasText,
        KeysKeptWhileOpen, CompletedHasText, Unsettled,
        file, Goto, Handler, Throw, UpdateMissingRow, Active
<1>1. ASSUME NEW c \in Calls, Begin(c)
      PROVE  /\ AbsentIsFresh' /\ ManualStaysInExtraction' /\ ExtractionHasText'
             /\ KeysKeptWhileOpen' /\ CompletedHasText'
  BY <1>1 DEF Begin, BeginCall, UploadFlat, UploadToFolder, TriggerOcr, RequestExtraction
<1>2. ASSUME NEW c \in Calls, Step(c)
      PROVE  /\ AbsentIsFresh' /\ ManualStaysInExtraction' /\ ExtractionHasText'
             /\ KeysKeptWhileOpen' /\ CompletedHasText'
  <2>1. CASE \/ QueueOcr(c) \/ Load(c) \/ StartOcr(c) \/ Download(c)
             \/ ProviderAnswers(c) \/ ReadAnswer(c) \/ ProviderFails(c)
    BY <2>1 DEF QueueOcr, Load, StartOcr, Download, ProviderAnswers, ReadAnswer, ProviderFails, Transfers
  <2>2. CASE Reject(c) \/ CatchOcr(c)
    <3>1. CASE row # "live"
      BY <2>2, <3>1 DEF Reject, CatchOcr
    <3>2. CASE row = "live"
      <4>1. /\ RecordOcrFailure(c) /\ Goto(c, "done")
            /\ UNCHANGED <<row, eligible, markdown, kind, snap, faults>>
        BY <2>2, <3>2 DEF Reject, CatchOcr
      <4>2. KeysKeptWhileOpen'
        <5>1. CASE snap[c]
          BY <4>1, <5>1 DEF RecordOcrFailure
        <5>2. CASE ~snap[c]
          BY <4>1, <5>2 DEF RecordOcrFailure
        <5>3. kind[c] \in {"ocr", "manual"}
          BY <1>2 DEF IInv, TypeOK
        <5>4. QED BY <5>1, <5>2, <5>3
      <4>3. CompletedHasText'
        BY <4>1 DEF RecordOcrFailure
      <4>4. QED BY <4>1, <4>2, <4>3, <3>2
    <3>3. QED BY <3>1, <3>2
  <2>3. CASE \E text \in {"blank", "text"} : Save(c, text)
    BY <2>3 DEF Save
  <2>4. CASE Chain(c) \/ MarkExtracting(c) \/ CatchExtraction(c)
    BY <2>4 DEF Chain, MarkExtracting, CatchExtraction
  <2>5. CASE \/ LoadForExtraction(c) \/ RefuseExtraction(c)
             \/ GeminiAnswers(c) \/ GeminiFails(c) \/ FinishExtraction(c)
    BY <2>5 DEF LoadForExtraction, RefuseExtraction, GeminiAnswers, GeminiFails, FinishExtraction
  <2>6. QED BY <1>2, <2>1, <2>2, <2>3, <2>4, <2>5 DEF Step, StepCall
<1>3. ASSUME NEW c \in Calls, DatabaseError(c), UNCHANGED overlapped
      PROVE  /\ AbsentIsFresh' /\ ManualStaysInExtraction' /\ ExtractionHasText'
             /\ KeysKeptWhileOpen' /\ CompletedHasText'
  BY <1>3 DEF DatabaseError, Transfers
<1>4. CASE RemoveRow /\ UNCHANGED overlapped BY <1>4 DEF RemoveRow
<1>5. CASE Restart /\ UNCHANGED overlapped BY <1>5 DEF Restart
<1>6. CASE UNCHANGED vars BY <1>6 DEF vars
<1>7. QED BY <1>1, <1>2, <1>3, <1>4, <1>5, <1>6 DEF Next

\* A status that is unsettled keeps a call behind it: the call that wrote it is
\* still before the update by which it leaves, and the other calls do not move it.
LEMMA StepOwners ==
  ASSUME IInv, [Next]_vars
  PROVE  OcrInProgressHasCall' /\ ExtractingHasCall'
<1> USE DEF IInv, TypeOK, AbsentIsFresh, ManualStaysInExtraction,
        OcrInProgressHasCall, ExtractingHasCall,
        file, Goto, Handler, Throw, UpdateMissingRow, Active
<1>1. ASSUME NEW c \in Calls, Begin(c)
      PROVE  OcrInProgressHasCall' /\ ExtractingHasCall'
  <2>1. CASE \E ok, wantsOcr, wantsExtract \in BOOLEAN : UploadFlat(c, ok, wantsOcr, wantsExtract)
    BY <2>1 DEF UploadFlat
  <2>2. CASE \E ok, wantsOcr \in BOOLEAN : UploadToFolder(c, ok, wantsOcr)
    BY <2>2 DEF UploadToFolder
  <2>3. CASE TriggerOcr(c)
    BY <2>3 DEF TriggerOcr
  <2>4. CASE RequestExtraction(c)
    BY <2>4 DEF RequestExtraction
  <2>5. QED BY <1>1, <2>1, <2>2, <2>3, <2>4 DEF Begin, BeginCall
<1>2. ASSUME NEW c \in Calls, Step(c)
      PROVE  OcrInProgressHasCall' /\ ExtractingHasCall'
  <2>1. CASE \/ QueueOcr(c) \/ Load(c) \/ StartOcr(c) \/ Download(c)
             \/ ProviderAnswers(c) \/ ReadAnswer(c) \/ ProviderFails(c)
    BY <2>1 DEF QueueOcr, Load, StartOcr, Download, ProviderAnswers, ReadAnswer, ProviderFails, Transfers
  <2>2. CASE Reject(c) \/ CatchOcr(c)
    BY <2>2 DEF Reject, CatchOcr, RecordOcrFailure
  <2>3. CASE \E text \in {"blank", "text"} : Save(c, text)
    BY <2>3 DEF Save
  <2>4. CASE Chain(c) \/ MarkExtracting(c) \/ CatchExtraction(c)
    BY <2>4 DEF Chain, MarkExtracting, CatchExtraction
  <2>5. CASE \/ LoadForExtraction(c) \/ RefuseExtraction(c)
             \/ GeminiAnswers(c) \/ GeminiFails(c) \/ FinishExtraction(c)
    BY <2>5 DEF LoadForExtraction, RefuseExtraction, GeminiAnswers, GeminiFails, FinishExtraction
  <2>6. QED BY <1>2, <2>1, <2>2, <2>3, <2>4, <2>5 DEF Step, StepCall
<1>3. ASSUME NEW c \in Calls, DatabaseError(c), UNCHANGED overlapped
      PROVE  OcrInProgressHasCall' /\ ExtractingHasCall'
  BY <1>3 DEF DatabaseError, Transfers
<1>4. CASE RemoveRow /\ UNCHANGED overlapped BY <1>4 DEF RemoveRow
<1>5. CASE Restart /\ UNCHANGED overlapped BY <1>5 DEF Restart
<1>6. CASE UNCHANGED vars BY <1>6 DEF vars
<1>7. QED BY <1>1, <1>2, <1>3, <1>4, <1>5, <1>6 DEF Next

LEMMA NextIInv == IInv /\ [Next]_vars => IInv'
  BY NextTypeOK, StepSmall, StepOwners DEF IInv

LEMMA Inductive == Spec => []IInv
  BY InitIInv, NextIInv, PTL DEF Spec

\* The keys of an extraction are kept exactly as long as it is open.
THEOREM KeysKept == Spec => []KeysKeptWhileOpen
<1>1. IInv => KeysKeptWhileOpen BY DEF IInv
<1>2. QED BY <1>1, Inductive, PTL

\* A document that shows OCR as pending or processing has a call at work on it.
THEOREM OcrInProgress == Spec => []OcrInProgressHasCall
<1>1. IInv => OcrInProgressHasCall BY DEF IInv
<1>2. QED BY <1>1, Inductive, PTL

\* A document that shows its extraction as processing has a call at work on it.
THEOREM Extracting == Spec => []ExtractingHasCall
<1>1. IInv => ExtractingHasCall BY DEF IInv
<1>2. QED BY <1>1, Inductive, PTL

\* Completed OCR, and a completed extraction, imply recognised text.
THEOREM CompletedText == Spec => []CompletedHasText
<1>1. IInv => CompletedHasText BY DEF IInv
<1>2. QED BY <1>1, Inductive, PTL

-----------------------------------------------------------------------------
(* As long as calls have not overlapped, the one call at work knows the row: it
   is between the update that set the status and the one that will leave it, and
   a call that loaded the row after the extraction had completed saw no keys to
   extract, so neither its catch nor its chained extraction touches what was
   extracted. *)

AtMostOneActive == \A c, d \in Calls : Active(c) /\ Active(d) => c = d

NobodyWillExtract ==
  extract = "completed" =>
    \A c \in Calls :
      /\ pc[c] \in {"reject", "start", "download", "ocr", "body", "save", "chain", "ocrfail"} => ~snap[c]
      /\ pc[c] \notin {"mark", "exfail"}
      /\ pc[c] \in {"exload", "gemini", "finish"} => kind[c] = "manual"

CallFitsStatus(c) ==
  /\ pc[c] \in {"load", "reject", "start"} => ocr \in {"null", "pending"}
  /\ pc[c] \in {"download", "ocr", "body", "save"} => ocr = "processing"
  /\ pc[c] \in {"chain", "mark", "exfail"} => ocr = "completed"
  /\ pc[c] = "ocrfail" => ocr = "processing" \/ (ocr = "completed" /\ faults # 0)
  /\ pc[c] \in {"exload", "gemini", "finish"} => kind[c] = "manual" \/ ocr = "completed"
  /\ pc[c] \in {"reject", "start", "download", "ocr", "body", "save", "chain", "ocrfail"} /\ snap[c]
       => extract \in Unsettled
  /\ pc[c] \in {"mark", "exfail"} => extract \in Unsettled
  /\ pc[c] \in {"exload", "gemini", "finish"} => kind[c] = "manual" \/ extract = "processing"

CallsFitStatus == row = "live" => \A c \in Calls : CallFitsStatus(c)

Alone == AtMostOneActive /\ NobodyWillExtract /\ CallsFitStatus

SerialInv == IInv /\ (~overlapped => Alone)

LEMMA InitSerialInv == Init => SerialInv
  BY InitIInv DEF Init, SerialInv, Alone, AtMostOneActive, NobodyWillExtract, Active,
     CallsFitStatus

\* A call that begins when none is at work is the only one, and finds the row
\* as the last one left it.
LEMMA BeginAlone ==
  ASSUME SerialInv, NEW c \in Calls, Begin(c), ~overlapped'
  PROVE  Alone'
<1> USE DEF SerialInv, IInv, TypeOK, KeysKeptWhileOpen, Alone, Unsettled, Goto, file
<1>1. ~overlapped /\ \A d \in Calls : ~Active(d)
  BY DEF Begin
<1>2. /\ pc[c] = "idle"
      /\ \A d \in Calls : d # c => pc'[d] = pc[d] /\ pc[d] \in {"idle", "done"}
      /\ pc'[c] \in {"queue", "load", "exload", "done"}
      /\ pc'[c] = "load" => ocr' \in {"null", "pending"}
      /\ pc'[c] = "exload" => kind'[c] = "manual"
  BY <1>1 DEF Begin, BeginCall, UploadFlat, UploadToFolder, TriggerOcr, RequestExtraction, Active,
     AbsentIsFresh
<1>3. AtMostOneActive'
  BY <1>2 DEF AtMostOneActive, Active
<1>4. NobodyWillExtract'
  BY <1>2 DEF NobodyWillExtract
<1>5. CallsFitStatus'
  BY <1>2 DEF CallsFitStatus, CallFitsStatus
<1>6. QED BY <1>3, <1>4, <1>5

\* A step of the one call at work.
LEMMA StepStaysAlone ==
  ASSUME SerialInv, ~overlapped, NEW c \in Calls, Step(c)
  PROVE  AtMostOneActive' /\ NobodyWillExtract'
<1> USE DEF SerialInv, IInv, TypeOK, KeysKeptWhileOpen, Alone, AtMostOneActive, NobodyWillExtract,
        Unsettled, file, Goto, Handler, Throw, UpdateMissingRow, Active
<1>1. CASE \/ QueueOcr(c) \/ Load(c) \/ StartOcr(c) \/ Download(c)
           \/ ProviderAnswers(c) \/ ReadAnswer(c) \/ ProviderFails(c)
  BY <1>1 DEF QueueOcr, Load, StartOcr, Download, ProviderAnswers, ReadAnswer, ProviderFails, Transfers
<1>2. CASE Reject(c) \/ CatchOcr(c)
  BY <1>2 DEF Reject, CatchOcr, RecordOcrFailure
<1>3. CASE \E text \in {"blank", "text"} : Save(c, text)
  BY <1>3 DEF Save
<1>4. CASE Chain(c) \/ MarkExtracting(c) \/ CatchExtraction(c)
  BY <1>4 DEF Chain, MarkExtracting, CatchExtraction
<1>5. CASE \/ LoadForExtraction(c) \/ RefuseExtraction(c)
           \/ GeminiAnswers(c) \/ GeminiFails(c) \/ FinishExtraction(c)
  BY <1>5 DEF LoadForExtraction, RefuseExtraction, GeminiAnswers, GeminiFails, FinishExtraction
<1>6. QED BY <1>1, <1>2, <1>3, <1>4, <1>5 DEF Step, StepCall

\* It is again where the status it leaves says it is.
LEMMA StepFits ==
  ASSUME SerialInv, ~overlapped, NEW c \in Calls, Step(c), row' = "live"
  PROVE  \A d \in Calls : CallFitsStatus(d)'
<1> USE DEF IInv, TypeOK, KeysKeptWhileOpen, ManualStaysInExtraction, Unsettled,
        file, Goto, Handler, Throw, UpdateMissingRow
<1>1. row = "live"
  BY DEF Step, StepCall, QueueOcr, Load, StartOcr,
     Download, ProviderAnswers, ReadAnswer, ProviderFails, Transfers, Reject, CatchOcr,
     RecordOcrFailure, Save, Chain, MarkExtracting, CatchExtraction, LoadForExtraction,
     RefuseExtraction, GeminiAnswers, GeminiFails, FinishExtraction
<1>2. IInv /\ CallFitsStatus(c)
  BY <1>1 DEF SerialInv, Alone, CallsFitStatus
<1>3. pc[c] \notin {"idle", "done"}
  BY DEF Step, StepCall, QueueOcr, Load, StartOcr,
     Download, ProviderAnswers, ReadAnswer, ProviderFails, Transfers, Reject, CatchOcr,
     Save, Chain, MarkExtracting, CatchExtraction, LoadForExtraction,
     RefuseExtraction, GeminiAnswers, GeminiFails, FinishExtraction
<1>4. \A d \in Calls : d # c => pc[d] \in {"idle", "done"}
  BY <1>3 DEF SerialInv, Alone, AtMostOneActive, Active
<1>5. \A d \in Calls : d # c => pc'[d] = pc[d]
  BY <1>2 DEF Step, StepCall, QueueOcr, Load, StartOcr,
     Download, ProviderAnswers, ReadAnswer, ProviderFails, Transfers, Reject, CatchOcr,
     Save, Chain, MarkExtracting, CatchExtraction, LoadForExtraction,
     RefuseExtraction, GeminiAnswers, GeminiFails, FinishExtraction
<1>6. \A d \in Calls : d # c => CallFitsStatus(d)'
  BY <1>4, <1>5 DEF CallFitsStatus
<1>7. CallFitsStatus(c)'
  <2>1. CASE \/ QueueOcr(c) \/ StartOcr(c) \/ Download(c)
             \/ ProviderAnswers(c) \/ ReadAnswer(c) \/ ProviderFails(c)
    <3>1. UNCHANGED <<snap, kind, extract, faults>>
      BY <1>1, <2>1 DEF QueueOcr, StartOcr, Download, ProviderAnswers, ReadAnswer, ProviderFails, Transfers
    <3>2. CASE QueueOcr(c)
      BY <1>1, <1>2, <3>1, <3>2 DEF QueueOcr, CallFitsStatus
    <3>3. CASE StartOcr(c)
      BY <1>1, <1>2, <3>1, <3>3 DEF StartOcr, CallFitsStatus
    <3>4. CASE \/ Download(c)
               \/ ProviderAnswers(c) \/ ReadAnswer(c) \/ ProviderFails(c)
      BY <1>1, <1>2, <3>1, <3>4 DEF Download, ProviderAnswers, ReadAnswer, ProviderFails, Transfers,
         CallFitsStatus
    <3>5. QED BY <2>1, <3>2, <3>3, <3>4
  <2>2. CASE Reject(c) \/ CatchOcr(c)
    BY <1>1, <1>2, <2>2 DEF Reject, CatchOcr, RecordOcrFailure, CallFitsStatus
  <2>3. CASE \E text \in {"blank", "text"} : Save(c, text)
    BY <1>1, <1>2, <2>3 DEF Save, CallFitsStatus
  <2>4. CASE Chain(c)
    BY <1>1, <1>2, <2>4 DEF Chain, CallFitsStatus
  <2>5. CASE MarkExtracting(c) \/ CatchExtraction(c)
    BY <1>1, <1>2, <2>5 DEF MarkExtracting, CatchExtraction, CallFitsStatus
  <2>6. CASE \/ LoadForExtraction(c) \/ RefuseExtraction(c)
             \/ GeminiAnswers(c) \/ GeminiFails(c) \/ FinishExtraction(c)
    BY <1>1, <1>2, <2>6 DEF LoadForExtraction, RefuseExtraction, GeminiAnswers, GeminiFails,
       FinishExtraction, CallFitsStatus
  <2>7. CASE Load(c)
    <3>1. snap'[c] = pending /\ pc'[c] \in {"reject", "start"}
      BY <1>1, <1>2, <2>7 DEF Load
    <3>2. UNCHANGED <<ocr, extract, kind, faults>>
      BY <1>1, <2>7 DEF Load
    <3>3. ocr \in {"null", "pending"}
      BY <1>2, <2>7 DEF Load, CallFitsStatus
    <3>4. QED BY <1>2, <3>1, <3>2, <3>3 DEF CallFitsStatus
  <2>8. QED BY <2>1, <2>2, <2>3, <2>4, <2>5, <2>6, <2>7 DEF Step, StepCall
<1>8. QED BY <1>6, <1>7

\* An error or the end of a call, and whatever happens to the row besides.
LEMMA SerialStep == SerialInv /\ [Next]_vars => SerialInv'
<1> SUFFICES ASSUME SerialInv, [Next]_vars, ~overlapped'
             PROVE  Alone'
  BY NextIInv DEF SerialInv
<1>1. ~overlapped
  BY DEF Next, Begin, Step, vars
<1>2. Alone /\ IInv
  BY <1>1 DEF SerialInv
<1>3. ASSUME NEW c \in Calls, Begin(c) PROVE Alone'
  BY <1>3, BeginAlone
<1>4. ASSUME NEW c \in Calls, Step(c) PROVE Alone'
  BY <1>1, <1>4, StepStaysAlone, StepFits DEF Alone, CallsFitStatus
<1>5. ASSUME NEW c \in Calls, DatabaseError(c), UNCHANGED overlapped PROVE Alone'
  <2> USE <1>2, <1>5 DEF DatabaseError, Transfers, IInv, TypeOK, file, Goto, Handler
  <2>1. AtMostOneActive'
    BY DEF Alone, AtMostOneActive, Active
  <2>2. NobodyWillExtract'
    BY DEF Alone, NobodyWillExtract, ManualStaysInExtraction
  <2>3. faults' # 0 /\ row' = row /\ ocr' = ocr /\ extract' = extract /\ kind' = kind /\ snap' = snap
    BY MaxFaultsAssumption
  <2>4. pc'[c] \in {"ocrfail", "exfail", "done"} /\ \A d \in Calls : d # c => pc'[d] = pc[d]
    OBVIOUS
  <2>5. CallsFitStatus'
    <3> SUFFICES ASSUME row' = "live", NEW d \in Calls PROVE CallFitsStatus(d)'
      BY DEF CallsFitStatus
    <3>1. CallFitsStatus(d)
      BY <2>3 DEF Alone, CallsFitStatus
    <3>2. CASE d # c
      BY <3>1, <3>2, <2>3, <2>4 DEF CallFitsStatus
    <3>3. CASE d = c
      <4>1. pc'[c] = Handler(c)
        OBVIOUS
      <4>2. pc[c] \notin {"idle", "done", "download", "ocr", "body"}
        BY DEF Active, Transfers
      <4>3. CASE pc[c] \in {"queue", "load", "reject", "start", "ocrfail"}
        BY <3>3, <4>1, <4>3 DEF CallFitsStatus
      <4>4. CASE pc[c] \in {"save", "chain"}
        BY <3>1, <3>3, <4>1, <4>4, <2>3 DEF CallFitsStatus
      <4>5. CASE pc[c] \in {"mark", "exfail"}
        BY <3>1, <3>3, <4>1, <4>5, <2>3 DEF CallFitsStatus
      <4>6. CASE pc[c] \in {"exload", "gemini", "finish"}
        <5>1. CASE kind[c] = "manual"
          BY <3>3, <4>1, <4>6, <5>1, <2>3 DEF CallFitsStatus
        <5>2. CASE kind[c] = "ocr"
          <6>1. pc'[c] = "exfail"
            BY <4>1, <4>6, <5>2
          <6>2. ocr = "completed" /\ extract = "processing"
            BY <3>1, <3>3, <4>6, <5>2 DEF CallFitsStatus
          <6>3. QED BY <3>3, <6>1, <6>2, <2>3 DEF CallFitsStatus, Unsettled
        <5>3. kind[c] \in {"ocr", "manual"}
          BY <1>2 DEF IInv, TypeOK
        <5>4. QED BY <5>1, <5>2, <5>3
      <4>7. QED BY <4>2, <4>3, <4>4, <4>5, <4>6 DEF Labels
    <3>4. QED BY <3>2, <3>3
  <2>6. QED BY <2>1, <2>2, <2>5 DEF Alone
<1>6. CASE RemoveRow /\ UNCHANGED overlapped
  BY <1>2, <1>6 DEF RemoveRow, Alone, AtMostOneActive, Active, NobodyWillExtract, CallsFitStatus
<1>7. CASE Restart /\ UNCHANGED overlapped
  <2>1. \A c \in Calls : pc'[c] \in {"idle", "done"}
    BY <1>2, <1>7 DEF Restart, IInv, TypeOK, Active
  <2>2. QED BY <2>1 DEF Alone, AtMostOneActive, Active, NobodyWillExtract, CallsFitStatus, CallFitsStatus
<1>8. CASE UNCHANGED vars
  BY <1>2, <1>8 DEF vars, Alone, AtMostOneActive, Active, NobodyWillExtract, CallsFitStatus, CallFitsStatus
<1>9. QED BY <1>3, <1>4, <1>5, <1>6, <1>7, <1>8 DEF Next

LEMMA SerialInductive == Spec => []SerialInv
  BY InitSerialInv, SerialStep, PTL DEF Spec

-----------------------------------------------------------------------------
(* The step of the pipeline, seen by a reader of the statuses. *)

LEMMA OcrForward ==
  ASSUME SerialInv, Alone, NEW c \in Calls, Step(c), row = "live"
  PROVE  /\ \/ ocr' \in {ocr, "pending"}
            \/ ocr \in {"null", "pending"} /\ ocr' \in {"processing", "failed"}
            \/ ocr = "processing" /\ ocr' \in {"completed", "failed"}
            \/ ocr = "completed" /\ ocr' = "failed" /\ faults' # 0
         /\ \/ extract' \in {extract, "completed"}
            \/ extract = "pending" /\ extract' \in {"processing", "failed"}
            \/ extract = "processing" /\ extract' = "failed"
<1>1. CallFitsStatus(c)
  BY DEF Alone, CallsFitStatus
<1> USE DEF CallFitsStatus, Unsettled, file, Throw, UpdateMissingRow
<1>2. CASE \/ QueueOcr(c) \/ Load(c) \/ StartOcr(c) \/ Download(c)
           \/ ProviderAnswers(c) \/ ReadAnswer(c) \/ ProviderFails(c)
  BY <1>1, <1>2 DEF QueueOcr, Load, StartOcr, Download, ProviderAnswers, ReadAnswer, ProviderFails, Transfers
<1>3. CASE Reject(c) \/ CatchOcr(c)
  BY <1>1, <1>3 DEF Reject, CatchOcr, RecordOcrFailure
<1>4. CASE \E text \in {"blank", "text"} : Save(c, text)
  BY <1>1, <1>4 DEF Save
<1>5. CASE Chain(c) \/ MarkExtracting(c) \/ CatchExtraction(c)
  BY <1>1, <1>5 DEF Chain, MarkExtracting, CatchExtraction
<1>6. CASE \/ LoadForExtraction(c) \/ RefuseExtraction(c)
           \/ GeminiAnswers(c) \/ GeminiFails(c) \/ FinishExtraction(c)
  BY <1>1, <1>6 DEF LoadForExtraction, RefuseExtraction, GeminiAnswers, GeminiFails, FinishExtraction
<1>7. QED BY <1>2, <1>3, <1>4, <1>5, <1>6 DEF Step, StepCall

\* Whatever overlaps, what the upload wrote does not come back, and an absent or
\* removed row is not written.
LEMMA StepRemembers ==
  ASSUME IInv, NEW c \in Calls, Step(c)
  PROVE  /\ row' = row
         /\ row = "live" \/ UNCHANGED file
         /\ ocr' = "null" => ocr = "null"
         /\ extract' \in {"null", "pending"} => extract' = extract
         /\ markdown' = "null" => markdown = "null"
<1> USE DEF file, Throw, UpdateMissingRow
<1>1. CASE \/ QueueOcr(c) \/ Load(c) \/ StartOcr(c) \/ Download(c)
           \/ ProviderAnswers(c) \/ ReadAnswer(c) \/ ProviderFails(c)
  BY <1>1 DEF QueueOcr, Load, StartOcr, Download, ProviderAnswers, ReadAnswer, ProviderFails, Transfers
<1>2. CASE Reject(c) \/ CatchOcr(c)
  BY <1>2 DEF Reject, CatchOcr, RecordOcrFailure
<1>3. CASE \E text \in {"blank", "text"} : Save(c, text)
  BY <1>3 DEF Save
<1>4. CASE Chain(c) \/ MarkExtracting(c) \/ CatchExtraction(c)
  BY <1>4 DEF Chain, MarkExtracting, CatchExtraction
<1>5. CASE \/ LoadForExtraction(c) \/ RefuseExtraction(c)
           \/ GeminiAnswers(c) \/ GeminiFails(c) \/ FinishExtraction(c)
  BY <1>5 DEF LoadForExtraction, RefuseExtraction, GeminiAnswers, GeminiFails, FinishExtraction
<1>6. QED BY <1>1, <1>2, <1>3, <1>4, <1>5 DEF Step, StepCall

\* What a reader of the statuses sees is a behaviour of DocumentProgress: every
\* step of the pipeline is one of its steps or changes nothing it shows.
THEOREM ProgressImplemented == Spec => ImplementsDocumentProgress
<1> DEFINE seen == [row |-> row, ocr |-> ocr, extract |-> extract, text |-> markdown # "null",
                    calm |-> ~overlapped, sound |-> faults = 0]
<1>1. Init => Progress!Init
  BY DEF Init, Progress!Init, Progress!NoDocument
<1>2. SerialInv /\ SerialInv' /\ [Next]_vars => [Progress!Next]_seen
  <2> SUFFICES ASSUME SerialInv, SerialInv', [Next]_vars PROVE [Progress!Next]_seen
    OBVIOUS
  <2> USE DEF Progress!Statuses
  <2>1. IInv /\ IInv' /\ TypeOK /\ TypeOK'
    BY DEF SerialInv, IInv
  <2>2. seen' \in Progress!DocumentType
    BY <2>1 DEF TypeOK, Statuses, Progress!DocumentType
  <2>3. overlapped => overlapped'
    BY DEF Next, Begin, Step, vars
  <2>4. faults # 0 => faults' # 0
    <3>1. ASSUME NEW c \in Calls, Begin(c) PROVE faults' = faults
      BY <3>1 DEF Begin, BeginCall, UploadFlat, UploadToFolder, TriggerOcr, RequestExtraction
    <3>2. ASSUME NEW c \in Calls, Step(c) PROVE faults' = faults
      BY <3>2 DEF Step, StepCall, QueueOcr, Load, StartOcr,
         Download, ProviderAnswers, ReadAnswer, ProviderFails, Transfers, Reject,
         CatchOcr, Save, Chain, MarkExtracting, CatchExtraction, LoadForExtraction,
         RefuseExtraction, GeminiAnswers, GeminiFails, FinishExtraction, UpdateMissingRow, Throw
    <3>3. faults \in Nat
      BY <2>1, MaxFaultsAssumption DEF TypeOK
    <3>4. QED
      BY <3>1, <3>2, <3>3 DEF Next, DatabaseError, RemoveRow, Restart, vars
  <2>5. ASSUME NEW c \in Calls, Begin(c) PROVE [Progress!Next]_seen
    <3>1. CASE TriggerOcr(c)
      BY <2>1, <2>2, <2>3, <2>4, <3>1 DEF TriggerOcr, IInv, CompletedHasText, Progress!Next,
         Progress!MayBecome, Progress!Moves, Progress!OcrGoesForward,
         Progress!ExtractionGoesForward, Progress!NothingForgotten
    <3>2. CASE RequestExtraction(c)
      BY <2>1, <2>2, <2>3, <2>4, <3>2 DEF RequestExtraction, file, IInv, CompletedHasText,
         Progress!Next, Progress!MayBecome, Progress!Moves, Progress!OcrGoesForward,
         Progress!ExtractionGoesForward, Progress!NothingForgotten
    <3>3. CASE \/ \E ok, wantsOcr, wantsExtract \in BOOLEAN :
                    UploadFlat(c, ok, wantsOcr, wantsExtract)
               \/ \E ok, wantsOcr \in BOOLEAN : UploadToFolder(c, ok, wantsOcr)
      <4>1. PICK wants \in BOOLEAN :
              /\ row = "absent" /\ row' = "live"
              /\ extract' = IF wants THEN "pending" ELSE extract
              /\ UNCHANGED <<ocr, markdown, faults>>
        <5>1. CASE \E ok, wantsOcr, wantsExtract \in BOOLEAN :
                     UploadFlat(c, ok, wantsOcr, wantsExtract)
          BY <2>1, <5>1 DEF UploadFlat, AbsentIsFresh, IInv
        <5>2. CASE \E ok, wantsOcr \in BOOLEAN : UploadToFolder(c, ok, wantsOcr)
          BY <5>2 DEF UploadToFolder
        <5>3. QED BY <3>3, <5>1, <5>2
      <4>2. /\ ocr = "null" /\ extract = "null" /\ markdown = "null" /\ faults = 0
            /\ ~overlapped /\ ~overlapped'
        BY <2>1, <2>5, <4>1 DEF IInv, AbsentIsFresh, Begin
      <4>3. extract' = "pending" \/ extract' = "null"
        BY <4>1, <4>2
      <4>4. Progress!Creates(seen, seen')
        BY <4>1, <4>2, <4>3 DEF Progress!Creates
      <4>5. QED BY <2>2, <4>4 DEF Progress!Next, Progress!MayBecome
    <3>4. QED BY <2>5, <3>1, <3>2, <3>3 DEF Begin, BeginCall
  <2>6. ASSUME NEW c \in Calls, Step(c) PROVE [Progress!Next]_seen
    <3>1. CASE row # "live"
      <4>1. UNCHANGED file /\ UNCHANGED overlapped
        BY <2>1, <2>6, <3>1, StepRemembers DEF Step
      <4>2. faults' = faults
        BY <2>6 DEF Step, StepCall, QueueOcr, Load, StartOcr,
           Download, ProviderAnswers, ReadAnswer, ProviderFails, Transfers, Reject,
           CatchOcr, Save, Chain, MarkExtracting, CatchExtraction, LoadForExtraction,
           RefuseExtraction, GeminiAnswers, GeminiFails, FinishExtraction, UpdateMissingRow, Throw
      <4>3. QED BY <4>1, <4>2 DEF file
    <3>2. CASE row = "live"
      <4>1. /\ row' = "live"
            /\ ocr' = "null" => ocr = "null"
            /\ extract' \in {"null", "pending"} => extract' = extract
            /\ markdown' = "null" => markdown = "null"
        BY <2>1, <2>6, <3>2, StepRemembers
      <4>2. (ocr' = "completed" \/ extract' = "completed") => markdown' # "null"
        BY <2>1 DEF IInv, CompletedHasText
      <4>3. ~overlapped' =>
              Progress!OcrGoesForward(seen, seen') /\ Progress!ExtractionGoesForward(seen, seen')
        <5> SUFFICES ASSUME ~overlapped'
            PROVE Progress!OcrGoesForward(seen, seen') /\ Progress!ExtractionGoesForward(seen, seen')
          OBVIOUS
        <5>1. Alone
          BY <2>3 DEF SerialInv
        <5>2. QED
          BY <5>1, <2>6, <3>2, OcrForward DEF Progress!OcrGoesForward, Progress!ExtractionGoesForward
      <4>4. Progress!NothingForgotten(seen, seen')
        BY <4>1 DEF Progress!NothingForgotten
      <4>5. Progress!Moves(seen, seen')
        BY <2>3, <2>4, <3>2, <4>1, <4>2, <4>3, <4>4 DEF Progress!Moves
      <4>6. QED BY <2>2, <4>5 DEF Progress!Next, Progress!MayBecome
    <3>3. QED BY <3>1, <3>2
  <2>7. ASSUME NEW c \in Calls, DatabaseError(c), UNCHANGED overlapped PROVE [Progress!Next]_seen
    <3>1. row # "absent"
      BY <2>1, <2>7 DEF IInv, AbsentIsFresh, DatabaseError
    <3>2. UNCHANGED <<row, ocr, extract, markdown, overlapped>>
      BY <2>7 DEF DatabaseError, file
    <3>3. CASE row = "live"
      BY <2>1, <2>2, <2>4, <3>2, <3>3 DEF IInv, CompletedHasText, Progress!Next, Progress!MayBecome,
         Progress!Moves, Progress!OcrGoesForward, Progress!ExtractionGoesForward,
         Progress!NothingForgotten
    <3>4. CASE row = "removed"
      BY <2>2, <2>4, <3>2, <3>4 DEF Progress!Next, Progress!MayBecome, Progress!Fades
    <3>5. QED BY <2>1, <3>1, <3>3, <3>4 DEF TypeOK
  <2>8. CASE RemoveRow /\ UNCHANGED overlapped
    BY <2>2, <2>3, <2>4, <2>8 DEF RemoveRow, Progress!Next, Progress!MayBecome, Progress!Fades
  <2>9. CASE Restart /\ UNCHANGED overlapped
    <3>1. row # "absent"
      BY <2>1, <2>9 DEF IInv, AbsentIsFresh, Restart
    <3>2. UNCHANGED <<row, ocr, extract, markdown, overlapped>>
      BY <2>9 DEF Restart, file
    <3>3. CASE row = "live"
      BY <2>1, <2>2, <2>4, <3>2, <3>3 DEF IInv, CompletedHasText, Progress!Next, Progress!MayBecome,
         Progress!Moves, Progress!OcrGoesForward, Progress!ExtractionGoesForward,
         Progress!NothingForgotten
    <3>4. CASE row = "removed"
      BY <2>2, <2>4, <3>2, <3>4 DEF Progress!Next, Progress!MayBecome, Progress!Fades
    <3>5. QED BY <2>1, <3>1, <3>3, <3>4 DEF TypeOK
  <2>10. CASE UNCHANGED vars
    BY <2>10 DEF vars
  <2>11. QED BY <2>5, <2>6, <2>7, <2>8, <2>9, <2>10 DEF Next
<1>3. QED
  BY <1>1, <1>2, SerialInductive, PTL DEF Spec, ImplementsDocumentProgress, Progress!Spec

-----------------------------------------------------------------------------
(* SplitReview.                                                             *)
(*                                                                          *)
(* Naturals: a set of them has a least one, a bounded one a greatest.  What *)
(* follows for all numbers or all sequences is shown by it: there is no     *)
(* least one for which it is wrong.                                         *)

LEMMA Least ==
  ASSUME NEW T \in SUBSET Nat, T # {}
  PROVE  \E m \in T : \A k \in T : m <= k
<1> DEFINE Less == OpToRel(<, Nat)
<1>1. IsWellFoundedOn(Less, Nat)
  BY NatLessThanWellFounded
<1>2. \A i, j \in Nat : i < j => <<i, j>> \in Less
  BY DEF OpToRel
<1> HIDE DEF Less
<1>3. PICK m \in T : \A k \in T : <<k, m>> \notin Less
  BY <1>1, WFMin
<1>4. ASSUME NEW k \in T PROVE m <= k
  <2>1. m \in Nat /\ k \in Nat
    OBVIOUS
  <2>2. ~(k < m)
    BY <2>1, <1>2, <1>3
  <2> QED BY <2>1, <2>2
<1> QED BY <1>4

LEMMA Greatest ==
  ASSUME NEW n \in Nat, NEW s \in SUBSET (1 .. n), s # {}
  PROVE  Max(s) \in s /\ \A k \in s : k <= Max(s)
<1> DEFINE Bounds == {m \in Nat : \A k \in s : k <= m}
<1>1. n \in Bounds
  OBVIOUS
<1>2. PICK m \in Bounds : \A k \in Bounds : m <= k
  <2> HIDE DEF Bounds
  <2>1. Bounds \in SUBSET Nat
    BY DEF Bounds
  <2> QED BY <1>1, <2>1, Least
<1>3. m \in s
  <2> SUFFICES ASSUME m \notin s PROVE FALSE
    OBVIOUS
  <2>1. m \in Nat /\ \A k \in s : k \in Nat /\ 1 <= k /\ k <= m /\ k # m
    BY <1>2
  <2>e. PICK e \in s : TRUE
    OBVIOUS
  <2>2. m - 1 \in Nat /\ \A k \in s : k <= m - 1
    BY <2>1, <2>e
  <2>3. m - 1 \in Bounds
    BY <2>2
  <2> HIDE DEF Bounds
  <2> QED BY <2>1, <2>3, <1>2
<1> QED BY <1>3 DEF Max

-----------------------------------------------------------------------------
(* Sorting.  Of a strict total order on 1 .. n the k-th element exists, and is *)
(* the one that k - 1 elements come before.                                    *)

Ahead(R, n, i) == {j \in 1 .. n : <<j, i>> \in R}

StrictOrder(R, n) ==
  /\ \A i \in 1 .. n : <<i, i>> \notin R
  /\ \A i, j, k \in 1 .. n : <<i, j>> \in R /\ <<j, k>> \in R => <<i, k>> \in R
  /\ \A i, j \in 1 .. n : i = j \/ <<i, j>> \in R \/ <<j, i>> \in R

LEMMA RankRange ==
  ASSUME NEW n \in Nat, NEW R, StrictOrder(R, n), NEW i \in 1 .. n
  PROVE  IsFiniteSet(Ahead(R, n, i)) /\ Cardinality(Ahead(R, n, i)) \in 0 .. n - 1
<1>1. IsFiniteSet(1 .. n) /\ Cardinality(1 .. n) = n
  BY FS_Interval
<1>2. Ahead(R, n, i) \in SUBSET ((1 .. n) \ {i})
  BY DEF Ahead, StrictOrder
<1>3. IsFiniteSet((1 .. n) \ {i}) /\ Cardinality((1 .. n) \ {i}) = n - 1
  BY <1>1, FS_RemoveElement
<1> QED BY <1>2, <1>3, FS_Subset, FS_CardinalityType

LEMMA Ranks ==
  ASSUME NEW n \in Nat, NEW R, StrictOrder(R, n)
  PROVE  /\ \A i, j \in 1 .. n : <<i, j>> \in R =>
              Cardinality(Ahead(R, n, i)) < Cardinality(Ahead(R, n, j))
         /\ \A k \in 1 .. n : \E i \in 1 .. n : Cardinality(Ahead(R, n, i)) = k - 1
<1>1. IsFiniteSet(1 .. n) /\ Cardinality(1 .. n) = n
  BY FS_Interval
<1>2. \A i \in 1 .. n : IsFiniteSet(Ahead(R, n, i)) /\ Cardinality(Ahead(R, n, i)) \in 0 .. n - 1
  BY RankRange
<1>3. ASSUME NEW i \in 1 .. n, NEW j \in 1 .. n, <<i, j>> \in R
      PROVE  Cardinality(Ahead(R, n, i)) < Cardinality(Ahead(R, n, j))
  <2>1. Ahead(R, n, i) \in SUBSET Ahead(R, n, j) /\ i \in Ahead(R, n, j) \ Ahead(R, n, i)
    BY <1>3 DEF Ahead, StrictOrder
  <2>2. /\ Cardinality(Ahead(R, n, i)) <= Cardinality(Ahead(R, n, j))
        /\ Cardinality(Ahead(R, n, i)) # Cardinality(Ahead(R, n, j))
    BY <2>1, <1>2, FS_Subset
  <2> QED BY <2>2, <1>2
<1>4. ASSUME NEW k \in 1 .. n PROVE \E i \in 1 .. n : Cardinality(Ahead(R, n, i)) = k - 1
  <2> DEFINE place == [i \in 1 .. n |-> Cardinality(Ahead(R, n, i)) + 1]
  <2>1. place \in [1 .. n -> 1 .. n]
    BY <1>2
  <2>2. ASSUME NEW i \in 1 .. n, NEW j \in 1 .. n, i # j PROVE place[i] # place[j]
    <3>1. <<i, j>> \in R \/ <<j, i>> \in R
      BY <2>2 DEF StrictOrder
    <3>2. Cardinality(Ahead(R, n, i)) # Cardinality(Ahead(R, n, j))
      BY <3>1, <1>2, <1>3
    <3> QED BY <3>2, <1>2
  <2> HIDE DEF place
  <2>3. place \in Injection(1 .. n, 1 .. n)
    BY <2>1, <2>2 DEF Injection, IsInjective
  <2>4. place \in Surjection(1 .. n, 1 .. n)
    BY <2>3, <1>1, FS_Injection
  <2>5. PICK i \in 1 .. n : place[i] = k
    BY <2>4 DEF Surjection
  <2> QED BY <2>5, <1>2 DEF place
<1> QED BY <1>3, <1>4

\* What SortedBy makes of a sequence: an arrangement p of its indices.
Arranges(p, n) ==
  /\ p \in [1 .. n -> 1 .. n]
  /\ \A i \in 1 .. n : \E k \in 1 .. n : p[k] = i

InOrderOf(R, p, n) == \A j, k \in 1 .. n : j < k => <<p[j], p[k]>> \in R

LEMMA Arrangement ==
  ASSUME NEW n \in Nat, NEW R, StrictOrder(R, n),
         NEW p, p = [k \in 1 .. n |-> CHOOSE i \in 1 .. n : Cardinality(Ahead(R, n, i)) = k - 1]
  PROVE  Arranges(p, n) /\ InOrderOf(R, p, n)
<1>1. \A k \in 1 .. n : p[k] \in 1 .. n /\ Cardinality(Ahead(R, n, p[k])) = k - 1
  BY Ranks
<1>2. ASSUME NEW i \in 1 .. n, NEW j \in 1 .. n,
             Cardinality(Ahead(R, n, i)) = Cardinality(Ahead(R, n, j))
      PROVE  i = j
  <2>1. Cardinality(Ahead(R, n, i)) \in Nat
    BY RankRange
  <2>2. <<i, j>> \notin R /\ <<j, i>> \notin R
    BY <1>2, <2>1, Ranks
  <2> QED BY <2>2 DEF StrictOrder
<1>3. ASSUME NEW i \in 1 .. n PROVE \E k \in 1 .. n : p[k] = i
  <2> DEFINE k == Cardinality(Ahead(R, n, i)) + 1
  <2>1. k \in 1 .. n /\ k - 1 = Cardinality(Ahead(R, n, i))
    BY RankRange
  <2> HIDE DEF k
  <2>2. p[k] = i
    BY <1>1, <1>2, <2>1
  <2> QED BY <2>1, <2>2
<1>4. ASSUME NEW j \in 1 .. n, NEW k \in 1 .. n, j < k PROVE <<p[j], p[k]>> \in R
  <2>1. Cardinality(Ahead(R, n, p[j])) = j - 1 /\ Cardinality(Ahead(R, n, p[k])) = k - 1
    BY <1>1
  <2>2. p[j] # p[k]
    <3>1. j - 1 # k - 1
      BY <1>4
    <3> QED BY <2>1, <3>1
  <2>3. <<p[k], p[j]>> \notin R
    BY <2>1, <1>4, <1>1, Ranks
  <2> QED BY <1>1, <2>2, <2>3 DEF StrictOrder
<1>5. p \in [1 .. n -> 1 .. n]
  BY <1>1
<1> QED BY <1>3, <1>4, <1>5 DEF Arranges, InOrderOf

\* The orders of q's indices, by index where starts and ends do not tell.
ByStart(q) ==
  {x \in (1 .. Len(q)) \X (1 .. Len(q)) :
     StartsBefore(q[x[1]], q[x[2]]) \/ (~StartsBefore(q[x[2]], q[x[1]]) /\ x[1] < x[2])}
ByStartEnd(q) ==
  {x \in (1 .. Len(q)) \X (1 .. Len(q)) :
     ComesBefore(q[x[1]], q[x[2]]) \/ (~ComesBefore(q[x[2]], q[x[1]]) /\ x[1] < x[2])}

LEMMA OrderedByStart ==
  ASSUME NEW q \in Seq(Segment)
  PROVE  StrictOrder(ByStart(q), Len(q)) /\ StrictOrder(ByStartEnd(q), Len(q))
<1> DEFINE n == Len(q)
<1>0. ASSUME NEW i \in 1 .. n PROVE q[i].start \in Nat /\ q[i].end \in Nat
  <2>1. q[i] \in Segment
    OBVIOUS
  <2> QED BY <2>1 DEF Segment
<1>n. n \in Nat
  OBVIOUS
<1>1. \A i, j \in 1 .. n :
        /\ <<i, j>> \in ByStart(q) <=>
             q[i].start < q[j].start \/ (~(q[j].start < q[i].start) /\ i < j)
        /\ <<i, j>> \in ByStartEnd(q) <=>
             \/ q[i].start < q[j].start \/ (q[i].start = q[j].start /\ q[i].end < q[j].end)
             \/ ~(q[j].start < q[i].start \/ (q[j].start = q[i].start /\ q[j].end < q[i].end)) /\ i < j
  BY DEF ByStart, ByStartEnd, StartsBefore, ComesBefore
<1> HIDE DEF n
<1>2. StrictOrder(ByStart(q), n)
  <2>1. \A i \in 1 .. n : <<i, i>> \notin ByStart(q)
    BY <1>0, <1>1
  <2>2. \A i, j, k \in 1 .. n : <<i, j>> \in ByStart(q) /\ <<j, k>> \in ByStart(q) => <<i, k>> \in ByStart(q)
    BY <1>0, <1>1
  <2>3. ASSUME NEW i \in 1 .. n, NEW j \in 1 .. n, i # j
        PROVE  <<i, j>> \in ByStart(q) \/ <<j, i>> \in ByStart(q)
    <3>1. i < j \/ j < i
      BY <2>3, <1>n
    <3> QED BY <1>0, <1>1, <3>1
  <2> QED BY <2>1, <2>2, <2>3 DEF StrictOrder
<1>3. StrictOrder(ByStartEnd(q), n)
  <2>1. \A i \in 1 .. n : <<i, i>> \notin ByStartEnd(q)
    BY <1>0, <1>1
  <2>2. ASSUME NEW i \in 1 .. n, NEW j \in 1 .. n, NEW k \in 1 .. n,
               <<i, j>> \in ByStartEnd(q), <<j, k>> \in ByStartEnd(q)
        PROVE  <<i, k>> \in ByStartEnd(q)
    <3> DEFINE a == q[i].start  b == q[j].start  c == q[k].start
               x == q[i].end    y == q[j].end    z == q[k].end
    <3>1. i \in Nat /\ j \in Nat /\ k \in Nat
      BY <1>n
    <3>2. a \in Nat /\ b \in Nat /\ c \in Nat /\ x \in Nat /\ y \in Nat /\ z \in Nat
      BY <1>0
    <3>3. (a < b \/ (a = b /\ x < y)) \/ (~(b < a \/ (b = a /\ y < x)) /\ i < j)
      BY <1>1, <2>2
    <3>4. (b < c \/ (b = c /\ y < z)) \/ (~(c < b \/ (c = b /\ z < y)) /\ j < k)
      BY <1>1, <2>2
    <3>5. (a < c \/ (a = c /\ x < z)) \/ (~(c < a \/ (c = a /\ z < x)) /\ i < k)
      <4> HIDE DEF a, b, c, x, y, z
      <4> QED BY <3>1, <3>2, <3>3, <3>4
    <3> QED BY <1>1, <3>5
  <2>3. ASSUME NEW i \in 1 .. n, NEW j \in 1 .. n, i # j
        PROVE  <<i, j>> \in ByStartEnd(q) \/ <<j, i>> \in ByStartEnd(q)
    <3>1. i < j \/ j < i
      BY <2>3, <1>n
    <3> QED BY <1>0, <1>1, <3>1
  <2> QED BY <2>1, <2>2, <2>3 DEF StrictOrder
<1> QED BY <1>2, <1>3 DEF n

\* sortSegments puts the segments in the order of their first pages, and loses none.
LEMMA SortedByStart ==
  ASSUME NEW q \in Seq(Segment)
  PROVE  \E p : /\ Arranges(p, Len(q)) /\ InOrderOf(ByStart(q), p, Len(q))
                /\ sortSegments(q) = [k \in 1 .. Len(q) |-> q[p[k]]]
<1> DEFINE n == Len(q)
           p == [k \in 1 .. n |->
                   CHOOSE i \in 1 .. n : Cardinality(Ahead(ByStart(q), n, i)) = k - 1]
<1>1. Arranges(p, n) /\ InOrderOf(ByStart(q), p, n)
  <2>1. n \in Nat /\ StrictOrder(ByStart(q), n)
    BY OrderedByStart
  <2> HIDE DEF n
  <2>2. p = [k \in 1 .. n |-> CHOOSE i \in 1 .. n :
                                Cardinality(Ahead(ByStart(q), n, i)) = k - 1]
    OBVIOUS
  <2> HIDE DEF p
  <2> QED BY <2>1, <2>2, Arrangement
<1> DEFINE first(i) ==
             {j \in DOMAIN q : StartsBefore(q[j], q[i]) \/ (~StartsBefore(q[i], q[j]) /\ j < i)}
           r == [k \in DOMAIN q |-> q[CHOOSE i \in DOMAIN q : Cardinality(first(i)) = k - 1]]
<1>2. DOMAIN q = 1 .. n
  OBVIOUS
<1>3. \A i \in 1 .. n : first(i) = Ahead(ByStart(q), n, i)
  BY <1>2 DEF Ahead, ByStart
<1>4. sortSegments(q) = r
  BY DEF sortSegments, SortedBy
<1>5. \A k \in 1 .. n : p[k] = CHOOSE i \in DOMAIN q : Cardinality(first(i)) = k - 1
  <2> HIDE DEF first
  <2> QED BY <1>2, <1>3
<1>6. sortSegments(q) = [k \in 1 .. n |-> q[p[k]]]
  <2> HIDE DEF first, p
  <2> QED BY <1>2, <1>4, <1>5
<1> HIDE DEF p
<1> QED BY <1>1, <1>6

LEMMA SortedByStartEnd ==
  ASSUME NEW q \in Seq(Segment)
  PROVE  SortedBy(q, ComesBefore) \in Seq(Segment)
<1> DEFINE n == Len(q)
           p == [k \in 1 .. n |->
                   CHOOSE i \in 1 .. n : Cardinality(Ahead(ByStartEnd(q), n, i)) = k - 1]
           first(i) ==
             {j \in DOMAIN q : ComesBefore(q[j], q[i]) \/ (~ComesBefore(q[i], q[j]) /\ j < i)}
           r == [k \in DOMAIN q |-> q[CHOOSE i \in DOMAIN q : Cardinality(first(i)) = k - 1]]
<1>0. Arranges(p, n)
  <2>1. n \in Nat /\ StrictOrder(ByStartEnd(q), n)
    BY OrderedByStart
  <2> HIDE DEF n
  <2>2. p = [k \in 1 .. n |-> CHOOSE i \in 1 .. n :
                                Cardinality(Ahead(ByStartEnd(q), n, i)) = k - 1]
    OBVIOUS
  <2> HIDE DEF p
  <2> QED BY <2>1, <2>2, Arrangement
<1>1. p \in [1 .. n -> 1 .. n]
  <2> HIDE DEF p
  <2> QED BY <1>0 DEF Arranges
<1>2. DOMAIN q = 1 .. n
  OBVIOUS
<1>3. \A i \in 1 .. n : first(i) = Ahead(ByStartEnd(q), n, i)
  BY <1>2 DEF Ahead, ByStartEnd
<1>4. SortedBy(q, ComesBefore) = r
  BY DEF SortedBy
<1>5. \A k \in 1 .. n : p[k] = CHOOSE i \in DOMAIN q : Cardinality(first(i)) = k - 1
  <2> HIDE DEF first
  <2> QED BY <1>2, <1>3
<1>6. SortedBy(q, ComesBefore) = [k \in 1 .. n |-> q[p[k]]]
  <2> HIDE DEF first, p
  <2> QED BY <1>2, <1>4, <1>5
<1> HIDE DEF p
<1> QED BY <1>1, <1>6

LEMMA SortedSegments ==
  ASSUME NEW q \in Seq(Segment)
  PROVE  sortSegments(q) \in Seq(Segment) /\ Len(sortSegments(q)) = Len(q)
<1>1. PICK p : /\ Arranges(p, Len(q))
               /\ sortSegments(q) = [k \in 1 .. Len(q) |-> q[p[k]]]
  BY SortedByStart
<1>2. \A k \in 1 .. Len(q) : q[p[k]] \in Segment
  BY <1>1 DEF Arranges
<1>3. Len(q) \in Nat
  OBVIOUS
<1> QED BY <1>1, <1>2, <1>3

-----------------------------------------------------------------------------
(* Normalizing.  What the segments so far have in common, each added to those *)
(* before it.                                                                  *)

Normal(q) ==
  /\ \A i \in 1 .. Len(q) : 1 <= q[i].start /\ q[i].start <= q[i].end
  /\ \A i, j \in 1 .. Len(q) : i < j => q[i].end < q[j].start

Tidy(acc) ==
  /\ acc.segments \in Seq(Segment) /\ acc.prevEnd \in Nat
  /\ Normal(acc.segments)
  /\ \A i \in 1 .. Len(acc.segments) : acc.segments[i].end <= acc.prevEnd

Empty == [segments |-> << >>, prevEnd |-> 0, adjusted |-> FALSE]

LEMMA AddKeepsTidy ==
  ASSUME NEW acc, Tidy(acc), NEW s \in Segment
  PROVE  Tidy(AddSegment(acc, s))
<1> DEFINE from == IF s.start = 0 THEN 1 ELSE s.start
           to == IF s.end = 0 THEN 1 ELSE s.end
           start == StartAfter(acc.prevEnd, from)
           new == [s EXCEPT !.start = start, !.end = to]
           q == acc.segments
<1>1. /\ from \in Nat /\ from >= 1 /\ to \in Nat /\ acc.prevEnd \in Nat
      /\ start \in Nat /\ start >= 1 /\ start > acc.prevEnd
  BY DEF Segment, Tidy, StartAfter
<1>2. CASE to < start
  <2>1. AddSegment(acc, s) = [acc EXCEPT !.adjusted = TRUE]
    BY <1>2 DEF AddSegment
  <2> DEFINE a == [acc EXCEPT !.adjusted = TRUE]
  <2>2. a.segments = acc.segments /\ a.prevEnd = acc.prevEnd
    OBVIOUS
  <2> HIDE DEF a
  <2> QED BY <2>1, <2>2 DEF Tidy, a
<1>3. CASE ~(to < start)
  <2> DEFINE a == AddSegment(acc, s)
  <2>1. a.segments = Append(q, new) /\ a.prevEnd = to
    BY <1>3 DEF AddSegment
  <2>2. new \in Segment /\ new.start = start /\ new.end = to
    BY <1>1 DEF Segment
  <2>3. q \in Seq(Segment)
    BY DEF Tidy
  <2> HIDE DEF new, start, to, from, a
  <2> DEFINE r == Append(q, new)
  <2>4. /\ r \in Seq(Segment) /\ Len(r) = Len(q) + 1
        /\ \A i \in 1 .. Len(q) : r[i] = q[i]
        /\ r[Len(q) + 1] = new
    BY <2>2, <2>3
  <2>5. \A i \in 1 .. Len(q) : q[i].start \in Nat /\ q[i].end \in Nat
    <3>1. \A i \in 1 .. Len(q) : q[i] \in Segment
      BY <2>3
    <3> QED BY <3>1 DEF Segment
  <2>n. Len(q) \in Nat
    BY <2>3
  <2> HIDE DEF r
  <2>6. ASSUME NEW i \in 1 .. Len(r)
        PROVE  1 <= r[i].start /\ r[i].start <= r[i].end /\ r[i].end <= to
    <3>1. CASE i = Len(q) + 1
      BY <3>1, <2>4, <2>2, <1>1, <1>3
    <3>2. CASE i \in 1 .. Len(q)
      BY <3>2, <2>4, <2>5, <1>1, <1>3 DEF Tidy, Normal
    <3> QED BY <3>1, <3>2, <2>4, <2>n
  <2>7. ASSUME NEW i \in 1 .. Len(r), NEW j \in 1 .. Len(r), i < j
        PROVE  r[i].end < r[j].start
    <3>0. i \in 1 .. Len(q)
      BY <2>7, <2>4, <2>n
    <3>1. CASE j = Len(q) + 1
      BY <3>0, <3>1, <2>4, <2>5, <2>2, <1>1 DEF Tidy
    <3>2. CASE j \in 1 .. Len(q)
      BY <3>0, <3>2, <2>4, <2>7 DEF Tidy, Normal
    <3> QED BY <3>1, <3>2, <2>4, <2>n
  <2> QED BY <2>1, <2>4, <2>6, <2>7, <1>1 DEF Tidy, Normal, a, r
<1> QED BY <1>2, <1>3

\* A fold over the indices of r up to n.
IsFold(g, r, n) ==
  g = [s \in SUBSET (1 .. n) |->
         IF s = {} THEN Empty ELSE AddSegment(g[s \ {Max(s)}], r[Max(s)])]

LEMMA FoldExists == ASSUME NEW r, NEW n \in Nat PROVE \E g : IsFold(g, r, n)
<1> DEFINE Without == {k \in Nat : ~\E g : IsFold(g, r, k)}
<1>1. ASSUME Without # {} PROVE FALSE
  <2>1. PICK k \in Without : \A j \in Without : k <= j
    <3> HIDE DEF Without
    <3>1. Without \in SUBSET Nat
      BY DEF Without
    <3> QED BY <1>1, <3>1, Least
  <2>2. CASE k = 0
    <3> DEFINE g == [s \in SUBSET (1 .. 0) |-> Empty]
    <3>1. \A s \in SUBSET (1 .. 0) : s = {}
      OBVIOUS
    <3>2. IsFold(g, r, 0)
      BY <3>1 DEF IsFold
    <3> HIDE DEF g
    <3> QED BY <3>2, <2>2
  <2>3. CASE k # 0
    <3> DEFINE m == k - 1
    <3>0. m \in Nat /\ k = m + 1 /\ m \notin Without
      BY <2>1, <2>3
    <3>1. PICK g : IsFold(g, r, m)
      BY <3>0
    <3> DEFINE h == [s \in SUBSET (1 .. k) |->
                       IF k \in s THEN AddSegment(g[s \ {k}], r[k]) ELSE g[s]]
    <3>2. ASSUME NEW s \in SUBSET (1 .. k)
          PROVE  h[s] = IF s = {} THEN Empty ELSE AddSegment(h[s \ {Max(s)}], r[Max(s)])
      <4>0. k \in Nat
        OBVIOUS
      <4>1. CASE k \in s
        <5>1. Max(s) = k
          <6>1. Max(s) \in s /\ k <= Max(s)
            BY <4>0, <4>1, Greatest
          <6>2. Max(s) \in 1 .. k
            BY <6>1
          <6> QED BY <6>1, <6>2, <4>0
        <5>2. s \ {k} \in SUBSET (1 .. k) /\ k \notin s \ {k}
          OBVIOUS
        <5>3. h[s \ {k}] = g[s \ {k}]
          BY <5>2
        <5>4. h[s] = AddSegment(g[s \ {k}], r[k])
          BY <4>1
        <5> HIDE DEF h
        <5> QED BY <4>1, <5>1, <5>3, <5>4
      <4>2. CASE k \notin s
        <5>1. s \in SUBSET (1 .. m) /\ h[s] = g[s]
          BY <4>2, <3>0
        <5>2. g[s] = IF s = {} THEN Empty ELSE AddSegment(g[s \ {Max(s)}], r[Max(s)])
          <6> HIDE DEF h, m
          <6> QED BY <5>1, <3>1 DEF IsFold
        <5>3. h[s \ {Max(s)}] = g[s \ {Max(s)}]
          <6>1. s \ {Max(s)} \in SUBSET (1 .. k) /\ k \notin s \ {Max(s)}
            BY <4>2
          <6> QED BY <6>1
        <5> HIDE DEF h
        <5> QED BY <5>1, <5>2, <5>3
      <4> QED BY <4>1, <4>2
    <3>3. h = [s \in SUBSET (1 .. k) |-> h[s]]
      OBVIOUS
    <3>4. IsFold(h, r, k)
      <4> HIDE DEF h
      <4> QED BY <3>2, <3>3 DEF IsFold
    <3> HIDE DEF h
    <3> QED BY <3>4, <2>1
  <2> QED BY <2>2, <2>3
<1> QED BY <1>1

\* The segments that normalizeNonOverlappingSegments makes of any segments are a page or
\* more each, in the order of their pages, and do not overlap.
LEMMA NormalizedIsTidy ==
  ASSUME NEW q \in Seq(Segment)
  PROVE  Tidy(normalizeNonOverlappingSegments(q))
<1> DEFINE r == SortedBy(q, ComesBefore)
           n == Len(r)
           g == CHOOSE g : IsFold(g, r, n)
<1>1. r \in Seq(Segment) /\ n \in Nat /\ DOMAIN r = 1 .. n
  <2>1. r \in Seq(Segment)
    BY SortedByStartEnd
  <2> QED BY <2>1
<1> HIDE DEF r
<1>2. normalizeNonOverlappingSegments(q) =
        (CHOOSE f : f = [s \in SUBSET (DOMAIN r) |->
           IF s = {} THEN Empty ELSE AddSegment(f[s \ {Max(s)}], r[Max(s)])])[DOMAIN r]
  BY DEF normalizeNonOverlappingSegments, FoldLeft, MapThenFoldSet, Empty, r
<1>3. normalizeNonOverlappingSegments(q) = g[1 .. n]
  BY <1>1, <1>2 DEF IsFold
<1>4. IsFold(g, r, n)
  BY <1>1, FoldExists
<1> HIDE DEF g, n
<1> DEFINE Untidy == {k \in Nat : k <= n /\ ~Tidy(g[1 .. k])}
<1>5. ASSUME Untidy # {} PROVE FALSE
  <2>1. PICK k \in Untidy : \A j \in Untidy : k <= j
    <3> HIDE DEF Untidy
    <3>1. Untidy \in SUBSET Nat
      BY DEF Untidy
    <3> QED BY <1>5, <3>1, Least
  <2>2. CASE k = 0
    <3>1. 1 .. 0 = {} /\ {} \in SUBSET (1 .. n)
      OBVIOUS
    <3>2. g[{}] = Empty
      BY <1>4, <3>1 DEF IsFold
    <3>3. Tidy(Empty)
      BY DEF Tidy, Empty, Normal
    <3> QED BY <2>1, <2>2, <3>1, <3>2, <3>3
  <2>3. CASE k # 0
    <3> DEFINE m == k - 1
    <3>0. m \in Nat /\ k = m + 1 /\ k \in 1 .. n /\ m <= n /\ m \notin Untidy
      BY <2>1, <2>3, <1>1
    <3>1. Tidy(g[1 .. m])
      BY <3>0
    <3> HIDE DEF m
    <3>2. /\ 1 .. k \in SUBSET (1 .. n) /\ 1 .. k # {} /\ k \in 1 .. k
          /\ (1 .. k) \ {k} = 1 .. m
      <4>1. k \in Nat /\ m \in Nat /\ n \in Nat /\ 1 <= k /\ k <= n /\ k = m + 1
        BY <3>0, <1>1
      <4> HIDE DEF Untidy
      <4>2. \A x : x \in 1 .. k => x \in 1 .. n
        BY <4>1
      <4>3. \A x : x \in (1 .. k) \ {k} <=> x \in 1 .. m
        BY <4>1
      <4>4. k \in 1 .. k
        BY <4>1
      <4> QED BY <4>2, <4>3, <4>4
    <3>3. Max(1 .. k) = k
      <4>1. Max(1 .. k) \in 1 .. k /\ k <= Max(1 .. k)
        BY <3>2, <3>0, Greatest
      <4> QED BY <4>1, <3>0
    <3>4. g[1 .. k] = AddSegment(g[1 .. m], r[k])
      BY <1>4, <3>2, <3>3 DEF IsFold
    <3>5. r[k] \in Segment
      BY <1>1, <3>0
    <3>6. Tidy(g[1 .. k])
      BY <3>1, <3>4, <3>5, AddKeepsTidy
    <3> QED BY <3>6, <2>1
  <2> QED BY <2>2, <2>3
<1>6. n \notin Untidy
  BY <1>5
<1> QED BY <1>6, <1>1, <1>3

-----------------------------------------------------------------------------
(* The check of the server.  It compares neighbours only, in the order of their *)
(* first pages; that none of them overlap follows, whatever their order in the  *)
(* request.                                                                     *)

Disjoint(q) ==
  \A i, j \in 1 .. Len(q) : i # j => Pages(q[i]) \cap Pages(q[j]) = {}

\* What is normalized passes the check of the server.
LEMMA NormalIsApart == ASSUME NEW q \in Seq(Segment), Normal(q) PROVE Apart(q)
<1> DEFINE n == Len(q)
<1>1. PICK p : /\ Arranges(p, n) /\ InOrderOf(ByStart(q), p, n)
               /\ sortSegments(q) = [k \in 1 .. n |-> q[p[k]]]
  BY SortedByStart
<1>2. n \in Nat /\ \A i \in 1 .. n : q[i] \in Segment
  OBVIOUS
<1> DEFINE r == sortSegments(q)
<1>3. Len(r) = n
  BY SortedSegments
<1> HIDE DEF n, r
<1>4. ASSUME NEW i \in 2 .. n PROVE r[i].start > r[i - 1].end
  <2>1. i \in 1 .. n /\ i - 1 \in 1 .. n /\ i - 1 < i
    BY <1>2
  <2> DEFINE a == p[i - 1]
             b == p[i]
  <2>2. a \in 1 .. n /\ b \in 1 .. n
    BY <2>1, <1>1 DEF Arranges
  <2>3. <<a, b>> \in ByStart(q)
    BY <2>1, <1>1 DEF InOrderOf
  <2>4. r[i] = q[b] /\ r[i - 1] = q[a]
    BY <1>1, <2>1 DEF r
  <2> HIDE DEF a, b
  <2>5. /\ q[a].start \in Nat /\ q[a].end \in Nat /\ q[b].start \in Nat /\ q[b].end \in Nat
        /\ q[a].start <= q[a].end /\ q[b].start <= q[b].end
    BY <2>2, <1>2 DEF Segment, Normal, n
  <2>6. q[a].start < q[b].start \/ (~(q[b].start < q[a].start) /\ a < b)
    BY <2>3 DEF ByStart, StartsBefore
  <2>7. a < b
    <3>1. ~(b < a)
      <4> SUFFICES ASSUME b < a PROVE FALSE
        OBVIOUS
      <4>1. q[b].end < q[a].start
        BY <2>2 DEF Normal, n
      <4> QED BY <4>1, <2>2, <2>5, <2>6, <1>2
    <3>2. a # b
      BY <2>2, <2>5, <2>6, <1>2
    <3> QED BY <3>1, <3>2, <2>2, <1>2
  <2>8. q[a].end < q[b].start
    BY <2>2, <2>7 DEF Normal, n
  <2> QED BY <2>4, <2>5, <2>8
<1> QED BY <1>3, <1>4 DEF Apart, r

\* What passes it has no page twice.
LEMMA ApartIsDisjoint ==
  ASSUME NEW q \in Seq(Segment), InDocument(q), Apart(q)
  PROVE  Disjoint(q)
<1> DEFINE n == Len(q)
<1>1. PICK p : /\ Arranges(p, n) /\ InOrderOf(ByStart(q), p, n)
               /\ sortSegments(q) = [k \in 1 .. n |-> q[p[k]]]
  BY SortedByStart
<1>2. n \in Nat /\ DOMAIN q = 1 .. n /\ \A i \in 1 .. n : q[i] \in Segment
  OBVIOUS
<1> DEFINE r == sortSegments(q)
<1>3. Len(r) = n /\ \A k \in 1 .. n : p[k] \in 1 .. n /\ r[k] = q[p[k]]
  BY <1>1, SortedSegments DEF Arranges
<1> HIDE DEF n, r
<1>4. \A k \in 1 .. n :
        r[k].start \in Nat /\ r[k].end \in Nat /\ r[k].start <= r[k].end
  BY <1>2, <1>3 DEF InDocument, Segment
<1>5. \A i \in 2 .. n : r[i].start > r[i - 1].end
  BY <1>3 DEF Apart, r
<1>6. ASSUME NEW i \in 1 .. n PROVE \A j \in 1 .. n : i < j => r[i].end < r[j].start
  <2> DEFINE Wrong == {j \in 1 .. n : i < j /\ ~(r[i].end < r[j].start)}
  <2>1. ASSUME Wrong # {} PROVE FALSE
    <3>1. PICK j \in Wrong : \A k \in Wrong : j <= k
      <4>1. Wrong \in SUBSET Nat
        BY <1>2
      <4> HIDE DEF Wrong
      <4> QED BY <2>1, <4>1, Least
    <3>2. j \in 2 .. n /\ j - 1 \in 1 .. n /\ ~(j <= j - 1) /\ (i = j - 1 \/ i < j - 1)
      BY <1>2
    <3>3. r[j].start > r[j - 1].end
      BY <3>2, <1>5
    <3>4. j - 1 \notin Wrong
      <4> HIDE DEF Wrong
      <4> QED BY <3>1, <3>2
    <3>5. i = j - 1 \/ r[i].end < r[j - 1].start
      BY <3>2, <3>4
    <3> QED BY <3>2, <3>3, <3>5, <1>4
  <2> QED BY <2>1
<1>7. ASSUME NEW i \in 1 .. n, NEW j \in 1 .. n, i # j
      PROVE  Pages(q[i]) \cap Pages(q[j]) = {}
  <2>1. PICK a \in 1 .. n : p[a] = i
    BY <1>1 DEF Arranges
  <2>2. PICK b \in 1 .. n : p[b] = j
    BY <1>1 DEF Arranges
  <2>3. a < b \/ b < a
    BY <2>1, <2>2, <1>7, <1>2
  <2>4. r[a].end < r[b].start \/ r[b].end < r[a].start
    BY <2>3, <1>6
  <2>5. q[i] = r[a] /\ q[j] = r[b]
    BY <2>1, <2>2, <1>3
  <2>6. Pages(r[a]) \cap Pages(r[b]) = {}
    BY <2>4, <1>4 DEF Pages
  <2> QED BY <2>5, <2>6
<1> QED BY <1>7 DEF Disjoint, n

-----------------------------------------------------------------------------
(* Types: indices that are found, segments that are replaced, proposals, and then *)
(* the groups of variables that an action leaves alone as one.                    *)

LEMMA LeastIndex ==
  ASSUME NEW n \in Nat, NEW T \in SUBSET (1 .. n), T # {}
  PROVE  Min(T) \in T
<1>1. T \in SUBSET Nat
  OBVIOUS
<1>2. \E m \in T : \A k \in T : m <= k
  BY <1>1, Least
<1> QED BY <1>2 DEF Min

LEMMA PageIndex ==
  ASSUME NEW q \in Seq(Segment), NEW p
  PROVE  segmentIndexForPage(q, p) \in 0 .. Len(q)
<1> DEFINE T == {i \in 1 .. Len(q) : p \in Pages(q[i])}
<1>1. segmentIndexForPage(q, p) = IF T # {} THEN Min(T) ELSE 0
  BY DEF segmentIndexForPage, SelectInSeq
<1>2. Len(q) \in Nat /\ T \in SUBSET (1 .. Len(q))
  OBVIOUS
<1> HIDE DEF T
<1>3. T # {} => Min(T) \in 1 .. Len(q)
  BY <1>2, LeastIndex
<1> QED BY <1>1, <1>2, <1>3

LEMMA Spliced ==
  ASSUME NEW q \in Seq(Segment), NEW i \in 1 .. Len(q), NEW n \in Nat, NEW r \in Seq(Segment)
  PROVE  Splice(q, i, n, r) \in Seq(Segment)
<1>1. Len(q) \in Nat /\ \A k \in 1 .. Len(q) : q[k] \in Segment
  OBVIOUS
<1>2. SubSeq(q, 1, i - 1) \in Seq(Segment)
  BY <1>1, SubSeqProperties
<1>3. SubSeq(q, i + n, Len(q)) \in Seq(Segment)
  BY <1>1, SubSeqProperties
<1> QED BY <1>2, <1>3 DEF Splice

LEMMA ProposedSegments ==
  ASSUME NEW read, NEW q \in proposeSplitWithGemini(read)
  PROVE  q \in Seq(Segment) /\ q # << >>
<1>0. PICK p \in Proposals : \E f \in [DOMAIN p -> TypeIds \cup {NoType}] :
        q = [i \in DOMAIN p |-> [start |-> p[i].start, end |-> p[i].end,
                                  named |-> TRUE, type |-> f[i]]]
  BY DEF proposeSplitWithGemini
<1>1. PICK f \in [DOMAIN p -> TypeIds \cup {NoType}] :
        q = [i \in DOMAIN p |-> [start |-> p[i].start, end |-> p[i].end,
                                  named |-> TRUE, type |-> f[i]]]
  BY <1>0
<1>2. p \in Seq(Span) /\ p # << >>
  BY ProposalsAssumption
<1>3. DOMAIN p = 1 .. Len(p) /\ Len(p) \in Nat \ {0} /\ \A i \in 1 .. Len(p) : p[i] \in Span
  BY <1>2
<1>4. \A i \in 1 .. Len(p) : q[i] \in Segment
  <2> SUFFICES ASSUME NEW i \in 1 .. Len(p) PROVE q[i] \in Segment
    OBVIOUS
  <2>1. p[i].start \in Nat /\ p[i].end \in Nat /\ f[i] \in TypeIds \cup {NoType}
    BY <1>1, <1>3, PagesAssumption DEF Span
  <2> QED BY <2>1, <1>1, <1>3 DEF Segment
<1>5. DOMAIN q = 1 .. Len(p)
  BY <1>1, <1>3
<1>6. q = [i \in 1 .. Len(p) |-> q[i]]
  BY <1>1, <1>5
<1>7. q \in Seq(Segment) /\ Len(q) = Len(p)
  <2> HIDE <1>1
  <2> QED BY <1>3, <1>4, <1>6
<1> QED BY <1>7, <1>3

ClientTypeOK ==
  /\ view \in {"pick", "processing", "review", "away"} /\ own \in BOOLEAN
  /\ segments \in Seq(Segment)
  /\ documentTypes \subseteq TypeIds /\ strip \in {"none", "loading", "shown", "missing"}

StorageTypeOK ==
  /\ saved \in Review /\ offered \in Review
  /\ record \in [status : {"none", "processing", "review", "completed", "failed"}, review : Review]

RequestTypeOK ==
  /\ sent \in Seq(Segment) /\ asked \in Seq(Segment)
  /\ stage \in {"none", "creating", "answered"}
  /\ made \in Seq([pages : SUBSET Nat, of : Segment])
  /\ lost \in BOOLEAN

RunTypeOK ==
  /\ task \in {"none", "upload", "ocr", "load", "propose"}
  /\ call \in [phase : {"unused", "out", "pause", "done", "failed"},
               attempt : 0 .. 2, types : SUBSET TypeIds]
  /\ call.phase = "pause" => call.attempt < 2
  /\ polls \in 0 .. MaxPolls

ServerTypeOK ==
  /\ types \in [TypeIds -> {"none", "live", "deleted"}]
  /\ source \in {"none", "live", "archived", "gone", "removed", "hollow"}

LEMMA TypeParts ==
  SplitTypeOK <=> ClientTypeOK /\ StorageTypeOK /\ RequestTypeOK /\ RunTypeOK /\ ServerTypeOK
BY DEF SplitTypeOK, ClientTypeOK, StorageTypeOK, RequestTypeOK, RunTypeOK, ServerTypeOK

LEMMA ClientSame == ASSUME ClientTypeOK, UNCHANGED client PROVE ClientTypeOK'
BY DEF ClientTypeOK, client
LEMMA StorageSame == ASSUME StorageTypeOK, UNCHANGED storage PROVE StorageTypeOK'
BY DEF StorageTypeOK, storage
LEMMA RequestSame == ASSUME RequestTypeOK, UNCHANGED request PROVE RequestTypeOK'
BY DEF RequestTypeOK, request, server
LEMMA RunSame == ASSUME RunTypeOK, UNCHANGED running PROVE RunTypeOK'
BY DEF RunTypeOK, running
LEMMA ServerSame == ASSUME ServerTypeOK, UNCHANGED <<source, types>> PROVE ServerTypeOK'
BY DEF ServerTypeOK

LEMMA RecordUpdated ==
  ASSUME StorageTypeOK, NEW r,
         r \in [status : {"none", "processing", "review", "completed", "failed"}, review : Review],
         updateProcessRecord(r)
  PROVE  record' \in [status : {"none", "processing", "review", "completed", "failed"},
                      review : Review]
BY DEF StorageTypeOK, updateProcessRecord

LEMMA FailKeepsTypes == ASSUME SplitTypeOK, Fail PROVE SplitTypeOK'
<1>0. ClientTypeOK /\ StorageTypeOK /\ RequestTypeOK /\ RunTypeOK /\ ServerTypeOK
  BY TypeParts
<1>1. ClientTypeOK'
  BY <1>0 DEF Fail, ClientTypeOK
<1>2. StorageTypeOK'
  <2>1. [record EXCEPT !.status = "failed"] \in
          [status : {"none", "processing", "review", "completed", "failed"}, review : Review]
    BY <1>0 DEF StorageTypeOK
  <2> QED BY <2>1, <1>0, RecordUpdated DEF Fail, StorageTypeOK
<1>3. RequestTypeOK'
  BY <1>0, RequestSame DEF Fail
<1>4. RunTypeOK'
  BY <1>0, PollsAssumption DEF Fail, EndTask, Unused, RunTypeOK
<1>5. ServerTypeOK'
  BY <1>0, ServerSame DEF Fail
<1> QED BY <1>1, <1>2, <1>3, <1>4, <1>5
       DEF SplitTypeOK, ClientTypeOK, StorageTypeOK, RequestTypeOK, RunTypeOK, ServerTypeOK

LEMMA EditKeepsTypes ==
  ASSUME SplitTypeOK, NEW q \in Seq(Segment), Edit(q)
  PROVE  SplitTypeOK'
<1>0. ClientTypeOK /\ StorageTypeOK /\ RequestTypeOK /\ RunTypeOK /\ ServerTypeOK
  BY TypeParts
<1>1. ClientTypeOK'
  BY <1>0, SortedSegments DEF Edit, ClientTypeOK
<1>2. StorageTypeOK' /\ RequestTypeOK' /\ RunTypeOK' /\ ServerTypeOK'
  BY <1>0, StorageSame, RequestSame, RunSame, ServerSame DEF Edit
<1> QED BY <1>1, <1>2
       DEF SplitTypeOK, ClientTypeOK, StorageTypeOK, RequestTypeOK, RunTypeOK, ServerTypeOK

LEMMA TaskKeepsTypes == ASSUME SplitTypeOK, Task PROVE SplitTypeOK'
<1>0. ClientTypeOK /\ StorageTypeOK /\ RequestTypeOK /\ RunTypeOK /\ ServerTypeOK
  BY TypeParts
<1> DEFINE AllOK == ClientTypeOK /\ StorageTypeOK /\ RequestTypeOK /\ RunTypeOK /\ ServerTypeOK
<1>all. AllOK' => SplitTypeOK'
  BY DEF SplitTypeOK, ClientTypeOK, StorageTypeOK, RequestTypeOK, RunTypeOK, ServerTypeOK
<1>1. CASE Start
  <2>1. ClientTypeOK' /\ RunTypeOK'
    BY <1>0, <1>1 DEF Start, ClientTypeOK, RunTypeOK
  <2>2. StorageTypeOK'
    BY <1>0, <1>1 DEF Start, StorageTypeOK, NoRecord, Review
  <2>3. RequestTypeOK' /\ ServerTypeOK'
    BY <1>0, <1>1, RequestSame, ServerSame DEF Start
  <2> QED BY <2>1, <2>2, <2>3, <1>all
<1>2. CASE Uploaded
  <2>1. RunTypeOK' /\ ServerTypeOK'
    BY <1>0, <1>2 DEF Uploaded, RunTypeOK, ServerTypeOK, CalledWith, Unused
  <2>2. ClientTypeOK' /\ StorageTypeOK' /\ RequestTypeOK'
    BY <1>0, <1>2, ClientSame, StorageSame, RequestSame DEF Uploaded
  <2> QED BY <2>1, <2>2, <1>all
<1>3. CASE TaskFails
  BY <1>3, FailKeepsTypes DEF TaskFails
<1>4. CASE CallSucceeds \/ CallFails \/ CallAgain
  <2>1. RunTypeOK'
    <3>1. CASE CallSucceeds
      BY <1>0, <3>1 DEF CallSucceeds, RunTypeOK
    <3>2. CASE CallFails
      BY <1>0, <3>2 DEF CallFails, RunTypeOK
    <3>3. CASE CallAgain
      <4>1. call.attempt + 1 \in 0 .. 2
        BY <1>0, <3>3 DEF CallAgain, RunTypeOK
      <4>2. /\ call' \in [phase : {"unused", "out", "pause", "done", "failed"},
                          attempt : 0 .. 2, types : SUBSET TypeIds]
            /\ call'.phase = "out"
        BY <4>1, <1>0, <3>3 DEF CallAgain, RunTypeOK
      <4> QED BY <4>2, <1>0, <3>3 DEF CallAgain, RunTypeOK
    <3> QED BY <1>4, <3>1, <3>2, <3>3
  <2>2. UNCHANGED <<client, storage, request, source, types>>
    BY <1>4 DEF CallSucceeds, CallFails, CallAgain
  <2>3. ClientTypeOK' /\ StorageTypeOK' /\ RequestTypeOK' /\ ServerTypeOK'
    BY <1>0, <2>2, ClientSame, StorageSame, RequestSame, ServerSame
  <2> QED BY <2>1, <2>3, <1>all
<1>5. CASE PollOcr
  <2>1. CASE ~Fail
    <3>1. UNCHANGED <<client, storage, request, source, types>>
      BY <1>5, <2>1 DEF PollOcr
    <3>2. RunTypeOK'
      BY <1>0, <1>5, <2>1, PollsAssumption DEF PollOcr, RunTypeOK, Unused
    <3>3. ClientTypeOK' /\ StorageTypeOK' /\ RequestTypeOK' /\ ServerTypeOK'
      BY <1>0, <3>1, ClientSame, StorageSame, RequestSame, ServerSame
    <3> QED BY <3>2, <3>3, <1>all
  <2> QED BY <2>1, FailKeepsTypes
<1>6. CASE ConfigLoaded
  <2>1. RunTypeOK'
    BY <1>0, <1>6 DEF ConfigLoaded, RunTypeOK
  <2>2. ClientTypeOK'
    BY <1>0, <1>6 DEF ConfigLoaded, ClientTypeOK, listDocumentTypes
  <2>3. StorageTypeOK' /\ RequestTypeOK' /\ ServerTypeOK'
    BY <1>0, <1>6, StorageSame, RequestSame, ServerSame DEF ConfigLoaded
  <2> QED BY <2>1, <2>2, <2>3, <1>all
<1>7. CASE splitPdfPropose
  <2>1. CASE ~Fail
    <3>1. UNCHANGED <<client, storage, request, source, types>>
      BY <1>7, <2>1 DEF splitPdfPropose
    <3>2. RunTypeOK'
      BY <1>0, <1>7, <2>1 DEF splitPdfPropose, RunTypeOK, CalledWith, listDocumentTypes
    <3>3. ClientTypeOK' /\ StorageTypeOK' /\ RequestTypeOK' /\ ServerTypeOK'
      BY <1>0, <3>1, ClientSame, StorageSame, RequestSame, ServerSame
    <3> QED BY <3>2, <3>3, <1>all
  <2> QED BY <2>1, FailKeepsTypes
<1>8. CASE Proposed
  <2>1. PICK q \in proposeSplitWithGemini(call.types) :
          /\ saved' = sortSegments(q)
          /\ updateProcessRecord([status |-> "review", review |-> sortSegments(q)])
          /\ IF own THEN view' = "review" /\ segments' = sortSegments(q) /\ strip' = "loading"
                    ELSE UNCHANGED <<view, segments, strip>>
    BY <1>8 DEF Proposed
  <2>2. sortSegments(q) \in Seq(Segment)
    BY ProposedSegments, SortedSegments
  <2>3. StorageTypeOK'
    <3>1. [status |-> "review", review |-> sortSegments(q)] \in
            [status : {"none", "processing", "review", "completed", "failed"}, review : Review]
      BY <2>2 DEF Review
    <3> QED BY <3>1, <2>1, <2>2, <1>0, <1>8, RecordUpdated DEF Proposed, StorageTypeOK, Review
  <2>4. ClientTypeOK'
    BY <2>1, <2>2, <1>0, <1>8 DEF Proposed, ClientTypeOK
  <2>5. RunTypeOK'
    BY <1>0, <1>8, PollsAssumption DEF Proposed, EndTask, Unused, RunTypeOK
  <2>6. RequestTypeOK' /\ ServerTypeOK'
    BY <1>0, <1>8, RequestSame, ServerSame DEF Proposed
  <2> QED BY <2>3, <2>4, <2>5, <2>6, <1>all
<1>9. CASE ProposalFails
  BY <1>9, FailKeepsTypes DEF ProposalFails
<1> QED BY <1>1, <1>2, <1>3, <1>4, <1>5, <1>6, <1>7, <1>8, <1>9 DEF Task

\* Whatever the strip does, it edits the segments under review.
LEMMA StripEdits ==
  ASSUME SplitTypeOK, SplitPdfPageStrip
  PROVE  \E q \in Seq(Segment) : Edit(q)
<1> DEFINE n == Len(segments)
           Edited == \E q \in Seq(Segment) : Edit(q)
<1>0. /\ segments \in Seq(Segment) /\ n \in Nat
      /\ \A i \in 1 .. n : segments[i] \in Segment
      /\ documentTypes \subseteq TypeIds
  BY DEF SplitTypeOK
<1>1. ASSUME NEW p \in buildLayoutBlocks PROVE p \in Nat /\ p + 1 \in Nat
  <2>1. CASE p \in 1 .. PageCount
    BY <2>1, PagesAssumption
  <2>2. CASE \E i \in DOMAIN segments : p \in Pages(segments[i])
    <3>1. PICK i \in 1 .. n : p \in Pages(segments[i])
      BY <2>2, <1>0
    <3>2. segments[i].start \in Nat /\ segments[i].end \in Nat
      BY <1>0 DEF Segment
    <3> QED BY <3>1, <3>2 DEF Pages
  <2> QED BY <2>1, <2>2 DEF buildLayoutBlocks
<1>2. ASSUME NEW i \in 1 .. n, handleSegmentNameChange(i) PROVE Edited
  <2>1. [segments EXCEPT ![i].named = TRUE] \in Seq(Segment)
    <3>1. [segments[i] EXCEPT !.named = TRUE] \in Segment
      BY <1>0 DEF Segment
    <3>2. [segments EXCEPT ![i] = [segments[i] EXCEPT !.named = TRUE]] \in Seq(Segment)
      BY <1>0, <3>1
    <3> QED BY <3>2
  <2> QED BY <1>2, <2>1 DEF handleSegmentNameChange
<1>3. ASSUME NEW i \in 1 .. n, handleSegmentDocTypeChange(i) PROVE Edited
  <2>0. PICK t \in documentTypes : Edit([segments EXCEPT ![i].type = t])
    BY <1>3 DEF handleSegmentDocTypeChange
  <2>1. [segments EXCEPT ![i].type = t] \in Seq(Segment)
    <3>1. [segments[i] EXCEPT !.type = t] \in Segment
      BY <1>0 DEF Segment
    <3>2. [segments EXCEPT ![i] = [segments[i] EXCEPT !.type = t]] \in Seq(Segment)
      BY <1>0, <3>1
    <3> QED BY <3>2
  <2> QED BY <2>0, <2>1
<1>m. ASSUME NEW s \in Segment, NEW t \in Segment PROVE <<Merged(s, t)>> \in Seq(Segment)
  <2>1. Merged(s, t) \in Segment
    BY DEF Merged, Segment
  <2> QED BY <2>1
<1>4. ASSUME NEW p \in buildLayoutBlocks, handleSplitAfterPage(p) PROVE Edited
  <2> DEFINE i == segmentIndexForPage(segments, p)
             s == [segments[i] EXCEPT !.end = p]
             t == [segments[i] EXCEPT !.start = p + 1, !.named = TRUE, !.type = NoType]
  <2>1. i \in 1 .. n
    BY <1>0, <1>4, PageIndex DEF handleSplitAfterPage
  <2>2. Edit(Splice(segments, i, 1, <<s, t>>))
    BY <1>4 DEF handleSplitAfterPage
  <2> HIDE DEF i
  <2>3. s \in Segment /\ t \in Segment
    BY <1>0, <1>1, <2>1 DEF Segment
  <2> HIDE DEF s, t
  <2>4. Splice(segments, i, 1, <<s, t>>) \in Seq(Segment)
    <3>1. <<s, t>> \in Seq(Segment)
      BY <2>3
    <3> QED BY <1>0, <2>1, <3>1, Spliced
  <2> QED BY <2>2, <2>4
<1>5. ASSUME NEW p \in buildLayoutBlocks, handleMergeCutAfterPage(p) PROVE Edited
  <2> DEFINE I == {k \in 1 .. Len(segments) : segments[k].end = p}
             i == IF I # {} THEN Min(I) ELSE 0
  <2>1. /\ 0 < i /\ i < n
        /\ Edit(Splice(segments, i, 2, <<Merged(segments[i], segments[i + 1])>>))
    BY <1>5 DEF handleMergeCutAfterPage, SelectInSeq
  <2>2. i \in 0 .. n
    <3>1. I \in SUBSET (1 .. n)
      OBVIOUS
    <3> HIDE DEF I, n
    <3>2. I # {} => Min(I) \in 1 .. n
      BY <3>1, <1>0, LeastIndex
    <3> QED BY <3>2, <1>0
  <2> HIDE DEF i, n
  <2>3. i \in 1 .. n /\ i + 1 \in 1 .. n
    BY <2>1, <2>2, <1>0
  <2>4. Splice(segments, i, 2, <<Merged(segments[i], segments[i + 1])>>) \in Seq(Segment)
    BY <1>0, <1>m, <2>3, Spliced DEF n
  <2> QED BY <2>1, <2>4
<1>6. ASSUME NEW i \in 1 .. n, handleRemoveSegment(i) PROVE Edited
  <2> DEFINE k == IF i = 1 THEN 1 ELSE i - 1
  <2>1. n > 1 /\ Edit(Splice(segments, k, 2, <<Merged(segments[k], segments[k + 1])>>))
    BY <1>6 DEF handleRemoveSegment
  <2>2. k \in 1 .. n /\ k + 1 \in 1 .. n
    BY <2>1, <1>0
  <2> HIDE DEF k
  <2>3. Splice(segments, k, 2, <<Merged(segments[k], segments[k + 1])>>) \in Seq(Segment)
    BY <1>0, <1>m, <2>2, Spliced
  <2> QED BY <2>1, <2>3
<1>7. ASSUME NEW p \in buildLayoutBlocks, excludePageFromSegments(p) PROVE Edited
  <2> DEFINE i == segmentIndexForPage(segments, p)
             s == segments[i]
             before == IF s.start < p THEN <<[s EXCEPT !.end = p - 1]>> ELSE << >>
             after == IF p < s.end THEN <<[s EXCEPT !.start = p + 1]>> ELSE << >>
  <2>1. i \in 1 .. n /\ Edit(Splice(segments, i, 1, before \o after))
    BY <1>0, <1>7, PageIndex DEF excludePageFromSegments
  <2> HIDE DEF i
  <2>2. s \in Segment
    BY <1>0, <2>1
  <2> HIDE DEF s
  <2>3. before \in Seq(Segment)
    <3>1. CASE s.start < p
      <4>1. p - 1 \in Nat
        BY <3>1, <1>1, <2>2 DEF Segment
      <4>2. [s EXCEPT !.end = p - 1] \in Segment
        BY <4>1, <2>2 DEF Segment
      <4> QED BY <4>2, <3>1
    <3> QED BY <3>1
  <2>4. after \in Seq(Segment)
    <3>1. [s EXCEPT !.start = p + 1] \in Segment
      BY <1>1, <2>2 DEF Segment
    <3> QED BY <3>1
  <2> HIDE DEF before, after
  <2>5. Splice(segments, i, 1, before \o after) \in Seq(Segment)
    <3>1. before \o after \in Seq(Segment)
      BY <2>3, <2>4
    <3> QED BY <1>0, <2>1, <3>1, Spliced
  <2> QED BY <2>1, <2>5
<1>8. ASSUME NEW p \in buildLayoutBlocks, includePageInSegments(p) PROVE Edited
  <2> DEFINE C == {k \in 1 .. Len([j \in 1 .. n - 1 |-> j]) :
                     /\ segments[[j \in 1 .. n - 1 |-> j][k]].end + 1 = p
                     /\ segments[[j \in 1 .. n - 1 |-> j][k] + 1].start = p + 1}
             F == {k \in 1 .. Len(segments) : segments[k].end + 1 = p}
             P == {k \in 1 .. Len(segments) : segments[k].start = p + 1}
             m == IF n = 0 THEN 0 ELSE n - 1
             closes == IF C # {} THEN Min(C) ELSE 0
             follows == IF F # {} THEN Min(F) ELSE 0
             precedes == IF P # {} THEN Min(P) ELSE 0
             joined == [segments[closes] EXCEPT !.end = segments[closes + 1].end]
             new == [start |-> p, end |-> p, named |-> FALSE, type |-> NoType]
  <2>0. closes \in 0 .. m /\ follows \in 0 .. n /\ precedes \in 0 .. n
    <3>1. Len([j \in 1 .. n - 1 |-> j]) = m
      <4>1. 1 .. n - 1 = 1 .. m /\ m \in Nat
        BY <1>0
      <4>2. [j \in 1 .. m |-> j] \in Seq(Nat) /\ Len([j \in 1 .. m |-> j]) = m
        <5> HIDE DEF m
        <5> QED BY <4>1
      <4> QED BY <4>1, <4>2
    <3>2. C \in SUBSET (1 .. m)
      <4> HIDE DEF m, n
      <4> QED BY <3>1
    <3>3. closes \in 0 .. m
      <4>1. m \in Nat
        BY <1>0
      <4> HIDE DEF C, m
      <4>2. C # {} => Min(C) \in 1 .. m
        BY <3>2, <4>1, LeastIndex
      <4> QED BY <4>1, <4>2
    <3>4. F \in SUBSET (1 .. n) /\ P \in SUBSET (1 .. n)
      OBVIOUS
    <3>5. follows \in 0 .. n /\ precedes \in 0 .. n
      <4> HIDE DEF F, P, n
      <4>1. (F # {} => Min(F) \in 1 .. n) /\ (P # {} => Min(P) \in 1 .. n)
        BY <3>4, <1>0, LeastIndex
      <4> QED BY <4>1, <1>0
    <3> HIDE DEF closes, follows, precedes
    <3> QED BY <3>3, <3>5
  <2>1. CASE closes > 0 /\ Edit(Splice(segments, closes, 2, <<joined>>))
    <3> HIDE DEF closes
    <3>4. closes \in 1 .. n /\ closes + 1 \in 1 .. n
      BY <2>1, <2>0, <1>0
    <3>5. joined \in Segment
      BY <3>4, <1>0 DEF Segment
    <3> HIDE DEF joined
    <3>6. <<joined>> \in Seq(Segment)
      BY <3>5
    <3>7. Splice(segments, closes, 2, <<joined>>) \in Seq(Segment)
      BY <1>0, <3>4, <3>6, Spliced
    <3> QED BY <2>1, <3>7
  <2>2. CASE follows > 0 /\ Edit([segments EXCEPT ![follows].end = p])
    <3> HIDE DEF follows
    <3>1. follows \in 1 .. n
      BY <2>0, <2>2, <1>0
    <3>2. [segments[follows] EXCEPT !.end = p] \in Segment
      BY <3>1, <1>0, <1>1 DEF Segment
    <3>3. [segments EXCEPT ![follows] = [segments[follows] EXCEPT !.end = p]] \in Seq(Segment)
      BY <1>0, <3>1, <3>2
    <3> QED BY <2>2, <3>3
  <2>3. CASE precedes > 0 /\ Edit([segments EXCEPT ![precedes].start = p])
    <3> HIDE DEF precedes
    <3>1. precedes \in 1 .. n
      BY <2>0, <2>3, <1>0
    <3>2. [segments[precedes] EXCEPT !.start = p] \in Segment
      BY <3>1, <1>0, <1>1 DEF Segment
    <3>3. [segments EXCEPT ![precedes] = [segments[precedes] EXCEPT !.start = p]] \in Seq(Segment)
      BY <1>0, <3>1, <3>2
    <3> QED BY <2>3, <3>3
  <2>4. CASE Edit(<<new>>)
    <3>1. new \in Segment
      BY <1>1 DEF Segment
    <3> HIDE DEF new
    <3>2. <<new>> \in Seq(Segment)
      BY <3>1
    <3> QED BY <2>4, <3>2
  <2>5. \/ closes > 0 /\ Edit(Splice(segments, closes, 2, <<joined>>))
        \/ follows > 0 /\ Edit([segments EXCEPT ![follows].end = p])
        \/ precedes > 0 /\ Edit([segments EXCEPT ![precedes].start = p])
        \/ Edit(<<new>>)
    <3>1. /\ closes > 0 \/ closes = 0
          /\ follows > 0 \/ follows = 0
          /\ precedes > 0 \/ precedes = 0
      <4> HIDE DEF closes, follows, precedes, m, n
      <4>1. m \in Nat
        BY <1>0 DEF m
      <4> QED BY <2>0, <1>0, <4>1
    <3>2. (CASE closes > 0 -> Edit(Splice(segments, closes, 2, <<joined>>))
             [] closes = 0 /\ follows > 0 -> Edit([segments EXCEPT ![follows].end = p])
             [] closes = 0 /\ follows = 0 /\ precedes > 0 ->
                 Edit([segments EXCEPT ![precedes].start = p])
             [] closes = 0 /\ follows = 0 /\ precedes = 0 -> n = 0 /\ Edit(<<new>>))
      BY <1>8 DEF includePageInSegments, SelectInSeq
    <3> HIDE DEF closes, follows, precedes, joined, new, n
    <3> QED BY <3>1, <3>2
  <2> QED BY <2>1, <2>2, <2>3, <2>4, <2>5
<1>9. DOMAIN segments = 1 .. n
  BY <1>0
<1> QED BY <1>2, <1>3, <1>4, <1>5, <1>6, <1>7, <1>8, <1>9
       DEF SplitPdfPageStrip, PageThumbColumnBlock, togglePageExclude, renderBetweenPages

LEMMA StripKeepsTypes == ASSUME SplitTypeOK, SplitPdfPageStrip PROVE SplitTypeOK'
BY StripEdits, EditKeepsTypes

LEMMA PageKeepsTypes == ASSUME SplitTypeOK, Page \/ History PROVE SplitTypeOK'
<1>0. ClientTypeOK /\ StorageTypeOK /\ RequestTypeOK /\ RunTypeOK /\ ServerTypeOK
  BY TypeParts
<1> DEFINE AllOK == ClientTypeOK /\ StorageTypeOK /\ RequestTypeOK /\ RunTypeOK /\ ServerTypeOK
<1>all. AllOK' => SplitTypeOK'
  BY DEF SplitTypeOK, ClientTypeOK, StorageTypeOK, RequestTypeOK, RunTypeOK, ServerTypeOK
<1>same. ASSUME UNCHANGED running, UNCHANGED <<source, types>>
         PROVE  RunTypeOK' /\ ServerTypeOK'
  BY <1>same, <1>0, RunSame, ServerSame
<1>1. CASE Leave
  <2>1. ClientTypeOK' /\ StorageTypeOK'
    <3>1. << >> \in Seq(Segment)
      OBVIOUS
    <3>2. ClientTypeOK'
      BY <1>0, <1>1, <3>1 DEF Leave, Unmount, ClientTypeOK
    <3>3. StorageTypeOK'
      BY <1>0, <1>1 DEF Leave, Unmount, StorageTypeOK, Review
    <3> QED BY <3>2, <3>3
  <2>2. RequestTypeOK' /\ RunTypeOK' /\ ServerTypeOK'
    BY <1>0, <1>1, <1>same, RequestSame DEF Leave
  <2> QED BY <2>1, <2>2, <1>all
<1>2. ASSUME NEW review \in Review, OfferSaved(review) PROVE SplitTypeOK'
  <2>1. ClientTypeOK' /\ StorageTypeOK'
    BY <1>0, <1>2 DEF OfferSaved, ClientTypeOK, StorageTypeOK, Review
  <2>2. RequestTypeOK' /\ RunTypeOK' /\ ServerTypeOK'
    BY <1>0, <1>2, <1>same, RequestSame DEF OfferSaved
  <2> QED BY <2>1, <2>2, <1>all
<1>3. CASE Open
  BY <1>0, <1>2, <1>3 DEF Open, StorageTypeOK
<1>4. CASE OpenFromHistory
  BY <1>0, <1>2, <1>4 DEF OpenFromHistory, StorageTypeOK
<1>5. CASE RemoveRecord
  <2>1. StorageTypeOK'
    BY <1>0, <1>5 DEF RemoveRecord, StorageTypeOK, NoRecord, Review
  <2>2. ClientTypeOK' /\ RequestTypeOK' /\ RunTypeOK' /\ ServerTypeOK'
    BY <1>0, <1>5, <1>same, ClientSame, RequestSame DEF RemoveRecord
  <2> QED BY <2>1, <2>2, <1>all
<1>6. CASE handleResume
  <2>1. ClientTypeOK' /\ StorageTypeOK'
    BY <1>0, <1>6 DEF handleResume, ClientTypeOK, StorageTypeOK, Review
  <2>2. RequestTypeOK' /\ RunTypeOK' /\ ServerTypeOK'
    BY <1>0, <1>6, <1>same, RequestSame DEF handleResume
  <2> QED BY <2>1, <2>2, <1>all
<1>7. CASE handleDiscard
  <2>1. ClientTypeOK' /\ StorageTypeOK'
    BY <1>0, <1>7, ClientSame DEF handleDiscard, StorageTypeOK, Review
  <2>2. RequestTypeOK' /\ RunTypeOK' /\ ServerTypeOK'
    BY <1>0, <1>7, <1>same, RequestSame DEF handleDiscard
  <2> QED BY <2>1, <2>2, <1>all
<1>8. CASE StripAnswered
  <2>1. ClientTypeOK' /\ StorageTypeOK'
    BY <1>0, <1>8, StorageSame DEF StripAnswered, ClientTypeOK
  <2>2. RequestTypeOK' /\ RunTypeOK' /\ ServerTypeOK'
    BY <1>0, <1>8, <1>same, RequestSame DEF StripAnswered
  <2> QED BY <2>1, <2>2, <1>all
<1>9. CASE GoBack
  <2>1. ClientTypeOK' /\ StorageTypeOK'
    BY <1>0, <1>9 DEF GoBack, ClientTypeOK, StorageTypeOK, Review
  <2>2. RequestTypeOK' /\ RunTypeOK' /\ ServerTypeOK'
    BY <1>0, <1>9, <1>same, RequestSame DEF GoBack
  <2> QED BY <2>1, <2>2, <1>all
<1>10. CASE handleApply
  <2> DEFINE normalized == normalizeNonOverlappingSegments(segments)
  <2>1. Tidy(normalized)
    BY <1>0, NormalizedIsTidy DEF ClientTypeOK
  <2>2. normalized.segments \in Seq(Segment)
    <3> HIDE DEF normalized
    <3> QED BY <2>1 DEF Tidy
  <2>3. /\ segments' \in {segments, normalized.segments}
        /\ sent' = normalized.segments
        /\ UNCHANGED <<view, own, documentTypes, strip, storage, server, lost, running, source, types>>
    BY <1>10 DEF handleApply
  <2> HIDE DEF normalized
  <2>4. ClientTypeOK' /\ RequestTypeOK'
    BY <1>0, <2>2, <2>3 DEF ClientTypeOK, RequestTypeOK, server
  <2>5. StorageTypeOK' /\ RunTypeOK' /\ ServerTypeOK'
    BY <1>0, <2>3, <1>same, StorageSame
  <2> QED BY <2>4, <2>5, <1>all
<1> QED BY <1>1, <1>3, <1>4, <1>5, <1>6, <1>7, <1>8, <1>9, <1>10, StripKeepsTypes DEF Page, History

\* The part that is to be cut next.
LEMMA PartType ==
  ASSUME SplitTypeOK, Len(made) < Len(asked)
  PROVE  /\ NextPart = [pages |-> Pages(asked[Len(made) + 1]), of |-> asked[Len(made) + 1]]
         /\ NextPart \in [pages : SUBSET Nat, of : Segment]
<1>0. asked \in Seq(Segment) /\ made \in Seq([pages : SUBSET Nat, of : Segment])
  BY DEF SplitTypeOK
<1>1. Len(made) + 1 \in 1 .. Len(asked) /\ DOMAIN asked = 1 .. Len(asked)
  BY <1>0
<1>2. asked[Len(made) + 1] \in Segment
  BY <1>0, <1>1
<1>3. Pages(asked[Len(made) + 1]) \in SUBSET Nat
  BY <1>2 DEF Pages, Segment
<1>4. NextPart = [pages |-> Pages(asked[Len(made) + 1]), of |-> asked[Len(made) + 1]]
  BY <1>1 DEF NextPart, applyPdfSplit
<1> QED BY <1>2, <1>3, <1>4

\* The segments of a split without a review have the pages of the proposal.
LEMMA AutoSegments ==
  ASSUME NEW q \in Seq(Segment)
  PROVE  /\ [i \in DOMAIN q |-> [q[i] EXCEPT !.type = NoType]] \in Seq(Segment)
         /\ Len([i \in DOMAIN q |-> [q[i] EXCEPT !.type = NoType]]) = Len(q)
         /\ \A i \in 1 .. Len(q) :
              /\ [k \in DOMAIN q |-> [q[k] EXCEPT !.type = NoType]][i].start = q[i].start
              /\ [k \in DOMAIN q |-> [q[k] EXCEPT !.type = NoType]][i].end = q[i].end
<1>1. Len(q) \in Nat /\ DOMAIN q = 1 .. Len(q) /\ \A i \in 1 .. Len(q) : q[i] \in Segment
  OBVIOUS
<1>2. \A s \in Segment : /\ [s EXCEPT !.type = NoType] \in Segment
                         /\ [s EXCEPT !.type = NoType].start = s.start
                         /\ [s EXCEPT !.type = NoType].end = s.end
  BY DEF Segment
<1> DEFINE a == [i \in DOMAIN q |-> [q[i] EXCEPT !.type = NoType]]
<1>3. a = [i \in 1 .. Len(q) |-> a[i]] /\ \A i \in 1 .. Len(q) : a[i] = [q[i] EXCEPT !.type = NoType]
  BY <1>1
<1> HIDE DEF a
<1>4. \A i \in 1 .. Len(q) : a[i] \in Segment /\ a[i].start = q[i].start /\ a[i].end = q[i].end
  BY <1>1, <1>2, <1>3
<1>5. a \in Seq(Segment) /\ Len(a) = Len(q)
  BY <1>1, <1>3, <1>4
<1> QED BY <1>4, <1>5 DEF a

LEMMA ServerKeepsTypes == ASSUME SplitTypeOK, Server PROVE SplitTypeOK'
<1>0. ClientTypeOK /\ StorageTypeOK /\ RequestTypeOK /\ RunTypeOK /\ ServerTypeOK
  BY TypeParts
<1> DEFINE AllOK == ClientTypeOK /\ StorageTypeOK /\ RequestTypeOK /\ RunTypeOK /\ ServerTypeOK
<1>all. AllOK' => SplitTypeOK'
  BY DEF SplitTypeOK, ClientTypeOK, StorageTypeOK, RequestTypeOK, RunTypeOK, ServerTypeOK
<1>same. ASSUME UNCHANGED <<client, storage, running>>
         PROVE  ClientTypeOK' /\ StorageTypeOK' /\ RunTypeOK'
  BY <1>same, <1>0, RunSame, ClientSame, StorageSame
<1>e. << >> \in Seq(Segment) /\ << >> \in Seq([pages : SUBSET Nat, of : Segment])
  OBVIOUS
<1>1. CASE createDocumentType \/ deleteDocumentType \/ removeElsewhere
  <2>1. ServerTypeOK'
    BY <1>0, <1>1 DEF createDocumentType, deleteDocumentType, removeElsewhere, ServerTypeOK
  <2>2. UNCHANGED <<client, storage, request, running>>
    BY <1>1 DEF createDocumentType, deleteDocumentType, removeElsewhere
  <2> QED BY <2>1, <2>2, <1>0, <1>same, RequestSame, <1>all
<1>2. CASE splitPdfApply
  <2>1. RequestTypeOK' /\ ServerTypeOK'
    BY <1>0, <1>2, <1>e, ServerSame DEF splitPdfApply, RequestTypeOK
  <2> QED BY <1>2, <2>1, <1>same, <1>all DEF splitPdfApply
<1>3. CASE Refused
  <2>1. RequestTypeOK' /\ ServerTypeOK'
    BY <1>0, <1>3, <1>e, ServerSame DEF Refused, RequestTypeOK, server
  <2> QED BY <1>3, <2>1, <1>same, <1>all DEF Refused
<1>4. CASE splitPdfAuto
  <2>1. RequestTypeOK'
    <3>1. CASE UNCHANGED server
      BY <3>1, <1>0, <1>4 DEF splitPdfAuto, RequestTypeOK, server
    <3>2. CASE ~UNCHANGED server
      <4>1. PICK q \in proposeSplitWithGemini(listDocumentTypes) :
              asked' = [i \in DOMAIN q |-> [q[i] EXCEPT !.type = NoType]]
        BY <3>2, <1>4 DEF splitPdfAuto
      <4>2. asked' \in Seq(Segment)
        BY <4>1, ProposedSegments, AutoSegments
      <4> QED BY <3>2, <4>2, <1>0, <1>4, <1>e DEF splitPdfAuto, RequestTypeOK
    <3> QED BY <3>1, <3>2
  <2>2. ServerTypeOK'
    BY <1>0, <1>4 DEF splitPdfAuto, ServerTypeOK
  <2> QED BY <1>4, <2>1, <2>2, <1>same, <1>all DEF splitPdfAuto
<1>5. CASE CreatePart
  <2>1. made' \in Seq([pages : SUBSET Nat, of : Segment])
    BY <1>0, <1>5, PartType DEF CreatePart, RequestTypeOK
  <2>2. RequestTypeOK' /\ ServerTypeOK'
    BY <1>0, <1>5, <2>1, ServerSame DEF CreatePart, RequestTypeOK
  <2> QED BY <1>5, <2>2, <1>same, <1>all DEF CreatePart
<1>6. CASE PartFails
  <2>1. RequestTypeOK' /\ ServerTypeOK'
    BY <1>0, <1>6, <1>e, ServerSame DEF PartFails, NoSplit, RequestTypeOK
  <2> QED BY <1>6, <2>1, <1>same, <1>all DEF PartFails
<1>7. CASE RemoveSource
  <2>1. RequestTypeOK'
    <3>1. CASE sent = << >>
      BY <1>0, <1>7, <3>1, <1>e DEF RemoveSource, NoSplit, RequestTypeOK
    <3>2. CASE sent # << >>
      BY <1>0, <1>7, <3>2 DEF RemoveSource, RequestTypeOK
    <3> QED BY <3>1, <3>2
  <2>2. ServerTypeOK'
    BY <1>0, <1>7 DEF RemoveSource, ServerTypeOK
  <2> QED BY <1>7, <2>1, <2>2, <1>same, <1>all DEF RemoveSource
<1>8. CASE Created
  <2>1. RequestTypeOK' /\ ServerTypeOK' /\ RunTypeOK'
    BY <1>0, <1>8, <1>e, ServerSame, RunSame DEF Created, NoSplit, RequestTypeOK
  <2>2. ClientTypeOK'
    BY <1>0, <1>8, <1>e DEF Created, Unmount, ClientTypeOK
  <2>3. StorageTypeOK'
    <3>1. [record EXCEPT !.status = "completed"] \in
            [status : {"none", "processing", "review", "completed", "failed"}, review : Review]
      BY <1>0 DEF StorageTypeOK
    <3> QED BY <1>0, <1>8, <3>1, RecordUpdated DEF Created, Unmount, StorageTypeOK, Review
  <2> QED BY <2>1, <2>2, <2>3, <1>all
<1>9. CASE AnswerLost
  <2>1. RequestTypeOK' /\ ServerTypeOK'
    BY <1>0, <1>9, <1>e, ServerSame DEF AnswerLost, NoSplit, RequestTypeOK
  <2> QED BY <1>9, <2>1, <1>same, <1>all DEF AnswerLost
<1> QED BY <1>1, <1>2, <1>3, <1>4, <1>5, <1>6, <1>7, <1>8, <1>9 DEF Server

LEMMA StepKeepsTypes == ASSUME SplitTypeOK, [SplitNext]_splitVars PROVE SplitTypeOK'
<1>1. CASE UNCHANGED splitVars
  <2>1. ClientTypeOK' /\ StorageTypeOK' /\ RequestTypeOK' /\ RunTypeOK' /\ ServerTypeOK'
    BY <1>1, TypeParts, ClientSame, StorageSame, RequestSame, RunSame, ServerSame DEF splitVars
  <2> QED BY <2>1
         DEF SplitTypeOK, ClientTypeOK, StorageTypeOK, RequestTypeOK, RunTypeOK, ServerTypeOK
<1> QED BY <1>1, TaskKeepsTypes, PageKeepsTypes, ServerKeepsTypes DEF SplitNext

LEMMA InitTypes == SplitInit => SplitTypeOK
<1>1. << >> \in Seq(Segment) /\ << >> \in Seq([pages : SUBSET Nat, of : Segment])
  OBVIOUS
<1> SUFFICES ASSUME SplitInit PROVE SplitTypeOK
  OBVIOUS
<1>2. ClientTypeOK /\ ServerTypeOK
  BY <1>1 DEF SplitInit, ClientTypeOK, ServerTypeOK
<1>3. StorageTypeOK
  BY DEF SplitInit, StorageTypeOK, NoRecord, Review
<1>4. RequestTypeOK
  BY <1>1 DEF SplitInit, RequestTypeOK
<1>5. RunTypeOK
  BY PollsAssumption DEF SplitInit, RunTypeOK, Unused
<1> QED BY <1>2, <1>3, <1>4, <1>5, TypeParts

\* Every variable of SplitReview keeps its type.
THEOREM SplitTypeCorrect == SplitSpec => []SplitTypeOK
<1> QED BY InitTypes, StepKeepsTypes, PTL DEF SplitSpec

-----------------------------------------------------------------------------
(* What is sent.  Only handleApply sends segments, and those are normalized. *)

\* What handleApply sends passes the checks of splitPdfApply, but for missing names and
\* pages beyond the document.
THEOREM SentIsAccepted == SplitSpec => []NormalizedIsAccepted
<1>1. SplitInit => Normal(sent)
  BY DEF SplitInit, Normal
<1>2. ASSUME SplitTypeOK, Normal(sent), [SplitNext]_splitVars PROVE Normal(sent)'
  <2>1. CASE handleApply
    <3> DEFINE normalized == normalizeNonOverlappingSegments(segments)
    <3>1. Tidy(normalized)
      BY <1>2, NormalizedIsTidy DEF SplitTypeOK
    <3>2. sent' = normalized.segments
      BY <2>1 DEF handleApply
    <3> HIDE DEF normalized
    <3> QED BY <3>1, <3>2 DEF Tidy, Normal
  <2>2. CASE ~handleApply
    <3>1. sent' \in {sent, << >>}
      <4>1. CASE Task
        <5>1. UNCHANGED request
          BY <4>1 DEF Task, Start, Uploaded, TaskFails, CallSucceeds, CallFails, CallAgain, PollOcr,
                      ConfigLoaded, splitPdfPropose, Proposed, ProposalFails, Fail
        <5> QED BY <5>1 DEF request
      <4>2. CASE Page \/ History
        <5>1. UNCHANGED request
          BY <4>2, <2>2, <1>2, StripEdits
             DEF Page, History, Leave, Open, OpenFromHistory, OfferSaved, RemoveRecord, handleResume,
                 handleDiscard, StripAnswered, GoBack, Edit
        <5> QED BY <5>1 DEF request
      <4>3. CASE Server
        BY <4>3 DEF Server, createDocumentType, deleteDocumentType, removeElsewhere, splitPdfApply,
                    Refused, splitPdfAuto, CreatePart, PartFails, RemoveSource, Created, AnswerLost, request
      <4>4. CASE UNCHANGED splitVars
        BY <4>4 DEF splitVars, request
      <4> QED BY <1>2, <4>1, <4>2, <4>3, <4>4 DEF SplitNext
    <3>2. CASE sent' = sent
      BY <3>2, <1>2 DEF Normal
    <3>3. CASE sent' = << >>
      BY <3>3 DEF Normal
    <3> QED BY <3>1, <3>2, <3>3
  <2> QED BY <2>1, <2>2
<1>3. SplitTypeOK /\ Normal(sent) => NormalizedIsAccepted
  <2> SUFFICES ASSUME SplitTypeOK, Normal(sent), sent # << >>,
                      \A i \in DOMAIN sent : sent[i].named /\ ~(sent[i].end > PageCount)
               PROVE  Accepts(sent)
    BY DEF NormalizedIsAccepted
  <2>1. sent \in Seq(Segment)
    BY DEF SplitTypeOK
  <2>2. DOMAIN sent = 1 .. Len(sent) /\ \A i \in 1 .. Len(sent) : sent[i].end \in Nat
    <3>1. DOMAIN sent = 1 .. Len(sent) /\ \A i \in 1 .. Len(sent) : sent[i] \in Segment
      BY <2>1
    <3> QED BY <3>1 DEF Segment
  <2>3. InDocument(sent)
    <3> SUFFICES ASSUME NEW i \in 1 .. Len(sent)
                 PROVE  1 <= sent[i].start /\ sent[i].start <= sent[i].end /\ sent[i].end <= PageCount
      BY <2>2 DEF InDocument
    <3>1. sent[i].end \in Nat /\ ~(sent[i].end > PageCount)
      BY <2>2
    <3> QED BY <3>1, PagesAssumption DEF Normal
  <2> QED BY <2>1, <2>3, NormalIsApart DEF Accepts, validateSegments
<1> QED BY <1>1, <1>2, <1>3, SplitTypeCorrect, PTL DEF SplitSpec

-----------------------------------------------------------------------------
(* What is cut: the parts made so far are those of the first segments asked for. *)

CutSoFar ==
  /\ InDocument(asked) /\ Disjoint(asked)
  /\ Len(made) <= Len(asked)
  /\ \A i \in 1 .. Len(made) : made[i] = [pages |-> Pages(asked[i]), of |-> asked[i]]

LEMMA CutNothing == ASSUME asked' = << >>, made' = << >> PROVE CutSoFar'
BY DEF CutSoFar, InDocument, Disjoint

LEMMA CutSame == ASSUME CutSoFar, asked' = asked, made' = made PROVE CutSoFar'
BY DEF CutSoFar, InDocument, Disjoint

\* Of the steps only those of the server cut.
LEMMA OthersCutNothing ==
  ASSUME SplitTypeOK, Task \/ Page \/ History \/ UNCHANGED splitVars
  PROVE  UNCHANGED server
<1>1. CASE Task
  <2>1. UNCHANGED request
    BY <1>1 DEF Task, Start, Uploaded, TaskFails, CallSucceeds, CallFails, CallAgain, PollOcr,
                ConfigLoaded, splitPdfPropose, Proposed, ProposalFails, Fail
  <2> QED BY <2>1 DEF request
<1>2. CASE Page \/ History
  <2>1. UNCHANGED request \/ UNCHANGED server
    BY <1>2, StripEdits
       DEF Page, History, Leave, Open, OpenFromHistory, OfferSaved, RemoveRecord, handleResume,
           handleDiscard, StripAnswered, GoBack, Edit, handleApply
  <2> QED BY <2>1 DEF request
<1>3. CASE UNCHANGED splitVars
  BY <1>3 DEF splitVars, request
<1> QED BY <1>1, <1>2, <1>3

LEMMA CutStep == ASSUME SplitTypeOK, CutSoFar, [SplitNext]_splitVars PROVE CutSoFar'
<1>1. CASE UNCHANGED server
  BY <1>1, CutSame DEF server
<1>2. CASE splitPdfApply
  <2>1. sent \in Seq(Segment)
    BY DEF SplitTypeOK
  <2>2. InDocument(sent) /\ Disjoint(sent)
    BY <1>2, <2>1, ApartIsDisjoint DEF splitPdfApply, Accepts
  <2>3. asked' = sent /\ made' = << >> /\ Len(sent) \in Nat
    BY <1>2, <2>1 DEF splitPdfApply
  <2>4. InDocument(asked)' /\ Disjoint(asked)'
    BY <2>2, <2>3 DEF InDocument, Disjoint
  <2> QED BY <2>3, <2>4 DEF CutSoFar
<1>3. CASE splitPdfAuto /\ ~UNCHANGED server
  <2>1. PICK q \in proposeSplitWithGemini(listDocumentTypes) :
          /\ Accepts(q)
          /\ asked' = [i \in DOMAIN q |-> [q[i] EXCEPT !.type = NoType]]
    BY <1>3 DEF splitPdfAuto
  <2>2. q \in Seq(Segment) /\ DOMAIN q = 1 .. Len(q)
    BY ProposedSegments
  <2>3. InDocument(q) /\ Disjoint(q)
    BY <2>1, <2>2, ApartIsDisjoint DEF Accepts
  <2> DEFINE a == [i \in DOMAIN q |-> [q[i] EXCEPT !.type = NoType]]
  <2>4. /\ a \in Seq(Segment) /\ Len(a) = Len(q)
        /\ \A i \in 1 .. Len(q) : a[i].start = q[i].start /\ a[i].end = q[i].end
    BY <2>2, AutoSegments
  <2>5. DOMAIN a = 1 .. Len(q)
    BY <2>2
  <2> HIDE DEF a
  <2>6. InDocument(a)
    BY <2>2, <2>3, <2>4, <2>5 DEF InDocument
  <2>7. Disjoint(a)
    BY <2>3, <2>4 DEF Disjoint, Pages
  <2>8. asked' = a /\ made' = << >>
    BY <1>3, <2>1 DEF splitPdfAuto, server, a
  <2>9. InDocument(asked)' /\ Disjoint(asked)'
    BY <2>6, <2>7, <2>8 DEF InDocument, Disjoint
  <2>10. Len(asked') \in Nat
    BY <2>4, <2>8
  <2> QED BY <2>8, <2>9, <2>10 DEF CutSoFar
<1>4. CASE CreatePart
  <2> DEFINE m == Len(made)
             Part == [pages |-> Pages(asked[m + 1]), of |-> asked[m + 1]]
  <2>1. asked \in Seq(Segment) /\ made \in Seq([pages : SUBSET Nat, of : Segment])
    BY DEF SplitTypeOK
  <2>2. m \in Nat /\ m < Len(asked) /\ Len(asked) \in Nat
    BY <1>4, <2>1 DEF CreatePart
  <2>3. made' = Append(made, Part) /\ asked' = asked
    BY <1>4, PartType DEF CreatePart
  <2> HIDE DEF Part
  <2>4. /\ Len(made') = m + 1 /\ made'[m + 1] = Part
        /\ \A i \in 1 .. m : made'[i] = made[i]
    BY <2>1, <2>3
  <2>5. ASSUME NEW i \in 1 .. m + 1
        PROVE  made'[i] = [pages |-> Pages(asked[i]), of |-> asked[i]]
    <3>1. CASE i = m + 1
      BY <3>1, <2>4 DEF Part
    <3>2. CASE i \in 1 .. m
      BY <3>2, <2>4 DEF CutSoFar
    <3> QED BY <3>1, <3>2, <2>2
  <2>6. ASSUME NEW i \in 1 .. Len(made')
        PROVE  made'[i] = [pages |-> Pages(asked[i])', of |-> asked'[i]]
    BY <2>3, <2>4, <2>5 DEF Pages
  <2>7. InDocument(asked)' /\ Disjoint(asked)'
    BY <2>3 DEF InDocument, Disjoint, CutSoFar
  <2>8. Len(made') <= Len(asked')
    BY <2>2, <2>3, <2>4
  <2> QED BY <2>6, <2>7, <2>8 DEF CutSoFar
<1>5. CASE NoSplit
  BY <1>5, CutNothing DEF NoSplit
<1>6. CASE UNCHANGED <<asked, made>>
  BY <1>6, CutSame
<1> QED BY <1>1, <1>2, <1>3, <1>4, <1>5, <1>6, OthersCutNothing
       DEF SplitNext, Server, createDocumentType, deleteDocumentType, removeElsewhere, Refused, PartFails,
           RemoveSource, Created, AnswerLost, request

LEMMA CutAlways == SplitSpec => [](SplitTypeOK /\ CutSoFar)
<1>1. SplitInit => CutSoFar
  BY DEF SplitInit, CutSoFar, InDocument, Disjoint
<1> QED BY <1>1, CutStep, SplitTypeCorrect, PTL DEF SplitSpec

\* Every file has the pages and the fields of its segment, and no page is in two files.
THEOREM FiledAsReviewed == SplitSpec => []PartsAsReviewed
<1>1. SplitTypeOK /\ CutSoFar => PartsAsReviewed
  <2> SUFFICES ASSUME SplitTypeOK, CutSoFar, NEW i \in DOMAIN made
               PROVE  /\ made[i].of = asked[i]
                      /\ made[i].pages # {} /\ made[i].pages \subseteq 1 .. PageCount
                      /\ made[i].pages = Pages(asked[i])
                      /\ \A k \in DOMAIN made :
                           k # i => made[i].pages \cap made[k].pages = {}
    BY DEF PartsAsReviewed
  <2>1. /\ DOMAIN made = 1 .. Len(made) /\ DOMAIN asked = 1 .. Len(asked)
        /\ Len(made) \in Nat /\ Len(asked) \in Nat
        /\ \A k \in 1 .. Len(asked) : asked[k] \in Segment
    BY DEF SplitTypeOK
  <2>2. \A k \in DOMAIN made : /\ k \in 1 .. Len(asked)
                               /\ made[k].of = asked[k] /\ made[k].pages = Pages(asked[k])
    BY <2>1 DEF CutSoFar
  <2>3. /\ asked[i].start \in Nat /\ asked[i].end \in Nat
        /\ 1 <= asked[i].start /\ asked[i].start <= asked[i].end /\ asked[i].end <= PageCount
    BY <2>1, <2>2 DEF Segment, CutSoFar, InDocument
  <2>4. Pages(asked[i]) # {} /\ Pages(asked[i]) \subseteq 1 .. PageCount
    BY <2>3, PagesAssumption DEF Pages
  <2>5. ASSUME NEW k \in DOMAIN made, k # i PROVE made[i].pages \cap made[k].pages = {}
    BY <2>2, <2>5 DEF CutSoFar, Disjoint
  <2> QED BY <2>2, <2>4, <2>5
<1> QED BY <1>1, CutAlways, PTL

\* The source is given up only when every segment has been filed.
THEOREM NoPageIsLost == SplitSpec => ReviewedIsFiled
<1> DEFINE Filed ==
      source' # source /\ source' \in {"removed", "hollow"} =>
        \A i \in DOMAIN asked : \E k \in DOMAIN made : Pages(asked[i]) \subseteq made[k].pages
<1>1. ASSUME SplitTypeOK, CutSoFar, [SplitNext]_splitVars PROVE [Filed]_splitVars
  <2> SUFFICES ASSUME source' # source, source' \in {"removed", "hollow"}, NEW i \in DOMAIN asked
               PROVE  \E k \in DOMAIN made : Pages(asked[i]) \subseteq made[k].pages
    OBVIOUS
  <2>1. RemoveSource
    <3>1. CASE Task
      BY <3>1 DEF Task, Start, Uploaded, TaskFails, CallSucceeds, CallFails, CallAgain, PollOcr,
                  ConfigLoaded, splitPdfPropose, Proposed, ProposalFails, Fail
    <3>2. CASE Page \/ History
      BY <1>1, <3>2, StripEdits
         DEF Page, History, Leave, Open, OpenFromHistory, OfferSaved, RemoveRecord, handleResume,
             handleDiscard, StripAnswered, GoBack, Edit, handleApply
    <3>3. CASE Server
      BY <3>3 DEF Server, createDocumentType, deleteDocumentType, removeElsewhere, splitPdfApply,
                  Refused, splitPdfAuto, CreatePart, PartFails, Created, AnswerLost
    <3>4. CASE UNCHANGED splitVars
      BY <3>4 DEF splitVars
    <3> QED BY <1>1, <3>1, <3>2, <3>3, <3>4 DEF SplitNext
  <2>2. /\ DOMAIN made = 1 .. Len(made) /\ DOMAIN asked = 1 .. Len(asked)
        /\ Len(made) = Len(asked)
    BY <1>1, <2>1 DEF RemoveSource, SplitTypeOK
  <2>3. i \in DOMAIN made
    BY <2>2
  <2>4. made[i].pages = Pages(asked[i])
    BY <1>1, <2>2, <2>3 DEF CutSoFar
  <2> QED BY <2>3, <2>4
<1> QED BY <1>1, CutAlways, PTL DEF SplitSpec, ReviewedIsFiled

-----------------------------------------------------------------------------
(* What can be resumed: before the upload there is nothing to review, nor while the *)
(* run is on its way, nor while the server splits what no page has sent; and a      *)
(* document that the split has taken leaves nothing to review unless the answer is  *)
(* still to come or was lost.                                                       *)

NothingToReview ==
  saved = NoReview /\ offered = NoReview /\ record.status # "review" /\ view # "review"

Resumable ==
  /\ source = "none" => NothingToReview /\ stage = "none" /\ sent = << >>
                        /\ task \in {"none", "upload"}
  /\ task # "none" => NothingToReview /\ stage = "none" /\ sent = << >>
                      /\ source \in IF task = "upload" THEN {"none"} ELSE {"live", "archived", "gone"}
  /\ stage # "none" /\ sent = << >> => NothingToReview /\ stage = "creating"
  /\ stage = "creating" => source \in {"live", "archived", "gone"}
  /\ source \in {"removed", "hollow"} => stage = "answered" \/ lost \/ NothingToReview

LEMMA ResumableStep == ASSUME SplitTypeOK, Resumable, [SplitNext]_splitVars PROVE Resumable'
<1> USE DEF Resumable, NothingToReview
<1>t. /\ source \in {"none", "live", "archived", "gone", "removed", "hollow"} /\ stage \in {"none", "creating", "answered"}
      /\ record = [status |-> record.status, review |-> record.review]
  BY DEF SplitTypeOK
<1>s. record.status \in {"none", "processing", "review", "completed", "failed"}
  BY DEF SplitTypeOK
<1>r. ASSUME NEW status \in {"none", "processing", "completed", "failed"},
             updateProcessRecord([record EXCEPT !.status = status])
      PROVE  record'.status # "review"
  BY <1>r, <1>t DEF updateProcessRecord, NoRecord
<1>f. CASE Fail /\ task # "none"
  <2>1. record'.status # "review"
    BY <1>f, <1>r DEF Fail
  <2>2. /\ task' = "none" /\ view' \in {"pick", view}
        /\ UNCHANGED <<saved, offered, source, sent, stage, lost>>
    BY <1>f DEF Fail, EndTask, request, server
  <2> QED BY <1>f, <2>1, <2>2
<1>1. CASE Start
  <2>1. record'.status # "review"
    BY <1>1 DEF Start, NoRecord
  <2>2. /\ task' = "upload" /\ view' = "processing"
        /\ UNCHANGED <<saved, offered, source, sent, stage, lost>>
    BY <1>1 DEF Start, request, server
  <2> QED BY <1>1, <2>1, <2>2 DEF Start
<1>2. CASE Uploaded
  BY <1>2 DEF Uploaded, client, storage, request, server
<1>3. CASE CallSucceeds \/ CallFails \/ CallAgain \/ ((PollOcr \/ splitPdfPropose) /\ ~Fail)
           \/ ConfigLoaded
  <2>1. /\ UNCHANGED <<view, saved, offered, record, source, sent, stage, lost>>
        /\ task' = task \/ (task' \in {"load", "propose"} /\ task \in {"ocr", "load"})
    <3>1. CASE CallSucceeds \/ CallFails \/ CallAgain
      BY <3>1 DEF CallSucceeds, CallFails, CallAgain, client, storage, request, server
    <3>2. CASE PollOcr /\ ~Fail
      BY <3>2 DEF PollOcr, client, storage, request, server
    <3>3. CASE splitPdfPropose /\ ~Fail
      BY <3>3 DEF splitPdfPropose, client, storage, request, server
    <3>4. CASE ConfigLoaded
      BY <3>4 DEF ConfigLoaded, storage, request, server
    <3> QED BY <1>3, <3>1, <3>2, <3>3, <3>4
  <2> QED BY <2>1
<1>4. CASE Proposed
  <2>1. /\ task = "propose" /\ task' = "none"
        /\ UNCHANGED <<offered, source, sent, stage, lost>>
    BY <1>4 DEF Proposed, EndTask, request, server
  <2> QED BY <2>1
<1>5. CASE Leave \/ Open \/ OpenFromHistory \/ RemoveRecord \/ handleDiscard \/ GoBack
           \/ StripAnswered \/ (\E q \in Seq(Segment) : Edit(q))
  <2>1. /\ UNCHANGED <<task, source, sent, stage, lost>>
        /\ view' = view \/ view' # "review"
        /\ saved' \in {saved, NoReview} \/ (record.status = "review" /\ view' # "review")
        /\ offered' = NoReview \/ offered' = offered \/ offered' = saved \/ record.status = "review"
        /\ record' = record \/ record'.status # "review"
    <3>1. CASE Leave
      BY <3>1 DEF Leave, Unmount, request, server, running
    <3>2. CASE Open \/ OpenFromHistory
      BY <3>2 DEF Open, OpenFromHistory, OfferSaved, request, server, running
    <3>3. CASE RemoveRecord \/ handleDiscard
      BY <3>3 DEF RemoveRecord, NoRecord, handleDiscard, client, request, server, running
    <3>4. CASE GoBack
      BY <3>4 DEF GoBack, request, server, running
    <3>5. CASE StripAnswered \/ (\E q \in Seq(Segment) : Edit(q))
      BY <3>5 DEF StripAnswered, Edit, storage, request, server, running
    <3> QED BY <1>5, <3>1, <3>2, <3>3, <3>4, <3>5
  <2> QED BY <2>1
<1>6. CASE handleResume
  BY <1>6 DEF handleResume, request, server, running
<1>7. CASE handleApply
  <2>1. /\ UNCHANGED <<view, task, source, stage, lost, saved, offered, record>>
        /\ view = "review" /\ sent = << >>
    BY <1>7 DEF handleApply, storage, server, running
  <2> QED BY <2>1
<1>8. CASE createDocumentType \/ deleteDocumentType \/ UNCHANGED splitVars
  <2>1. UNCHANGED <<view, task, source, sent, stage, lost, saved, offered, record>>
    BY <1>8 DEF createDocumentType, deleteDocumentType, splitVars, client, storage, request,
                server, running
  <2> QED BY <2>1
<1>9. CASE splitPdfApply
  BY <1>9 DEF splitPdfApply, client, storage, running
<1>10. CASE Refused
  BY <1>10 DEF Refused, client, storage, server, running
<1>11. CASE splitPdfAuto
  BY <1>11 DEF splitPdfAuto, client, storage, server, running
<1>12. CASE CreatePart
  BY <1>12 DEF CreatePart, client, storage, running
<1>13. CASE PartFails
  BY <1>13 DEF PartFails, NoSplit, client, storage, running
<1>14. CASE RemoveSource
  BY <1>14 DEF RemoveSource, NoSplit, client, storage, running
<1>15. CASE Created
  <2>1. record'.status # "review"
    BY <1>15, <1>r DEF Created
  <2> QED BY <1>15, <2>1 DEF Created, Unmount, NoSplit, running
<1>16. CASE AnswerLost
  BY <1>16 DEF AnswerLost, NoSplit, client, storage, running
<1>17. CASE removeElsewhere
  <2>1. /\ UNCHANGED <<view, task, sent, stage, lost, saved, offered, record>>
        /\ source \in {"live", "archived", "hollow"} /\ source' \in {"archived", "gone"}
    BY <1>17 DEF removeElsewhere, client, storage, request, server, running
  <2> QED BY <2>1
<1> QED BY <1>f, <1>1, <1>2, <1>3, <1>4, <1>5, <1>6, <1>7, <1>8, <1>9, <1>10, <1>11, <1>12, <1>13,
           <1>14, <1>15, <1>16, <1>17, StripEdits
       DEF SplitNext, Task, TaskFails, PollOcr, splitPdfPropose, ProposalFails, History, Page, Server

\* A review that can be resumed has its document, unless the answer to the request that
\* ended it was lost or another page has archived or taken it.
THEOREM ResumableHasDocument == SplitSpec => []ResumableIsLive
<1>1. SplitInit => Resumable
  BY DEF SplitInit, NoRecord, Resumable, NothingToReview
<1>2. SplitTypeOK /\ Resumable => ResumableIsLive
  BY DEF SplitTypeOK, Resumable, NothingToReview, ResumableIsLive
<1> QED BY <1>1, <1>2, ResumableStep, SplitTypeCorrect, PTL DEF SplitSpec
=============================================================================
