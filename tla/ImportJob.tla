------------------------------ MODULE ImportJob ------------------------------
(***************************************************************************)
(* The import jobs of the client (DocumentImportJobsContext.tsx and        *)
(* ocrPoll.ts): a job uploads its files in one request, polls every file   *)
(* until its OCR, and the extraction if one was asked for, has come to an  *)
(* end, and shows how it goes in a bar of its own.                         *)
(*                                                                         *)
(* The documents are those of DocumentProgress, which OcrPipeline          *)
(* implements: a job sees of the server what a reader of the statuses sees.*)
(* Toasts are left out: at most one is kept (TOAST_LIMIT), the next one    *)
(* replaces it, so nothing is said of them.                                *)
(***************************************************************************)
EXTENDS Naturals

CONSTANTS
  Jobs,
  Files,
  FilesOf,    \* the files a job uploads
  Documents,  \* the states of a document that are looked at
  MaxPolls    \* maxAttempts of a poll; 240 in the code

VARIABLES
  \* the server
  doc,        \* what the status columns of a file's document say
  \* the client
  bar,        \* phase of a job in the list of jobs: "none" when it is not in it
  run,        \* where runJob is
  asked,      \* what the job asks for: "nothing", "ocr" or "extract"
  poll,       \* where the poll of a file is
  polls,      \* attempts a poll has made
  \* history
  closed      \* jobs whose bar has been closed, or has gone with the page around it

vars == <<doc, bar, run, asked, poll, polls, closed>>

D == INSTANCE DocumentProgress WITH doc <- doc

ASSUME FilesAssumption == FilesOf \in [Jobs -> SUBSET Files]
ASSUME OwnFilesAssumption == \A i, j \in Jobs : i # j => FilesOf[i] \cap FilesOf[j] = {}
ASSUME DocumentsAssumption == Documents \subseteq D!DocumentType /\ D!NoDocument \in Documents
ASSUME PollsAssumption == MaxPolls \in Nat \ {0}

TypeOK ==
  /\ doc \in [Files -> Documents]
  /\ bar \in [Jobs -> {"none", "uploading", "processing", "error"}]
  /\ run \in [Jobs -> {"idle", "upload", "poll", "refresh", "done", "failed"}]
  /\ asked \in [Jobs -> {"nothing", "ocr", "extract"}]
  /\ poll \in [Files -> {"no", "poll", "ok", "failed"}]
  /\ polls \in [Files -> 0 .. MaxPolls]
  /\ closed \subseteq Jobs

Init ==
  /\ doc = [f \in Files |-> D!NoDocument]
  /\ bar = [j \in Jobs |-> "none"]
  /\ run = [j \in Jobs |-> "idle"]
  /\ asked = [j \in Jobs |-> "nothing"]
  /\ poll = [f \in Files |-> "no"]
  /\ polls = [f \in Files |-> 0]
  /\ closed = {}

\* updateJob changes a job of the list; a job that is no longer in it stays out.
UpdateJob(j, phase) == [bar EXCEPT ![j] = IF @ = "none" THEN @ ELSE phase]

-----------------------------------------------------------------------------
(* The upload. *)

\* startImportJob puts the job into the list and runs it.
StartImportJob(j, what) ==
  /\ run[j] = "idle"
  /\ bar' = [bar EXCEPT ![j] = "uploading"]
  /\ run' = [run EXCEPT ![j] = "upload"]
  /\ asked' = [asked EXCEPT ![j] = what]
  /\ UNCHANGED <<doc, poll, polls, closed>>

\* The server creates one document after the other, also for a client that has
\* lost the connection.
CreateFile(j, f) ==
  /\ run[j] # "idle"
  /\ \E e \in Documents :
       /\ D!Creates(doc[f], e)
       /\ e.extract = "pending" <=> asked[j] = "extract"
       /\ doc' = [doc EXCEPT ![f] = e]
  /\ UNCHANGED <<bar, run, asked, poll, polls, closed>>

\* The answer comes after the last document, and after the status "pending" has
\* been written if OCR was asked for; then every file is polled.
UploadAnswered(j) ==
  /\ run[j] = "upload"
  /\ FilesOf[j] # {}
  /\ \A f \in FilesOf[j] :
       doc[f].row # "absent" /\ (asked[j] # "nothing" => doc[f].ocr # "null")
  /\ bar' = UpdateJob(j, "processing")
  /\ run' = [run EXCEPT ![j] = IF asked[j] = "nothing" THEN "refresh" ELSE "poll"]
  /\ poll' = [f \in Files |-> IF f \in FilesOf[j] /\ asked[j] # "nothing"
                              THEN "poll" ELSE poll[f]]
  /\ UNCHANGED <<doc, asked, polls, closed>>

\* The catch of runJob: the list shows the error.
Fail(j) ==
  /\ bar' = UpdateJob(j, "error")
  /\ run' = [run EXCEPT ![j] = "failed"]

\* An error answer, no connection, or an answer without files.
UploadFails(j) ==
  /\ run[j] = "upload"
  /\ Fail(j)
  /\ UNCHANGED <<doc, asked, poll, polls, closed>>

-----------------------------------------------------------------------------
(* The polls. *)

\* Mutant of Verdicts: the extraction is not waited for.
VerdictsOfOcr(d, what) ==
  IF d.row = "removed" \/ d.ocr \in {"null", "failed"} THEN {"failed"}
  ELSE IF d.ocr # "completed" THEN {"wait"} ELSE {"ok"}

\* What an attempt of pollFileImportUntilDone can conclude from a document: a
\* failed extraction is an error only if it left a message.
Verdicts(d, what) ==
  IF d.row = "removed" \/ d.ocr \in {"null", "failed"} THEN {"failed"}
  ELSE IF d.ocr # "completed" THEN {"wait"}
  ELSE IF what # "extract" \/ d.extract \in {"null", "completed"} THEN {"ok"}
  ELSE IF d.extract = "failed" THEN {"ok", "failed"}
  ELSE {"wait"}

\* Mutant of PollSucceeds: the report of a file says that the job goes on.
PollSucceedsAndReports(f) ==
  /\ poll' = [poll EXCEPT ![f] = "ok"]
  /\ bar' = [j \in Jobs |-> IF f \in FilesOf[j] /\ bar[j] # "none" THEN "processing" ELSE bar[j]]
  /\ UNCHANGED <<run, polls>>

PollSucceeds(f) ==
  /\ poll' = [poll EXCEPT ![f] = "ok"]
  /\ UNCHANGED <<bar, run, polls>>

\* The first file that fails fails its job; the polls of the others go on.
PollFails(j, f) ==
  /\ poll' = [poll EXCEPT ![f] = "failed"]
  /\ IF run[j] = "poll" THEN Fail(j) ELSE UNCHANGED <<bar, run>>
  /\ UNCHANGED polls

\* Mutant of PollAgain: attempts are not counted.
PollForEver(j, f) == UNCHANGED <<bar, run, poll, polls>>

\* After the last attempt and its pause the poll fails ("Processing timed out").
PollAgain(j, f) ==
  /\ polls[f] + 1 < MaxPolls
  /\ polls' = [polls EXCEPT ![f] = @ + 1]
  /\ UNCHANGED <<bar, run, poll>>

PollTimesOut(j, f) ==
  /\ polls[f] + 1 >= MaxPolls
  /\ PollFails(j, f)

\* One attempt.
PollAnswered(j, f) ==
  /\ poll[f] = "poll"
  /\ \/ "ok" \in Verdicts(doc[f], asked[j]) /\ PollSucceeds(f)
     \/ "failed" \in Verdicts(doc[f], asked[j]) /\ PollFails(j, f)
     \/ "wait" \in Verdicts(doc[f], asked[j]) /\ (PollAgain(j, f) \/ PollTimesOut(j, f))
  /\ UNCHANGED <<doc, asked, closed>>

\* The request fails: no connection, a session that has ended, a server error.
PollBreaks(j, f) ==
  /\ poll[f] = "poll"
  /\ PollFails(j, f)
  /\ UNCHANGED <<doc, asked, closed>>

\* Promise.all: the toast says that the import is done, and onSuccess reloads
\* the list of documents.
AllDone(j) ==
  /\ run[j] = "poll"
  /\ \A f \in FilesOf[j] : poll[f] = "ok"
  /\ run' = [run EXCEPT ![j] = "refresh"]
  /\ UNCHANGED <<doc, bar, asked, poll, polls, closed>>

\* onSuccess does not throw; the job leaves the list.
Finish(j) ==
  /\ run[j] = "refresh"
  /\ run' = [run EXCEPT ![j] = "done"]
  /\ bar' = [bar EXCEPT ![j] = "none"]
  /\ UNCHANGED <<doc, asked, poll, polls, closed>>

\* dismissJob takes a job out of the list; its run goes on.
DismissJob(j) ==
  /\ bar[j] # "none"
  /\ bar' = [bar EXCEPT ![j] = "none"]
  /\ closed' = closed \cup {j}
  /\ UNCHANGED <<doc, run, asked, poll, polls>>

\* While the session is read again (after a change of the profile in the settings,
\* or a new sign-in) ProtectedRoute replaces the pages below it, and with them
\* the list of jobs; what runs goes on for a list nobody sees.
Unmount ==
  /\ \E j \in Jobs : bar[j] # "none"
  /\ bar' = [j \in Jobs |-> "none"]
  /\ closed' = closed \cup {j \in Jobs : bar[j] # "none"}
  /\ UNCHANGED <<doc, run, asked, poll, polls>>

-----------------------------------------------------------------------------
(* The documents go on while they are looked at (a bound of the model). *)

Watched(j) == \/ run[j] \in {"upload", "poll"}
              \/ \E f \in FilesOf[j] : poll[f] = "poll"

DocStep(j, f) ==
  /\ Watched(j)
  /\ \E e \in Documents :
       /\ D!Moves(doc[f], e) \/ D!Fades(doc[f], e)
       /\ doc' = [doc EXCEPT ![f] = e]
  /\ UNCHANGED <<bar, run, asked, poll, polls, closed>>

-----------------------------------------------------------------------------
JobStep(j) ==
  \/ \E what \in {"nothing", "ocr", "extract"} : StartImportJob(j, what)
  \/ UploadAnswered(j) \/ UploadFails(j)
  \/ AllDone(j) \/ Finish(j) \/ DismissJob(j)

FileStep(j, f) == CreateFile(j, f) \/ PollAnswered(j, f) \/ PollBreaks(j, f) \/ DocStep(j, f)

Next ==
  \/ \E j \in Jobs : JobStep(j) \/ \E f \in FilesOf[j] : FileStep(j, f)
  \/ Unmount

Spec == Init /\ [][Next]_vars

\* The upload is answered or breaks, polls that do not break are answered, the
\* pauses between the attempts end, and the promises of runJob are resolved.
FairSpec ==
  /\ Spec
  /\ \A j \in Jobs :
       /\ WF_vars(UploadAnswered(j) \/ UploadFails(j))
       /\ WF_vars(AllDone(j))
       /\ WF_vars(Finish(j))
       /\ \A f \in FilesOf[j] : WF_vars(PollAnswered(j, f))

-----------------------------------------------------------------------------
(* Properties. *)

\* When a job says that it is done, then what it asked for has been done: every
\* document that still exists has been recognised, and its extraction has ended
\* unless calls on it have overlapped.  The answers the job relies on are old by
\* then: those of its first file by as much as the last one took.
SuccessMeansDone ==
  [][\A j \in Jobs : run[j] = "poll" /\ run'[j] = "refresh" =>
       \A f \in FilesOf[j] :
         /\ doc[f].text
         /\ asked[j] = "extract" /\ doc[f].calm /\ doc[f].row = "live"
              => doc[f].extract \in {"completed", "failed"}]_vars

\* A job that has failed says so until its user has closed it or the page around
\* it has been replaced, whatever the polls that are still running report.
FailureStaysVisible ==
  \A j \in Jobs : run[j] = "failed" => bar[j] = "error" \/ j \in closed

\* Every job comes to an end, also when its documents never do: an extraction
\* that was asked for with a blank page stays "pending".
JobsEnd ==
  \A j \in Jobs : run[j] # "idle" ~> run[j] \in {"done", "failed"}
=============================================================================
