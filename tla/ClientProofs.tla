----------------------------- MODULE ClientProofs -----------------------------
(***************************************************************************)
(* Theorems about what the client keeps.  First the import jobs            *)
(* (ImportJob): what a job says of its documents, for any jobs and files   *)
(* and any bound on the attempts of a poll; of the server only             *)
(* DocumentProgress is used, which OcrPipeline implements                  *)
(* (ProcessingProofs).  Then the session of a tab (Session): who is shown  *)
(* as signed in, and what is offered to whom.                              *)
(***************************************************************************)
EXTENDS ImportJob, Session, TLAPS

(* The inductive invariant. *)

\* Nothing has happened to the files of a job that has not begun, and nothing
\* polls them before the upload is answered.
NotBegun ==
  \A j \in Jobs :
    /\ run[j] = "idle" => \A f \in FilesOf[j] : doc[f].row = "absent"
    /\ run[j] \in {"idle", "upload"} => \A f \in FilesOf[j] : poll[f] = "no"

\* A job that is neither new nor done is in the list unless it was closed, and
\* the list knows of its failure.
Listed ==
  \A j \in Jobs :
    /\ run[j] \in {"upload", "poll", "refresh", "failed"} /\ j \notin closed => bar[j] # "none"
    /\ run[j] = "failed" => bar[j] \in {"none", "error"}

\* An extraction that was asked for is never as if it had not been.
AskedIsMarked ==
  \A j \in Jobs : \A f \in FilesOf[j] :
    asked[j] = "extract" /\ doc[f].row # "absent" => doc[f].extract # "null"

\* A document whose OCR is completed exists, or did, and has a text.
CompletedHasText ==
  \A f \in Files : doc[f].ocr = "completed" => doc[f].text /\ doc[f].row # "absent"

\* What a poll has reported stays true.
ReportStaysTrue ==
  \A j \in Jobs : \A f \in FilesOf[j] : poll[f] = "ok" =>
    /\ doc[f].text /\ doc[f].row # "absent"
    /\ asked[j] = "extract" /\ doc[f].calm /\ doc[f].row = "live"
         => doc[f].extract \in {"completed", "failed"}

Inv == TypeOK /\ NotBegun /\ Listed /\ AskedIsMarked /\ CompletedHasText /\ ReportStaysTrue

-----------------------------------------------------------------------------
(* Lemmas about documents. *)

\* A document becomes another one; whatever it is, it has the fields of one.
LEMMA Fields ==
  ASSUME NEW d \in Documents
  PROVE  /\ d.row \in {"absent", "live", "removed"}
         /\ d.ocr \in D!Statuses /\ d.extract \in D!Statuses
         /\ d.text \in BOOLEAN /\ d.calm \in BOOLEAN /\ d.sound \in BOOLEAN
  BY DocumentsAssumption DEF D!DocumentType

\* An extraction that was asked for stays asked for, and one that has ended stays
\* so while calls do not overlap.
LEMMA ExtractionKept ==
  ASSUME NEW d \in Documents, NEW e \in Documents,
         D!Moves(d, e) \/ D!Fades(d, e)
  PROVE  /\ d.row # "absent" /\ e.row # "absent"
         /\ d.extract # "null" => e.extract # "null"
         /\ e.calm /\ e.row = "live" => d.calm /\ d.row = "live"
         /\ e.calm /\ d.extract \in {"completed", "failed"} => e.extract \in {"completed", "failed"}
  <1>1. CASE D!Moves(d, e)
    <2>1. d.extract # "null" => e.extract # "null"
      BY <1>1 DEF D!Moves, D!NothingForgotten, D!ExtractionGoesForward
    <2>2. e.calm /\ d.extract \in {"completed", "failed"} => e.extract \in {"completed", "failed"}
      BY <1>1 DEF D!Moves, D!ExtractionGoesForward
    <2> QED BY <1>1, <2>1, <2>2 DEF D!Moves
  <1>2. CASE D!Fades(d, e) BY <1>2 DEF D!Fades
  <1> QED BY <1>1, <1>2

\* A text once recognised stays, and OCR completes with one.
LEMMA TextKept ==
  ASSUME NEW d \in Documents, NEW e \in Documents,
         D!Moves(d, e) \/ D!Fades(d, e),
         d.ocr = "completed" => d.text
  PROVE  (d.text => e.text) /\ (e.ocr = "completed" => e.text)
  <1>1. CASE D!Moves(d, e) BY <1>1 DEF D!Moves
  <1>2. CASE D!Fades(d, e) BY <1>2, Fields DEF D!Fades
  <1> QED BY <1>1, <1>2

-----------------------------------------------------------------------------
(* Initial states and steps. *)

LEMMA Start == ASSUME Init PROVE Inv
  <1> USE DEF Init
  <1>1. TypeOK BY DocumentsAssumption, PollsAssumption DEF TypeOK
  <1>2. \A f \in Files : doc[f].row = "absent" /\ doc[f].ocr = "null"
    BY DEF D!NoDocument
  <1>3. NotBegun /\ Listed /\ AskedIsMarked /\ CompletedHasText /\ ReportStaysTrue
    BY <1>2, FilesAssumption DEF NotBegun, Listed, AskedIsMarked, CompletedHasText, ReportStaysTrue
  <1> QED BY <1>1, <1>3 DEF Inv

\* One attempt changes the poll of its file only, and to "ok" only on a document
\* that is as the report says.
LEMMA PollKeeps ==
  ASSUME Inv, NEW j \in Jobs, NEW f \in FilesOf[j],
         PollAnswered(j, f) \/ PollBreaks(j, f)
  PROVE  Inv'
  <1> USE FilesAssumption, OwnFilesAssumption, PollsAssumption
  <1>0. f \in Files /\ poll[f] = "poll" /\ UNCHANGED <<doc, asked, closed>> /\ TypeOK
    BY DEF PollAnswered, PollBreaks, Inv
  <1>1. CASE "ok" \in Verdicts(doc[f], asked[j]) /\ PollSucceeds(f)
    <2>1. poll' = [poll EXCEPT ![f] = "ok"] /\ UNCHANGED <<doc, bar, run, asked, polls, closed>>
      BY <1>0, <1>1 DEF PollSucceeds
    <2>2. TypeOK' BY <1>0, <2>1 DEF TypeOK
    <2>3. /\ doc[f].text /\ doc[f].row # "absent"
          /\ asked[j] = "extract" => doc[f].extract \in {"null", "completed", "failed"}
      BY <1>0, <1>1 DEF Verdicts, Inv, CompletedHasText
    <2>4. asked[j] = "extract" => doc[f].extract \in {"completed", "failed"}
      BY <2>3 DEF Inv, AskedIsMarked
    <2>5. NotBegun' BY <1>0, <2>1 DEF Inv, NotBegun, TypeOK
    <2>6. ReportStaysTrue'
      <3> SUFFICES ASSUME NEW i \in Jobs, NEW g \in FilesOf[i], poll'[g] = "ok"
                   PROVE  /\ doc[g].text /\ doc[g].row # "absent"
                          /\ asked[i] = "extract" /\ doc[g].calm /\ doc[g].row = "live"
                               => doc[g].extract \in {"completed", "failed"}
        BY <2>1 DEF ReportStaysTrue
      <3>1. CASE g = f
        <4>1. i = j BY <3>1
        <4> QED BY <3>1, <4>1, <2>3, <2>4
      <3>2. CASE g # f
        <4>1. poll[g] = "ok" BY <3>2, <2>1, <1>0 DEF TypeOK
        <4> QED BY <4>1 DEF Inv, ReportStaysTrue
      <3> QED BY <3>1, <3>2
    <2>7. Listed' /\ AskedIsMarked' /\ CompletedHasText'
      BY <2>1 DEF Inv, Listed, AskedIsMarked, CompletedHasText
    <2> QED BY <2>2, <2>5, <2>6, <2>7 DEF Inv
  <1>2. CASE PollFails(j, f)
    <2>1. poll' = [poll EXCEPT ![f] = "failed"] /\ UNCHANGED <<doc, asked, polls, closed>>
      BY <1>0, <1>2 DEF PollFails
    <2>2. \/ UNCHANGED <<bar, run>>
          \/ /\ run[j] = "poll" /\ run' = [run EXCEPT ![j] = "failed"]
             /\ bar' = [bar EXCEPT ![j] = IF @ = "none" THEN @ ELSE "error"]
      BY <1>2 DEF PollFails, Fail, UpdateJob
    <2>3. TypeOK' BY <1>0, <2>1, <2>2 DEF TypeOK
    <2>4. NotBegun' BY <1>0, <2>1, <2>2 DEF Inv, NotBegun, TypeOK
    <2>5. Listed' BY <1>0, <2>1, <2>2 DEF Inv, Listed, TypeOK
    <2>6. ReportStaysTrue' BY <1>0, <2>1 DEF Inv, ReportStaysTrue, TypeOK
    <2>7. AskedIsMarked' /\ CompletedHasText'
      BY <2>1 DEF Inv, AskedIsMarked, CompletedHasText
    <2> QED BY <2>3, <2>4, <2>5, <2>6, <2>7 DEF Inv
  <1>3. CASE PollAgain(j, f)
    <2>1. TypeOK' BY <1>0, <1>3 DEF TypeOK, PollAgain
    <2>2. NotBegun' /\ Listed' /\ ReportStaysTrue' /\ AskedIsMarked' /\ CompletedHasText'
      BY <1>0, <1>3
      DEF PollAgain, Inv, NotBegun, Listed, ReportStaysTrue, AskedIsMarked, CompletedHasText
    <2> QED BY <2>1, <2>2 DEF Inv
  <1> QED BY <1>0, <1>1, <1>2, <1>3 DEF PollAnswered, PollBreaks, PollTimesOut

\* A step of a document keeps what was reported of it.
LEMMA DocStepKeeps ==
  ASSUME Inv, NEW j \in Jobs, NEW f \in FilesOf[j], DocStep(j, f)
  PROVE  Inv'
  <1> USE FilesAssumption
  <1>0. f \in Files /\ TypeOK /\ UNCHANGED <<bar, run, asked, poll, polls, closed>>
    BY DEF DocStep, Inv
  <1>1. PICK e \in Documents : /\ D!Moves(doc[f], e) \/ D!Fades(doc[f], e)
                               /\ doc' = [doc EXCEPT ![f] = e]
    BY DEF DocStep
  <1>2. doc[f] \in Documents BY <1>0 DEF TypeOK
  <1>3. /\ doc[f].row # "absent" /\ e.row # "absent"
        /\ doc[f].extract # "null" => e.extract # "null"
        /\ e.calm /\ e.row = "live" => doc[f].calm /\ doc[f].row = "live"
        /\ e.calm /\ doc[f].extract \in {"completed", "failed"}
             => e.extract \in {"completed", "failed"}
    BY <1>1, <1>2, ExtractionKept
  <1>4. (doc[f].text => e.text) /\ (e.ocr = "completed" => e.text)
    BY <1>0, <1>1, <1>2, TextKept DEF Inv, CompletedHasText
  <1>5. \A g \in Files : doc'[g] = IF g = f THEN e ELSE doc[g]
    BY <1>0, <1>1 DEF TypeOK
  <1>6. TypeOK' BY <1>0, <1>1 DEF TypeOK
  <1>7. NotBegun' BY <1>0, <1>3, <1>5 DEF Inv, NotBegun
  <1>8. AskedIsMarked' BY <1>0, <1>3, <1>5 DEF Inv, AskedIsMarked
  <1>9. CompletedHasText' BY <1>0, <1>3, <1>4, <1>5 DEF Inv, CompletedHasText
  <1>10. ReportStaysTrue' BY <1>0, <1>3, <1>4, <1>5 DEF Inv, ReportStaysTrue
  <1>11. Listed' BY <1>0 DEF Inv, Listed
  <1> QED BY <1>6, <1>7, <1>8, <1>9, <1>10, <1>11 DEF Inv

\* A created document waits for the extraction its job asks for.
LEMMA CreateKeeps ==
  ASSUME Inv, NEW j \in Jobs, NEW f \in FilesOf[j], CreateFile(j, f)
  PROVE  Inv'
  <1> USE FilesAssumption, OwnFilesAssumption
  <1>0. /\ f \in Files /\ TypeOK /\ run[j] # "idle"
        /\ UNCHANGED <<bar, run, asked, poll, polls, closed>>
    BY DEF CreateFile, Inv
  <1>1. PICK e \in Documents : /\ D!Creates(doc[f], e)
                               /\ e.extract = "pending" <=> asked[j] = "extract"
                               /\ doc' = [doc EXCEPT ![f] = e]
    BY DEF CreateFile
  <1>2. doc[f].row = "absent" /\ e.row = "live" /\ e.ocr = "null"
    BY <1>1 DEF D!Creates
  <1>3. \A g \in Files : doc'[g] = IF g = f THEN e ELSE doc[g]
    BY <1>0, <1>1 DEF TypeOK
  <1>4. poll[f] # "ok" BY <1>2 DEF Inv, ReportStaysTrue
  <1>5. TypeOK' BY <1>0, <1>1 DEF TypeOK
  <1>6. NotBegun' BY <1>0, <1>3 DEF Inv, NotBegun
  <1>7. AskedIsMarked' BY <1>0, <1>1, <1>3 DEF Inv, AskedIsMarked
  <1>8. CompletedHasText' BY <1>0, <1>2, <1>3 DEF Inv, CompletedHasText
  <1>9. ReportStaysTrue' BY <1>0, <1>3, <1>4 DEF Inv, ReportStaysTrue
  <1>10. Listed' BY <1>0 DEF Inv, Listed
  <1> QED BY <1>5, <1>6, <1>7, <1>8, <1>9, <1>10 DEF Inv

\* The steps of a job itself.
LEMMA JobKeeps ==
  ASSUME Inv, NEW j \in Jobs, JobStep(j)
  PROVE  Inv'
  <1> USE FilesAssumption, OwnFilesAssumption DEF Inv
  <1>1. ASSUME NEW what \in {"nothing", "ocr", "extract"}, StartImportJob(j, what) PROVE Inv'
    <2> USE <1>1 DEF StartImportJob
    <2>1. TypeOK' BY DEF TypeOK
    <2>2. NotBegun' BY DEF NotBegun, TypeOK
    <2>3. Listed' BY DEF Listed, TypeOK
    <2>4. AskedIsMarked' BY DEF AskedIsMarked, NotBegun, TypeOK
    <2>5. ReportStaysTrue' BY DEF ReportStaysTrue, NotBegun, TypeOK
    <2>6. CompletedHasText' BY DEF CompletedHasText
    <2> QED BY <2>1, <2>2, <2>3, <2>4, <2>5, <2>6
  <1>2. ASSUME UploadAnswered(j) PROVE Inv'
    <2> USE <1>2 DEF UploadAnswered, UpdateJob
    <2>1. TypeOK' BY DEF TypeOK
    <2>2. NotBegun' BY DEF NotBegun, TypeOK
    <2>3. Listed' BY DEF Listed, TypeOK
    <2>4. ReportStaysTrue' BY DEF ReportStaysTrue, TypeOK
    <2>5. AskedIsMarked' /\ CompletedHasText' BY DEF AskedIsMarked, CompletedHasText
    <2> QED BY <2>1, <2>2, <2>3, <2>4, <2>5
  <1>3. ASSUME UploadFails(j) PROVE Inv'
    <2> USE <1>3 DEF UploadFails, Fail, UpdateJob
    <2>1. TypeOK' BY DEF TypeOK
    <2>2. NotBegun' BY DEF NotBegun, TypeOK
    <2>3. Listed' BY DEF Listed, TypeOK
    <2>4. AskedIsMarked' /\ CompletedHasText' /\ ReportStaysTrue'
      BY DEF AskedIsMarked, CompletedHasText, ReportStaysTrue
    <2> QED BY <2>1, <2>2, <2>3, <2>4
  <1>4. ASSUME AllDone(j) PROVE Inv'
    <2> USE <1>4 DEF AllDone
    <2>1. TypeOK' BY DEF TypeOK
    <2>2. NotBegun' BY DEF NotBegun, TypeOK
    <2>3. Listed' BY DEF Listed, TypeOK
    <2>4. AskedIsMarked' /\ CompletedHasText' /\ ReportStaysTrue'
      BY DEF AskedIsMarked, CompletedHasText, ReportStaysTrue
    <2> QED BY <2>1, <2>2, <2>3, <2>4
  <1>5. ASSUME Finish(j) PROVE Inv'
    <2> USE <1>5 DEF Finish
    <2>1. TypeOK' BY DEF TypeOK
    <2>2. NotBegun' BY DEF NotBegun, TypeOK
    <2>3. Listed' BY DEF Listed, TypeOK
    <2>4. AskedIsMarked' /\ CompletedHasText' /\ ReportStaysTrue'
      BY DEF AskedIsMarked, CompletedHasText, ReportStaysTrue
    <2> QED BY <2>1, <2>2, <2>3, <2>4
  <1>6. ASSUME DismissJob(j) PROVE Inv'
    <2> USE <1>6 DEF DismissJob
    <2>1. TypeOK' BY DEF TypeOK
    <2>2. NotBegun' BY DEF NotBegun, TypeOK
    <2>3. Listed' BY DEF Listed, TypeOK
    <2>4. AskedIsMarked' /\ CompletedHasText' /\ ReportStaysTrue'
      BY DEF AskedIsMarked, CompletedHasText, ReportStaysTrue
    <2> QED BY <2>1, <2>2, <2>3, <2>4
  <1> QED BY <1>1, <1>2, <1>3, <1>4, <1>5, <1>6 DEF JobStep

\* The list of jobs is lost with the page.
LEMMA UnmountKeeps == ASSUME Inv, Unmount PROVE Inv'
  <1> USE DEF Inv, Unmount
  <1>1. TypeOK' BY DEF TypeOK
  <1>2. Listed' BY DEF Listed, TypeOK
  <1>3. NotBegun' /\ AskedIsMarked' /\ CompletedHasText' /\ ReportStaysTrue'
    BY DEF NotBegun, AskedIsMarked, CompletedHasText, ReportStaysTrue
  <1> QED BY <1>1, <1>2, <1>3

LEMMA Stutter == ASSUME Inv, UNCHANGED vars PROVE Inv'
  BY DEF vars, Inv, TypeOK, NotBegun, Listed, AskedIsMarked, CompletedHasText, ReportStaysTrue

LEMMA Invariance == Spec => []Inv
  <1>1. Inv /\ [Next]_vars => Inv'
    <2> SUFFICES ASSUME Inv, [Next]_vars PROVE Inv'
      OBVIOUS
    <2>1. ASSUME NEW j \in Jobs, JobStep(j) PROVE Inv' BY <2>1, JobKeeps
    <2>2. ASSUME NEW j \in Jobs, NEW f \in FilesOf[j], FileStep(j, f) PROVE Inv'
      BY <2>2, CreateKeeps, PollKeeps, DocStepKeeps DEF FileStep
    <2> QED BY <2>1, <2>2, Stutter, UnmountKeeps DEF Next
  <1> QED BY Start, <1>1, PTL DEF Spec

-----------------------------------------------------------------------------
(* The theorems. *)

\* Every variable has its type; a poll never makes more attempts than it may.
THEOREM TypeCorrect == Spec => []TypeOK
  BY Invariance, PTL DEF Inv

\* A failed job says so until it is closed.
THEOREM FailuresAreVisible == Spec => []FailureStaysVisible
  <1>1. Inv => FailureStaysVisible BY DEF Inv, Listed, FailureStaysVisible
  <1> QED BY <1>1, Invariance, PTL

\* A job that says it is done has done what it was asked for.
THEOREM DoneMeansDone == Spec => SuccessMeansDone
  <1>1. Inv /\ [Next]_vars =>
          [\A j \in Jobs : run[j] = "poll" /\ run'[j] = "refresh" =>
             \A f \in FilesOf[j] :
               /\ doc[f].text
               /\ asked[j] = "extract" /\ doc[f].calm /\ doc[f].row = "live"
                    => doc[f].extract \in {"completed", "failed"}]_vars
    <2> SUFFICES ASSUME Inv, Next, NEW j \in Jobs, run[j] = "poll", run'[j] = "refresh"
                 PROVE  \A f \in FilesOf[j] : poll[f] = "ok"
      BY DEF Inv, ReportStaysTrue
    <2> USE FilesAssumption
    <2>0. run \in [Jobs -> {"idle", "upload", "poll", "refresh", "done", "failed"}]
      BY DEF Inv, TypeOK
    <2>1. ASSUME NEW i \in Jobs, JobStep(i) PROVE AllDone(j)
      BY <2>0, <2>1 DEF JobStep, StartImportJob, UploadAnswered, UploadFails, Fail, AllDone,
                        Finish, DismissJob
    <2>2. ASSUME NEW i \in Jobs, NEW f \in FilesOf[i], FileStep(i, f) PROVE FALSE
      BY <2>0, <2>2 DEF FileStep, CreateFile, PollAnswered, PollBreaks, PollSucceeds, PollFails,
                        PollAgain, PollTimesOut, Fail, DocStep
    <2>3. ~Unmount BY DEF Unmount
    <2> QED BY <2>1, <2>2, <2>3 DEF Next, AllDone
  <1> QED BY <1>1, Invariance, PTL DEF Spec, SuccessMeansDone

-----------------------------------------------------------------------------
(* The session of a tab (Session). *)

\* Sign-ins that have not overlapped leave at most one question after the user.
Signed ==
  alone => IF loading THEN token # NoUser /\ me = AskedFirst(token)
           ELSE NothingOpen /\ user \in {NoUser, token}

\* The roles are those of the user.
RolesRead ==
  fresh /\ ~loading /\ user # NoUser =>
    /\ companies = [c \in Companies |-> row[user][c].role]
    /\ isSuperAdmin = OfToken(user).super

Settled == alone /\ fresh /\ orderly /\ ~loading /\ user # NoUser /\ selected # NoCompany

\* What a question about the selected company looks like.
Current == [by |-> token, of |-> selected, old |-> FALSE]
Newest(questions) == {q \in questions : ~q.old}

\* Either the answer is under way, or it is there.
PermissionsCurrent ==
  Settled => \/ Newest(asks) = {Current}
             \/ /\ Newest(asks) = {}
                /\ permissions = getMyPermissions(OfToken(user), row[user][selected])
BrandingCurrent ==
  Settled => \/ Newest(brands) = {Current}
             \/ Newest(brands) = {} /\ branding \in {selected, NoCompany}

SessionInv == SessionTypeOK /\ Signed /\ RolesRead /\ PermissionsCurrent /\ BrandingCurrent

-----------------------------------------------------------------------------
LEMMA CallerOfToken ==
  ASSUME NEW u
  PROVE  /\ OfToken(u).super \in BOOLEAN
         /\ u # NoUser => OfToken(u).user = u /\ (OfToken(u).super <=> u \in SuperAdmins)
         /\ u # NoUser => OfToken(u).company = NoCompany
<1>1. CASE u = NoUser
  BY <1>1 DEF OfToken, authMiddleware, Unauthorized
<1>2. CASE u # NoUser
  <2>1. OfToken(u) = [user |-> u, super |-> u \in SuperAdmins, company |-> NoCompany]
    BY <1>2 DEF OfToken, authMiddleware
  <2> DEFINE s == u \in SuperAdmins
  <2>2. s \in BOOLEAN
    OBVIOUS
  <2> HIDE DEF s
  <2>3. OfToken(u) = [user |-> u, super |-> s, company |-> NoCompany]
    BY <2>1 DEF s
  <2>4. OfToken(u).super = s /\ OfToken(u).user = u /\ OfToken(u).company = NoCompany
    BY <2>3
  <2> QED BY <1>2, <2>2, <2>4 DEF s
<1> QED BY <1>1, <1>2

LEMMA MyPermissionsTyped ==
  ASSUME NEW caller, NEW r \in Row
  PROVE  getMyPermissions(caller, r) \subseteq Keys \cup {"*"}
  BY DEF getMyPermissions, Row

\* Asking makes one question the newest.
LEMMA AskTyped ==
  ASSUME NEW questions \in SUBSET Question, token' \in Users \cup {NoUser}, selected' \in Companies
  PROVE  Ask(questions) \in SUBSET Question
<1>1. {[q EXCEPT !.old = TRUE] : q \in questions} \in SUBSET Question
  BY DEF Question
<1>2. [by |-> token', of |-> selected', old |-> FALSE] \in Question
  BY DEF Question
<1> QED BY <1>1, <1>2 DEF Ask

LEMMA AskNewest ==
  ASSUME NEW questions \in SUBSET Question
  PROVE  Newest(Ask(questions)) = {[by |-> token', of |-> selected', old |-> FALSE]}
  BY DEF Ask, Question, Newest

-----------------------------------------------------------------------------
LEMMA SessionStart == ASSUME SessionInit PROVE SessionInv
<1>1. SessionTypeOK
  <2>1. row \in [Users -> [Companies -> Row]] /\ changes \in 0 .. Changes
    BY RowsAssumption, BoundsAssumption DEF SessionInit
  <2>2. me \in [Users -> Nat] /\ loading \in BOOLEAN
    BY DEF SessionInit, AskedFirst
  <2> QED BY <2>1, <2>2 DEF SessionInit, SessionTypeOK, NoCompanies
<1>2. Signed
  <2>1. loading <=> token # NoUser
    BY DEF SessionInit
  <2> QED BY <2>1, UsersAssumption DEF SessionInit, Signed, NothingOpen, AskedFirst
<1> QED BY <1>1, <1>2 DEF SessionInit, SessionInv, RolesRead, PermissionsCurrent, BrandingCurrent,
                          Settled

\* The effects ask or clear.
LEMMA EffectsTyped ==
  ASSUME SessionTypeOK, Effects, token' \in Users \cup {NoUser},
         selected' \in Companies \cup {NoCompany}
  PROVE  /\ permissions' \subseteq Keys \cup {"*"} /\ branding' \in Companies \cup {NoCompany}
         /\ asks' \subseteq Question /\ brands' \subseteq Question /\ orderly' \in BOOLEAN
<1> USE DEF SessionTypeOK
<1>1. CASE asks' = asks /\ brands' = brands
  BY <1>1 DEF Effects
<1>2. CASE selected' # NoCompany /\ asks' = Ask(asks) /\ brands' = Ask(brands)
  BY <1>2, AskTyped DEF Effects
<1> QED BY <1>1, <1>2 DEF Effects

\* Whoever is shown with a company has just had it asked for.
LEMMA EffectsAsk ==
  ASSUME SessionTypeOK, Effects, user # NoUser \/ user' # NoUser \/ selected' # selected
  PROVE  /\ user' # NoUser /\ selected' # NoCompany
              => Newest(asks') = {Current'} /\ Newest(brands') = {Current'}
<1> SUFFICES ASSUME user' # NoUser, selected' # NoCompany
             PROVE  Newest(asks') = {Current'} /\ Newest(brands') = {Current'}
  OBVIOUS
<1>1. asks' = Ask(asks) /\ brands' = Ask(brands)
  BY DEF Effects
<1> QED BY <1>1, AskNewest DEF SessionTypeOK, Current

LEMMA MeAnsweredKeeps == ASSUME SessionInv, NEW u \in Users, MeAnswered(u) PROVE SessionInv'
<1> USE DEF SessionInv
<1>1. SessionTypeOK'
  <2>1. selected' \in Companies \cup {NoCompany} /\ stored' \in Companies \cup {NoCompany}
    BY DEF MeAnswered, SessionTypeOK, Member
  <2>2. companies' \in [Companies -> {"none", "user", "company_admin"}] /\ isSuperAdmin' \in BOOLEAN
    BY CallerOfToken DEF MeAnswered, SessionTypeOK, Row
  <2>3. me' \in [Users -> Nat] /\ token' = token
    BY DEF MeAnswered, SessionTypeOK
  <2> QED BY <2>1, <2>2, <2>3, EffectsTyped DEF MeAnswered, SessionTypeOK
<1>2. Signed'
  BY UsersAssumption DEF MeAnswered, Signed, SessionTypeOK, NothingOpen, AskedFirst
<1>3. RolesRead'
  BY DEF MeAnswered, RolesRead
<1>4. user' # NoUser /\ Effects
  BY UsersAssumption DEF MeAnswered
<1>5. PermissionsCurrent' /\ BrandingCurrent'
  BY <1>4, EffectsAsk DEF PermissionsCurrent, BrandingCurrent, Settled
<1> QED BY <1>1, <1>2, <1>3, <1>5

LEMMA EndKeeps ==
  ASSUME SessionInv, SignOut \/ \E u \in Users : MeFails(u)
  PROVE  SessionInv'
<1> USE DEF SessionInv, Cleared
<1>1. /\ user' = NoUser /\ token' = NoUser /\ Effects /\ row' = row /\ stored' = stored
      /\ companies' = NoCompanies /\ selected' = NoCompany /\ isSuperAdmin' \in {FALSE, isSuperAdmin}
      /\ loading' = FALSE /\ changes' = changes /\ fresh' = fresh /\ alone' = alone
      /\ me' \in [Users -> Nat]
  <2>1. CASE SignOut
    BY <2>1 DEF SignOut, SessionTypeOK
  <2>2. ASSUME NEW u \in Users, MeFails(u)
        PROVE  /\ me' \in [Users -> Nat]
               /\ Cleared /\ Effects /\ row' = row /\ stored' = stored /\ isSuperAdmin' = FALSE
               /\ loading' = FALSE /\ changes' = changes /\ fresh' = fresh /\ alone' = alone
    BY <2>2 DEF MeFails, SessionTypeOK
  <2> QED BY <2>1, <2>2
<1>2. SessionTypeOK'
  BY <1>1, EffectsTyped DEF SessionTypeOK, NoCompanies
<1>3. Signed'
  <2>1. CASE SignOut
    BY <2>1 DEF SignOut, Signed, NothingOpen
  <2>2. ASSUME NEW u \in Users, MeFails(u) PROVE Signed'
    BY <2>2 DEF MeFails, Signed, SessionTypeOK, NothingOpen, AskedFirst
  <2> QED BY <2>1, <2>2
<1> QED BY <1>1, <1>2, <1>3 DEF RolesRead, PermissionsCurrent, BrandingCurrent, Settled

LEMMA ReloadKeeps == ASSUME SessionInv, Reload PROVE SessionInv'
<1> USE DEF SessionInv, Reload
<1>1. SessionTypeOK'
  BY UsersAssumption DEF SessionTypeOK, NoCompanies, AskedFirst
<1>2. Signed'
  <2>1. loading' <=> token' # NoUser
    OBVIOUS
  <2> QED BY <2>1, UsersAssumption DEF Signed, NothingOpen, AskedFirst, SessionTypeOK
<1> QED BY <1>1, <1>2 DEF RolesRead, PermissionsCurrent, BrandingCurrent, Settled

\* While the session is read, nothing is said of what it will be.
LEMMA ReadingKeeps ==
  ASSUME SessionInv, token' \in Users \cup {NoUser}, FetchUserData, SessionTypeOK'
  PROVE  SessionInv'
<1>1. Signed'
  <2>1. alone' => \A u \in Users : me[u] = 0
    BY DEF FetchUserData, NothingOpen
  <2>2. alone' => me' = AskedFirst(token)'
    <3>1. SUFFICES ASSUME alone' PROVE me' = AskedFirst(token')
      BY DEF AskedFirst
    <3>2. me' = [u \in Users |-> IF u = token' THEN me[u] + 1 ELSE me[u]]
      BY DEF FetchUserData, SessionInv, SessionTypeOK
    <3> QED BY <3>1, <3>2, <2>1 DEF AskedFirst
  <2> QED BY <2>2 DEF FetchUserData, Signed
<1> QED BY <1>1 DEF SessionInv, FetchUserData, RolesRead, PermissionsCurrent, BrandingCurrent,
                    Settled

LEMMA SignInKeeps == ASSUME SessionInv, (\E u \in Users : SignIn(u)) \/ RefreshUserData PROVE SessionInv'
<1>1. /\ token' \in Users \cup {NoUser} /\ FetchUserData
      /\ UNCHANGED <<row, stored, user, companies, isSuperAdmin, selected, permissions, branding,
                     asks, brands, changes, orderly>>
      /\ fresh' \in BOOLEAN
  BY DEF SignIn, RefreshUserData, SessionInv, SessionTypeOK, Quiet, NothingOpen
<1>2. SessionTypeOK'
  BY <1>1 DEF FetchUserData, SessionInv, SessionTypeOK, NothingOpen
<1> QED BY <1>1, <1>2, ReadingKeeps

LEMMA SwitchKeeps ==
  ASSUME SessionInv, NEW c \in Companies, SetSelectedCompanyId(c)
  PROVE  SessionInv'
<1> USE DEF SessionInv, SetSelectedCompanyId
<1>1. SessionTypeOK'
  BY EffectsTyped DEF SessionTypeOK
<1>2. Signed' /\ RolesRead'
  BY DEF Signed, RolesRead, NothingOpen
<1>3. PermissionsCurrent' /\ BrandingCurrent'
  BY EffectsAsk DEF PermissionsCurrent, BrandingCurrent, Settled
<1> QED BY <1>1, <1>2, <1>3

LEMMA AcceptKeeps ==
  ASSUME SessionInv, NEW c \in Companies, AcceptInvitation(c)
  PROVE  SessionInv'
<1> USE DEF AcceptInvitation
<1>1. token' \in Users \cup {NoUser} /\ FetchUserData
  BY DEF SessionInv, SessionTypeOK
<1>2. SessionTypeOK'
  <2>1. row' \in [Users -> [Companies -> Row]]
    BY DEF SessionInv, SessionTypeOK, Row
  <2>2. /\ permissions' \subseteq Keys \cup {"*"} /\ branding' \in Companies \cup {NoCompany}
        /\ asks' \subseteq Question /\ brands' \subseteq Question /\ orderly' \in BOOLEAN
    BY EffectsTyped DEF SessionInv, SessionTypeOK
  <2>3. fresh' \in BOOLEAN /\ alone' \in BOOLEAN /\ me' \in [Users -> Nat] /\ loading' \in BOOLEAN
    BY DEF SessionInv, SessionTypeOK, FetchUserData, Quiet, NothingOpen
  <2>4. changes' \in 0 .. Changes
    BY BoundsAssumption DEF SessionInv, SessionTypeOK
  <2> QED BY <2>1, <2>2, <2>3, <2>4 DEF SessionInv, SessionTypeOK
<1> QED BY <1>1, <1>2, ReadingKeeps

LEMMA OthersKeep ==
  ASSUME SessionInv, \/ \E u \in Users, c \in Companies : ChangeRow(u, c)
                     \/ \E t \in Users \cup {NoUser} : OtherTab(t)
  PROVE  SessionInv'
<1>1. ASSUME NEW u \in Users, NEW c \in Companies, ChangeRow(u, c) PROVE SessionInv'
  <2> USE <1>1 DEF SessionInv, ChangeRow, context, requests
  <2>1. SessionTypeOK'
    <3>1. row' \in [Users -> [Companies -> Row]]
      BY DEF SessionTypeOK
    <3>2. changes' \in 0 .. Changes
      BY BoundsAssumption DEF SessionTypeOK
    <3> QED BY <3>1, <3>2 DEF SessionTypeOK
  <2>2. Signed'
    BY DEF Signed, NothingOpen
  <2> QED BY <2>1, <2>2 DEF RolesRead, PermissionsCurrent, BrandingCurrent, Settled
<1>2. ASSUME NEW t \in Users \cup {NoUser}, OtherTab(t) PROVE SessionInv'
  <2> USE <1>2 DEF SessionInv, OtherTab, context, requests
  <2>1. SessionTypeOK'
    BY DEF SessionTypeOK
  <2> QED BY <2>1 DEF Signed, RolesRead, PermissionsCurrent, BrandingCurrent, Settled
<1> QED BY <1>1, <1>2

\* An answer that is not the last one is followed by the one to the newest question.
LEMMA PermissionsKeep ==
  ASSUME SessionInv, NEW q \in asks, PermissionsAnswered(q) \/ PermissionsFail(q),
         UNCHANGED <<row, token, stored, user, companies, isSuperAdmin, loading, selected,
                     me, changes, fresh, alone>>
  PROVE  SessionInv'
<1> USE DEF SessionInv
<1>q. q \in Question /\ asks' = asks \ {q} /\ brands' = brands /\ branding' = branding
  BY DEF SessionTypeOK, PermissionsAnswered, PermissionsFail
<1>1. SessionTypeOK'
  <2>1. permissions' \subseteq Keys \cup {"*"}
    <3>1. CASE q.by # NoUser /\ PermissionsAnswered(q)
      <4>1. row[q.by][q.of] \in Row
        BY <3>1, <1>q DEF SessionTypeOK, Question
      <4> QED BY <3>1, <4>1, MyPermissionsTyped DEF PermissionsAnswered
    <3> QED BY <3>1 DEF PermissionsAnswered, PermissionsFail
  <2>2. orderly' \in BOOLEAN
    BY DEF PermissionsAnswered, PermissionsFail, SessionTypeOK, InOrder, NewerOpen
  <2> QED BY <2>1, <2>2, <1>q DEF SessionTypeOK
<1>2. Signed' /\ RolesRead'
  BY DEF Signed, RolesRead, NothingOpen
<1>3. orderly' => orderly
  BY DEF PermissionsAnswered, PermissionsFail
<1>4. BrandingCurrent'
  BY <1>3, <1>q DEF BrandingCurrent, Settled, Current, Newest
<1>5. PermissionsCurrent'
  <2> SUFFICES ASSUME Settled'
               PROVE  \/ Newest(asks') = {Current'}
                      \/ /\ Newest(asks') = {}
                         /\ permissions' = getMyPermissions(OfToken(user), row[user][selected])
    BY DEF PermissionsCurrent
  <2>1. Settled /\ Current' = Current /\ orderly'
    BY <1>3 DEF Settled, Current
  <2>2. CASE q.old
    <3>1. Newest(asks') = Newest(asks)
      BY <2>2, <1>q DEF Newest
    <3>2. Newest(asks) # {}
      BY <2>1, <2>2 DEF PermissionsAnswered, PermissionsFail, InOrder, NewerOpen, Newest
    <3> QED BY <2>1, <3>1, <3>2 DEF PermissionsCurrent
  <2>3. CASE ~q.old
    <3>1. q \in Newest(asks)
      BY <2>3 DEF Newest
    <3>2. q = Current /\ Newest(asks) = {q}
      BY <3>1, <2>1 DEF PermissionsCurrent
    <3>3. Newest(asks') = {}
      BY <3>2, <1>q DEF Newest
    <3>4. PermissionsAnswered(q)
      BY <2>1, <3>2 DEF PermissionsFail, NewerOpen, Newest
    <3>5. user = token /\ token # NoUser
      BY <2>1 DEF Settled, Signed
    <3> QED BY <3>2, <3>3, <3>4, <3>5 DEF PermissionsAnswered, Current
  <2> QED BY <2>2, <2>3, <1>q DEF SessionTypeOK, Question
<1> QED BY <1>1, <1>2, <1>4, <1>5

LEMMA BrandingKeeps ==
  ASSUME SessionInv, NEW q \in brands, BrandingAnswered(q) \/ BrandingFails(q),
         UNCHANGED <<row, token, stored, user, companies, isSuperAdmin, loading, selected,
                     me, changes, fresh, alone>>
  PROVE  SessionInv'
<1> USE DEF SessionInv
<1>q. /\ q \in Question /\ brands' = brands \ {q} /\ asks' = asks /\ permissions' = permissions
      /\ branding' \in {q.of, NoCompany}
  BY DEF SessionTypeOK, BrandingAnswered, BrandingFails
<1>1. SessionTypeOK'
  <2>1. orderly' \in BOOLEAN
    BY DEF BrandingAnswered, BrandingFails, SessionTypeOK, InOrder, NewerOpen
  <2> QED BY <2>1, <1>q DEF SessionTypeOK, Question
<1>2. Signed' /\ RolesRead'
  BY DEF Signed, RolesRead, NothingOpen
<1>3. orderly' => orderly
  BY DEF BrandingAnswered, BrandingFails
<1>4. PermissionsCurrent'
  BY <1>3, <1>q DEF PermissionsCurrent, Settled, Current, Newest
<1>5. BrandingCurrent'
  <2> SUFFICES ASSUME Settled'
               PROVE  \/ Newest(brands') = {Current'}
                      \/ Newest(brands') = {} /\ branding' \in {selected, NoCompany}
    BY DEF BrandingCurrent
  <2>1. Settled /\ Current' = Current /\ orderly'
    BY <1>3 DEF Settled, Current
  <2>2. CASE q.old
    <3>1. Newest(brands') = Newest(brands)
      BY <2>2, <1>q DEF Newest
    <3>2. Newest(brands) # {}
      BY <2>1, <2>2 DEF BrandingAnswered, BrandingFails, InOrder, NewerOpen, Newest
    <3> QED BY <2>1, <3>1, <3>2 DEF BrandingCurrent
  <2>3. CASE ~q.old
    <3>1. q \in Newest(brands)
      BY <2>3 DEF Newest
    <3>2. q = Current /\ Newest(brands) = {q}
      BY <3>1, <2>1 DEF BrandingCurrent
    <3>3. Newest(brands') = {}
      BY <3>2, <1>q DEF Newest
    <3>4. branding' \in {selected, NoCompany}
      BY <3>2, <1>q DEF Current
    <3> QED BY <3>3, <3>4
  <2> QED BY <2>2, <2>3, <1>q DEF SessionTypeOK, Question
<1> QED BY <1>1, <1>2, <1>4, <1>5

LEMMA SessionSteps == ASSUME SessionInv, [SessionNext]_sessionVars PROVE SessionInv'
<1>1. CASE Answers
  BY <1>1, PermissionsKeep, BrandingKeeps DEF Answers
<1>2. CASE UNCHANGED sessionVars
  BY <1>2 DEF SessionInv, sessionVars, context, requests, history, SessionTypeOK, Signed,
              NothingOpen, RolesRead, PermissionsCurrent, BrandingCurrent, Settled, Current, Newest
<1> QED BY <1>1, <1>2, ReloadKeeps, MeAnsweredKeeps, EndKeeps, SignInKeeps, SwitchKeeps,
           AcceptKeeps, OthersKeep DEF SessionNext

LEMMA SessionInvariant == SessionSpec => []SessionInv
  BY SessionStart, SessionSteps, PTL DEF SessionSpec

\* What my-permissions answers is what the routes require.
LEMMA OffersMatch ==
  ASSUME NEW u \in Users, NEW r \in Row, NEW k \in Keys, NEW c \in Companies
  PROVE  LET mine == getMyPermissions(OfToken(u), r) IN
         (OfToken(u).super \/ r.role = "company_admin" \/ "*" \in mine \/ k \in mine)
           <=> requirePermission(OfToken(u), c, r, k)
  BY CallerOfToken, UsersAssumption, KeysAssumption
     DEF getMyPermissions, requirePermission, hasPermission, Row

\* Every part of the session has its type.
THEOREM SessionTypeCorrect == SessionSpec => []SessionTypeOK
  BY SessionInvariant, PTL DEF SessionInv

\* The user that AuthContext shows, once loading has ended, is the one whose token
\* is sent, as long as /api/me is asked once at a time and no other tab signs in.
THEOREM SignedInIsShown == SessionSpec => []ShownIsSignedIn
<1>1. SessionInv => ShownIsSignedIn
  BY DEF SessionInv, Signed, ShownIsSignedIn
<1> QED BY <1>1, SessionInvariant, PTL

\* When every answer has come, none overtook that to a later question and the rows
\* are as they were read, hasPermission of the client offers exactly what
\* requirePermission allows on the routes of the selected company, and the name
\* shown is that of the company.
THEOREM OfferAllowed == SessionSpec => []OfferedIsAllowed
<1>1. SessionInv => OfferedIsAllowed
  <2> SUFFICES ASSUME SessionInv, user # NoUser, ~loading, selected # NoCompany, Quiet, fresh, orderly, alone
               PROVE  /\ \A k \in Keys : HasPermission(k) <=>
                           requirePermission(OfToken(user), selected, row[user][selected], k)
                      /\ branding \in {selected, NoCompany}
    BY DEF OfferedIsAllowed
  <2>1. Settled /\ Newest(asks) = {} /\ Newest(brands) = {}
    BY DEF Settled, Newest, Quiet
  <2>2. permissions = getMyPermissions(OfToken(user), row[user][selected])
    BY <2>1 DEF SessionInv, PermissionsCurrent
  <2>3. branding \in {selected, NoCompany}
    BY <2>1 DEF SessionInv, BrandingCurrent
  <2>4. /\ user \in Users /\ selected \in Companies /\ row[user][selected] \in Row
        /\ isSuperAdmin = OfToken(user).super /\ companies[selected] = row[user][selected].role
    BY DEF SessionInv, SessionTypeOK, RolesRead
  <2>5. ASSUME NEW k \in Keys
        PROVE  HasPermission(k) <=> requirePermission(OfToken(user), selected, row[user][selected], k)
    BY <2>2, <2>4, OffersMatch DEF HasPermission, isCompanyAdmin
  <2> QED BY <2>3, <2>5
<1> QED BY <1>1, SessionInvariant, PTL
=============================================================================
