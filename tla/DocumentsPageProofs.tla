-------------------------- MODULE DocumentsPageProofs --------------------------
(***************************************************************************)
(* The documents page: theorems about DocumentPane, its types, that what   *)
(* is opened shows its own text, history and keys, and that no timer       *)
(* escapes; and about DocumentTree, that a node of the tree, the list it   *)
(* asks for and the rows of filters agree, for any database and any order  *)
(* of the keys.                                                            *)
(***************************************************************************)
EXTENDS DocumentPane, DocumentTree, TLAPS, WellFoundedInduction, FiniteSetTheorems, SequenceTheorems

-----------------------------------------------------------------------------
(* The documents still to be recognised, loop by loop. *)

Turns(S) == Seq(S) \ {<<>>}

\* A sequence without one of its elements has no others.
LEMMA WithoutOne ==
  ASSUME NEW S, NEW s \in Seq(S), NEW i \in 1 .. Len(s)
  PROVE  RemoveAt(s, i) \in Seq(S)
<1>1. Len(s) \in Nat /\ i \in Nat BY LenProperties
<1>2. \A k \in 1 .. Len(s) : s[k] \in S BY ElementOfSeq
<1>3. SubSeq(s, 1, i - 1) \in Seq(S)
  <2>1. 1 \in Int /\ i - 1 \in Int /\ \A k \in 1 .. i - 1 : s[k] \in S BY <1>1, <1>2
  <2>2. QED BY <2>1, SubSeqProperties
<1>4. SubSeq(s, i + 1, Len(s)) \in Seq(S)
  <2>1. i + 1 \in Int /\ Len(s) \in Int /\ \A k \in i + 1 .. Len(s) : s[k] \in S BY <1>1, <1>2
  <2>2. QED BY <2>1, SubSeqProperties
<1>5. QED BY <1>3, <1>4, ConcatProperties DEF RemoveAt

\* When a document has had its turn, those after it have theirs.
LEMMA NextTurn ==
  ASSUME NEW S, loops \in Seq(Turns(S)), NEW i \in 1 .. Len(loops), Advance(i)
  PROVE  loops' \in Seq(Turns(S)) /\ Head(loops[i]) \in S
<1>1. loops[i] \in Seq(S) /\ loops[i] # <<>> BY ElementOfSeq DEF Turns
<1>2. Len(loops[i]) \in Nat \ {0} BY <1>1, EmptySeq, LenProperties
<1>3. Head(loops[i]) \in S BY <1>1, HeadTailProperties
<1>4. CASE Len(loops[i]) = 1
  BY <1>3, <1>4, WithoutOne DEF Advance
<1>5. CASE Len(loops[i]) # 1
  <2>1. Tail(loops[i]) \in Seq(S) /\ Len(Tail(loops[i])) = Len(loops[i]) - 1
    BY <1>1, HeadTailProperties
  <2>2. Len(<<>>) = 0 BY EmptySeq
  <2>3. Len(Tail(loops[i])) # 0 BY <2>1, <1>2, <1>5
  <2>4. Tail(loops[i]) \in Turns(S) BY <2>1, <2>2, <2>3 DEF Turns
  <2>5. loops' = [loops EXCEPT ![i] = Tail(loops[i])] BY <1>5 DEF Advance
  <2>6. QED BY <1>3, <2>4, <2>5, ExceptSeq
<1>6. QED BY <1>3, <1>4, <1>5

\* The documents of a loop that begins are those selected, each once.
LEMMA OneAfterTheOther ==
  ASSUME NEW S \in SUBSET Docs, NEW ds \in SetToSeqs(S)
  PROVE  ds \in Seq(Docs)
<1>1. Cardinality(S) \in Nat BY DocsAssumption, FS_Subset, FS_CardinalityType
<1>2. ds \in [1 .. Cardinality(S) -> Docs] BY DEF SetToSeqs
<1>3. QED BY <1>1, <1>2, SeqDef

-----------------------------------------------------------------------------
(* Timers. *)

\* Starting timers registers one of a number that is free.
LEMMA StartTypes ==
  ASSUME TypeOK, NEW starting \in SUBSET Docs, StartPolling(starting)
  PROVE  ocrPolling' \in [Docs -> 0 .. Generations] /\ ticking' \subseteq Timer
<1> DEFINE new == {d \in starting : ocrPolling[d] = 0}
           free == [d \in new |-> CHOOSE g \in Unused(d) : TRUE]
<1>1. CASE new = {}
  BY <1>1 DEF StartPolling, TypeOK
<1>2. CASE new # {}
  <2>1. \A d \in new : Unused(d) # {} BY <1>2 DEF StartPolling
  <2>2. \A d \in new : free[d] \in 1 .. Generations BY <2>1 DEF Unused
  <2>3. ocrPolling' = [d \in Docs |-> IF d \in new THEN free[d] ELSE ocrPolling[d]]
    BY <1>2 DEF StartPolling
  <2>4. ticking' \subseteq ticking \cup {<<d, free[d]>> : d \in new} BY <1>2 DEF StartPolling
  <2> HIDE DEF free
  <2>5. Generations \in Nat BY BoundsAssumption
  <2>6. ocrPolling \in [Docs -> 0 .. Generations] /\ ticking \subseteq Timer BY DEF TypeOK
  <2>7. \A d \in new : d \in Docs /\ free[d] \in 0 .. Generations BY <2>2, <2>5
  <2> HIDE DEF new
  <2>8. ocrPolling' \in [Docs -> 0 .. Generations] BY <2>3, <2>6, <2>7
  <2>9. ticking' \subseteq Timer BY <2>2, <2>4, <2>6, <2>7 DEF Timer
  <2>10. QED BY <2>8, <2>9
<1>3. QED BY <1>1, <1>2

\* Stopping registers none.
LEMMA StopTypes ==
  ASSUME TypeOK, NEW stopping, NEW gone, StopPolling(stopping, gone)
  PROVE  ocrPolling' \in [Docs -> 0 .. Generations] /\ ticking' \subseteq ticking
<1>1. Generations \in Nat BY BoundsAssumption
<1>2. QED BY <1>1 DEF StopPolling, TypeOK

\* The types of what the timers are, their polls and the loops.
PollingTypes ==
  /\ ocrPolling \in [Docs -> 0 .. Generations] /\ ticking \subseteq Timer
  /\ polls \subseteq [timer : Timer, answer : {"sent"} \cup Status]
  /\ loops \in Seq(Turns(Docs))

LEMMA PollingStep ==
  ASSUME TypeOK, Next PROVE PollingTypes'
<1> USE DEF PollingTypes, Turns, polling
<1>1. CASE FilesAnswered
  BY <1>1, StartTypes DEF TypeOK, FilesAnswered, ShowFiles
<1>2. CASE \E t \in ticking : Tick(t)
  BY <1>2 DEF TypeOK, Tick, Timer
<1>3. ASSUME NEW p \in polls, ReadStatus(p) \/ PollEnds(p) \/ PollGoesOn(p) \/ PollFails(p)
      PROVE  PollingTypes'
  <2>1. p \in [timer : Timer, answer : {"sent"} \cup Status] /\ p.timer[1] \in Docs
    BY DEF TypeOK, Timer
  <2>2. CASE ReadStatus(p) BY <2>1, <2>2 DEF TypeOK, ReadStatus
  <2>3. CASE PollEnds(p) BY <2>1, <2>3, StopTypes DEF TypeOK, PollEnds
  <2>4. CASE PollGoesOn(p) BY <2>1, <2>4, StartTypes DEF TypeOK, PollGoesOn, ShowFiles
  <2>5. CASE PollFails(p) BY <2>1, <2>5, StopTypes DEF TypeOK, PollFails
  <2>6. QED BY <1>3, <2>2, <2>3, <2>4, <2>5
<1>4. ASSUME NEW i \in 1 .. Len(loops), TriggerAnswered(i) \/ TriggerFails(i)
      PROVE  PollingTypes'
  <2>0. ocrPolling \in [Docs -> 0 .. Generations] /\ ticking \subseteq Timer
        /\ polls \subseteq [timer : Timer, answer : {"sent"} \cup Status]
    BY DEF TypeOK
  <2>1. Advance(i) BY <1>4 DEF TriggerAnswered, TriggerFails
  <2>2. loops' \in Seq(Turns(Docs)) /\ Head(loops[i]) \in Docs BY <2>1, NextTurn DEF TypeOK
  <2>3. UNCHANGED polls BY <2>1 DEF Advance
  <2>4. CASE TriggerFails(i) BY <2>0, <2>2, <2>3, <2>4 DEF TriggerFails
  <2>5. CASE TriggerAnswered(i) /\ mounted
    BY <2>0, <2>2, <2>3, <2>5, StartTypes DEF TriggerAnswered
  <2>6. CASE TriggerAnswered(i) /\ ~mounted
    <3> DEFINE d == Head(loops[i])  g == CHOOSE g \in Unused(d) : TRUE
    <3>1. /\ UNCHANGED ocrPolling
          /\ ticking' = ticking \/ (Unused(d) # {} /\ ticking' = ticking \cup {<<d, g>>})
      BY <2>6 DEF TriggerAnswered
    <3>2. Unused(d) # {} => g \in 1 .. Generations BY DEF Unused
    <3> HIDE DEF g
    <3>3. ticking' \subseteq Timer BY <2>0, <2>2, <3>1, <3>2 DEF Timer
    <3>4. ocrPolling' = ocrPolling BY <3>1
    <3>5. QED BY <2>0, <2>2, <2>3, <3>3, <3>4
  <2>7. QED BY <1>4, <2>4, <2>5, <2>6
<1>5. CASE \E d \in Docs : triggerOcr(d)
  <2>1. PICK d \in Docs : triggerOcr(d) BY <1>5
  <2>2. <<d>> \in Turns(Docs) BY DEF Turns
  <2>3. loops' = Append(loops, <<d>>) /\ UNCHANGED <<ocrPolling, ticking, polls>>
    BY <2>1 DEF triggerOcr
  <2>4. loops' \in Seq(Turns(Docs)) BY <2>2, <2>3, AppendProperties DEF TypeOK
  <2>5. QED BY <2>3, <2>4 DEF TypeOK
<1>6. CASE triggerBulkOcr
  <2>1. PICK ds \in SetToSeqs(selectedOcrEligible) : ds # <<>> /\ loops' = Append(loops, ds)
    BY <1>6 DEF triggerBulkOcr
  <2>2. ds \in Turns(Docs) BY <2>1, OneAfterTheOther DEF Turns, selectedOcrEligible, TypeOK
  <2>3. UNCHANGED <<ocrPolling, ticking, polls>> BY <1>6 DEF triggerBulkOcr
  <2>4. loops' \in Seq(Turns(Docs)) BY <2>1, <2>2, AppendProperties DEF TypeOK
  <2>5. QED BY <2>3, <2>4 DEF TypeOK
<1>7. CASE confirmDeleteSelected
  BY <1>7, StopTypes DEF TypeOK, confirmDeleteSelected
<1>8. CASE Leave
  BY <1>8 DEF TypeOK, Leave
<1>9. CASE UNCHANGED polling
  BY <1>9 DEF TypeOK
<1>10. QED BY <1>1, <1>2, <1>3, <1>4, <1>5, <1>6, <1>7, <1>8, <1>9 DEF Next, Requests, User,
  FilesFail, Recognise, UrlAnswered, TextAnswered, TextFails, HistoryAnswered, HistoryCancelled, Answered,
  openPreview, handleToggleSelect, handleDelete, openExtractMetadataDialog, setPreviewMode,
  toggleExtractKeyForFile, handleToggleSelectAll, closePreview, handleBulkMetadata,
  handleBulkExtractMetadata, closeExtractDialog, submitExtractMetadata

-----------------------------------------------------------------------------
(* Preview, text and history. *)

Preview == [file : Docs \cup {None}, mode : Mode, status : Status]

\* A text that is shown is that of the document it is shown for.
TextOwn(x, p) ==
  p.file # None /\ p.mode \in {"ocr", "split"} /\ p.status = "completed"
    /\ ~x.loading /\ ~x.error /\ x.of # None => x.of = p.file

\* So is a history, and the one request for it that counts is for that document.
HistoryOwn(x, p) ==
  /\ p.file # None /\ p.mode = "history" /\ ~x.loading /\ ~x.error => x.of = p.file
  /\ x.live # None => p.mode = "history" /\ p.file = x.live /\ x.asked[x.live] > 0

\* When no address of another was there or under way, no other has been asked for.
UrlOwn ==
  preview.file # None /\ ~stray =>
    /\ url.of \in {None, preview.file}
    /\ \A e \in Docs \ {preview.file} : url.asked[e] = 0

PaneOwn == TextOwn(text, preview) /\ HistoryOwn(history, preview) /\ UrlOwn

PaneTypes ==
  /\ preview \in Preview /\ url \in Url /\ stray \in BOOLEAN
  /\ text \in Text /\ history \in History

\* The effect asks for the text whenever that of another document would be shown.
LEMMA TextLoaded ==
  ASSUME NEW x \in Text, NEW p \in Preview
  PROVE  LoadPreviewOcr(x, p) \in Text /\ TextOwn(LoadPreviewOcr(x, p), p)
<1> DEFINE y == LoadPreviewOcr(x, p)
<1>1. CASE NeedsText(x, p)
  <2>1. y = [x EXCEPT !.loading = TRUE, !.error = FALSE, !.asked[p.file] = @ + 1]
    BY <1>1 DEF LoadPreviewOcr
  <2>2. p.file \in Docs BY <1>1 DEF NeedsText, Preview
  <2>3. [x.asked EXCEPT ![p.file] = @ + 1] \in [Docs -> Nat] BY <2>2 DEF Text
  <2>4. QED BY <2>1, <2>3 DEF Text, TextOwn
<1>2. CASE ~NeedsText(x, p)
  BY <1>2 DEF LoadPreviewOcr, NeedsText, TextOwn
<1>3. QED BY <1>1, <1>2

\* The effect on the history starts over whatever was under way.
LEMMA HistoryLoaded ==
  ASSUME NEW x \in History, NEW p \in Preview
  PROVE  LoadPreviewHistory(x, p) \in History /\ HistoryOwn(LoadPreviewHistory(x, p), p)
<1> DEFINE y == LoadPreviewHistory(x, p)
<1>1. CASE p.file # None /\ p.mode = "history"
  <2>1. y = [x EXCEPT !.loading = TRUE, !.error = FALSE, !.asked[p.file] = @ + 1, !.live = p.file]
    BY <1>1 DEF LoadPreviewHistory
  <2>2. p.file \in Docs BY <1>1 DEF Preview
  <2>3. /\ [x.asked EXCEPT ![p.file] = @ + 1] \in [Docs -> Nat]
        /\ [x.asked EXCEPT ![p.file] = @ + 1][p.file] > 0
    BY <2>2 DEF History
  <2>4. QED BY <1>1, <2>1, <2>2, <2>3 DEF History, HistoryOwn
<1>2. CASE ~(p.file # None /\ p.mode = "history")
  BY <1>2 DEF LoadPreviewHistory, History, HistoryOwn
<1>3. QED BY <1>1, <1>2

LEMMA PaneStep ==
  ASSUME PaneTypes, PaneOwn, files \in List, Next
  PROVE  PaneTypes' /\ PaneOwn'
<1> USE DEF PaneTypes, PaneOwn, pane
<1>1. ASSUME NEW p \in Preview, Show(p), url' \in Url, stray' \in BOOLEAN, UrlOwn'
      PROVE  PaneTypes' /\ PaneOwn'
  BY <1>1, TextLoaded, HistoryLoaded DEF Show
<1>2. CASE \E d \in Docs : openPreview(d)
  <2>1. PICK d \in Docs : openPreview(d) BY <1>2
  <2>2. [file |-> d, mode |-> "document", status |-> files[d]] \in Preview
    BY <2>1 DEF openPreview, Preview, List, Mode
  <2>3. url' = [url EXCEPT !.asked[d] = @ + 1] /\ preview'.file = d
    BY <2>1 DEF openPreview, Show
  <2>4. stray' = (url.of \notin {None, d} \/ \E e \in Docs \ {d} : url.asked[e] > 0)
    BY <2>1 DEF openPreview
  <2>5. url' \in Url /\ stray' \in BOOLEAN BY <2>3, <2>4 DEF Url
  <2>6. UrlOwn'
    <3>1. /\ url'.of = url.of /\ url.asked \in [Docs -> Nat]
          /\ \A e \in Docs \ {d} : url'.asked[e] = url.asked[e]
      BY <2>3 DEF Url
    <3>2. ~stray' => url.of \in {None, d} /\ \A e \in Docs \ {d} : url.asked[e] = 0
      <4>1. ~stray' => url.of \in {None, d} /\ \A e \in Docs \ {d} : ~(url.asked[e] > 0)
        BY <2>4, Zenon
      <4>2. \A e \in Docs \ {d} : ~(url.asked[e] > 0) => url.asked[e] = 0 BY <3>1
      <4>3. QED BY <4>1, <4>2
    <3>3. QED BY <2>3, <3>1, <3>2 DEF UrlOwn
  <2>7. QED BY <2>1, <2>2, <2>5, <2>6, <1>1 DEF openPreview
<1>3. CASE \E mode \in Mode : setPreviewMode(mode)
  <2>1. PICK mode \in Mode : setPreviewMode(mode) BY <1>3
  <2>2. [preview EXCEPT !.mode = mode] \in Preview BY DEF Preview
  <2>3. preview'.file = preview.file /\ UNCHANGED <<url, stray>>
    BY <2>1 DEF setPreviewMode, Show, Preview
  <2>4. UrlOwn' BY <2>3 DEF UrlOwn
  <2>5. QED BY <2>1, <2>2, <2>3, <2>4, <1>1 DEF setPreviewMode
<1>4. CASE closePreview
  BY <1>4 DEF closePreview, Nothing, Preview, Mode, Status, Url, Text, History, TextOwn, HistoryOwn,
     UrlOwn
<1>5. ASSUME NEW d \in Docs, TextAnswered(d) \/ TextFails(d) PROVE PaneTypes' /\ PaneOwn'
  <2>1. text.asked[d] - 1 \in Nat BY <1>5 DEF TextAnswered, TextFails, Text
  <2>2. UNCHANGED <<preview, url, stray, history>> BY <1>5 DEF TextAnswered, TextFails
  <2>3. PICK x \in Text : text' = LoadPreviewOcr(x, preview)
    <3>1. CASE TextAnswered(d)
      <4>1. [text EXCEPT !.of = d, !.loading = FALSE, !.asked[d] = @ - 1] \in Text
        BY <2>1 DEF Text
      <4>2. QED BY <3>1, <4>1 DEF TextAnswered
    <3>2. CASE TextFails(d)
      <4>1. [text EXCEPT !.error = TRUE, !.loading = FALSE, !.asked[d] = @ - 1] \in Text
        BY <2>1 DEF Text
      <4>2. QED BY <3>2, <4>1 DEF TextFails
    <3>3. QED BY <1>5, <3>1, <3>2
  <2>4. QED BY <2>2, <2>3, TextLoaded DEF UrlOwn
<1>6. ASSUME NEW d \in Docs, HistoryAnswered(d) PROVE PaneTypes' /\ PaneOwn'
  <2>1. history.live = d /\ d # None /\ UNCHANGED <<preview, url, stray, text>>
    BY <1>6, DocsAssumption DEF HistoryAnswered
  <2>2. preview.file = d /\ history.asked[d] - 1 \in Nat BY <2>1 DEF HistoryOwn, History
  <2>3. CASE history' = [history EXCEPT !.of = d, !.loading = FALSE, !.live = None,
                                        !.asked[d] = @ - 1]
    BY <2>1, <2>2, <2>3 DEF History, HistoryOwn, UrlOwn
  <2>4. CASE history' = [history EXCEPT !.of = None, !.error = TRUE, !.loading = FALSE,
                                        !.live = None, !.asked[d] = @ - 1]
    BY <2>1, <2>2, <2>4 DEF History, HistoryOwn, UrlOwn
  <2>5. QED BY <1>6, <2>3, <2>4 DEF HistoryAnswered
<1>7. ASSUME NEW d \in Docs, HistoryCancelled(d) PROVE PaneTypes' /\ PaneOwn'
  <2>1. /\ history' = [history EXCEPT !.asked[d] = @ - 1] /\ UNCHANGED <<preview, url, stray, text>>
        /\ history.asked[d] > (IF history.live = d THEN 1 ELSE 0)
    BY <1>7 DEF HistoryCancelled
  <2>2. history.asked[d] \in Nat BY DEF History
  <2>3. history.asked[d] - 1 \in Nat /\ (history.live = d => history.asked[d] - 1 > 0)
    BY <2>1, <2>2
  <2>4. history' \in History BY <2>1, <2>3 DEF History
  <2>5. HistoryOwn(history', preview) BY <2>1, <2>3 DEF HistoryOwn, History
  <2>6. QED BY <2>1, <2>4, <2>5 DEF UrlOwn
<1>8. ASSUME NEW d \in Docs, UrlAnswered(d) PROVE PaneTypes' /\ PaneOwn'
  <2>1. PICK of \in {None, d} : url' = [url EXCEPT !.of = of, !.asked[d] = @ - 1]
    BY <1>8 DEF UrlAnswered
  <2>2. UNCHANGED <<preview, stray, text, history>> /\ url.asked[d] > 0
    BY <1>8 DEF UrlAnswered
  <2>3. /\ url'.of = of /\ url'.asked = [url.asked EXCEPT ![d] = @ - 1]
        /\ url' = [of |-> url'.of, asked |-> url'.asked]
    BY <2>1 DEF Url
  <2>4. url' \in Url BY <2>2, <2>3 DEF Url
  <2>5. url.asked \in [Docs -> Nat] BY DEF Url
  <2>6. preview.file # None /\ ~stray => d = preview.file BY <2>2 DEF UrlOwn
  <2>7. UrlOwn' BY <2>2, <2>3, <2>5, <2>6 DEF UrlOwn
  <2>8. QED BY <2>2, <2>4, <2>7
<1>9. CASE Leave
  <2>1. preview.file = None /\ UNCHANGED <<preview, stray>> BY <1>9 DEF Leave, OnPage
  <2>2. url' \in Url /\ text' \in Text /\ history' \in History
    BY <1>9 DEF Leave, NoUrl, NoText, NoHistory, Url, Text, History
  <2>3. history'.live = None BY <1>9 DEF Leave, NoHistory
  <2>4. QED BY <2>1, <2>2, <2>3 DEF TextOwn, HistoryOwn, UrlOwn
<1>10. CASE UNCHANGED pane
  BY <1>10 DEF UrlOwn
<1>11. QED BY <1>2, <1>3, <1>4, <1>5, <1>6, <1>7, <1>8, <1>9, <1>10 DEF Next, Requests, User,
  FilesAnswered, FilesFail, Tick, ReadStatus, PollEnds, PollGoesOn, PollFails, TriggerAnswered,
  TriggerFails, Advance, Recognise, Answered, triggerOcr, triggerBulkOcr,
  handleToggleSelect, handleDelete, openExtractMetadataDialog, toggleExtractKeyForFile,
  handleToggleSelectAll, confirmDeleteSelected, handleBulkMetadata, handleBulkExtractMetadata,
  closeExtractDialog, submitExtractMetadata

-----------------------------------------------------------------------------
(* The dialog and the requests on documents. *)

CallRecord == [what : What, left : SUBSET (Docs \cup {None}), failed : BOOLEAN]

AskingTypes ==
  /\ dialog \in [open : BOOLEAN, target : Docs \cup {None}, keys : SUBSET Keys,
                 submitting : BOOLEAN]
  /\ keysFor \in Docs \cup {None}
  /\ calls \in [Calls -> {None} \cup CallRecord]

\* Keys are forgotten when the dialog opens.
KeysOwn == dialog.open /\ dialog.keys # {} => keysFor = dialog.target

LEMMA AskTypes ==
  ASSUME AskingTypes, NEW what \in What, NEW ds \in SUBSET (Docs \cup {None}), Ask(what, ds)
  PROVE  calls' \in [Calls -> {None} \cup CallRecord]
BY DEF AskingTypes, Ask, CallRecord

LEMMA AskingStep ==
  ASSUME AskingTypes, KeysOwn, selected \subseteq Docs, Next
  PROVE  AskingTypes' /\ KeysOwn'
<1> USE DEF AskingTypes, KeysOwn, asking
<1>1. ASSUME UNCHANGED <<dialog, keysFor>>,
             \E what \in What, ds \in SUBSET (Docs \cup {None}) : Ask(what, ds)
      PROVE  AskingTypes' /\ KeysOwn'
  BY <1>1, AskTypes
<1>2. CASE \E d \in Docs : handleDelete(d)
  BY <1>2, <1>1 DEF handleDelete, What
<1>3. CASE confirmDeleteSelected
  BY <1>3, <1>1 DEF confirmDeleteSelected, What
<1>4. CASE handleBulkMetadata
  BY <1>4, <1>1 DEF handleBulkMetadata, What
<1>5. CASE handleBulkExtractMetadata
  <2>1. \E ds \in SUBSET Docs : Ask("bulkExtract", ds)
    BY <1>5 DEF handleBulkExtractMetadata
  <2>2. QED BY <1>5, <2>1, <1>1 DEF handleBulkExtractMetadata, What
<1>6. CASE submitExtractMetadata
  <2>1. {dialog.target} \in SUBSET (Docs \cup {None}) OBVIOUS
  <2>2. calls' \in [Calls -> {None} \cup CallRecord]
    BY <1>6, <2>1, AskTypes DEF submitExtractMetadata, What
  <2>3. QED BY <1>6, <2>2 DEF submitExtractMetadata
<1>7. CASE \/ \E d \in Docs : openExtractMetadataDialog(d)
           \/ \E k \in Keys : toggleExtractKeyForFile(k)
           \/ closeExtractDialog
  <2>1. CASE \E d \in Docs : openExtractMetadataDialog(d)
    BY <2>1 DEF openExtractMetadataDialog, Opened
  <2>2. CASE \E k \in Keys : toggleExtractKeyForFile(k)
    <3>1. PICK k \in Keys : toggleExtractKeyForFile(k) BY <2>2
    <3> DEFINE keys == IF k \in dialog.keys THEN dialog.keys \ {k} ELSE dialog.keys \cup {k}
    <3>2. dialog' = [dialog EXCEPT !.keys = keys] /\ keysFor' = dialog.target /\ UNCHANGED calls
      BY <3>1 DEF toggleExtractKeyForFile
    <3>3. keys \in SUBSET Keys OBVIOUS
    <3> HIDE DEF keys
    <3>4. /\ dialog' \in [open : BOOLEAN, target : Docs \cup {None}, keys : SUBSET Keys,
                         submitting : BOOLEAN]
          /\ dialog'.target = dialog.target
      BY <3>2, <3>3
    <3>5. QED BY <3>2, <3>4
  <2>3. CASE closeExtractDialog
    <3>1. UNCHANGED <<keysFor, calls>> BY <2>3 DEF closeExtractDialog
    <3>2. CASE dialog' = [dialog EXCEPT !.open = FALSE]
      BY <3>1, <3>2
    <3>3. CASE dialog' = NoDialog
      BY <3>1, <3>3 DEF NoDialog
    <3>4. QED BY <2>3, <3>2, <3>3 DEF closeExtractDialog
  <2>4. QED BY <1>7, <2>1, <2>2, <2>3
<1>8. CASE \E c \in Calls, d \in Docs \cup {None} : Answered(c, d)
  <2>1. PICK c \in Calls, d \in Docs \cup {None} : Answered(c, d) BY <1>8
  <2>2. calls[c] \in CallRecord /\ UNCHANGED keysFor BY <2>1 DEF Answered
  <2>3. PICK failed \in BOOLEAN :
          \/ calls' = [calls EXCEPT ![c] = None] /\ Concluded(calls[c].what, failed)
          \/ /\ calls' = [calls EXCEPT ![c].left = @ \ {d}, ![c].failed = @ \/ failed]
             /\ UNCHANGED dialog
    BY <2>1 DEF Answered
  <2>4. dialog' \in {dialog, [dialog EXCEPT !.submitting = FALSE], NoDialog}
    BY <2>3 DEF Concluded
  <2>5. calls' \in [Calls -> {None} \cup CallRecord]
    BY <2>2, <2>3 DEF CallRecord
  <2>6. CASE dialog' \in {dialog, [dialog EXCEPT !.submitting = FALSE]}
    BY <2>2, <2>5, <2>6
  <2>7. CASE dialog' = NoDialog
    BY <2>2, <2>5, <2>7 DEF NoDialog
  <2>8. QED BY <2>4, <2>6, <2>7
<1>9. CASE Leave
  BY <1>9 DEF Leave
<1>10. CASE UNCHANGED asking
  BY <1>10
<1>11. QED BY <1>2, <1>3, <1>4, <1>5, <1>6, <1>7, <1>8, <1>9, <1>10 DEF Next, Requests, User,
  FilesAnswered, FilesFail, Tick, ReadStatus, PollEnds, PollGoesOn, PollFails, TriggerAnswered,
  TriggerFails, Advance, Recognise, UrlAnswered, TextAnswered, TextFails, HistoryAnswered, HistoryCancelled,
  triggerOcr, triggerBulkOcr, openPreview, handleToggleSelect, setPreviewMode,
  handleToggleSelectAll, closePreview

-----------------------------------------------------------------------------
(* The database, the list, the selection and the bounds. *)

PageTypes ==
  /\ stored \subseteq Docs /\ status \in [Docs -> Status] /\ mounted \in BOOLEAN /\ files \in List
  /\ fetches \in 0 .. Fetches /\ selected \subseteq Docs /\ waiting \subseteq Docs
  /\ begun \in 0 .. Operations /\ faults \in 0 .. Faults

\* Whoever asks for a recognition gives the document a status.
LEMMA TriggerTypes ==
  ASSUME status \in [Docs -> Status], NEW ds, Trigger(ds)
  PROVE  status' \in [Docs -> Status]
BY DEF Trigger, Status

LEMMA PageStep ==
  ASSUME TypeOK, Next PROVE PageTypes'
<1> USE DEF server, count
<1>0. PageTypes BY DEF TypeOK, PageTypes
<1>a. /\ Begin => begun' \in 0 .. Operations
      /\ Fault => faults' \in 0 .. Faults
      /\ fetchFiles => fetches' \in 0 .. Fetches
      /\ fetches > 0 => fetches - 1 \in 0 .. Fetches
  BY <1>0, BoundsAssumption DEF PageTypes, Begin, Fault, fetchFiles
<1>1. CASE FilesAnswered \/ FilesFail
  BY <1>0, <1>a, <1>1 DEF PageTypes, FilesAnswered, FilesFail, ShowFiles, List
<1>2. CASE \E t \in ticking : Tick(t)
  BY <1>0, <1>2 DEF PageTypes, Tick
<1>3. ASSUME NEW p \in polls, ReadStatus(p) \/ PollEnds(p) \/ PollGoesOn(p) \/ PollFails(p)
      PROVE  PageTypes'
  BY <1>0, <1>a, <1>3 DEF PageTypes, ReadStatus, PollEnds, PollGoesOn, PollFails, Refetch,
     ShowFiles, List, InProgress, Status
<1>4. ASSUME NEW i \in 1 .. Len(loops), TriggerAnswered(i) \/ TriggerFails(i)
      PROVE  PageTypes'
  <2>1. status' \in [Docs -> Status]
    BY <1>0, <1>4, TriggerTypes DEF PageTypes, TriggerAnswered, TriggerFails, Advance
  <2>2. faults' \in 0 .. Faults BY <1>0, <1>a, <1>4 DEF PageTypes, TriggerAnswered, TriggerFails
  <2>3. UNCHANGED <<stored, mounted, files, fetches, selected, waiting, begun>>
    BY <1>4 DEF PageTypes, TriggerAnswered, TriggerFails, Advance
  <2>4. QED BY <1>0, <2>1, <2>2, <2>3 DEF PageTypes
<1>5. CASE \E d \in Docs : \/ Recognise(d) \/ UrlAnswered(d) \/ TextAnswered(d) \/ TextFails(d) \/ HistoryAnswered(d)
                           \/ HistoryCancelled(d)
  BY <1>0, <1>a, <1>5 DEF PageTypes, Recognise, UrlAnswered, TextAnswered, TextFails, HistoryAnswered,
     HistoryCancelled, Status
<1>6. CASE \E c \in Calls, d \in Docs \cup {None} : Answered(c, d)
  BY <1>0, <1>a, <1>6 DEF PageTypes, Answered, Concluded
<1>7. CASE Leave
  <2>1. \A i \in 1 .. Len(loops) : loops[i] \in Seq(Docs) \ {<<>>}
    BY ElementOfSeq DEF TypeOK
  <2>2. \A i \in 1 .. Len(loops) : Range(loops[i]) \subseteq Docs
    BY <2>1, ElementOfSeq DEF Range
  <2>3. waiting' \subseteq Docs BY <1>7, <2>2 DEF PageTypes, Leave
  <2>4. UNCHANGED <<stored, status, files, selected, begun, faults>>
      /\ mounted' = FALSE /\ fetches' = 0
    BY <1>7 DEF PageTypes, Leave
  <2>5. 0 \in 0 .. Fetches BY BoundsAssumption
  <2>6. QED BY <1>0, <2>3, <2>4, <2>5 DEF PageTypes
<1>8. CASE \E d \in Docs : \/ openPreview(d) \/ handleToggleSelect(d)
                           \/ handleDelete(d) \/ openExtractMetadataDialog(d)
  BY <1>0, <1>a, <1>8 DEF PageTypes, openPreview, handleToggleSelect, handleDelete,
     openExtractMetadataDialog
<1>9. CASE triggerBulkOcr \/ \E d \in Docs : triggerOcr(d)
  <2>1. status' \in [Docs -> Status]
    BY <1>0, <1>9, TriggerTypes DEF PageTypes, triggerOcr, triggerBulkOcr
  <2>2. begun' \in 0 .. Operations BY <1>0, <1>a, <1>9 DEF PageTypes, triggerOcr, triggerBulkOcr
  <2>3. UNCHANGED <<stored, mounted, files, fetches, selected, waiting, faults>>
    BY <1>9 DEF PageTypes, triggerOcr, triggerBulkOcr
  <2>4. QED BY <1>0, <2>1, <2>2, <2>3 DEF PageTypes
<1>10. CASE \/ \E mode \in Mode : setPreviewMode(mode)
            \/ \E k \in Keys : toggleExtractKeyForFile(k)
            \/ handleToggleSelectAll \/ closePreview \/ confirmDeleteSelected
  BY <1>0, <1>a, <1>10 DEF PageTypes, setPreviewMode, toggleExtractKeyForFile,
     handleToggleSelectAll, closePreview,
     confirmDeleteSelected
<1>11. CASE \/ handleBulkMetadata \/ handleBulkExtractMetadata \/ closeExtractDialog
            \/ submitExtractMetadata
  BY <1>0, <1>a, <1>11 DEF PageTypes, handleBulkMetadata, handleBulkExtractMetadata,
     closeExtractDialog,
     submitExtractMetadata
<1>12. CASE Requests
  BY <1>12, <1>1, <1>2, <1>3, <1>4, <1>5, <1>6 DEF Requests
<1>13. CASE User
  BY <1>13, <1>7, <1>8, <1>9, <1>10, <1>11 DEF User
<1>14. QED BY <1>12, <1>13 DEF Next

-----------------------------------------------------------------------------
(* The timers that are registered.  After the page has been left nothing starts
   a timer but the answers that its loops still wait for. *)

TimersKnown ==
  IF mounted THEN ticking \subseteq Registered
  ELSE /\ \A t \in ticking : t[1] \in waiting
       /\ loops \in Seq(Turns(waiting))
       /\ fetches = 0 /\ calls = [c \in Calls |-> None]

\* Whatever is started is registered, and whatever was registered is cleared.
LEMMA StartRegisters ==
  ASSUME TypeOK, ticking \subseteq Registered, NEW starting \in SUBSET Docs, StartPolling(starting)
  PROVE  ticking' \subseteq Registered'
<1> DEFINE new == {d \in starting : ocrPolling[d] = 0}
           free == [d \in new |-> CHOOSE g \in Unused(d) : TRUE]
<1>1. CASE new = {}
  BY <1>1 DEF StartPolling, Registered
<1>2. CASE new # {}
  <2>1. \A d \in new : free[d] \in 1 .. Generations BY <1>2 DEF StartPolling, Unused
  <2>2. /\ ocrPolling' = [d \in Docs |-> IF d \in new THEN free[d] ELSE ocrPolling[d]]
        /\ ticking' = (ticking \ Registered) \cup {<<d, free[d]>> : d \in new}
    BY <1>2 DEF StartPolling, Cleared
  <2> HIDE DEF free
  <2>3. \A d \in new : d \in Docs /\ ocrPolling'[d] = free[d] /\ free[d] # 0
    BY <2>1, <2>2, BoundsAssumption
  <2>4. QED BY <2>2, <2>3 DEF Registered
<1>3. QED BY <1>1, <1>2

\* The change of the map alone clears every timer.
LEMMA StopClears ==
  ASSUME ticking \subseteq Registered, NEW stopping, NEW gone, StopPolling(stopping, gone)
  PROVE  ticking' = {}
BY DEF StopPolling, Cleared

LEMMA TimersStayRegistered ==
  ASSUME TypeOK, mounted, TimersKnown, Next PROVE TimersKnown'
<1> USE DEF polling
<1>0. ticking \subseteq Registered /\ mounted = TRUE BY DEF TimersKnown, TypeOK
<1>1. CASE Leave
  <2>1. ticking' = {} /\ mounted' = FALSE /\ loops' = loops /\ fetches' = 0
        /\ calls' = [c \in Calls |-> None]
        /\ waiting' = UNION {Range(loops[i]) : i \in 1 .. Len(loops)}
    BY <1>0, <1>1 DEF Leave
  <2>2. \A i \in 1 .. Len(loops) : loops[i] \in Turns(waiting')
    <3>1. TAKE i \in 1 .. Len(loops)
    <3>2. loops[i] \in Seq(Docs) \ {<<>>} BY ElementOfSeq DEF TypeOK
    <3>3. \A k \in 1 .. Len(loops[i]) : loops[i][k] \in waiting'
      <4>1. DOMAIN loops[i] = 1 .. Len(loops[i]) BY <3>2, LenProperties
      <4>2. QED BY <2>1, <4>1 DEF Range
    <3>4. loops[i] \in Seq(waiting')
      <4>1. Len(loops[i]) \in Nat /\ loops[i] \in [1 .. Len(loops[i]) -> Docs]
        BY <3>2, LenProperties
      <4>2. loops[i] \in [1 .. Len(loops[i]) -> waiting'] BY <4>1, <3>3
      <4>3. QED BY <4>1, <4>2, SeqDef
    <3>5. QED BY <3>2, <3>4 DEF Turns
  <2>3. loops \in Seq(Turns(waiting'))
    <3>1. Len(loops) \in Nat /\ loops \in [1 .. Len(loops) -> Seq(Docs) \ {<<>>}]
      BY LenProperties DEF TypeOK
    <3>2. loops \in [1 .. Len(loops) -> Turns(waiting')] BY <3>1, <2>2
    <3>3. QED BY <3>1, <3>2, SeqDef
  <2>4. QED BY <2>1, <2>3 DEF TimersKnown
<1>2. ASSUME mounted' = mounted, ticking' \subseteq Registered' PROVE TimersKnown'
  BY <1>0, <1>2 DEF TimersKnown
<1>3. CASE FilesAnswered
  BY <1>0, <1>2, <1>3, StartRegisters DEF FilesAnswered, ShowFiles, Registered
<1>4. ASSUME NEW p \in polls, PollEnds(p) \/ PollGoesOn(p) \/ PollFails(p)
      PROVE  TimersKnown'
  BY <1>0, <1>2, <1>4, StartRegisters, StopClears
     DEF PollEnds, PollGoesOn, PollFails, ShowFiles, Registered
<1>5. ASSUME NEW i \in 1 .. Len(loops), TriggerAnswered(i) PROVE TimersKnown'
  <2>1. Head(loops[i]) \in Docs BY <1>5, NextTurn DEF TypeOK, Turns, TriggerAnswered
  <2>2. QED BY <1>0, <1>2, <1>5, <2>1, StartRegisters DEF TriggerAnswered, Advance
<1>6. CASE confirmDeleteSelected
  BY <1>0, <1>2, <1>6, StopClears DEF confirmDeleteSelected
<1>7. CASE UNCHANGED <<mounted, ocrPolling, ticking>>
  BY <1>0, <1>2, <1>7 DEF Registered
<1>8. QED BY <1>1, <1>3, <1>4, <1>5, <1>6, <1>7 DEF Next, Requests, User,
  FilesFail, Tick, ReadStatus, TriggerFails, Advance, Recognise, UrlAnswered, TextAnswered,
  TextFails, HistoryAnswered, HistoryCancelled, Answered, triggerOcr, triggerBulkOcr, openPreview,
  handleToggleSelect, handleDelete, openExtractMetadataDialog, setPreviewMode,
  toggleExtractKeyForFile, handleToggleSelectAll, closePreview, handleBulkMetadata,
  handleBulkExtractMetadata, closeExtractDialog, submitExtractMetadata

\* On a page that has been left only answers come in.
LEMMA TimersStayExpected ==
  ASSUME TypeOK, ~mounted, TimersKnown, Next PROVE TimersKnown'
<1> USE DEF polling
<1>0. /\ \A t \in ticking : t[1] \in waiting
      /\ loops \in Seq(Turns(waiting))
      /\ fetches = 0 /\ calls = [c \in Calls |-> None] /\ mounted = FALSE
  BY DEF TimersKnown, TypeOK
<1>1. ASSUME UNCHANGED <<mounted, waiting, fetches, calls>>, loops' \in Seq(Turns(waiting)),
             \A t \in ticking' : t[1] \in waiting
      PROVE  TimersKnown'
  BY <1>0, <1>1 DEF TimersKnown
<1>2. ASSUME NEW p \in polls, PollEnds(p) \/ PollGoesOn(p) \/ PollFails(p)
      PROVE  TimersKnown'
  <2>1. UNCHANGED <<mounted, waiting, fetches, calls, loops>> /\ ticking' \subseteq ticking
    BY <1>0, <1>2 DEF PollEnds, PollGoesOn, PollFails, Refetch, asking
  <2>2. QED BY <1>0, <1>1, <2>1
<1>3. ASSUME NEW i \in 1 .. Len(loops), TriggerAnswered(i) \/ TriggerFails(i)
      PROVE  TimersKnown'
  <2>1. Advance(i) BY <1>3 DEF TriggerAnswered, TriggerFails
  <2>2. loops' \in Seq(Turns(waiting)) /\ Head(loops[i]) \in waiting BY <1>0, <2>1, NextTurn
  <2>3. UNCHANGED <<mounted, waiting, fetches, calls>> BY <2>1 DEF Advance, asking
  <2>4. \A t \in ticking' : t[1] \in waiting
    BY <1>0, <1>3, <2>2 DEF TriggerAnswered, TriggerFails
  <2>5. QED BY <1>1, <2>2, <2>3, <2>4
<1>4. CASE UNCHANGED <<mounted, waiting, fetches, calls, loops, ticking>>
  BY <1>0, <1>1, <1>4
<1>5. CASE Requests
  <2>1. ~FilesAnswered /\ ~FilesFail BY <1>0 DEF FilesAnswered, FilesFail
  <2>2. \A c \in Calls, d \in Docs \cup {None} : ~Answered(c, d) BY <1>0 DEF Answered
  <2>3. CASE \/ \E t \in ticking : Tick(t)
             \/ \E p \in polls : ReadStatus(p)
             \/ \E d \in Docs : \/ Recognise(d) \/ UrlAnswered(d) \/ TextAnswered(d) \/ TextFails(d)
                                \/ HistoryAnswered(d) \/ HistoryCancelled(d)
    BY <1>4, <2>3 DEF Tick, ReadStatus, Recognise, UrlAnswered, TextAnswered, TextFails, HistoryAnswered,
       HistoryCancelled, asking
  <2>4. QED BY <1>2, <1>3, <1>5, <2>1, <2>2, <2>3 DEF Requests
<1>6. CASE User
  <2>1. ~Begin /\ ~Leave BY <1>0 DEF Begin, Leave
  <2>2. CASE closePreview \/ closeExtractDialog
    BY <1>4, <2>2 DEF closePreview, closeExtractDialog, asking
  <2>3. QED BY <1>6, <2>1, <2>2 DEF User, triggerOcr, triggerBulkOcr, openPreview,
    handleToggleSelect, handleDelete, openExtractMetadataDialog, setPreviewMode,
    toggleExtractKeyForFile, handleToggleSelectAll, confirmDeleteSelected, handleBulkMetadata,
    handleBulkExtractMetadata, submitExtractMetadata
<1>7. QED BY <1>5, <1>6 DEF Next

-----------------------------------------------------------------------------
(* The invariant. *)

Inv == TypeOK /\ PaneOwn /\ KeysOwn /\ TimersKnown

\* The types, part by part.
LEMMA Parts == TypeOK <=> PageTypes /\ PollingTypes /\ PaneTypes /\ AskingTypes
BY DEF TypeOK, PageTypes, PollingTypes, PaneTypes, AskingTypes, Turns, Preview, CallRecord

LEMMA Start == ASSUME Init PROVE Inv
<1>1. PageTypes
  BY BoundsAssumption DEF Init, PageTypes, Status, List
<1>2. PollingTypes
  BY BoundsAssumption, EmptySeq DEF Init, PollingTypes
<1>3. PaneTypes /\ PaneOwn
  BY DEF Init, PaneTypes, PaneOwn, TextOwn, HistoryOwn, UrlOwn, Preview, Nothing, Mode, Status,
     Url, NoUrl, Text, NoText, History, NoHistory
<1>4. AskingTypes /\ KeysOwn
  BY DEF Init, AskingTypes, KeysOwn, NoDialog
<1>5. TimersKnown
  BY DEF Init, TimersKnown
<1>6. QED BY <1>1, <1>2, <1>3, <1>4, <1>5, Parts DEF Inv

LEMMA Step == ASSUME Inv, [Next]_vars PROVE Inv'
<1>1. CASE Next
  <2>0. PaneTypes /\ AskingTypes /\ files \in List /\ selected \subseteq Docs
    BY Parts DEF Inv, PageTypes
  <2>1. PageTypes' BY <1>1, PageStep DEF Inv
  <2>2. PollingTypes' BY <1>1, PollingStep DEF Inv
  <2>3. PaneTypes' /\ PaneOwn' BY <1>1, <2>0, PaneStep DEF Inv
  <2>4. AskingTypes' /\ KeysOwn' BY <1>1, <2>0, AskingStep DEF Inv
  <2>5. TimersKnown' BY <1>1, TimersStayRegistered, TimersStayExpected DEF Inv
  <2>6. TypeOK'
    BY <2>1, <2>2, <2>3, <2>4
       DEF TypeOK, PageTypes, PollingTypes, PaneTypes, AskingTypes, Turns, Preview, CallRecord
  <2>7. QED BY <2>3, <2>4, <2>5, <2>6 DEF Inv
<1>2. CASE UNCHANGED vars
  BY <1>2 DEF Inv, TypeOK, PaneOwn, UrlOwn, KeysOwn, TimersKnown, Registered, vars, server, polling, pane,
     asking, count
<1>3. QED BY <1>1, <1>2

LEMMA Invariance == Spec => []Inv
BY Start, Step, PTL DEF Spec

\* Every variable of the page always has a value of its type: no sequence of answers
\* makes a counter of requests negative, and no loop comes to an empty turn.
THEOREM TypeCorrect == Spec => []TypeOK
<1>1. Inv => TypeOK BY DEF Inv
<1>2. QED BY <1>1, Invariance, PTL

\* What is opened shows its own text and history, and the dialog sends the keys that
\* were chosen for its document, in whatever order answers arrive; its own document
\* too, when no address of another was there or under way as it was opened.
THEOREM OpenedIsOwn == Spec => []OpenedShowsItsOwn
<1>1. Inv => OpenedShowsItsOwn
  BY DEF Inv, PaneOwn, TextOwn, HistoryOwn, UrlOwn, KeysOwn, OpenedShowsItsOwn, DocumentShown,
     TextShown, HistoryShown
<1>2. QED BY <1>1, Invariance, PTL

\* Every timer is the one registered for its document; when the page has been left,
\* only recognitions that were being asked for may start one.
THEOREM TimersDoNotEscape == Spec => []TimersAreRegistered
<1>1. Inv => TimersAreRegistered
  BY DEF Inv, TimersKnown, TimersAreRegistered
<1>2. QED BY <1>1, Invariance, PTL

-----------------------------------------------------------------------------
(* DocumentTree.  What follows for all numbers is shown by it: there is no     *)
(* least one for which it is wrong.                                            *)

LEMMA Least ==
  ASSUME NEW T \in SUBSET Nat, T # {}
  PROVE  \E m \in T : \A k \in T : m <= k
<1> DEFINE Less == OpToRel(<, Nat)
<1>1. IsWellFoundedOn(Less, Nat)
  BY NatLessThanWellFounded
<1>2. \A i, j \in Nat : i < j => <<i, j>> \in Less
  BY DEF OpToRel
<1> HIDE DEF Less
<1>3. PICK m \in T : \A k \in T : <<k, m>> \notin Less
  BY <1>1, WFMin
<1>4. ASSUME NEW k \in T PROVE m <= k
  <2>1. m \in Nat /\ k \in Nat
    OBVIOUS
  <2>2. ~(k < m)
    BY <2>1, <1>2, <1>3
  <2> QED BY <2>1, <2>2
<1> QED BY <1>4

LEMMA Greatest ==
  ASSUME NEW n \in Nat, NEW s \in SUBSET (1 .. n), s # {}
  PROVE  Max(s) \in s /\ \A k \in s : k <= Max(s)
<1> DEFINE Bounds == {m \in Nat : \A k \in s : k <= m}
<1>1. n \in Bounds
  OBVIOUS
<1>2. PICK m \in Bounds : \A k \in Bounds : m <= k
  <2> HIDE DEF Bounds
  <2>1. Bounds \in SUBSET Nat
    BY DEF Bounds
  <2> QED BY <1>1, <2>1, Least
<1>3. m \in s
  <2> SUFFICES ASSUME m \notin s PROVE FALSE
    OBVIOUS
  <2>1. m \in Nat /\ \A k \in s : k \in Nat /\ 1 <= k /\ k <= m /\ k # m
    BY <1>2
  <2>e. PICK e \in s : TRUE
    OBVIOUS
  <2>2. m - 1 \in Nat /\ \A k \in s : k <= m - 1
    BY <2>1, <2>e
  <2>3. m - 1 \in Bounds
    BY <2>2
  <2> HIDE DEF Bounds
  <2> QED BY <2>1, <2>3, <1>2
<1> QED BY <1>3 DEF Max

-----------------------------------------------------------------------------
(* What Selected keeps of a sequence. *)

\* A fold over the indices of q up to n.
IsSelection(g, q, s, n) ==
  g = [t \in SUBSET (1 .. n) |->
         IF t = {} THEN <<>> ELSE Add(g[t \ {Max(t)}], q[Max(t)], s)]

LEMMA SelectionExists == ASSUME NEW q, NEW s, NEW n \in Nat PROVE \E g : IsSelection(g, q, s, n)
<1> DEFINE Without == {k \in Nat : ~\E g : IsSelection(g, q, s, k)}
<1>1. ASSUME Without # {} PROVE FALSE
  <2>1. PICK k \in Without : \A j \in Without : k <= j
    <3> HIDE DEF Without
    <3>1. Without \in SUBSET Nat
      BY DEF Without
    <3> QED BY <1>1, <3>1, Least
  <2>2. CASE k = 0
    <3> DEFINE g == [t \in SUBSET (1 .. 0) |-> <<>>]
    <3>1. \A t \in SUBSET (1 .. 0) : t = {}
      OBVIOUS
    <3>2. IsSelection(g, q, s, 0)
      BY <3>1 DEF IsSelection
    <3> HIDE DEF g
    <3> QED BY <3>2, <2>2
  <2>3. CASE k # 0
    <3> DEFINE m == k - 1
    <3>0. m \in Nat /\ k = m + 1 /\ m \notin Without
      BY <2>1, <2>3
    <3>1. PICK g : IsSelection(g, q, s, m)
      BY <3>0
    <3> DEFINE h == [t \in SUBSET (1 .. k) |->
                       IF k \in t THEN Add(g[t \ {k}], q[k], s) ELSE g[t]]
    <3>2. ASSUME NEW t \in SUBSET (1 .. k)
          PROVE  h[t] = IF t = {} THEN <<>> ELSE Add(h[t \ {Max(t)}], q[Max(t)], s)
      <4>0. k \in Nat
        OBVIOUS
      <4>1. CASE k \in t
        <5>1. Max(t) = k
          <6>1. Max(t) \in t /\ k <= Max(t)
            BY <4>0, <4>1, Greatest
          <6>2. Max(t) \in 1 .. k
            BY <6>1
          <6> QED BY <6>1, <6>2, <4>0
        <5>2. t \ {k} \in SUBSET (1 .. k) /\ k \notin t \ {k}
          OBVIOUS
        <5>3. h[t \ {k}] = g[t \ {k}]
          BY <5>2
        <5>4. h[t] = Add(g[t \ {k}], q[k], s)
          BY <4>1
        <5> HIDE DEF h
        <5> QED BY <4>1, <5>1, <5>3, <5>4
      <4>2. CASE k \notin t
        <5>1. t \in SUBSET (1 .. m) /\ h[t] = g[t]
          BY <4>2, <3>0
        <5>2. g[t] = IF t = {} THEN <<>> ELSE Add(g[t \ {Max(t)}], q[Max(t)], s)
          <6> HIDE DEF h, m
          <6> QED BY <5>1, <3>1 DEF IsSelection
        <5>3. h[t \ {Max(t)}] = g[t \ {Max(t)}]
          <6>1. t \ {Max(t)} \in SUBSET (1 .. k) /\ k \notin t \ {Max(t)}
            BY <4>2
          <6> QED BY <6>1
        <5> HIDE DEF h
        <5> QED BY <5>1, <5>2, <5>3
      <4> QED BY <4>1, <4>2
    <3>3. h = [t \in SUBSET (1 .. k) |-> h[t]]
      OBVIOUS
    <3>4. IsSelection(h, q, s, k)
      <4> HIDE DEF h
      <4> QED BY <3>2, <3>3 DEF IsSelection
    <3> HIDE DEF h
    <3> QED BY <3>4, <2>1
  <2> QED BY <2>2, <2>3
<1> QED BY <1>1

\* r is what is selected of the first k elements of q.
SelectedOf(r, q, s, T, k) ==
  /\ r \in Seq(T)
  /\ \A x \in T : (\E i \in 1 .. Len(r) : r[i] = x) <=> (x \in s /\ \E j \in 1 .. k : q[j] = x)
  /\ IsInjective(q) => IsInjective(r)

LEMMA AddSelects ==
  ASSUME NEW T, NEW q \in Seq(T), NEW s, NEW r, NEW m \in Nat, m + 1 <= Len(q),
         SelectedOf(r, q, s, T, m)
  PROVE  SelectedOf(Add(r, q[m + 1], s), q, s, T, m + 1)
<1> DEFINE x == q[m + 1]
<1>1. Len(q) \in Nat /\ m + 1 \in 1 .. Len(q) /\ x \in T /\ r \in Seq(T) /\ Len(r) \in Nat
      /\ DOMAIN q = 1 .. Len(q)
  BY DEF SelectedOf
<1>2. \A j : j \in 1 .. m + 1 <=> (j \in 1 .. m \/ j = m + 1)
  OBVIOUS
<1>3. CASE x \notin s
  <2>1. Add(r, x, s) = r
    BY <1>3 DEF Add
  <2> HIDE DEF x
  <2>2. \A y \in T : y \in s => ((\E j \in 1 .. m : q[j] = y) <=> (\E j \in 1 .. m + 1 : q[j] = y))
    BY <1>2, <1>3 DEF x
  <2> QED BY <2>1, <2>2 DEF SelectedOf, x
<1>4. CASE x \in s
  <2> DEFINE a == Append(r, x)
  <2>1. Add(r, x, s) = a
    BY <1>4 DEF Add
  <2>2. /\ a \in Seq(T) /\ Len(a) = Len(r) + 1 /\ a[Len(r) + 1] = x
        /\ \A i \in 1 .. Len(r) : a[i] = r[i]
    <3> HIDE DEF x
    <3> QED BY <1>1
  <2>3. \A i : i \in 1 .. Len(a) <=> (i \in 1 .. Len(r) \/ i = Len(r) + 1)
    <3> HIDE DEF a, x
    <3> QED BY <1>1, <2>2
  <2> HIDE DEF a
  <2>4. ASSUME NEW y \in T
        PROVE  (\E i \in 1 .. Len(a) : a[i] = y) <=> (y \in s /\ \E j \in 1 .. m + 1 : q[j] = y)
    <3>1. (\E i \in 1 .. Len(a) : a[i] = y) <=> ((\E i \in 1 .. Len(r) : r[i] = y) \/ y = x)
      <4> HIDE DEF x
      <4> QED BY <2>2, <2>3
    <3>2. (\E j \in 1 .. m + 1 : q[j] = y) <=> ((\E j \in 1 .. m : q[j] = y) \/ y = x)
      BY <1>2
    <3> HIDE DEF x
    <3> QED BY <3>1, <3>2, <1>4 DEF SelectedOf
  <2>5. ASSUME IsInjective(q) PROVE IsInjective(a)
    <3>1. \A i \in 1 .. Len(r) : r[i] # x
      <4> SUFFICES ASSUME NEW i \in 1 .. Len(r), r[i] = x PROVE FALSE
        OBVIOUS
      <4>1. PICK j \in 1 .. m : q[j] = x
        BY <1>1 DEF SelectedOf
      <4>2. j \in DOMAIN q /\ m + 1 \in DOMAIN q /\ j # m + 1
        BY <1>1
      <4> QED BY <4>1, <4>2, <2>5 DEF IsInjective
    <3>2. IsInjective(r)
      BY <2>5 DEF SelectedOf
    <3>3. DOMAIN a = 1 .. Len(a) /\ DOMAIN r = 1 .. Len(r)
      <4> HIDE DEF x
      <4> QED BY <1>1, <2>2
    <3> HIDE DEF x
    <3>4. ASSUME NEW i \in DOMAIN a, NEW j \in DOMAIN a, a[i] = a[j] PROVE i = j
      <4>1. CASE i \in 1 .. Len(r) /\ j \in 1 .. Len(r)
        BY <4>1, <3>4, <2>2, <3>2, <3>3 DEF IsInjective
      <4>2. CASE i = Len(r) + 1 \/ j = Len(r) + 1
        BY <4>2, <3>1, <3>3, <3>4, <2>2, <2>3
      <4> QED BY <4>1, <4>2, <3>3, <2>3
    <3> QED BY <3>4 DEF IsInjective
  <2> QED BY <2>1, <2>2, <2>4, <2>5 DEF SelectedOf
<1> QED BY <1>3, <1>4

LEMMA SelectedKeeps ==
  ASSUME NEW T, NEW q \in Seq(T), NEW s
  PROVE  /\ Selected(q, s) \in Seq(T) /\ Range(Selected(q, s)) = Range(q) \cap s
         /\ IsInjective(q) => IsInjective(Selected(q, s))
<1> DEFINE n == Len(q)
           g == CHOOSE g : IsSelection(g, q, s, n)
<1>1. n \in Nat /\ DOMAIN q = 1 .. n
  OBVIOUS
<1>2. Selected(q, s) =
        (CHOOSE f : f = [t \in SUBSET (DOMAIN q) |->
           IF t = {} THEN <<>> ELSE Add(f[t \ {Max(t)}], q[Max(t)], s)])[DOMAIN q]
  BY DEF Selected, FoldLeft, MapThenFoldSet
<1>3. Selected(q, s) = g[1 .. n]
  <2> HIDE DEF n
  <2> QED BY <1>1, <1>2 DEF IsSelection
<1>4. IsSelection(g, q, s, n)
  <2> HIDE DEF n
  <2> QED BY <1>1, SelectionExists
<1> HIDE DEF g, n
<1> DEFINE Wrong == {k \in Nat : k <= n /\ ~SelectedOf(g[1 .. k], q, s, T, k)}
<1>5. ASSUME Wrong # {} PROVE FALSE
  <2>1. PICK k \in Wrong : \A j \in Wrong : k <= j
    <3> HIDE DEF Wrong
    <3>1. Wrong \in SUBSET Nat
      BY DEF Wrong
    <3> QED BY <1>5, <3>1, Least
  <2>2. CASE k = 0
    <3>1. 1 .. 0 = {} /\ {} \in SUBSET (1 .. n)
      OBVIOUS
    <3>2. g[{}] = <<>>
      BY <1>4, <3>1 DEF IsSelection
    <3>3. SelectedOf(<<>>, q, s, T, 0)
      BY DEF SelectedOf, IsInjective
    <3> QED BY <2>1, <2>2, <3>1, <3>2, <3>3
  <2>3. CASE k # 0
    <3> DEFINE m == k - 1
    <3>0. m \in Nat /\ k = m + 1 /\ k \in 1 .. n /\ m <= n /\ m \notin Wrong
      BY <2>1, <2>3, <1>1
    <3>1. SelectedOf(g[1 .. m], q, s, T, m)
      BY <3>0
    <3> HIDE DEF m
    <3>2. /\ 1 .. k \in SUBSET (1 .. n) /\ 1 .. k # {} /\ k \in 1 .. k
          /\ (1 .. k) \ {k} = 1 .. m
      <4>1. k \in Nat /\ m \in Nat /\ n \in Nat /\ 1 <= k /\ k <= n /\ k = m + 1
        BY <3>0, <1>1
      <4> HIDE DEF Wrong
      <4>2. \A x : x \in 1 .. k => x \in 1 .. n
        BY <4>1
      <4>3. \A x : x \in (1 .. k) \ {k} <=> x \in 1 .. m
        BY <4>1
      <4>4. k \in 1 .. k
        BY <4>1
      <4> QED BY <4>2, <4>3, <4>4
    <3>3. Max(1 .. k) = k
      <4>1. Max(1 .. k) \in 1 .. k /\ k <= Max(1 .. k)
        BY <3>2, <3>0, Greatest
      <4> QED BY <4>1, <3>0
    <3>4. g[1 .. k] = Add(g[1 .. m], q[k], s)
      BY <1>4, <3>2, <3>3 DEF IsSelection
    <3>5. SelectedOf(g[1 .. k], q, s, T, k)
      BY <3>0, <3>1, <3>4, AddSelects DEF n
    <3> QED BY <3>5, <2>1
  <2> QED BY <2>2, <2>3
<1>6. SelectedOf(Selected(q, s), q, s, T, n)
  BY <1>1, <1>3, <1>5
<1> DEFINE r == Selected(q, s)
<1>7. r \in Seq(T) /\ (IsInjective(q) => IsInjective(r))
  BY <1>6 DEF SelectedOf
<1>8. Range(r) = Range(q) \cap s
  <2> HIDE DEF r
  <2>1. DOMAIN r = 1 .. Len(r) /\ Range(r) \in SUBSET T /\ Range(q) \in SUBSET T
    BY <1>7, <1>1 DEF Range
  <2>2. ASSUME NEW x \in T PROVE x \in Range(r) <=> x \in Range(q) \cap s
    BY <2>1, <1>1, <1>6 DEF Range, SelectedOf, r
  <2> QED BY <2>1, <2>2
<1> QED BY <1>7, <1>8

-----------------------------------------------------------------------------
(* The tree.  A node holds the documents for which each filter of its path is *)
(* what the tree shows of them; a path has one filter for each of the keys    *)
(* above it.                                                                  *)

RootDocs == {d \in getAccessibleFileIds : db.status[d] = "live"}
Root == [path |-> {}, docs |-> RootDocs]

Shows(d, f) ==
  IF f.value = Missing THEN TreeValues(d, f.key) \subseteq {Blank}
                       ELSE f.value \in TreeValues(d, f.key)

NodeAt(x, i) ==
  /\ x \in Node
  /\ x.docs = {d \in RootDocs : \A f \in x.path : Shows(d, f)}
  /\ \A f \in x.path : \E j \in 1 .. i : f.key = KeyOrder[j]
  /\ \A f, g \in x.path : f.key = g.key => f = g
  /\ \A f \in x.path : f.value # Missing => \E d \in RootDocs : Shows(d, f)

LevelAt(l, i) == (\A x \in l : NodeAt(x, i)) /\ UNION {x.docs : x \in l} = RootDocs

LEMMA KeyOrderKeys ==
  ASSUME db \in Database
  PROVE  KeyOrder \in Seq(FilterableKeys) /\ IsInjective(KeyOrder)
<1>1. db.order \in Seq(FilterableKeys) /\ IsInjective(db.order)
  BY DEF Database
<1> QED BY <1>1, SelectedKeeps DEF KeyOrder

LEMMA FactsTyped ==
  ASSUME db \in Database, NEW d \in Documents, NEW k \in FilterableKeys
  PROVE  /\ k \in SystemKeys => Facts(d, k) \subseteq Ids
         /\ k \notin SystemKeys => Facts(d, k) \subseteq Values
<1>1. db.fact[d] \in FactsOfDocument
  BY DEF Database
<1> QED BY <1>1 DEF FactsOfDocument, Facts, FilterableKeys

LEMMA TreeValuesTyped ==
  ASSUME db \in Database, NEW d \in Documents, NEW k \in FilterableKeys
  PROVE  /\ TreeValues(d, k) \subseteq Labels \cup Values
         /\ k \in SystemKeys => TreeValues(d, k) \subseteq Labels
<1>1. CASE k \in SystemKeys
  <2>1. \A i \in Facts(d, k) : db.label[i] \in Labels
    BY <1>1, FactsTyped DEF Database
  <2> QED BY <1>1, <2>1 DEF TreeValues, resolveSystemFieldLabels
<1>2. CASE k \notin SystemKeys
  BY <1>2, FactsTyped DEF TreeValues
<1> QED BY <1>1, <1>2

LEMMA Nodes ==
  ASSUME db \in Database, NEW x, NEW i \in Nat, i + 1 <= Len(KeyOrder), NodeAt(x, i),
         NEW y \in buildLevel(x, KeyOrder[i + 1])
  PROVE  NodeAt(y, i + 1)
<1> DEFINE k == KeyOrder[i + 1]
<1>1. /\ k \in FilterableKeys /\ x \in Node /\ x.path \subseteq Filter /\ x.docs \subseteq RootDocs
      /\ RootDocs \subseteq Documents
  BY KeyOrderKeys DEF NodeAt, Node, RootDocs, getAccessibleFileIds, Present
<1>2. \A f \in x.path : f.key # k
  <2> SUFFICES ASSUME NEW f \in x.path, f.key = k PROVE FALSE
    OBVIOUS
  <2>1. PICK j \in 1 .. i : f.key = KeyOrder[j]
    BY DEF NodeAt
  <2>2. j \in DOMAIN KeyOrder /\ i + 1 \in DOMAIN KeyOrder /\ j # i + 1
    BY KeyOrderKeys
  <2> QED BY <2>1, <2>2, KeyOrderKeys DEF IsInjective
<1>3. PICK v \in Labels \cup Values \cup {Missing} :
        /\ y = Below(x, k, v, {d \in x.docs : Shows(d, [key |-> k, value |-> v])})
        /\ v # Missing => \E d \in x.docs : Shows(d, [key |-> k, value |-> v])
  <2>1. CASE \E v \in (UNION {TreeValues(d, k) : d \in x.docs}) \ {Blank} :
               y = Below(x, k, v, {d \in x.docs : v \in TreeValues(d, k)})
    <3>1. PICK v \in UNION {TreeValues(d, k) : d \in x.docs} :
               y = Below(x, k, v, {d \in x.docs : v \in TreeValues(d, k)})
      BY <2>1
    <3>2. v \in Labels \cup Values /\ \E d \in x.docs : v \in TreeValues(d, k)
      BY <1>1, TreeValuesTyped
    <3>3. v # Missing
      BY <3>2, ValuesAssumption
    <3> HIDE DEF k
    <3> QED BY <3>1, <3>2, <3>3 DEF Shows
  <2>2. CASE y = Below(x, k, Missing, Uncategorized(x, k))
    <3> HIDE DEF k
    <3> QED BY <2>2 DEF Uncategorized, Shows
  <2> QED BY <2>1, <2>2 DEF buildLevel
<1> DEFINE f == [key |-> k, value |-> v]
<1>4. y.path = x.path \cup {f} /\ y.docs = {d \in x.docs : Shows(d, f)} /\ f \in Filter /\ f.key = k
      /\ f.value = v
  <2> HIDE DEF k
  <2> QED BY <1>1, <1>3 DEF Below, Filter
<1>5. y \in Node
  <2>1. y = [path |-> x.path \cup {f}, docs |-> {d \in x.docs : Shows(d, f)}]
    BY <1>3 DEF Below
  <2> HIDE DEF f, k
  <2> QED BY <2>1, <1>1, <1>4 DEF Node
<1> HIDE DEF f
<1>6. y.docs = {d \in RootDocs : \A g \in y.path : Shows(d, g)}
  BY <1>4 DEF NodeAt
<1>7. \A g \in y.path : \E j \in 1 .. i + 1 : g.key = KeyOrder[j]
  <2> SUFFICES ASSUME NEW g \in y.path PROVE \E j \in 1 .. i + 1 : g.key = KeyOrder[j]
    OBVIOUS
  <2>1. CASE g = f
    BY <2>1, <1>4
  <2>2. CASE g \in x.path
    <3>1. PICK j \in 1 .. i : g.key = KeyOrder[j]
      BY <2>2 DEF NodeAt
    <3>2. j \in 1 .. i + 1
      OBVIOUS
    <3> QED BY <3>1, <3>2
  <2> QED BY <2>1, <2>2, <1>4
<1>8. \A g, h \in y.path : g.key = h.key => g = h
  BY <1>2, <1>4 DEF NodeAt
<1>9. \A g \in y.path : g.value # Missing => \E d \in RootDocs : Shows(d, g)
  BY <1>1, <1>3, <1>4 DEF NodeAt, f
<1> QED BY <1>5, <1>6, <1>7, <1>8, <1>9 DEF NodeAt

LEMMA Levels ==
  ASSUME db \in Database, NEW l, NEW i \in Nat, i + 1 <= Len(KeyOrder), LevelAt(l, i)
  PROVE  LevelAt(UNION {buildLevel(x, KeyOrder[i + 1]) : x \in l}, i + 1)
<1> DEFINE k == KeyOrder[i + 1]
           m == UNION {buildLevel(x, k) : x \in l}
<1>1. \A y \in m : NodeAt(y, i + 1)
  BY Nodes DEF LevelAt
<1>2. \A y \in m : y.docs \subseteq RootDocs
  BY <1>1 DEF NodeAt
<1>3. ASSUME NEW d \in RootDocs PROVE \E y \in m : d \in y.docs
  <2>1. PICK x \in l : d \in x.docs
    BY DEF LevelAt
  <2>2. CASE TreeValues(d, k) \subseteq {Blank}
    <3> DEFINE y == Below(x, k, Missing, Uncategorized(x, k))
    <3>1. d \in Uncategorized(x, k)
      BY <2>1, <2>2 DEF Uncategorized
    <3>2. y \in buildLevel(x, k)
      BY <3>1 DEF buildLevel
    <3>3. y.docs = Uncategorized(x, k)
      BY DEF Below
    <3> QED BY <3>1, <3>2, <3>3
  <2>3. CASE ~(TreeValues(d, k) \subseteq {Blank})
    <3>1. PICK v \in TreeValues(d, k) : v # Blank
      BY <2>3
    <3> DEFINE y == Below(x, k, v, {e \in x.docs : v \in TreeValues(e, k)})
    <3>2. v \in (UNION {TreeValues(e, k) : e \in x.docs}) \ {Blank}
      BY <2>1, <3>1
    <3>3. y \in buildLevel(x, k)
      BY <3>2 DEF buildLevel
    <3>4. y.docs = {e \in x.docs : v \in TreeValues(e, k)}
      BY DEF Below
    <3> QED BY <2>1, <3>1, <3>3, <3>4
  <2> QED BY <2>2, <2>3
<1> QED BY <1>1, <1>2, <1>3 DEF LevelAt

IsLevels(l, n) ==
  l = [i \in 0 .. n |->
         IF i = 0 THEN {Root} ELSE UNION {buildLevel(x, KeyOrder[i]) : x \in l[i - 1]}]

LEMMA LevelsExist == ASSUME NEW n \in Nat PROVE \E l : IsLevels(l, n)
<1> DEFINE Without == {k \in Nat : ~\E l : IsLevels(l, k)}
<1>1. ASSUME Without # {} PROVE FALSE
  <2>1. PICK k \in Without : \A j \in Without : k <= j
    <3> HIDE DEF Without
    <3>1. Without \in SUBSET Nat
      BY DEF Without
    <3> QED BY <1>1, <3>1, Least
  <2>2. CASE k = 0
    <3> DEFINE l == [i \in 0 .. 0 |-> {Root}]
    <3>1. IsLevels(l, 0)
      BY DEF IsLevels
    <3> HIDE DEF l
    <3> QED BY <3>1, <2>2
  <2>3. CASE k # 0
    <3> DEFINE m == k - 1
    <3>0. m \in Nat /\ k = m + 1 /\ m \notin Without
      BY <2>1, <2>3
    <3>1. PICK g : IsLevels(g, m)
      BY <3>0
    <3> DEFINE h == [i \in 0 .. k |->
                       IF i = k THEN UNION {buildLevel(x, KeyOrder[k]) : x \in g[m]} ELSE g[i]]
    <3>2. ASSUME NEW i \in 0 .. k
          PROVE  h[i] = IF i = 0 THEN {Root}
                        ELSE UNION {buildLevel(x, KeyOrder[i]) : x \in h[i - 1]}
      <4>1. CASE i = k
        <5>1. m \in 0 .. k /\ m # k /\ i # 0 /\ i - 1 = m
          BY <3>0, <4>1
        <5>2. h[m] = g[m] /\ h[i] = UNION {buildLevel(x, KeyOrder[k]) : x \in g[m]}
          BY <4>1, <5>1
        <5> HIDE DEF h
        <5> QED BY <4>1, <5>1, <5>2
      <4>2. CASE i # k
        <5>1. i \in 0 .. m /\ h[i] = g[i]
          BY <4>2, <3>0
        <5>2. g[i] = IF i = 0 THEN {Root} ELSE UNION {buildLevel(x, KeyOrder[i]) : x \in g[i - 1]}
          <6> HIDE DEF h, m
          <6> QED BY <5>1, <3>1 DEF IsLevels
        <5>3. CASE i = 0
          <6> HIDE DEF h
          <6> QED BY <5>1, <5>2, <5>3
        <5>4. CASE i # 0
          <6>1. i - 1 \in 0 .. k /\ i - 1 # k
            BY <5>4
          <6>2. h[i - 1] = g[i - 1]
            BY <6>1
          <6> HIDE DEF h
          <6> QED BY <5>1, <5>2, <5>4, <6>2
        <5> QED BY <5>3, <5>4
      <4> QED BY <4>1, <4>2
    <3>3. h = [i \in 0 .. k |-> h[i]]
      OBVIOUS
    <3>4. IsLevels(h, k)
      <4> HIDE DEF h
      <4> QED BY <3>2, <3>3 DEF IsLevels
    <3> HIDE DEF h
    <3> QED BY <3>4, <2>1
  <2> QED BY <2>2, <2>3
<1> QED BY <1>1

\* Every level of the tree is made of such nodes, and holds every document.
LEMMA TreeLevels ==
  ASSUME db \in Database
  PROVE  /\ getVirtualTree \in Seq(SUBSET Node)
         /\ \A level \in Range(getVirtualTree) : \E i \in Nat : LevelAt(level, i)
<1> DEFINE n == Len(KeyOrder)
           l == CHOOSE l : IsLevels(l, n)
<1>1. n \in Nat
  BY KeyOrderKeys
<1>2. getVirtualTree = IF RootDocs = {} THEN <<>> ELSE [i \in 1 .. n |-> l[i]]
  BY DEF getVirtualTree, IsLevels, Root, RootDocs
<1>3. IsLevels(l, n)
  <2> HIDE DEF n
  <2> QED BY <1>1, LevelsExist
<1> HIDE DEF l, n
<1> DEFINE Wrong == {k \in Nat : k <= n /\ ~LevelAt(l[k], k)}
<1>5. ASSUME Wrong # {} PROVE FALSE
  <2>1. PICK k \in Wrong : \A j \in Wrong : k <= j
    <3> HIDE DEF Wrong
    <3>1. Wrong \in SUBSET Nat
      BY DEF Wrong
    <3> QED BY <1>5, <3>1, Least
  <2>2. CASE k = 0
    <3>1. l[0] = {Root}
      BY <1>1, <1>3 DEF IsLevels
    <3>2. NodeAt(Root, 0)
      BY DEF NodeAt, Root, Node, RootDocs, getAccessibleFileIds, Present
    <3>3. LevelAt({Root}, 0)
      BY <3>2 DEF LevelAt, Root
    <3> QED BY <2>1, <2>2, <3>1, <3>3
  <2>3. CASE k # 0
    <3> DEFINE m == k - 1
    <3>0. m \in Nat /\ k = m + 1 /\ k \in 0 .. n /\ m <= n /\ m \notin Wrong
      BY <2>1, <2>3, <1>1
    <3>1. LevelAt(l[m], m)
      BY <3>0
    <3>2. l[k] = UNION {buildLevel(x, KeyOrder[k]) : x \in l[m]}
      BY <3>0, <2>3, <1>3 DEF IsLevels
    <3> HIDE DEF m
    <3>3. m + 1 <= Len(KeyOrder)
      BY <3>0, <1>1 DEF n
    <3>4. LevelAt(l[k], k)
      BY <3>0, <3>1, <3>2, <3>3, Levels
    <3> QED BY <3>4, <2>1
  <2> QED BY <2>2, <2>3
<1>6. \A i \in 1 .. n : LevelAt(l[i], i)
  BY <1>5, <1>1
<1>7. \A i \in 1 .. n : l[i] \in SUBSET Node
  BY <1>6 DEF LevelAt, NodeAt
<1>8. getVirtualTree \in Seq(SUBSET Node)
  BY <1>1, <1>2, <1>7
<1>9. \A level \in Range(getVirtualTree) : \E i \in Nat : LevelAt(level, i)
  <2> SUFFICES ASSUME NEW level \in Range(getVirtualTree) PROVE \E i \in Nat : LevelAt(level, i)
    OBVIOUS
  <2>1. RootDocs # {}
    <3>1. Range(<<>>) = {}
      BY DEF Range
    <3> QED BY <1>2, <3>1
  <2> DEFINE t == [i \in 1 .. n |-> l[i]]
  <2>2. getVirtualTree = t
    BY <1>2, <2>1
  <2>3. DOMAIN t = 1 .. n /\ \A i \in 1 .. n : t[i] = l[i]
    OBVIOUS
  <2> HIDE DEF t
  <2>4. PICK i \in DOMAIN t : level = t[i]
    BY <2>2 DEF Range
  <2>5. i \in 1 .. n /\ level = l[i]
    BY <2>3, <2>4
  <2> QED BY <1>1, <1>6, <2>5
<1> QED BY <1>8, <1>9

-----------------------------------------------------------------------------
(* A node and the list that is asked for with its filters. *)

Asks(d, r) == IF r.value = Missing THEN Facts(d, r.key) = {} ELSE r.value \in Facts(d, r.key)

\* The name of f is of one person, if it is a name.
Clear(f) == f.key \in SystemKeys => Cardinality({i \in Ids : db.label[i] = f.value}) = 1

LEMMA NamedPerson ==
  ASSUME db \in Database, NEW first \in FirstOfName, NEW f \in Filter, f.key \in SystemKeys,
         NEW e \in Documents, f.value \in TreeValues(e, f.key)
  PROVE  /\ Resolved(f, first) = [f EXCEPT !.value = first[f.value]]
         /\ first[f.value] \in Ids /\ db.label[first[f.value]] = f.value
<1>1. f.key \in FilterableKeys
  BY DEF Filter
<1>2. f.value \in Labels
  BY <1>1, TreeValuesTyped
<1>3. f.value \in {db.label[i] : i \in Facts(e, f.key)} /\ Facts(e, f.key) \subseteq Ids
  BY <1>1, FactsTyped DEF TreeValues, resolveSystemFieldLabels
<1>4. \E i \in Ids : db.label[i] = f.value
  BY <1>3
<1>5. first[f.value] \in {i \in Ids : db.label[i] = f.value}
  BY <1>2, <1>4 DEF FirstOfName
<1> QED BY <1>2, <1>5, ValuesAssumption DEF Resolved

LEMMA FilterAgrees ==
  ASSUME db \in Database, NEW first \in FirstOfName, NEW f \in Filter, NEW d \in Documents,
         f.value # Missing => \E e \in Documents : f.value \in TreeValues(e, f.key)
  PROVE  /\ Resolved(f, first).key = f.key
         /\ Resolved(f, first).value = Missing <=> f.value = Missing
         /\ Asks(d, Resolved(f, first)) => Shows(d, f)
         /\ f.value # Missing /\ Clear(f) /\ Shows(d, f) => Asks(d, Resolved(f, first))
<1>0. f.key \in FilterableKeys /\ f = [key |-> f.key, value |-> f.value]
  BY DEF Filter
<1>1. CASE f.value = Missing
  <2>1. Resolved(f, first) = f
    BY <1>1, ValuesAssumption DEF Resolved
  <2>2. Facts(d, f.key) = {} => TreeValues(d, f.key) = {}
    BY DEF TreeValues, resolveSystemFieldLabels
  <2> QED BY <1>1, <2>1, <2>2 DEF Asks, Shows
<1>2. CASE f.value # Missing /\ f.key \in SystemKeys
  <2>0. PICK e \in Documents : f.value \in TreeValues(e, f.key)
    BY <1>2
  <2> DEFINE p == first[f.value]
             r == Resolved(f, first)
  <2>1. r = [f EXCEPT !.value = p] /\ p \in Ids /\ db.label[p] = f.value
    BY <1>2, <2>0, NamedPerson
  <2>2. r.key = f.key /\ r.value = p /\ r.value # Missing
    <3> HIDE DEF p, r
    <3> QED BY <1>0, <2>1, ValuesAssumption
  <2>3. /\ TreeValues(d, f.key) = {db.label[i] : i \in Facts(d, f.key)}
        /\ Facts(d, f.key) \subseteq Ids
    BY <1>0, <1>2, FactsTyped DEF TreeValues, resolveSystemFieldLabels
  <2> HIDE DEF p, r
  <2>4. Asks(d, r) => Shows(d, f)
    BY <1>2, <2>1, <2>2, <2>3 DEF Asks, Shows
  <2>5. ASSUME Clear(f), Shows(d, f) PROVE Asks(d, r)
    <3>1. PICK i \in Facts(d, f.key) : db.label[i] = f.value
      BY <1>2, <2>3, <2>5 DEF Shows
    <3> DEFINE same == {j \in Ids : db.label[j] = f.value}
    <3>2. IsFiniteSet(same) /\ Cardinality(same) = 1
      <4>1. same \subseteq Ids
        OBVIOUS
      <4>2. IsFiniteSet(same)
        <5> HIDE DEF same
        <5> QED BY <4>1, FS_Subset, ValuesAssumption
      <4> QED BY <1>2, <2>5, <4>2 DEF Clear
    <3>3. i \in same /\ p \in same
      BY <2>1, <2>3, <3>1
    <3> HIDE DEF same
    <3>4. \E x : same = {x}
      BY <3>2, FS_Singleton
    <3>5. i = p
      BY <3>3, <3>4
    <3> QED BY <2>2, <3>1, <3>5 DEF Asks
  <2> QED BY <1>2, <2>2, <2>4, <2>5 DEF r
<1>3. CASE f.value # Missing /\ f.key \notin SystemKeys
  <2>0. PICK e \in Documents : f.value \in TreeValues(e, f.key)
    BY <1>3
  <2>1. Resolved(f, first) = f
    BY <1>3 DEF Resolved
  <2>2. TreeValues(d, f.key) = Facts(d, f.key) \cap getAllowedMetadataValues(f.key)
    BY <1>3 DEF TreeValues
  <2>3. f.value \in getAllowedMetadataValues(f.key)
    BY <1>3, <2>0 DEF TreeValues
  <2> QED BY <1>3, <2>1, <2>2, <2>3 DEF Asks, Shows
<1> QED BY <1>1, <1>2, <1>3

\* The list of a node never shows more than the node, nor less where names are
\* clear and nothing is blank or hidden.
LEMMA NodesAgree ==
  ASSUME db \in Database, NEW first \in FirstOfName, NEW x, NEW i \in Nat, NodeAt(x, i),
         NEW L, L = FlatFiles({Resolved(f, first) : f \in x.path})
  PROVE  L \subseteq x.docs /\ (Plain(x) => L = x.docs)
<1> DEFINE asks == {Resolved(f, first) : f \in x.path}
<1>0. /\ RootDocs \subseteq Documents /\ x.docs \subseteq RootDocs
      /\ \A f \in x.path : f \in Filter
      /\ \A f \in x.path :
           f.value # Missing => \E e \in Documents : f.value \in TreeValues(e, f.key)
  BY DEF NodeAt, Node, RootDocs, getAccessibleFileIds, Present, Shows
<1>1. \A d \in Documents : \A f \in x.path :
         /\ Resolved(f, first).key = f.key
         /\ Resolved(f, first).value = Missing <=> f.value = Missing
         /\ Asks(d, Resolved(f, first)) => Shows(d, f)
         /\ f.value # Missing /\ Clear(f) /\ Shows(d, f) => Asks(d, Resolved(f, first))
  BY <1>0, FilterAgrees
<1>2. \A g, h \in asks : g.key = h.key => g = h
  <2> SUFFICES ASSUME NEW f1 \in x.path, NEW f2 \in x.path,
                      Resolved(f1, first).key = Resolved(f2, first).key
               PROVE  Resolved(f1, first) = Resolved(f2, first)
    OBVIOUS
  <2>e. CASE Documents = {}
    <3>1. f1.value # Missing => FALSE
      BY <2>e, <1>0
    <3>2. f2.value # Missing => FALSE
      BY <2>e, <1>0
    <3>3. Resolved(f1, first) = f1 /\ Resolved(f2, first) = f2
      BY <3>1, <3>2, ValuesAssumption DEF Resolved
    <3> QED BY <3>3 DEF NodeAt
  <2>f. CASE Documents # {}
    <3>1. Resolved(f1, first).key = f1.key /\ Resolved(f2, first).key = f2.key
      BY <2>f, <1>1
    <3>2. f1 = f2
      BY <3>1 DEF NodeAt
    <3> QED BY <3>2
  <2> QED BY <2>e, <2>f
<1>3. \A d \in Documents : (groupMetadataFiltersByKey(d, asks) /\ MissingAll(d, asks))
                           <=> \A g \in asks : Asks(d, g)
  <2> HIDE DEF asks
  <2> QED BY <1>2 DEF groupMetadataFiltersByKey, MissingAll, Asks
<1>4. L = {d \in RootDocs : \A f \in x.path : Asks(d, Resolved(f, first))}
  <2>1. L = {d \in RootDocs : groupMetadataFiltersByKey(d, asks) /\ MissingAll(d, asks)}
    <3> HIDE DEF asks
    <3>1. L = FlatFiles(asks)
      BY DEF asks
    <3> QED BY <3>1 DEF FlatFiles, RootDocs
  <2>2. \A d \in RootDocs : (groupMetadataFiltersByKey(d, asks) /\ MissingAll(d, asks))
                           <=> \A f \in x.path : Asks(d, Resolved(f, first))
    <3>1. \A d : (\A g \in asks : Asks(d, g)) <=> (\A f \in x.path : Asks(d, Resolved(f, first)))
      OBVIOUS
    <3> HIDE DEF asks
    <3> QED BY <1>0, <1>3, <3>1
  <2> HIDE DEF asks
  <2> QED BY <2>1, <2>2
<1> HIDE DEF asks
<1>5. L \subseteq x.docs
  BY <1>0, <1>1, <1>4 DEF NodeAt
<1>6. ASSUME Plain(x) PROVE x.docs \subseteq L
  <2> SUFFICES ASSUME NEW d \in x.docs, NEW f \in x.path PROVE Asks(d, Resolved(f, first))
    BY <1>0, <1>4
  <2>1. d \in Documents /\ d \in RootDocs /\ Shows(d, f)
    BY <1>0 DEF NodeAt
  <2>2. CASE f.value = Missing
    <3>1. Resolved(f, first) = f
      BY <2>2, ValuesAssumption DEF Resolved
    <3> QED BY <1>6, <2>2, <3>1 DEF Plain, Asks
  <2>3. CASE f.value # Missing
    <3>1. Clear(f)
      BY <1>6, <2>3 DEF Plain, Clear
    <3> QED BY <1>1, <2>1, <2>3, <3>1
  <2> QED BY <2>2, <2>3
<1> QED BY <1>5, <1>6

-----------------------------------------------------------------------------
(* Types, and what is kept of an answer until rows change. *)

\* The list is what the server gives for a request.
Answers(l, r) == \E first \in FirstOfName :
  l \in Found(FlatFiles({Resolved(f, first) : f \in r.filters}), r.search)

TreeInv ==
  /\ TreeTypeOK
  /\ treeFresh => tree = getVirtualTree
  /\ listFresh => listFor \in Request /\ listFor # Tree /\ Answers(list, listFor)
  /\ RowsAreActive

LEMMA RemovedOne ==
  ASSUME NEW S, NEW s \in Seq(S), NEW i \in 1 .. Len(s)
  PROVE  RemoveAt(s, i) \in Seq(S) /\ Len(RemoveAt(s, i)) <= Len(s)
<1> DEFINE a == SubSeq(s, 1, i - 1)
           b == SubSeq(s, i + 1, Len(s))
<1>1. Len(s) \in Nat /\ i \in Nat
  OBVIOUS
<1>2. a \in Seq(S) /\ Len(a) = i - 1
  OBVIOUS
<1>3. b \in Seq(S) /\ Len(b) = Len(s) - i
  OBVIOUS
<1>4. RemoveAt(s, i) = a \o b
  BY DEF RemoveAt
<1> HIDE DEF a, b
<1>5. a \o b \in Seq(S) /\ Len(a \o b) = Len(a) + Len(b)
  BY <1>2, <1>3
<1> QED BY <1>1, <1>2, <1>3, <1>4, <1>5

LEMMA RequestsTyped ==
  ASSUME NEW fs \in SUBSET Filter, NEW searched \in BOOLEAN
  PROVE  Tree \in Request /\ Files(fs, searched) \in Request /\ Files(fs, searched) # Tree
BY DEF Tree, Files, Request

LEMMA FilesRequests ==
  ASSUME NEW r \in Request, r # Tree
  PROVE  r.filters \in SUBSET Filter
BY DEF Tree, Request

LEMMA CompleteTyped ==
  ASSUME NEW rs \in Seq(FilterRow)
  PROVE  Complete(rs) \subseteq Filter
<1> SUFFICES ASSUME NEW f \in Complete(rs) PROVE f \in Filter
  OBVIOUS
<1>1. PICK r \in Range(rs) :
        r.key # Nil /\ f \in {[key |-> r.key, value |-> v] : v \in r.values}
  BY DEF Complete
<1>2. r \in FilterRow
  BY DEF Range
<1> QED BY <1>1, <1>2 DEF FilterRow, Filter

\* The rows that go have no part in the filters.
LEMMA CompleteKept ==
  ASSUME NEW rs \in Seq(FilterRow)
  PROVE  Complete(Selected(rs, FilterRow \ {NoRow})) = Complete(rs)
<1> DEFINE kept == Selected(rs, FilterRow \ {NoRow})
<1>1. Range(kept) = Range(rs) \cap (FilterRow \ {NoRow})
  BY SelectedKeeps
<1>2. Range(rs) \subseteq FilterRow
  BY DEF Range
<1>3. NoRow.key = Nil
  BY DEF NoRow
<1> HIDE DEF kept
<1>4. {r \in Range(kept) : r.key # Nil} = {r \in Range(rs) : r.key # Nil}
  BY <1>1, <1>2, <1>3
<1>5. Complete(kept) = Complete(rs)
  BY <1>4 DEF Complete
<1> QED BY <1>5 DEF kept

\* What rs asks for is what is asked for afterwards, key by key.
LEMMA MergedIsActive ==
  ASSUME NEW rs, NEW f \in Complete(rs)
  PROVE  {g.value : g \in {g \in Merged(rs) : g.key = f.key}}
           = {g.value : g \in {g \in Complete(rs) : g.key = f.key}}
<1>1. {g \in Merged(rs) : g.key = f.key} = {g \in Complete(rs) : g.key = f.key}
  BY DEF Merged
<1> QED BY <1>1

\* No row says anything without a key, nor where there are no rows.
LEMMA NoRowsSayNothing == Complete(<<>>) = {}
<1>1. Range(<<>>) = {}
  BY DEF Range
<1> QED BY <1>1 DEF Complete

LEMMA AddedRowSaysNothing ==
  ASSUME NEW rs \in Seq(FilterRow)
  PROVE  Complete(Append(rs, NoRow)) = Complete(rs)
<1> DEFINE more == Append(rs, NoRow)
<1>1. DOMAIN more = 1 .. Len(rs) + 1 /\ more[Len(rs) + 1] = NoRow /\ Len(rs) \in Nat
      /\ (\A i \in 1 .. Len(rs) : more[i] = rs[i]) /\ DOMAIN rs = 1 .. Len(rs)
  OBVIOUS
<1> HIDE DEF more
<1>2. \A r : r.key # Nil => (r \in Range(more) <=> r \in Range(rs))
  <2>1. NoRow.key = Nil
    BY DEF NoRow
  <2>2. ASSUME NEW r, r.key # Nil, NEW i \in DOMAIN more, r = more[i]
        PROVE  \E j \in DOMAIN rs : r = rs[j]
    <3>1. i # Len(rs) + 1
      BY <2>1, <2>2, <1>1
    <3> QED BY <3>1, <2>2, <1>1
  <2>3. ASSUME NEW r, NEW i \in DOMAIN rs, r = rs[i]
        PROVE  \E j \in DOMAIN more : r = more[j]
    BY <2>3, <1>1
  <2> QED BY <2>2, <2>3 DEF Range
<1>3. {r \in Range(more) : r.key # Nil} = {r \in Range(rs) : r.key # Nil}
  BY <1>2
<1>4. Complete(more) = Complete(rs)
  BY <1>3 DEF Complete
<1> QED BY <1>4 DEF more

-----------------------------------------------------------------------------
(* What a database determines. *)

SameRights == db'.status = db.status /\ db'.fact = db.fact /\ db'.label = db.label
              /\ db'.admin = db.admin /\ db'.anyRule = db.anyRule /\ db'.mine = db.mine

LEMMA SameTree == ASSUME db' = db PROVE getVirtualTree' = getVirtualTree
BY DEF getVirtualTree, KeyOrder, getAccessibleFileIds, Present, ruleMatchesFile, Facts, buildLevel,
       Uncategorized, TreeValues, resolveSystemFieldLabels, getAllowedMetadataValues

LEMMA SameAnswers ==
  ASSUME SameRights, list' = list, listFor' = listFor, Answers(list, listFor)
  PROVE  (Answers(list, listFor))'
<1>1. FirstOfName' = FirstOfName
  BY DEF FirstOfName, SameRights
<1>2. getAccessibleFileIds' = getAccessibleFileIds
  BY DEF getAccessibleFileIds, Present, ruleMatchesFile, Facts, SameRights
<1>5. PICK first \in FirstOfName :
        list \in Found(FlatFiles({Resolved(f, first) : f \in listFor.filters}), listFor.search)
  BY DEF Answers
<1> DEFINE fs == {Resolved(f, first) : f \in listFor.filters}
<1>6. fs' = fs
  OBVIOUS
<1>8. FlatFiles(fs)' = FlatFiles(fs)
  BY <1>2, <1>6 DEF FlatFiles, SameRights, groupMetadataFiltersByKey, MissingAll, Facts
<1>9. list' \in Found(FlatFiles({Resolved(f, first) : f \in listFor.filters}), listFor.search)'
  BY <1>5, <1>8 DEF Found
<1> QED BY <1>1, <1>5, <1>9 DEF Answers

-----------------------------------------------------------------------------
(* The steps. *)

\* RequestsTyped and what they are for keep their types.
AskedTypes == asked \in Seq(Request) /\ Len(asked) <= Pending + 1

LEMMA OneAnswered ==
  ASSUME TreeTypeOK, NEW i \in 1 .. Len(asked), asked' = RemoveAt(asked, i)
  PROVE  AskedTypes'
<1>1. Len(RemoveAt(asked, i)) \in Nat /\ Len(asked) \in Nat /\ Pending \in Nat
      /\ RemoveAt(asked, i) \in Seq(Request) /\ Len(RemoveAt(asked, i)) <= Len(asked)
  <2>1. RemoveAt(asked, i) \in Seq(Request) /\ Len(RemoveAt(asked, i)) <= Len(asked)
    BY RemovedOne DEF TreeTypeOK
  <2> QED BY <2>1, LimitsAssumption DEF TreeTypeOK
<1> QED BY <1>1 DEF AskedTypes, TreeTypeOK

LEMMA OneAsked ==
  ASSUME TreeTypeOK, Room, NEW r \in Request, asked' = Append(asked, r)
  PROVE  AskedTypes'
<1>1. Len(asked) \in Nat /\ Pending \in Nat /\ Len(asked) < Pending /\ asked \in Seq(Request)
  BY LimitsAssumption DEF TreeTypeOK, Room
<1>2. Append(asked, r) \in Seq(Request) /\ Len(Append(asked, r)) = Len(asked) + 1
  BY <1>1
<1> QED BY <1>1, <1>2 DEF AskedTypes

LEMMA Joined ==
  ASSUME NEW S, NEW s \in Seq(S), NEW t \in Seq(S)
  PROVE  s \o t \in Seq(S) /\ Len(s \o t) = Len(s) + Len(t)
OBVIOUS

LEMMA BothAsked ==
  ASSUME TreeTypeOK, Room, fetchBoth
  PROVE  AskedTypes'
<1>1. Len(asked) \in Nat /\ Pending \in Nat /\ Len(asked) < Pending /\ asked \in Seq(Request)
  BY LimitsAssumption DEF TreeTypeOK, Room
<1>2. Files(filters, search) \in Request /\ Tree \in Request
  BY RequestsTyped DEF TreeTypeOK
<1> DEFINE two == <<Files(filters, search), Tree>>
<1>3. two \in Seq(Request) /\ Len(two) = 2
  BY <1>2
<1>4. asked' = asked \o two
  BY DEF fetchBoth
<1> HIDE DEF two
<1>5. asked \o two \in Seq(Request) /\ Len(asked \o two) = Len(asked) + Len(two)
  BY <1>1, <1>3, Joined
<1> QED BY <1>1, <1>3, <1>4, <1>5 DEF AskedTypes

\* What is left as it is, with the rows of the database, stays what it was.
LEMMA TreeStays ==
  ASSUME TreeInv, db' = db, tree' = tree, treeFresh' = treeFresh, treeFresh'
  PROVE  tree' = getVirtualTree'
BY SameTree DEF TreeInv

LEMMA ListStays ==
  ASSUME TreeInv, SameRights, list' = list, listFor' = listFor, listFresh' = listFresh, listFresh'
  PROVE  listFor' \in Request /\ listFor' # Tree /\ (Answers(list, listFor))'
BY SameAnswers DEF TreeInv

LEMMA Unchanged == ASSUME db' = db PROVE SameRights
BY DEF SameRights

LEMMA SameRows ==
  ASSUME RowsAreActive, rows' = rows, filters' = filters
  PROVE  RowsAreActive'
BY DEF RowsAreActive, Complete

LEMMA TreeReceived ==
  ASSUME TreeInv, NEW i \in 1 .. Len(asked), ReceiveTree(i)
  PROVE  TreeInv'
<1>1. AskedTypes'
  BY OneAnswered DEF TreeInv, ReceiveTree
<1>2. getVirtualTree \in Seq(SUBSET Node)
  BY TreeLevels DEF TreeInv, TreeTypeOK
<1>3. TreeTypeOK'
  BY <1>1, <1>2 DEF TreeInv, TreeTypeOK, ReceiveTree, AskedTypes
<1>4. tree' = getVirtualTree'
  BY SameTree DEF ReceiveTree
<1>5. listFresh' => listFor' \in Request /\ listFor' # Tree /\ (Answers(list, listFor))'
  BY ListStays, Unchanged DEF ReceiveTree
<1>6. RowsAreActive'
  BY SameRows DEF TreeInv, ReceiveTree
<1> QED BY <1>3, <1>4, <1>5, <1>6 DEF TreeInv

LEMMA FilesReceived ==
  ASSUME TreeInv, NEW i \in 1 .. Len(asked), ReceiveFiles(i)
  PROVE  TreeInv'
<1>1. AskedTypes'
  BY OneAnswered DEF TreeInv, ReceiveFiles
<1>2. asked[i] \in Request /\ asked[i] # Tree
  BY DEF TreeInv, TreeTypeOK, ReceiveFiles
<1>3. PICK first \in FirstOfName :
        list' \in Found(FlatFiles({Resolved(f, first) : f \in asked[i].filters}), asked[i].search)
  BY DEF ReceiveFiles
<1> DEFINE fs == {Resolved(f, first) : f \in asked[i].filters}
<1>4. FlatFiles(fs) \subseteq Documents
  BY DEF FlatFiles, getAccessibleFileIds, Present
<1>5. TreeTypeOK'
  <2>1. list' \subseteq FlatFiles(fs)
    <3>1. asked[i].search => Found(FlatFiles(fs), asked[i].search) = SUBSET FlatFiles(fs)
      BY DEF Found
    <3>2. ~asked[i].search => Found(FlatFiles(fs), asked[i].search) = {FlatFiles(fs)}
      BY DEF Found
    <3> QED BY <1>3, <3>1, <3>2
  <2>2. list' \subseteq Documents /\ listFor' \in Request /\ listFresh' \in BOOLEAN
    BY <1>2, <1>4, <2>1 DEF ReceiveFiles
  <2> QED BY <1>1, <2>2 DEF TreeInv, TreeTypeOK, ReceiveFiles, AskedTypes
<1>6. treeFresh' => tree' = getVirtualTree'
  BY TreeStays DEF ReceiveFiles
<1>7. (Answers(list, listFor))'
  <2>1. FirstOfName' = FirstOfName
    BY DEF FirstOfName, ReceiveFiles
  <2>2. listFor' = asked[i] /\ db' = db
    BY DEF ReceiveFiles
  <2>3. {Resolved(f, first) : f \in listFor.filters}' = fs
    BY <2>2 DEF Resolved
  <2>4. FlatFiles({Resolved(f, first) : f \in listFor.filters})' = FlatFiles(fs)
    BY <2>2, <2>3
       DEF FlatFiles, getAccessibleFileIds, Present, ruleMatchesFile, Facts,
           groupMetadataFiltersByKey, MissingAll
  <2>5. Found(FlatFiles({Resolved(f, first) : f \in listFor.filters}), listFor.search)'
          = Found(FlatFiles(fs), asked[i].search)
    BY <2>2, <2>4 DEF Found
  <2> QED BY <1>3, <2>1, <2>5 DEF Answers
<1>8. RowsAreActive'
  BY SameRows DEF TreeInv, ReceiveFiles
<1> QED BY <1>2, <1>5, <1>6, <1>7, <1>8 DEF TreeInv, ReceiveFiles

LEMMA Failed ==
  ASSUME TreeInv, NEW i \in 1 .. Len(asked), Fail(i)
  PROVE  TreeInv'
<1>1. AskedTypes'
  BY OneAnswered DEF TreeInv, Fail
<1>2. UNCHANGED <<db, tree, rows, filters, search, list, changes, treeFresh, listFresh, listFor>>
  BY DEF Fail, client, fresh
<1>3. TreeTypeOK'
  BY <1>1, <1>2 DEF TreeInv, TreeTypeOK, AskedTypes
<1>4. treeFresh' => tree' = getVirtualTree'
  BY <1>2, TreeStays
<1>5. listFresh' => listFor' \in Request /\ listFor' # Tree /\ (Answers(list, listFor))'
  BY <1>2, ListStays, Unchanged
<1>6. RowsAreActive'
  BY <1>2, SameRows DEF TreeInv
<1> QED BY <1>3, <1>4, <1>5, <1>6 DEF TreeInv

\* The page turns to other filters, with rows that say so, or to other words.
LEMMA Filtered ==
  ASSUME TreeInv, Room, NEW fs \in SUBSET Filter, NEW searched \in BOOLEAN,
         fetchFilesFor(fs, searched), filters' = fs, search' = searched,
         rows' \in Seq(FilterRow), RowsAreActive', changes' \in 0 .. Changes,
         UNCHANGED <<db, tree, list, fresh>>
  PROVE  TreeInv'
<1>1. AskedTypes'
  BY RequestsTyped, OneAsked DEF TreeInv, fetchFilesFor
<1>2. UNCHANGED <<db, tree, list, treeFresh, listFresh, listFor>>
  BY DEF fresh
<1>3. TreeTypeOK'
  BY <1>1, <1>2 DEF TreeInv, TreeTypeOK, AskedTypes
<1>4. treeFresh' => tree' = getVirtualTree'
  BY <1>2, TreeStays
<1>5. listFresh' => listFor' \in Request /\ listFor' # Tree /\ (Answers(list, listFor))'
  BY <1>2, ListStays, Unchanged
<1> QED BY <1>3, <1>4, <1>5 DEF TreeInv

LEMMA Navigated ==
  ASSUME TreeInv, Room,
         clearNavigation \/ \E level \in Range(tree) : \E n \in level : navigateToNode(n)
  PROVE  TreeInv'
<1>1. PICK fs \in SUBSET Filter :
        /\ filters' = fs /\ rows' = <<>>
        /\ fetchFilesFor(fs, search)
        /\ UNCHANGED <<db, tree, search, list, changes, fresh>>
  <2>1. ASSUME NEW level \in Range(tree), NEW n \in level, navigateToNode(n)
        PROVE  n.path \in SUBSET Filter
    <3>1. level \subseteq Node
      BY DEF TreeInv, TreeTypeOK, Range
    <3> QED BY <3>1 DEF Node
  <2> QED BY <2>1 DEF navigateToNode, clearNavigation
<1>2. RowsAreActive'
  <2>1. Complete(rows)' = {}
    BY <1>1, NoRowsSayNothing DEF Complete
  <2> QED BY <2>1 DEF RowsAreActive
<1>3. rows' \in Seq(FilterRow)
  BY <1>1
<1>4. search \in BOOLEAN /\ changes' \in 0 .. Changes
  BY <1>1 DEF TreeInv, TreeTypeOK
<1> QED BY <1>1, <1>2, <1>3, <1>4, Filtered

LEMMA SearchSet ==
  ASSUME TreeInv, Room, NEW searched \in BOOLEAN, SetSearch(searched)
  PROVE  TreeInv'
<1>1. /\ search' = searched /\ fetchFilesFor(filters, searched)
      /\ UNCHANGED <<db, tree, rows, filters, list, fresh>>
      /\ changes' = changes \/ (changes < Changes /\ changes' = changes + 1)
  BY DEF SetSearch
<1>2. RowsAreActive'
  BY <1>1, SameRows DEF TreeInv
<1>3. filters \in SUBSET Filter /\ rows' \in Seq(FilterRow) /\ changes' \in 0 .. Changes
  BY <1>1, LimitsAssumption DEF TreeInv, TreeTypeOK
<1> QED BY <1>1, <1>2, <1>3, Filtered

LEMMA RowsApplied ==
  ASSUME TreeInv, Room, NEW rs \in Seq(FilterRow), applyFilterRows(rs)
  PROVE  TreeInv'
<1>1. /\ rows' = Selected(rs, FilterRow \ {NoRow}) /\ filters' = Merged(rs)
      /\ fetchFilesFor(Merged(rs), search) /\ UNCHANGED <<db, tree, search, list, changes, fresh>>
  BY DEF applyFilterRows
<1>2. Merged(rs) \in SUBSET Filter
  BY CompleteTyped DEF Merged, TreeInv, TreeTypeOK
<1>3. rows' \in Seq(FilterRow)
  BY <1>1, SelectedKeeps
<1>4. Complete(rows)' = Complete(rs)
  <2>1. Complete(rows)' = Complete(Selected(rs, FilterRow \ {NoRow}))
    BY <1>1 DEF Complete
  <2> QED BY <2>1, CompleteKept
<1>5. RowsAreActive'
  <2> SUFFICES ASSUME NEW f \in Complete(rs)
               PROVE  {g.value : g \in {g \in Merged(rs) : g.key = f.key}}
                        = {g.value : g \in {g \in Complete(rs) : g.key = f.key}}
    BY <1>1, <1>4 DEF RowsAreActive
  <2> QED BY MergedIsActive
<1>6. search \in BOOLEAN /\ changes' \in 0 .. Changes
  BY <1>1 DEF TreeInv, TreeTypeOK
<1> QED BY <1>1, <1>2, <1>3, <1>5, <1>6, Filtered

LEMMA RowAdded ==
  ASSUME TreeInv, AddRow
  PROVE  TreeInv'
<1>1. /\ rows' = Append(rows, NoRow)
      /\ UNCHANGED <<db, tree, filters, search, list, asked, changes, treeFresh, listFresh, listFor>>
  BY DEF AddRow, fresh
<1>2. TreeTypeOK'
  <2>1. NoRow \in FilterRow
    BY DEF NoRow, FilterRow
  <2>2. rows' \in Seq(FilterRow)
    BY <1>1, <2>1 DEF TreeInv, TreeTypeOK
  <2> QED BY <1>1, <2>2 DEF TreeInv, TreeTypeOK
<1>3. treeFresh' => tree' = getVirtualTree'
  BY <1>1, TreeStays
<1>4. listFresh' => listFor' \in Request /\ listFor' # Tree /\ (Answers(list, listFor))'
  BY <1>1, ListStays, Unchanged
<1>5. RowsAreActive'
  <2>1. Complete(rows)' = Complete(Append(rows, NoRow))
    BY <1>1 DEF Complete
  <2>2. Complete(rows)' = Complete(rows)
    BY <2>1, AddedRowSaysNothing DEF TreeInv, TreeTypeOK
  <2> QED BY <1>1, <2>2 DEF TreeInv, RowsAreActive
<1> QED BY <1>2, <1>3, <1>4, <1>5 DEF TreeInv

LEMMA RowsFiltered ==
  ASSUME TreeInv, FilterByRows
  PROVE  TreeInv'
<1>0. Room /\ rows \in Seq(FilterRow)
  BY DEF FilterByRows, TreeInv, TreeTypeOK
<1>1. CASE AddRow
  BY <1>1, RowAdded
<1>2. ASSUME NEW i \in 1 .. Len(rows), NEW k \in FilterableKeys, ChooseKey(i, k)
      PROVE  TreeInv'
  <2>1. [key |-> k, values |-> {}] \in FilterRow
    BY DEF FilterRow
  <2>2. [rows EXCEPT ![i] = [key |-> k, values |-> {}]] \in Seq(FilterRow)
    BY <1>0, <2>1
  <2> QED BY <1>0, <1>2, <2>2, RowsApplied DEF ChooseKey
<1>3. ASSUME NEW i \in 1 .. Len(rows), NEW vs \in SUBSET (Ids \cup Values), ChooseValues(i, vs)
      PROVE  TreeInv'
  <2>1. rows[i] \in FilterRow
    BY <1>0
  <2>2. [rows[i] EXCEPT !.values = vs] \in FilterRow
    BY <2>1 DEF FilterRow
  <2>3. [rows EXCEPT ![i].values = vs] \in Seq(FilterRow)
    BY <1>0, <2>2
  <2> QED BY <1>0, <1>3, <2>3, RowsApplied DEF ChooseValues
<1>4. ASSUME NEW i \in 1 .. Len(rows), RemoveRow(i) PROVE TreeInv'
  <2>1. RemoveAt(rows, i) \in Seq(FilterRow)
    BY <1>0, RemovedOne
  <2> QED BY <1>0, <1>4, <2>1, RowsApplied DEF RemoveRow
<1> QED BY <1>1, <1>2, <1>3, <1>4 DEF FilterByRows

\* Nil that was read is held to the rows as they are now.
LEMMA Changed ==
  ASSUME TreeInv, NEW new \in Database, NEW here, Change(new, here)
  PROVE  TreeInv'
<1>1. /\ db' = new /\ treeFresh' = FALSE /\ listFresh' = FALSE
      /\ UNCHANGED <<tree, rows, filters, search, list, listFor>>
      /\ changes < Changes /\ changes' = changes + 1
  BY DEF Change, client
<1>2. AskedTypes'
  <2>1. CASE here
    BY <2>1, BothAsked DEF Change, TreeInv
  <2>2. CASE ~here
    BY <2>2 DEF Change, TreeInv, TreeTypeOK, AskedTypes
  <2> QED BY <2>1, <2>2
<1>3. changes' \in 0 .. Changes
  BY <1>1, LimitsAssumption DEF TreeInv, TreeTypeOK
<1>4. TreeTypeOK'
  BY <1>1, <1>2, <1>3 DEF TreeInv, TreeTypeOK, AskedTypes
<1>5. RowsAreActive'
  BY <1>1, SameRows DEF TreeInv
<1> QED BY <1>1, <1>4, <1>5 DEF TreeInv

LEMMA OrderSaved ==
  ASSUME TreeInv, Room, NEW s \in FirstStates, saveTreeConfig(s.order)
  PROVE  TreeInv'
<1>1. /\ db' = [db EXCEPT !.order = s.order] /\ treeFresh' = FALSE
      /\ UNCHANGED <<tree, rows, filters, search, list, listFresh, listFor>>
      /\ changes < Changes /\ changes' = changes + 1 /\ asked' = Append(asked, Tree)
  BY DEF saveTreeConfig, client
<1>2. db \in Database /\ s \in Database
  BY FirstAssumption DEF TreeInv, TreeTypeOK
<1>3. db' \in Database
  BY <1>1, <1>2 DEF Database
<1>4. SameRights
  BY <1>1, <1>2 DEF Database, SameRights
<1>5. AskedTypes'
  BY <1>1, RequestsTyped, OneAsked DEF TreeInv
<1>6. changes' \in 0 .. Changes
  BY <1>1, LimitsAssumption DEF TreeInv, TreeTypeOK
<1>7. TreeTypeOK'
  BY <1>1, <1>3, <1>5, <1>6 DEF TreeInv, TreeTypeOK, AskedTypes
<1>8. listFresh' => listFor' \in Request /\ listFor' # Tree /\ (Answers(list, listFor))'
  BY <1>1, <1>4, ListStays
<1>9. RowsAreActive'
  BY <1>1, SameRows DEF TreeInv
<1> QED BY <1>1, <1>7, <1>8, <1>9 DEF TreeInv

LEMMA Written ==
  ASSUME TreeInv, Write
  PROVE  TreeInv'
<1>0. db \in Database
  BY DEF TreeInv, TreeTypeOK
<1>1. ASSUME Room, NEW s \in FirstStates, saveTreeConfig(s.order) PROVE TreeInv'
  BY <1>1, OrderSaved
<1>2. ASSUME NEW here \in BOOLEAN, NEW d \in Documents, NEW k \in FilterableKeys,
             NEW vs \in SUBSET (Ids \cup Values), ChangeFacts(d, k, vs, here)
      PROVE  TreeInv'
  <2> DEFINE new == [db EXCEPT !.fact[d][k] = vs]
  <2>1. db.fact \in [Documents -> FactsOfDocument] /\ db.fact[d] \in FactsOfDocument
    BY <1>0 DEF Database
  <2>2. [db.fact[d] EXCEPT ![k] = vs] \in FactsOfDocument
    <3> DEFINE facts == [db.fact[d] EXCEPT ![k] = vs]
    <3>1. db.fact[d] \in [FilterableKeys -> SUBSET (Ids \cup Values)]
      BY <2>1 DEF FactsOfDocument
    <3>2. facts \in [FilterableKeys -> SUBSET (Ids \cup Values)]
      BY <3>1
    <3>3. \A q \in FilterableKeys : facts[q] = IF q = k THEN vs ELSE db.fact[d][q]
      BY <3>1
    <3> HIDE DEF facts
    <3>4. SystemKeys \subseteq FilterableKeys /\ MetaKeys \subseteq FilterableKeys
      BY DEF FilterableKeys
    <3>5. (k \in SystemKeys => vs \subseteq Ids) /\ (k \notin SystemKeys => vs \subseteq Values)
      BY <1>2 DEF ChangeFacts
    <3>6. \A q \in SystemKeys : facts[q] \subseteq Ids
      BY <2>1, <3>3, <3>4, <3>5 DEF FactsOfDocument
    <3>7. \A q \in MetaKeys : facts[q] \subseteq Values
      BY <2>1, <3>3, <3>4, <3>5, KeysAssumption DEF FactsOfDocument
    <3>8. facts \in FactsOfDocument
      BY <3>2, <3>6, <3>7 DEF FactsOfDocument
    <3> QED BY <3>8 DEF facts
  <2>3. new = [db EXCEPT !.fact = [db.fact EXCEPT ![d] = [db.fact[d] EXCEPT ![k] = vs]]]
    OBVIOUS
  <2>4. [db.fact EXCEPT ![d] = [db.fact[d] EXCEPT ![k] = vs]] \in [Documents -> FactsOfDocument]
    BY <2>1, <2>2
  <2>5. new \in Database
    <3> HIDE DEF new
    <3> QED BY <1>0, <2>3, <2>4 DEF Database
  <2> HIDE DEF new
  <2>6. Change(new, here)
    BY <1>2 DEF ChangeFacts, new
  <2> QED BY <2>5, <2>6, Changed
<1>3. ASSUME NEW here \in BOOLEAN, NEW d \in Documents, ArchiveFile(d, here) PROVE TreeInv'
  <2>1. [db EXCEPT !.status[d] = "archived"] \in Database
    BY <1>0 DEF Database
  <2> QED BY <1>3, <2>1, Changed DEF ArchiveFile
<1>4. ASSUME NEW d \in Documents, UploadFile(d) PROVE TreeInv'
  <2>1. [db EXCEPT !.status[d] = "live"] \in Database
    BY <1>0 DEF Database
  <2> QED BY <1>4, <2>1, Changed DEF UploadFile
<1>5. ASSUME NEW i \in Ids, NEW n \in Labels, RenamePerson(i, n) PROVE TreeInv'
  <2>1. [db EXCEPT !.label[i] = n] \in Database
    BY <1>0 DEF Database
  <2> QED BY <1>5, <2>1, Changed DEF RenamePerson
<1>6. ASSUME NEW s \in FirstStates, AssignRules(s.mine) PROVE TreeInv'
  <2>1. [db EXCEPT !.mine = s.mine] \in Database
    BY <1>0, FirstAssumption DEF Database
  <2> QED BY <1>6, <2>1, Changed DEF AssignRules
<1> QED BY <1>1, <1>2, <1>3, <1>4, <1>5, <1>6 DEF Write

LEMMA TreeStart == ASSUME TreeInit PROVE TreeInv
<1>1. db \in Database
  BY FirstAssumption DEF TreeInit
<1>2. Tree \in Request /\ Files({}, FALSE) \in Request
  BY RequestsTyped
<1>3. asked \in Seq(Request) /\ Len(asked) <= Pending + 1
  <2>1. asked = <<Tree, Files({}, FALSE)>> /\ Pending \in Nat /\ Pending # 0
    BY LimitsAssumption DEF TreeInit
  <2>2. \A a, b \in Request : <<a, b>> \in Seq(Request) /\ Len(<<a, b>>) = 2
    OBVIOUS
  <2>3. asked \in Seq(Request) /\ Len(asked) = 2
    BY <1>2, <2>1, <2>2
  <2>4. 2 <= Pending + 1
    BY <2>1
  <2> QED BY <2>3, <2>4
<1>4. tree \in Seq(SUBSET Node) /\ rows \in Seq(FilterRow)
  BY DEF TreeInit
<1>5. TreeTypeOK
  <2>1. changes \in 0 .. Changes
    BY LimitsAssumption DEF TreeInit
  <2>2. /\ filters \subseteq Filter /\ search \in BOOLEAN /\ list \subseteq Documents
        /\ treeFresh \in BOOLEAN /\ listFresh \in BOOLEAN /\ listFor \in Request \cup {Nil}
    BY DEF TreeInit
  <2> QED BY <1>1, <1>3, <1>4, <2>1, <2>2 DEF TreeTypeOK
<1>6. RowsAreActive
  BY NoRowsSayNothing DEF TreeInit, RowsAreActive
<1> QED BY <1>5, <1>6 DEF TreeInit, TreeInv

LEMMA TreeStep == ASSUME TreeInv, [TreeNext]_treeVars PROVE TreeInv'
<1>1. CASE Receive
  BY <1>1, TreeReceived, FilesReceived, Failed DEF Receive
<1>2. CASE Navigate
  BY <1>2, Navigated, SearchSet DEF Navigate
<1>3. CASE FilterByRows
  BY <1>3, RowsFiltered
<1>4. CASE Write
  BY <1>4, Written
<1>5. CASE UNCHANGED treeVars
  <2>1. UNCHANGED <<db, tree, rows, filters, search, list, asked, changes, treeFresh, listFresh,
                  listFor>>
    BY <1>5 DEF treeVars, client, fresh
  <2>2. TreeTypeOK'
    BY <2>1 DEF TreeInv, TreeTypeOK
  <2>3. treeFresh' => tree' = getVirtualTree'
    BY <2>1, TreeStays
  <2>4. listFresh' => listFor' \in Request /\ listFor' # Tree /\ (Answers(list, listFor))'
    BY <2>1, ListStays, Unchanged
  <2>5. RowsAreActive'
    BY <2>1, SameRows DEF TreeInv
  <2> QED BY <2>2, <2>3, <2>4, <2>5 DEF TreeInv
<1> QED BY <1>1, <1>2, <1>3, <1>4, <1>5 DEF TreeNext

LEMMA TreeInvariance == TreeSpec => []TreeInv
<1>1. TreeInit => TreeInv
  BY TreeStart
<1>2. TreeInv /\ [TreeNext]_treeVars => TreeInv'
  BY TreeStep
<1> QED BY <1>1, <1>2, PTL DEF TreeSpec

\* Types, the nodes of the tree and the filters among them: each answer is of
\* its type however the database looks, and a node has one filter for each key.
THEOREM TreeTypeCorrect == TreeSpec => []TreeTypeOK
<1>1. TreeInv => TreeTypeOK
  BY DEF TreeInv
<1> QED BY <1>1, TreeInvariance, PTL

\* An answer to the page is of the same rows as the tree.
LEMMA ComparedAnswers ==
  ASSUME TreeInv, Comparable, NEW level \in Range(tree)
  PROVE  /\ db \in Database
         /\ \E i \in Nat : LevelAt(level, i)
         /\ \E first \in FirstOfName :
              LET L == FlatFiles({Resolved(f, first) : f \in listFor.filters})
              IN  list \subseteq L /\ (~listFor.search => list = L)
<1>1. db \in Database /\ tree = getVirtualTree /\ Answers(list, listFor)
  BY DEF TreeInv, TreeTypeOK, Comparable
<1> QED BY <1>1, TreeLevels DEF Answers, Found

\* A list that is asked for with the filters of a node shows no document that
\* the node does not hold, and all of them if its names are clear, nothing is blank
\* or hidden and no words are searched for (buildVirtualTree against listFlatFiles).
THEOREM NodesShowTheirs == TreeSpec => []NodeShowsItsDocuments
<1>1. ASSUME TreeInv, Comparable, NEW level \in Range(tree), NEW n \in level,
             n.path = listFor.filters
      PROVE  list \subseteq n.docs /\ (Plain(n) /\ ~listFor.search => list = n.docs)
  <2>1. PICK i \in Nat : LevelAt(level, i)
    BY <1>1, ComparedAnswers
  <2>2. PICK first \in FirstOfName :
          LET L == FlatFiles({Resolved(f, first) : f \in listFor.filters})
          IN  list \subseteq L /\ (~listFor.search => list = L)
    BY <1>1, ComparedAnswers
  <2>3. NodeAt(n, i)
    BY <2>1 DEF LevelAt
  <2>4. db \in Database
    BY <1>1, ComparedAnswers
  <2> DEFINE L == FlatFiles({Resolved(f, first) : f \in n.path})
  <2>5. list \subseteq L /\ (~listFor.search => list = L)
    BY <1>1, <2>2
  <2>6. L \subseteq n.docs /\ (Plain(n) => L = n.docs)
    BY <2>3, <2>4, NodesAgree
  <2> HIDE DEF L
  <2> QED BY <2>5, <2>6
<1>2. TreeInv => NodeShowsItsDocuments
  BY <1>1 DEF NodeShowsItsDocuments
<1> QED BY <1>2, TreeInvariance, PTL

\* Every level of the tree holds all documents of the unfiltered list: buildLevel
\* loses none, whatever its values.
THEOREM TreeHoldsAll == TreeSpec => []TreeHoldsEveryDocument
<1>1. ASSUME TreeInv, Comparable, listFor.filters = {}, ~listFor.search, NEW level \in Range(tree)
      PROVE  UNION {n.docs : n \in level} = list
  <2>1. PICK i \in Nat : LevelAt(level, i)
    BY <1>1, ComparedAnswers
  <2>2. PICK first \in FirstOfName :
          list = FlatFiles({Resolved(f, first) : f \in listFor.filters})
    BY <1>1, ComparedAnswers
  <2>3. {Resolved(f, first) : f \in listFor.filters} = {}
    BY <1>1
  <2>4. list = FlatFiles({})
    BY <2>2, <2>3
  <2>5. FlatFiles({}) = RootDocs
    BY DEF FlatFiles, RootDocs, groupMetadataFiltersByKey, MissingAll
  <2> QED BY <2>1, <2>4, <2>5 DEF LevelAt
<1>2. TreeInv => TreeHoldsEveryDocument
  BY <1>1 DEF TreeHoldsEveryDocument
<1> QED BY <1>2, TreeInvariance, PTL

\* What the rows of filters say is what the list is filtered by, key by key,
\* whatever was selected in the tree or in earlier rows (applyFilterRows).
THEOREM RowsActive == TreeSpec => []RowsAreActive
<1>1. TreeInv => RowsAreActive
  BY DEF TreeInv
<1> QED BY <1>1, TreeInvariance, PTL
=============================================================================
