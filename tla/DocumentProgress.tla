-------------------------- MODULE DocumentProgress --------------------------
(***************************************************************************)
(* What the OCR pipeline promises to whoever only reads the status columns *)
(* of a document, as the polling client does (GET /files/:fileId/ocr).     *)
(* OcrPipeline implements it; ImportJob relies on it and on nothing else.  *)
(*                                                                         *)
(* The promise has two strengths.  While calls on the document have not    *)
(* overlapped ("calm") the statuses move forward only; afterwards they may *)
(* move in any direction, but never back to what an upload writes.         *)
(***************************************************************************)
EXTENDS Naturals

VARIABLE doc

Statuses == {"null", "pending", "processing", "completed", "failed"}

DocumentType ==
  [row: {"absent", "live", "removed"},
   ocr: Statuses, extract: Statuses,
   text: BOOLEAN,      \* some text, perhaps blank, has been recognised
   calm: BOOLEAN,      \* calls have not overlapped
   sound: BOOLEAN]     \* no database error and no restart

NoDocument ==
  [row |-> "absent", ocr |-> "null", extract |-> "null",
   text |-> FALSE, calm |-> TRUE, sound |-> TRUE]

\* A new document waits for an extraction if its upload asked for one.
Creates(d, e) ==
  /\ d.row = "absent" /\ e.row = "live"
  /\ e.ocr = "null" /\ e.extract \in {"null", "pending"} /\ ~e.text
  /\ e.calm /\ e.sound

\* OCR can be asked for at any time; otherwise it goes forward.  What is chained
\* after it can undo it only when a query fails.
OcrGoesForward(d, e) ==
  \/ e.ocr \in {d.ocr, "pending"}
  \/ d.ocr \in {"null", "pending"} /\ e.ocr \in {"processing", "failed"}
  \/ d.ocr = "processing" /\ e.ocr \in {"completed", "failed"}
  \/ d.ocr = "completed" /\ e.ocr = "failed" /\ ~e.sound

\* An extraction that is waiting starts or is given up; one that has started
\* ends; a later request of a user can only complete it.
ExtractionGoesForward(d, e) ==
  \/ e.extract \in {d.extract, "completed"}
  \/ d.extract = "pending" /\ e.extract \in {"processing", "failed"}
  \/ d.extract = "processing" /\ e.extract = "failed"

\* Nothing becomes as if it had never been asked for.
NothingForgotten(d, e) ==
  /\ e.ocr = "null" => d.ocr = "null"
  /\ e.extract \in {"null", "pending"} => d.extract = e.extract

\* The steps of a document that exists.
Moves(d, e) ==
  /\ d.row = "live" /\ e.row = "live"
  /\ d.text => e.text
  /\ e.ocr = "completed" \/ e.extract = "completed" => e.text
  /\ e.calm => d.calm
  /\ e.sound => d.sound
  /\ IF e.calm THEN OcrGoesForward(d, e) /\ ExtractionGoesForward(d, e)
               ELSE NothingForgotten(d, e)

\* A document that is gone keeps what it was, and calls may still come and fail.
Fades(d, e) ==
  /\ d.row # "absent" /\ e.row = "removed"
  /\ e.ocr = d.ocr /\ e.extract = d.extract /\ e.text = d.text
  /\ e.calm => d.calm
  /\ e.sound => d.sound

MayBecome(d, e) == Creates(d, e) \/ Moves(d, e) \/ Fades(d, e)

Init == doc = NoDocument
Next == doc' \in DocumentType /\ MayBecome(doc, doc')
Spec == Init /\ [][Next]_doc
=============================================================================
