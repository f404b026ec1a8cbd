----------------------------- MODULE MCImportJob -----------------------------
(* One job with two files.  Of the documents, those without faults are looked *)
(* at; of the ones with overlapping calls, only what can surprise a client: an *)
(* extraction that starts again; of the removed ones, those whose OCR is over  *)
(* or has not begun.                                                           *)
EXTENDS ImportJob

MCFilesOf == [j \in Jobs |-> Files]

MCDocuments ==
  {d \in D!DocumentType :
     /\ d.sound
     /\ ~d.calm => /\ d.row = "live" /\ d.text
                   /\ d.ocr \in {"pending", "completed"}
                   /\ d.extract \in {"processing", "completed"}
     /\ d.row = "removed" => d.ocr \in {"pending", "completed"}}
=============================================================================
