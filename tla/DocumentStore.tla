---------------------------- MODULE DocumentStore ----------------------------
(***************************************************************************)
(* The two stores of a document: its row in PostgreSQL and its object in   *)
(* the documents bucket.  No transaction spans them, and the handlers that *)
(* write both (the uploads and the PDF splits, which create documents, the *)
(* splits and the archive purge, which remove them) interleave at every    *)
(* await.                                                                  *)
(*                                                                         *)
(* A document stands for the storage path built for it as well: from the   *)
(* time of day in milliseconds, a position and a name, assumed not to      *)
(* collide and not to be guessed.  Two more operations take the path from  *)
(* the client and write to one store only: createFile makes a row,         *)
(* uploadDocument an object.                                               *)
(***************************************************************************)
EXTENDS Naturals, FiniteSets

CONSTANTS
  Docs,       \* documents, by row id and by storage path
  Handlers,   \* requests: each is served once
  Workers,    \* iterations of the purge timer that may overlap
  BatchSize,  \* ARCHIVE_PURGE_BATCH_SIZE
  NoDoc,      \* no source document
  MaxFaults   \* bound on failed queries, failed storage calls and restarts

ASSUME BatchSizeAssumption == BatchSize \in Nat \ {0}
ASSUME FaultsAssumption == MaxFaults \in Nat
ASSUME NoDocAssumption == NoDoc \notin Docs
ASSUME JobsAssumption == Handlers \cap Workers = {}

Jobs == Handlers \cup Workers

VARIABLES
  rows,      \* the row of a document: "none", "live", "archived" or "gone"
  expired,   \* archived documents whose archived_datetime is before the cutoff
  values,    \* documents with rows in files_metadata_values, which refer to them
  objects,   \* paths with an object in the bucket
  path,      \* storage_path of a document: its own, or what createFile was given
  given,     \* history: paths that a client has given, and documents made of them
  pc,        \* the await a job is at
  asked,     \* toDelete: the archived documents bulkDelete was asked to delete
  ids,       \* the documents a job creates, archives or purges
  left,      \* those it has not created, or whose object it has not deleted, yet
  src,       \* the document a split takes apart
  out,       \* how the removal of src ended
  told,      \* the documents bulkDelete reported as deleted
  faults     \* failed queries, failed storage calls and restarts so far

paths == <<path, given>>
stores == <<rows, expired, values, objects, paths>>
locals == <<asked, ids, left, src, out, told>>
vars ==
  <<rows, expired, values, objects, path, given, pc, asked, ids, left, src, out, told, faults>>

Labels == {"idle", "put", "create", "propose", "delobject", "delvalues", "delrow",
           "archive", "resolve", "purgeobjects", "purgerows", "done"}
Exists(d) == rows[d] \in {"live", "archived"}
Active(j) == pc[j] \notin {"idle", "done"}
Goto(j, l) == pc' = [pc EXCEPT ![j] = l]

\* Mutant of Rest: the timer is not set again.
RestForGood(j) == "done"

\* A worker iteration is over, well or badly: the timer will start another one.
Rest(j) == IF j \in Workers THEN "idle" ELSE "done"

-----------------------------------------------------------------------------
(* Creating documents: uploadFlatFile, uploadCompanyDocument, and the parts of
   a split, one after the other, the object before the row. *)

\* Ids and paths nobody has used.
Fresh(new) ==
  \A d \in new : rows[d] = "none" /\ d \notin objects \cup given /\ \A j \in Jobs : d \notin ids[j]

Plan(j, new) ==
  /\ ids' = [ids EXCEPT ![j] = new]
  /\ left' = [left EXCEPT ![j] = new]

Upload(j, new) ==
  /\ pc[j] = "idle" /\ new # {} /\ Fresh(new)
  /\ Plan(j, new)
  /\ Goto(j, "put")
  /\ UNCHANGED <<stores, asked, src, out, told, faults>>

\* splitPdfApply: a document that is not archived and whose object it can
\* download, and the segments it was given.
Split(j, d, new) ==
  /\ pc[j] = "idle" /\ new # {} /\ Fresh(new)
  /\ rows[d] = "live" /\ path[d] \in objects
  /\ Plan(j, new)
  /\ src' = [src EXCEPT ![j] = d]
  /\ Goto(j, "put")
  /\ UNCHANGED <<stores, asked, out, told, faults>>

\* splitPdfAuto uploads its source first.
SplitAuto(j, d) ==
  /\ pc[j] = "idle" /\ Fresh({d})
  /\ Plan(j, {d})
  /\ src' = [src EXCEPT ![j] = d]
  /\ Goto(j, "put")
  /\ UNCHANGED <<stores, asked, out, told, faults>>

\* It then awaits OCR and a proposal, which it applies to the bytes it was sent;
\* without valid segments it answers 400 and the source stays.
Propose(j, new) ==
  /\ pc[j] = "propose"
  /\ \/ /\ new # {} /\ Fresh(new)
        /\ Plan(j, new)
        /\ Goto(j, "put")
     \/ /\ Goto(j, "done")
        /\ UNCHANGED <<ids, left>>
  /\ UNCHANGED <<stores, asked, src, out, told, faults>>

\* Mutant of PutObject: removes the source before the part has a row.
PutObjectThenRemove(j, d) ==
  /\ pc[j] = "put" /\ d \in left[j]
  /\ objects' = objects \cup {d}
  /\ Goto(j, IF src[j] \in {NoDoc, d} THEN "create" ELSE "delobject")
  /\ UNCHANGED <<rows, expired, values, locals, faults, paths>>

PutObject(j, d) ==
  /\ pc[j] = "put" /\ d \in left[j]
  /\ objects' = objects \cup {d}
  /\ Goto(j, "create")
  /\ UNCHANGED <<rows, expired, values, locals, faults, paths>>

\* What follows the last row of a job: splitPdfAuto has created its source; a
\* split removes its source unless keepOriginalFile asks it not to.
AfterLast(j, keep) ==
  IF src[j] \in ids[j] THEN "propose"
  ELSE IF src[j] = NoDoc \/ keep THEN "done" ELSE "delobject"

\* The row of the object just put, with the values that came
\* with the upload or the segment.
CreateRow(j, d, hasValues, keep) ==
  /\ pc[j] = "create" /\ d \in left[j] \cap objects
  /\ rows' = [rows EXCEPT ![d] = "live"]
  /\ values' = IF hasValues THEN values \cup {d} ELSE values
  /\ left' = [left EXCEPT ![j] = @ \ {d}]
  /\ Goto(j, IF left'[j] # {} THEN "put" ELSE AfterLast(j, keep))
  /\ UNCHANGED <<expired, objects, asked, ids, src, out, told, faults, paths>>

\* A client gives a path that is in use or that nobody uses, and none that a
\* handler is about to use.
Given(p) == \A j \in Jobs : pc[j] \in {"put", "create"} => p \notin left[j]

\* createFile: a row with the path of the request, or an empty one; nothing is
\* stored, and nobody looks whether something is.
CreateFile(j, d, p) ==
  /\ pc[j] = "idle" /\ Fresh({d}) /\ Given(p)
  /\ rows' = [rows EXCEPT ![d] = "live"]
  /\ path' = [path EXCEPT ![d] = p]
  /\ given' = given \cup {d, p}
  /\ Goto(j, "done")
  /\ UNCHANGED <<expired, values, objects, locals, faults>>

\* uploadDocument: an object at the path of the request, over what is there.
UploadDocument(j, p) ==
  /\ pc[j] = "idle" /\ Given(p)
  /\ objects' = objects \cup {p}
  /\ given' = given \cup {p}
  /\ Goto(j, "done")
  /\ UNCHANGED <<rows, expired, values, path, locals, faults>>

-----------------------------------------------------------------------------
(* A split removes its source: the object, the metadata values, the row. *)

DeleteSourceObject(j) ==
  /\ pc[j] = "delobject"
  /\ objects' = objects \ {path[src[j]]}
  /\ Goto(j, "delvalues")
  /\ UNCHANGED <<rows, expired, values, locals, faults, paths>>

DeleteSourceValues(j) ==
  /\ pc[j] = "delvalues"
  /\ values' = values \ {src[j]}
  /\ Goto(j, "delrow")
  /\ UNCHANGED <<rows, expired, objects, locals, faults, paths>>

\* The row must still be there, and no value may refer to it; otherwise the
\* handler answers with the warning original_remove_failed.
\* Mutant of DeleteSourceRow: answers that it is removed in any case.
DeleteSourceRowSilently(j) ==
  /\ pc[j] = "delrow"
  /\ rows' = IF Exists(src[j]) /\ src[j] \notin values
             THEN [rows EXCEPT ![src[j]] = "gone"] ELSE rows
  /\ out' = [out EXCEPT ![j] = "removed"]
  /\ Goto(j, "done")
  /\ UNCHANGED <<expired, values, objects, asked, ids, left, src, told, faults, paths>>

DeleteSourceRow(j) ==
  /\ pc[j] = "delrow"
  /\ IF Exists(src[j]) /\ src[j] \notin values
     THEN /\ rows' = [rows EXCEPT ![src[j]] = "gone"]
          /\ out' = [out EXCEPT ![j] = "removed"]
     ELSE /\ out' = [out EXCEPT ![j] = "failed"]
          /\ UNCHANGED rows
  /\ Goto(j, "done")
  /\ UNCHANGED <<expired, values, objects, asked, ids, left, src, told, faults, paths>>

-----------------------------------------------------------------------------
(* Archiving: deleteCompanyFile looks for a document that is not archived,
   checks permissions, and archives whatever it then finds. *)

AskToArchive(j, d) ==
  /\ pc[j] = "idle" /\ rows[d] = "live"
  /\ ids' = [ids EXCEPT ![j] = {d}]
  /\ Goto(j, "archive")
  /\ UNCHANGED <<stores, asked, left, src, out, told, faults>>

Archive(j) ==
  /\ pc[j] = "archive"
  /\ rows' = [d \in Docs |-> IF d \in ids[j] /\ Exists(d) THEN "archived" ELSE rows[d]]
  /\ expired' = expired \ ids[j]
  /\ Goto(j, "done")
  /\ UNCHANGED <<values, objects, locals, faults, paths>>

\* The retention period of an archived document ends; it is a day or more, longer
\* than any request that is still to archive the document once more.
Expire(d) ==
  /\ rows[d] = "archived" /\ d \notin expired
  /\ \A j \in Jobs : pc[j] = "archive" => d \notin ids[j]
  /\ expired' = expired \cup {d}
  /\ UNCHANGED <<rows, values, objects, pc, locals, faults, paths>>

-----------------------------------------------------------------------------
(* The purge, by the timer or by a super administrator. *)

\* purgeArchivedFiles: the expired documents, a batch of them.
StartPurge(w, S) ==
  LET due == {d \in expired : rows[d] = "archived"} IN
  /\ pc[w] = "idle"
  /\ S \subseteq due /\ S # {}
  /\ Cardinality(S) = BatchSize \/ (Cardinality(due) < BatchSize /\ S = due)
  /\ ids' = [ids EXCEPT ![w] = S]
  /\ Goto(w, "resolve")
  /\ UNCHANGED <<stores, asked, left, src, out, told, faults>>

\* Mutant of BulkDelete: takes documents that are not archived.
BulkDeleteAny(j, S) ==
  /\ pc[j] = "idle" /\ S # {}
  /\ asked' = [asked EXCEPT ![j] = S]
  /\ ids' = asked'
  /\ Goto(j, "resolve")
  /\ UNCHANGED <<stores, left, src, out, told, faults>>

\* bulkDelete: the archived ones among the documents it is given.
BulkDelete(j, S) ==
  LET toDelete == {d \in S : rows[d] = "archived"} IN
  /\ pc[j] = "idle" /\ S # {}
  /\ asked' = [asked EXCEPT ![j] = toDelete]
  /\ ids' = [ids EXCEPT ![j] = toDelete]
  /\ Goto(j, "resolve")
  /\ UNCHANGED <<stores, left, src, out, told, faults>>

\* purgeFilesByIds looks the documents up again, whatever their state is now.
Resolve(j) ==
  LET found == {d \in ids[j] : Exists(d)} IN
  /\ pc[j] = "resolve"
  /\ Plan(j, found)
  /\ Goto(j, IF found = {} THEN Rest(j) ELSE "purgeobjects")
  /\ UNCHANGED <<stores, asked, src, out, told, faults>>

\* Mutant of PurgeObject: stops after one object.
PurgeFirstObject(j, d) ==
  /\ pc[j] = "purgeobjects" /\ d \in left[j]
  /\ objects' = objects \ {path[d]}
  /\ left' = [left EXCEPT ![j] = {}]
  /\ Goto(j, "purgerows")
  /\ UNCHANGED <<rows, expired, values, asked, ids, src, out, told, faults, paths>>

PurgeObject(j, d) ==
  /\ pc[j] = "purgeobjects" /\ d \in left[j]
  /\ objects' = objects \ {path[d]}
  /\ left' = [left EXCEPT ![j] = @ \ {d}]
  /\ Goto(j, IF left'[j] = {} THEN "purgerows" ELSE "purgeobjects")
  /\ UNCHANGED <<rows, expired, values, asked, ids, src, out, told, faults, paths>>

\* One transaction removes the values and the rows.  bulkDelete reports the
\* first of the documents it was asked to delete, as many as were found.
PurgeRows(j, report) ==
  /\ pc[j] = "purgerows"
  /\ report \subseteq asked[j] /\ (j \in Handlers => Cardinality(report) = Cardinality(ids[j]))
  /\ values' = values \ ids[j]
  /\ rows' = [d \in Docs |-> IF d \in ids[j] /\ Exists(d) THEN "gone" ELSE rows[d]]
  /\ told' = [told EXCEPT ![j] = report]
  /\ Goto(j, Rest(j))
  /\ UNCHANGED <<expired, objects, asked, ids, left, src, out, faults, paths>>

-----------------------------------------------------------------------------
(* The rest of the system. *)

\* A metadata value is written: by hand, in bulk, or by the AI extraction.
AddValue(d) ==
  /\ Exists(d) /\ d \notin values
  /\ values' = values \cup {d}
  /\ UNCHANGED <<rows, expired, objects, pc, locals, faults, paths>>

\* A query or a storage call of j fails.  A failed deletion of an object is
\* ignored; a failed removal of the source is reported; a transaction is rolled
\* back; anything else ends the handler, what it did before stays done.
Fault(j) ==
  /\ faults < MaxFaults /\ Active(j)
  /\ faults' = faults + 1
  /\ \/ /\ pc[j] = "delobject"
        /\ Goto(j, "delvalues")
        /\ UNCHANGED <<left, out>>
     \/ /\ pc[j] \in {"delvalues", "delrow"}
        /\ Goto(j, "done")
        /\ out' = [out EXCEPT ![j] = "failed"]
        /\ UNCHANGED left
     \/ /\ pc[j] = "purgeobjects"
        /\ \E d \in left[j] : left' = [left EXCEPT ![j] = @ \ {d}]
        /\ Goto(j, IF left'[j] = {} THEN "purgerows" ELSE "purgeobjects")
        /\ UNCHANGED out
     \/ /\ pc[j] \notin {"delvalues", "delrow", "purgeobjects"}
        /\ Goto(j, Rest(j))
        /\ UNCHANGED <<left, out>>
  /\ UNCHANGED <<stores, asked, ids, src, told>>

\* The server restarts: requests are lost, the timer is set again.
Restart ==
  /\ faults < MaxFaults
  /\ \E j \in Jobs : Active(j)
  /\ faults' = faults + 1
  /\ pc' = [j \in Jobs |-> IF Active(j) THEN Rest(j) ELSE pc[j]]
  /\ out' = [j \in Jobs |-> IF pc[j] \in {"delvalues", "delrow"} THEN "lost" ELSE out[j]]
  /\ UNCHANGED <<stores, asked, ids, left, src, told>>

-----------------------------------------------------------------------------
\* Any documents may be there, each with its object.
Init ==
  /\ rows \in [Docs -> {"none", "live", "archived"}]
  /\ objects = {d \in Docs : Exists(d)}
  /\ path = [d \in Docs |-> d] /\ given = {}
  /\ expired = {} /\ values = {}
  /\ pc = [j \in Jobs |-> "idle"]
  /\ asked = [j \in Jobs |-> {}]
  /\ ids = [j \in Jobs |-> {}]
  /\ left = [j \in Jobs |-> {}]
  /\ src = [j \in Jobs |-> NoDoc]
  /\ out = [j \in Jobs |-> "none"]
  /\ told = [j \in Jobs |-> {}]
  /\ faults = 0

Begin(j) ==
  \/ \E new \in SUBSET Docs : Upload(j, new)
  \/ \E d \in Docs, new \in SUBSET Docs : Split(j, d, new)
  \/ \E d \in Docs : SplitAuto(j, d)
  \/ \E d \in Docs : AskToArchive(j, d)
  \/ \E S \in SUBSET Docs : BulkDelete(j, S)
  \/ \E d, p \in Docs : CreateFile(j, d, p)
  \/ \E p \in Docs : UploadDocument(j, p)

Step(j) ==
  \/ \E new \in SUBSET Docs : Propose(j, new)
  \/ \E d \in left[j] : PutObject(j, d)
  \/ \E d \in left[j], hasValues, keep \in BOOLEAN : CreateRow(j, d, hasValues, keep)
  \/ DeleteSourceObject(j) \/ DeleteSourceValues(j) \/ DeleteSourceRow(j)
  \/ Archive(j)
  \/ Resolve(j) \/ \E d \in left[j] : PurgeObject(j, d)
  \/ \E report \in SUBSET asked[j] : PurgeRows(j, report)

Next ==
  \/ \E j \in Handlers : Begin(j)
  \/ \E w \in Workers, S \in SUBSET Docs : StartPurge(w, S)
  \/ \E j \in Jobs : Step(j) \/ Fault(j)
  \/ \E d \in Docs : Expire(d) \/ AddValue(d)
  \/ Restart

Spec == Init /\ [][Next]_vars

\* Time passes, the timer fires, and a job that has begun goes on, unless it waits
\* for OCR, which may never answer.
FairSpec ==
  /\ Spec
  /\ \A d \in Docs : WF_vars(Expire(d))
  /\ \A w \in Workers : WF_vars(\E S \in SUBSET Docs : StartPurge(w, S))
  /\ \A j \in Jobs : WF_vars(pc[j] # "propose" /\ Step(j))

-----------------------------------------------------------------------------
TypeOK ==
  /\ rows \in [Docs -> {"none", "live", "archived", "gone"}]
  /\ expired \subseteq Docs /\ values \subseteq Docs /\ objects \subseteq Docs
  /\ path \in [Docs -> Docs] /\ given \subseteq Docs
  /\ pc \in [Jobs -> Labels]
  /\ asked \in [Jobs -> SUBSET Docs]
  /\ ids \in [Jobs -> SUBSET Docs]
  /\ left \in [Jobs -> SUBSET Docs]
  /\ src \in [Jobs -> Docs \cup {NoDoc}]
  /\ out \in [Jobs -> {"none", "removed", "failed", "lost"}]
  /\ told \in [Jobs -> SUBSET Docs]
  /\ faults \in 0..MaxFaults

\* A document on the lists can be opened: a row without its object belongs to a
\* split that is removing it, whose removal failed, or that a restart cut off in
\* the middle of it; or a client has given its path, in place of an upload.
LiveHasObject ==
  \A d \in Docs \ given : rows[d] = "live" /\ path[d] \notin objects =>
    \E j \in Handlers :
      src[j] = d /\ (pc[j] \in {"delvalues", "delrow"} \/ out[j] \in {"failed", "lost"})

\* The bucket keeps no object that no row leads to, save between the two writes
\* of a creation and at the paths that clients have given, as long as no storage
\* call or query fails.
NoOrphans ==
  faults = 0 =>
    \A p \in objects \ given :
      \/ \E d \in Docs : Exists(d) /\ path[d] = p
      \/ \E j \in Handlers : pc[j] = "create" /\ p \in left[j]

\* The object of a document that is not archived is deleted by a split only, and
\* only when that split has created all of its parts; unless createFile was given
\* the path of that object for another document.
ContentMovedFirst ==
  [][\A d \in Docs \ given :
       rows[d] = "live" /\ path[d] \in objects \ objects' =>
         \E j \in Handlers : src[j] = d /\ \A p \in ids[j] : rows[p] # "none"]_vars

\* An archived document is destroyed before the end of its retention only by a
\* super administrator who selected it, or by a split that was under way when it
\* was archived.
RetentionKept ==
  [][\A d \in Docs : rows[d] = "archived" /\ rows'[d] = "gone" /\ d \notin expired =>
       \E j \in Handlers : d \in asked[j] \/ src[j] = d]_vars

\* What bulkDelete reports as deleted is gone, although it reports by position
\* and count, and others purge at the same time.
ReportedAreGone == \A j \in Handlers : \A d \in told[j] : rows[d] = "gone"

\* Every archived document is purged in the end, whatever failed on the way.
ArchivedIsPurged == \A d \in Docs : rows[d] = "archived" ~> rows[d] = "gone"
=============================================================================
