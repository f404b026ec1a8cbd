------------------------- MODULE DocumentStoreProofs -------------------------
(***************************************************************************)
(* The safety properties of DocumentStore for any documents, requests and  *)
(* timers, any batch size and any bound on faults.                         *)
(***************************************************************************)
EXTENDS DocumentStore, TLAPS

Purging == {"resolve", "purgeobjects", "purgerows"}
Creating == {"put", "create"}
Removing == {"delobject", "delvalues", "delrow"}

(* The inductive invariant. *)

\* A document has the path built for it, or both it and its path were given.
PathsOwn ==
  \A d \in Docs : path[d] # d => d \in given /\ path[d] \in given

\* The timer does nothing but purge.
WorkersPurge ==
  \A w \in Workers : pc[w] \in {"idle"} \cup Purging /\ src[w] = NoDoc

\* A split knows a source whose row was created before its parts are.
SplitHasSource ==
  \A j \in Jobs :
    /\ pc[j] = "idle" => src[j] = NoDoc
    /\ pc[j] \in {"propose"} \cup Removing => src[j] \in Docs /\ rows[src[j]] # "none"
    /\ pc[j] \in Creating /\ src[j] \in Docs /\ src[j] \notin ids[j] => rows[src[j]] # "none"

\* Of the documents a job creates, those it has not come to have no row yet.
CreatesInTurn ==
  \A j \in Jobs :
    /\ pc[j] \in Creating =>
         /\ left[j] \subseteq ids[j]
         /\ \A d \in ids[j] : d \in left[j] <=> rows[d] = "none"
    /\ pc[j] \in {"propose"} \cup Removing => \A d \in ids[j] : rows[d] # "none"

\* Nobody else creates them, and at most one of them has its object already.
CreatesAlone ==
  /\ \A j, k \in Jobs :
       j # k /\ pc[j] \in Creating /\ pc[k] \in Creating => left[j] \cap left[k] = {}
  /\ \A j \in Jobs :
       /\ pc[j] = "put" => left[j] \cap objects = {}
       /\ pc[j] = "create" => \A d, e \in left[j] \cap objects : d = e

\* A purge is at documents that were archived; without faults the objects of
\* those it has passed are deleted, and so is the object of a split's source.
PurgesArchived ==
  \A j \in Jobs :
    /\ pc[j] \in Purging => \A d \in ids[j] : rows[d] \in {"archived", "gone"}
    /\ pc[j] = "purgeobjects" => left[j] \subseteq ids[j]
    /\ pc[j] = "purgerows" => left[j] = {}
    /\ faults = 0 /\ pc[j] \in {"purgeobjects", "purgerows"} =>
         \A d \in ids[j] \ left[j] : path[d] \notin objects \ given
    /\ faults = 0 /\ pc[j] \in {"delvalues", "delrow"} =>
         path[src[j]] \notin objects \ given

\* What bulkDelete was asked to delete is archived, or was and is gone.
AskedForArchived ==
  \A j \in Handlers : pc[j] \in Purging =>
    /\ ids[j] \subseteq asked[j]
    /\ \A d \in asked[j] :
         IF d \in ids[j] THEN rows[d] \in {"archived", "gone"} ELSE rows[d] = "gone"

\* The retention of a document that somebody is still to archive has not ended,
\* and that of a document the timer is purging has.
RetentionOver ==
  /\ \A d \in expired : rows[d] \in {"archived", "gone"}
  /\ \A j \in Jobs : pc[j] = "archive" => ids[j] \cap expired = {}
  /\ \A w \in Workers : pc[w] \in Purging =>
       \A d \in ids[w] : rows[d] = "archived" => d \in expired

IInv ==
  /\ TypeOK
  /\ PathsOwn
  /\ WorkersPurge
  /\ SplitHasSource
  /\ CreatesInTurn
  /\ CreatesAlone
  /\ PurgesArchived
  /\ AskedForArchived
  /\ RetentionOver
  /\ LiveHasObject
  /\ NoOrphans
  /\ ReportedAreGone

\* A row never goes back.
RowsAge ==
  \A d \in Docs :
    /\ rows[d] # "none" => rows'[d] # "none"
    /\ rows[d] \in {"archived", "gone"} => rows'[d] \in {"archived", "gone"}
    /\ rows[d] = "gone" => rows'[d] = "gone"

\* The steps ContentMovedFirst and RetentionKept allow.
MovedFirst ==
  \A d \in Docs \ given : rows[d] = "live" /\ path[d] \in objects \ objects' =>
    \E j \in Handlers : src[j] = d /\ \A p \in ids[j] : rows[p] # "none"
RetentionRespected ==
  \A d \in Docs : rows[d] = "archived" /\ rows'[d] = "gone" /\ d \notin expired =>
    \E j \in Handlers : d \in asked[j] \/ src[j] = d

-----------------------------------------------------------------------------
\* Every step keeps the types.
LEMMA NextTypeOK ==
  ASSUME TypeOK, [Next]_vars
  PROVE  TypeOK'
<1> USE FaultsAssumption, NoDocAssumption, JobsAssumption DEF TypeOK, Jobs, Labels, Exists, Active, Goto, Rest, Plan, stores, paths, locals
<1>1. ASSUME NEW j \in Handlers, NEW new \in SUBSET Docs, Upload(j, new)
      PROVE  TypeOK'
  BY <1>1 DEF Upload
<1>2. ASSUME NEW j \in Handlers, NEW d \in Docs, NEW new \in SUBSET Docs, Split(j, d, new)
      PROVE  TypeOK'
  BY <1>2 DEF Split
<1>3. ASSUME NEW j \in Handlers, NEW d \in Docs, SplitAuto(j, d)
      PROVE  TypeOK'
  BY <1>3 DEF SplitAuto
<1>4. ASSUME NEW j \in Handlers, NEW d \in Docs, AskToArchive(j, d)
      PROVE  TypeOK'
  BY <1>4 DEF AskToArchive
<1>5. ASSUME NEW j \in Handlers, NEW S \in SUBSET Docs, BulkDelete(j, S)
      PROVE  TypeOK'
  BY <1>5 DEF BulkDelete
<1>6. ASSUME NEW j \in Jobs, NEW new \in SUBSET Docs, Propose(j, new)
      PROVE  TypeOK'
  BY <1>6 DEF Propose
<1>7. ASSUME NEW j \in Jobs, NEW d \in left[j], PutObject(j, d)
      PROVE  TypeOK'
  BY <1>7 DEF PutObject
<1>8. ASSUME NEW j \in Jobs, NEW d \in left[j], NEW hasValues \in BOOLEAN, NEW keep \in BOOLEAN, CreateRow(j, d, hasValues, keep)
      PROVE  TypeOK'
  BY <1>8 DEF CreateRow, AfterLast
<1>9. ASSUME NEW j \in Jobs, DeleteSourceObject(j)
      PROVE  TypeOK'
  BY <1>9 DEF DeleteSourceObject
<1>10. ASSUME NEW j \in Jobs, DeleteSourceValues(j)
      PROVE  TypeOK'
  BY <1>10 DEF DeleteSourceValues
<1>11. ASSUME NEW j \in Jobs, DeleteSourceRow(j)
      PROVE  TypeOK'
  BY <1>11 DEF DeleteSourceRow
<1>12. ASSUME NEW j \in Jobs, Archive(j)
      PROVE  TypeOK'
  BY <1>12 DEF Archive
<1>13. ASSUME NEW j \in Jobs, Resolve(j)
      PROVE  TypeOK'
  BY <1>13 DEF Resolve
<1>14. ASSUME NEW j \in Jobs, NEW d \in left[j], PurgeObject(j, d)
      PROVE  TypeOK'
  BY <1>14 DEF PurgeObject
<1>15. ASSUME NEW j \in Jobs, NEW report \in SUBSET asked[j], PurgeRows(j, report)
      PROVE  TypeOK'
  BY <1>15 DEF PurgeRows
<1>16. ASSUME NEW j \in Jobs, Fault(j)
      PROVE  TypeOK'
  BY <1>16 DEF Fault
<1>17. ASSUME NEW w \in Workers, NEW S \in SUBSET Docs, StartPurge(w, S)
      PROVE  TypeOK'
  BY <1>17 DEF StartPurge
<1>18. ASSUME NEW d \in Docs, Expire(d)
      PROVE  TypeOK'
  BY <1>18 DEF Expire
<1>19. ASSUME NEW d \in Docs, AddValue(d)
      PROVE  TypeOK'
  BY <1>19 DEF AddValue
<1>20. ASSUME Restart PROVE TypeOK'
  BY <1>20 DEF Restart
<1>21. ASSUME UNCHANGED vars PROVE TypeOK'
  BY <1>21 DEF vars
<1>22. ASSUME NEW j \in Handlers, NEW d \in Docs, NEW p \in Docs, CreateFile(j, d, p)
      PROVE  TypeOK'
  BY <1>22 DEF CreateFile, Given
<1>23. ASSUME NEW j \in Handlers, NEW p \in Docs, UploadDocument(j, p)
      PROVE  TypeOK'
  BY <1>23 DEF UploadDocument, Given
<1>24. QED
  BY <1>1, <1>2, <1>3, <1>4, <1>5, <1>6, <1>7, <1>8, <1>9, <1>10, <1>11, <1>12,
     <1>13, <1>14, <1>15, <1>16, <1>17, <1>18, <1>19, <1>20, <1>21, <1>22, <1>23
  DEF Next, Begin, Step, Jobs

\* The invariant holds before any job has begun.
LEMMA InitIInv == Init => IInv
<1> SUFFICES ASSUME Init PROVE IInv
  OBVIOUS
<1>1. TypeOK
  BY FaultsAssumption DEF Init, TypeOK, Labels, Exists
<1>2. QED
  BY <1>1, NoDocAssumption DEF Init, IInv, PathsOwn, WorkersPurge, SplitHasSource, CreatesInTurn, CreatesAlone,
     PurgesArchived, AskedForArchived, RetentionOver, LiveHasObject, NoOrphans, ReportedAreGone,
     Creating, Purging, Removing, Jobs, Exists

\* The row and the jobs always have a value of their types.
THEOREM TypeCorrect == Spec => []TypeOK
<1>1. Init => TypeOK BY InitIInv DEF IInv
<1>2. QED BY <1>1, NextTypeOK, PTL DEF Spec

-----------------------------------------------------------------------------
\* No step takes a document back to an earlier state of its life.
LEMMA StepRows ==
  ASSUME IInv, [Next]_vars
  PROVE  RowsAge
<1> USE NoDocAssumption, JobsAssumption
    DEF IInv, TypeOK, PathsOwn, CreatesInTurn, SplitHasSource, PurgesArchived, RowsAge,
        Creating, Purging, Removing, Jobs, Labels, Exists, Active, Goto, Rest, Plan, Fresh, stores, paths, locals
<1>1. ASSUME NEW j \in Handlers, NEW new \in SUBSET Docs, Upload(j, new)
      PROVE  RowsAge
  BY <1>1 DEF Upload
<1>2. ASSUME NEW j \in Handlers, NEW d \in Docs, NEW new \in SUBSET Docs, Split(j, d, new)
      PROVE  RowsAge
  BY <1>2 DEF Split
<1>3. ASSUME NEW j \in Handlers, NEW d \in Docs, SplitAuto(j, d)
      PROVE  RowsAge
  BY <1>3 DEF SplitAuto
<1>4. ASSUME NEW j \in Handlers, NEW d \in Docs, AskToArchive(j, d)
      PROVE  RowsAge
  BY <1>4 DEF AskToArchive
<1>5. ASSUME NEW j \in Handlers, NEW S \in SUBSET Docs, BulkDelete(j, S)
      PROVE  RowsAge
  BY <1>5 DEF BulkDelete
<1>6. ASSUME NEW j \in Jobs, NEW new \in SUBSET Docs, Propose(j, new)
      PROVE  RowsAge
  BY <1>6 DEF Propose
<1>7. ASSUME NEW j \in Jobs, NEW d \in left[j], PutObject(j, d)
      PROVE  RowsAge
  BY <1>7 DEF PutObject
<1>8. ASSUME NEW j \in Jobs, NEW d \in left[j], NEW hasValues \in BOOLEAN, NEW keep \in BOOLEAN, CreateRow(j, d, hasValues, keep)
      PROVE  RowsAge
  BY <1>8 DEF CreateRow, AfterLast
<1>9. ASSUME NEW j \in Jobs, DeleteSourceObject(j)
      PROVE  RowsAge
  BY <1>9 DEF DeleteSourceObject
<1>10. ASSUME NEW j \in Jobs, DeleteSourceValues(j)
      PROVE  RowsAge
  BY <1>10 DEF DeleteSourceValues
<1>11. ASSUME NEW j \in Jobs, DeleteSourceRow(j)
      PROVE  RowsAge
  BY <1>11 DEF DeleteSourceRow
<1>12. ASSUME NEW j \in Jobs, Archive(j)
      PROVE  RowsAge
  BY <1>12 DEF Archive
<1>13. ASSUME NEW j \in Jobs, Resolve(j)
      PROVE  RowsAge
  BY <1>13 DEF Resolve
<1>14. ASSUME NEW j \in Jobs, NEW d \in left[j], PurgeObject(j, d)
      PROVE  RowsAge
  BY <1>14 DEF PurgeObject
<1>15. ASSUME NEW j \in Jobs, NEW report \in SUBSET asked[j], PurgeRows(j, report)
      PROVE  RowsAge
  BY <1>15 DEF PurgeRows
<1>16. ASSUME NEW j \in Jobs, Fault(j)
      PROVE  RowsAge
  BY <1>16 DEF Fault
<1>17. ASSUME NEW w \in Workers, NEW S \in SUBSET Docs, StartPurge(w, S)
      PROVE  RowsAge
  BY <1>17 DEF StartPurge
<1>18. ASSUME NEW d \in Docs, Expire(d)
      PROVE  RowsAge
  BY <1>18 DEF Expire
<1>19. ASSUME NEW d \in Docs, AddValue(d)
      PROVE  RowsAge
  BY <1>19 DEF AddValue
<1>20. ASSUME Restart PROVE RowsAge
  BY <1>20 DEF Restart
<1>21. ASSUME UNCHANGED vars PROVE RowsAge
  BY <1>21 DEF vars
<1>22. ASSUME NEW j \in Handlers, NEW d \in Docs, NEW p \in Docs, CreateFile(j, d, p)
      PROVE  RowsAge
  BY <1>22 DEF CreateFile, Given
<1>23. ASSUME NEW j \in Handlers, NEW p \in Docs, UploadDocument(j, p)
      PROVE  RowsAge
  BY <1>23 DEF UploadDocument, Given
<1>24. QED
  BY <1>1, <1>2, <1>3, <1>4, <1>5, <1>6, <1>7, <1>8, <1>9, <1>10, <1>11, <1>12,
     <1>13, <1>14, <1>15, <1>16, <1>17, <1>18, <1>19, <1>20, <1>21, <1>22, <1>23
  DEF Next, Begin, Step, Jobs

\* Ids and paths are used once, so the creations do not disturb one another, and no
\* removal takes away what they have not yet created.
LEMMA StepCreation ==
  ASSUME IInv, RowsAge, [Next]_vars
  PROVE  PathsOwn' /\ WorkersPurge' /\ SplitHasSource' /\ CreatesInTurn' /\ CreatesAlone'
<1> USE NoDocAssumption, JobsAssumption
    DEF IInv, TypeOK, PathsOwn, WorkersPurge, SplitHasSource, CreatesInTurn, CreatesAlone, PurgesArchived, RowsAge,
        Creating, Purging, Removing, Jobs, Labels, Exists, Active, Goto, Rest, Plan, Fresh, stores, paths, locals
<1>1. ASSUME NEW j \in Handlers, NEW new \in SUBSET Docs, Upload(j, new)
      PROVE  PathsOwn' /\ WorkersPurge' /\ SplitHasSource' /\ CreatesInTurn' /\ CreatesAlone'
  BY <1>1 DEF Upload
<1>2. ASSUME NEW j \in Handlers, NEW d \in Docs, NEW new \in SUBSET Docs, Split(j, d, new)
      PROVE  PathsOwn' /\ WorkersPurge' /\ SplitHasSource' /\ CreatesInTurn' /\ CreatesAlone'
  BY <1>2 DEF Split
<1>3. ASSUME NEW j \in Handlers, NEW d \in Docs, SplitAuto(j, d)
      PROVE  PathsOwn' /\ WorkersPurge' /\ SplitHasSource' /\ CreatesInTurn' /\ CreatesAlone'
  BY <1>3 DEF SplitAuto
<1>4. ASSUME NEW j \in Handlers, NEW d \in Docs, AskToArchive(j, d)
      PROVE  PathsOwn' /\ WorkersPurge' /\ SplitHasSource' /\ CreatesInTurn' /\ CreatesAlone'
  BY <1>4 DEF AskToArchive
<1>5. ASSUME NEW j \in Handlers, NEW S \in SUBSET Docs, BulkDelete(j, S)
      PROVE  PathsOwn' /\ WorkersPurge' /\ SplitHasSource' /\ CreatesInTurn' /\ CreatesAlone'
  BY <1>5 DEF BulkDelete
<1>6. ASSUME NEW j \in Jobs, NEW new \in SUBSET Docs, Propose(j, new)
      PROVE  PathsOwn' /\ WorkersPurge' /\ SplitHasSource' /\ CreatesInTurn' /\ CreatesAlone'
  BY <1>6 DEF Propose
<1>7. ASSUME NEW j \in Jobs, NEW d \in left[j], PutObject(j, d)
      PROVE  PathsOwn' /\ WorkersPurge' /\ SplitHasSource' /\ CreatesInTurn' /\ CreatesAlone'
  BY <1>7 DEF PutObject
<1>8. ASSUME NEW j \in Jobs, NEW d \in left[j], NEW hasValues \in BOOLEAN, NEW keep \in BOOLEAN, CreateRow(j, d, hasValues, keep)
      PROVE  PathsOwn' /\ WorkersPurge' /\ SplitHasSource' /\ CreatesInTurn' /\ CreatesAlone'
  BY <1>8 DEF CreateRow, AfterLast
<1>9. ASSUME NEW j \in Jobs, DeleteSourceObject(j)
      PROVE  PathsOwn' /\ WorkersPurge' /\ SplitHasSource' /\ CreatesInTurn' /\ CreatesAlone'
  BY <1>9 DEF DeleteSourceObject
<1>10. ASSUME NEW j \in Jobs, DeleteSourceValues(j)
      PROVE  PathsOwn' /\ WorkersPurge' /\ SplitHasSource' /\ CreatesInTurn' /\ CreatesAlone'
  BY <1>10 DEF DeleteSourceValues
<1>11. ASSUME NEW j \in Jobs, DeleteSourceRow(j)
      PROVE  PathsOwn' /\ WorkersPurge' /\ SplitHasSource' /\ CreatesInTurn' /\ CreatesAlone'
  BY <1>11 DEF DeleteSourceRow
<1>12. ASSUME NEW j \in Jobs, Archive(j)
      PROVE  PathsOwn' /\ WorkersPurge' /\ SplitHasSource' /\ CreatesInTurn' /\ CreatesAlone'
  BY <1>12 DEF Archive
<1>13. ASSUME NEW j \in Jobs, Resolve(j)
      PROVE  PathsOwn' /\ WorkersPurge' /\ SplitHasSource' /\ CreatesInTurn' /\ CreatesAlone'
  BY <1>13 DEF Resolve
<1>14. ASSUME NEW j \in Jobs, NEW d \in left[j], PurgeObject(j, d)
      PROVE  PathsOwn' /\ WorkersPurge' /\ SplitHasSource' /\ CreatesInTurn' /\ CreatesAlone'
  BY <1>14 DEF PurgeObject
<1>15. ASSUME NEW j \in Jobs, NEW report \in SUBSET asked[j], PurgeRows(j, report)
      PROVE  PathsOwn' /\ WorkersPurge' /\ SplitHasSource' /\ CreatesInTurn' /\ CreatesAlone'
  BY <1>15 DEF PurgeRows
<1>16. ASSUME NEW j \in Jobs, Fault(j)
      PROVE  PathsOwn' /\ WorkersPurge' /\ SplitHasSource' /\ CreatesInTurn' /\ CreatesAlone'
  BY <1>16 DEF Fault
<1>17. ASSUME NEW w \in Workers, NEW S \in SUBSET Docs, StartPurge(w, S)
      PROVE  PathsOwn' /\ WorkersPurge' /\ SplitHasSource' /\ CreatesInTurn' /\ CreatesAlone'
  BY <1>17 DEF StartPurge
<1>18. ASSUME NEW d \in Docs, Expire(d)
      PROVE  PathsOwn' /\ WorkersPurge' /\ SplitHasSource' /\ CreatesInTurn' /\ CreatesAlone'
  BY <1>18 DEF Expire
<1>19. ASSUME NEW d \in Docs, AddValue(d)
      PROVE  PathsOwn' /\ WorkersPurge' /\ SplitHasSource' /\ CreatesInTurn' /\ CreatesAlone'
  BY <1>19 DEF AddValue
<1>20. ASSUME Restart PROVE PathsOwn' /\ WorkersPurge' /\ SplitHasSource' /\ CreatesInTurn' /\ CreatesAlone'
  BY <1>20 DEF Restart
<1>21. ASSUME UNCHANGED vars PROVE PathsOwn' /\ WorkersPurge' /\ SplitHasSource' /\ CreatesInTurn' /\ CreatesAlone'
  BY <1>21 DEF vars
<1>22. ASSUME NEW j \in Handlers, NEW d \in Docs, NEW p \in Docs, CreateFile(j, d, p)
      PROVE  PathsOwn' /\ WorkersPurge' /\ SplitHasSource' /\ CreatesInTurn' /\ CreatesAlone'
  BY <1>22 DEF CreateFile, Given
<1>23. ASSUME NEW j \in Handlers, NEW p \in Docs, UploadDocument(j, p)
      PROVE  PathsOwn' /\ WorkersPurge' /\ SplitHasSource' /\ CreatesInTurn' /\ CreatesAlone'
  BY <1>23 DEF UploadDocument, Given
<1> HIDE DEF IInv, TypeOK, PathsOwn, WorkersPurge, SplitHasSource, CreatesInTurn, CreatesAlone,
        PurgesArchived, RowsAge
<1>24. QED
  BY <1>1, <1>2, <1>3, <1>4, <1>5, <1>6, <1>7, <1>8, <1>9, <1>10, <1>11, <1>12,
     <1>13, <1>14, <1>15, <1>16, <1>17, <1>18, <1>19, <1>20, <1>21, <1>22, <1>23
  DEF Next, Begin, Step, Jobs

\* What a purge has selected can only grow older before the purge comes to it.
LEMMA StepPurge ==
  ASSUME IInv, RowsAge, [Next]_vars
  PROVE  PurgesArchived' /\ AskedForArchived' /\ RetentionOver'
<1> USE NoDocAssumption, JobsAssumption
    DEF IInv, TypeOK, PathsOwn, WorkersPurge, SplitHasSource, CreatesInTurn, PurgesArchived,
        AskedForArchived, RetentionOver, RowsAge,
        Creating, Purging, Removing, Jobs, Labels, Exists, Active, Goto, Rest, Plan, Fresh, stores, paths, locals
<1>1. ASSUME NEW j \in Handlers, NEW new \in SUBSET Docs, Upload(j, new)
      PROVE  PurgesArchived' /\ AskedForArchived' /\ RetentionOver'
  BY <1>1 DEF Upload
<1>2. ASSUME NEW j \in Handlers, NEW d \in Docs, NEW new \in SUBSET Docs, Split(j, d, new)
      PROVE  PurgesArchived' /\ AskedForArchived' /\ RetentionOver'
  BY <1>2 DEF Split
<1>3. ASSUME NEW j \in Handlers, NEW d \in Docs, SplitAuto(j, d)
      PROVE  PurgesArchived' /\ AskedForArchived' /\ RetentionOver'
  BY <1>3 DEF SplitAuto
<1>4. ASSUME NEW j \in Handlers, NEW d \in Docs, AskToArchive(j, d)
      PROVE  PurgesArchived' /\ AskedForArchived' /\ RetentionOver'
  BY <1>4 DEF AskToArchive
<1>5. ASSUME NEW j \in Handlers, NEW S \in SUBSET Docs, BulkDelete(j, S)
      PROVE  PurgesArchived' /\ AskedForArchived' /\ RetentionOver'
  BY <1>5 DEF BulkDelete
<1>6. ASSUME NEW j \in Jobs, NEW new \in SUBSET Docs, Propose(j, new)
      PROVE  PurgesArchived' /\ AskedForArchived' /\ RetentionOver'
  BY <1>6 DEF Propose
<1>7. ASSUME NEW j \in Jobs, NEW d \in left[j], PutObject(j, d)
      PROVE  PurgesArchived' /\ AskedForArchived' /\ RetentionOver'
  BY <1>7 DEF PutObject
<1>8. ASSUME NEW j \in Jobs, NEW d \in left[j], NEW hasValues \in BOOLEAN, NEW keep \in BOOLEAN, CreateRow(j, d, hasValues, keep)
      PROVE  PurgesArchived' /\ AskedForArchived' /\ RetentionOver'
  BY <1>8 DEF CreateRow, AfterLast
<1>9. ASSUME NEW j \in Jobs, DeleteSourceObject(j)
      PROVE  PurgesArchived' /\ AskedForArchived' /\ RetentionOver'
  BY <1>9 DEF DeleteSourceObject
<1>10. ASSUME NEW j \in Jobs, DeleteSourceValues(j)
      PROVE  PurgesArchived' /\ AskedForArchived' /\ RetentionOver'
  BY <1>10 DEF DeleteSourceValues
<1>11. ASSUME NEW j \in Jobs, DeleteSourceRow(j)
      PROVE  PurgesArchived' /\ AskedForArchived' /\ RetentionOver'
  BY <1>11 DEF DeleteSourceRow
<1>12. ASSUME NEW j \in Jobs, Archive(j)
      PROVE  PurgesArchived' /\ AskedForArchived' /\ RetentionOver'
  BY <1>12 DEF Archive
<1>13. ASSUME NEW j \in Jobs, Resolve(j)
      PROVE  PurgesArchived' /\ AskedForArchived' /\ RetentionOver'
  BY <1>13 DEF Resolve
<1>14. ASSUME NEW j \in Jobs, NEW d \in left[j], PurgeObject(j, d)
      PROVE  PurgesArchived' /\ AskedForArchived' /\ RetentionOver'
  BY <1>14 DEF PurgeObject
<1>15. ASSUME NEW j \in Jobs, NEW report \in SUBSET asked[j], PurgeRows(j, report)
      PROVE  PurgesArchived' /\ AskedForArchived' /\ RetentionOver'
  BY <1>15 DEF PurgeRows
<1>16. ASSUME NEW j \in Jobs, Fault(j)
      PROVE  PurgesArchived' /\ AskedForArchived' /\ RetentionOver'
  BY <1>16 DEF Fault
<1>17. ASSUME NEW w \in Workers, NEW S \in SUBSET Docs, StartPurge(w, S)
      PROVE  PurgesArchived' /\ AskedForArchived' /\ RetentionOver'
  BY <1>17 DEF StartPurge
<1>18. ASSUME NEW d \in Docs, Expire(d)
      PROVE  PurgesArchived' /\ AskedForArchived' /\ RetentionOver'
  BY <1>18 DEF Expire
<1>19. ASSUME NEW d \in Docs, AddValue(d)
      PROVE  PurgesArchived' /\ AskedForArchived' /\ RetentionOver'
  BY <1>19 DEF AddValue
<1>20. ASSUME Restart PROVE PurgesArchived' /\ AskedForArchived' /\ RetentionOver'
  BY <1>20 DEF Restart
<1>21. ASSUME UNCHANGED vars PROVE PurgesArchived' /\ AskedForArchived' /\ RetentionOver'
  BY <1>21 DEF vars
<1>22. ASSUME NEW j \in Handlers, NEW d \in Docs, NEW p \in Docs, CreateFile(j, d, p)
      PROVE  PurgesArchived' /\ AskedForArchived' /\ RetentionOver'
  BY <1>22 DEF CreateFile, Given
<1>23. ASSUME NEW j \in Handlers, NEW p \in Docs, UploadDocument(j, p)
      PROVE  PurgesArchived' /\ AskedForArchived' /\ RetentionOver'
  BY <1>23 DEF UploadDocument, Given
<1>24. QED
  BY <1>1, <1>2, <1>3, <1>4, <1>5, <1>6, <1>7, <1>8, <1>9, <1>10, <1>11, <1>12,
     <1>13, <1>14, <1>15, <1>16, <1>17, <1>18, <1>19, <1>20, <1>21, <1>22, <1>23
  DEF Next, Begin, Step, Jobs

\* The two stores stay in step, up to what the splits owe.
LEMMA StepStores ==
  ASSUME IInv, RowsAge, [Next]_vars
  PROVE  LiveHasObject' /\ NoOrphans' /\ ReportedAreGone'
<1> USE NoDocAssumption, JobsAssumption
    DEF IInv, TypeOK, PathsOwn, WorkersPurge, SplitHasSource, CreatesInTurn, CreatesAlone,
        PurgesArchived, AskedForArchived, LiveHasObject, NoOrphans, ReportedAreGone, RowsAge,
        Creating, Purging, Removing, Jobs, Labels, Exists, Active, Goto, Rest, Plan, Fresh, stores, paths, locals
<1>1. ASSUME NEW j \in Handlers, NEW new \in SUBSET Docs, Upload(j, new)
      PROVE  LiveHasObject' /\ NoOrphans' /\ ReportedAreGone'
  BY <1>1 DEF Upload
<1>2. ASSUME NEW j \in Handlers, NEW d \in Docs, NEW new \in SUBSET Docs, Split(j, d, new)
      PROVE  LiveHasObject' /\ NoOrphans' /\ ReportedAreGone'
  BY <1>2 DEF Split
<1>3. ASSUME NEW j \in Handlers, NEW d \in Docs, SplitAuto(j, d)
      PROVE  LiveHasObject' /\ NoOrphans' /\ ReportedAreGone'
  BY <1>3 DEF SplitAuto
<1>4. ASSUME NEW j \in Handlers, NEW d \in Docs, AskToArchive(j, d)
      PROVE  LiveHasObject' /\ NoOrphans' /\ ReportedAreGone'
  BY <1>4 DEF AskToArchive
<1>5. ASSUME NEW j \in Handlers, NEW S \in SUBSET Docs, BulkDelete(j, S)
      PROVE  LiveHasObject' /\ NoOrphans' /\ ReportedAreGone'
  BY <1>5 DEF BulkDelete
<1>6. ASSUME NEW j \in Jobs, NEW new \in SUBSET Docs, Propose(j, new)
      PROVE  LiveHasObject' /\ NoOrphans' /\ ReportedAreGone'
  BY <1>6 DEF Propose
<1>7. ASSUME NEW j \in Jobs, NEW d \in left[j], PutObject(j, d)
      PROVE  LiveHasObject' /\ NoOrphans' /\ ReportedAreGone'
  BY <1>7 DEF PutObject
<1>8. ASSUME NEW j \in Jobs, NEW d \in left[j], NEW hasValues \in BOOLEAN, NEW keep \in BOOLEAN, CreateRow(j, d, hasValues, keep)
      PROVE  LiveHasObject' /\ NoOrphans' /\ ReportedAreGone'
  BY <1>8 DEF CreateRow, AfterLast
<1>9. ASSUME NEW j \in Jobs, DeleteSourceObject(j)
      PROVE  LiveHasObject' /\ NoOrphans' /\ ReportedAreGone'
  BY <1>9 DEF DeleteSourceObject
<1>10. ASSUME NEW j \in Jobs, DeleteSourceValues(j)
      PROVE  LiveHasObject' /\ NoOrphans' /\ ReportedAreGone'
  BY <1>10 DEF DeleteSourceValues
<1>11. ASSUME NEW j \in Jobs, DeleteSourceRow(j)
      PROVE  LiveHasObject' /\ NoOrphans' /\ ReportedAreGone'
  BY <1>11 DEF DeleteSourceRow
<1>12. ASSUME NEW j \in Jobs, Archive(j)
      PROVE  LiveHasObject' /\ NoOrphans' /\ ReportedAreGone'
  BY <1>12 DEF Archive
<1>13. ASSUME NEW j \in Jobs, Resolve(j)
      PROVE  LiveHasObject' /\ NoOrphans' /\ ReportedAreGone'
  BY <1>13 DEF Resolve
<1>14. ASSUME NEW j \in Jobs, NEW d \in left[j], PurgeObject(j, d)
      PROVE  LiveHasObject' /\ NoOrphans' /\ ReportedAreGone'
  BY <1>14 DEF PurgeObject
<1>15. ASSUME NEW j \in Jobs, NEW report \in SUBSET asked[j], PurgeRows(j, report)
      PROVE  LiveHasObject' /\ NoOrphans' /\ ReportedAreGone'
  BY <1>15 DEF PurgeRows
<1>16. ASSUME NEW j \in Jobs, Fault(j)
      PROVE  LiveHasObject' /\ NoOrphans' /\ ReportedAreGone'
  BY <1>16 DEF Fault
<1>17. ASSUME NEW w \in Workers, NEW S \in SUBSET Docs, StartPurge(w, S)
      PROVE  LiveHasObject' /\ NoOrphans' /\ ReportedAreGone'
  BY <1>17 DEF StartPurge
<1>18. ASSUME NEW d \in Docs, Expire(d)
      PROVE  LiveHasObject' /\ NoOrphans' /\ ReportedAreGone'
  BY <1>18 DEF Expire
<1>19. ASSUME NEW d \in Docs, AddValue(d)
      PROVE  LiveHasObject' /\ NoOrphans' /\ ReportedAreGone'
  BY <1>19 DEF AddValue
<1>20. ASSUME Restart PROVE LiveHasObject' /\ NoOrphans' /\ ReportedAreGone'
  BY <1>20 DEF Restart
<1>21. ASSUME UNCHANGED vars PROVE LiveHasObject' /\ NoOrphans' /\ ReportedAreGone'
  BY <1>21 DEF vars
<1>22. ASSUME NEW j \in Handlers, NEW d \in Docs, NEW p \in Docs, CreateFile(j, d, p)
      PROVE  LiveHasObject' /\ NoOrphans' /\ ReportedAreGone'
  BY <1>22 DEF CreateFile, Given
<1>23. ASSUME NEW j \in Handlers, NEW p \in Docs, UploadDocument(j, p)
      PROVE  LiveHasObject' /\ NoOrphans' /\ ReportedAreGone'
  BY <1>23 DEF UploadDocument, Given
<1>24. QED
  BY <1>1, <1>2, <1>3, <1>4, <1>5, <1>6, <1>7, <1>8, <1>9, <1>10, <1>11, <1>12,
     <1>13, <1>14, <1>15, <1>16, <1>17, <1>18, <1>19, <1>20, <1>21, <1>22, <1>23
  DEF Next, Begin, Step, Jobs

\* What a step may remove.
LEMMA StepRemovals ==
  ASSUME IInv, RowsAge, [Next]_vars
  PROVE  MovedFirst /\ RetentionRespected
<1> USE NoDocAssumption, JobsAssumption
    DEF IInv, TypeOK, PathsOwn, WorkersPurge, SplitHasSource, CreatesInTurn,
        PurgesArchived, AskedForArchived, RetentionOver, RowsAge, MovedFirst, RetentionRespected,
        Creating, Purging, Removing, Jobs, Labels, Exists, Active, Goto, Rest, Plan, Fresh, stores, paths, locals
<1>1. ASSUME NEW j \in Handlers, NEW new \in SUBSET Docs, Upload(j, new)
      PROVE  MovedFirst /\ RetentionRespected
  BY <1>1 DEF Upload
<1>2. ASSUME NEW j \in Handlers, NEW d \in Docs, NEW new \in SUBSET Docs, Split(j, d, new)
      PROVE  MovedFirst /\ RetentionRespected
  BY <1>2 DEF Split
<1>3. ASSUME NEW j \in Handlers, NEW d \in Docs, SplitAuto(j, d)
      PROVE  MovedFirst /\ RetentionRespected
  BY <1>3 DEF SplitAuto
<1>4. ASSUME NEW j \in Handlers, NEW d \in Docs, AskToArchive(j, d)
      PROVE  MovedFirst /\ RetentionRespected
  BY <1>4 DEF AskToArchive
<1>5. ASSUME NEW j \in Handlers, NEW S \in SUBSET Docs, BulkDelete(j, S)
      PROVE  MovedFirst /\ RetentionRespected
  BY <1>5 DEF BulkDelete
<1>6. ASSUME NEW j \in Jobs, NEW new \in SUBSET Docs, Propose(j, new)
      PROVE  MovedFirst /\ RetentionRespected
  BY <1>6 DEF Propose
<1>7. ASSUME NEW j \in Jobs, NEW d \in left[j], PutObject(j, d)
      PROVE  MovedFirst /\ RetentionRespected
  BY <1>7 DEF PutObject
<1>8. ASSUME NEW j \in Jobs, NEW d \in left[j], NEW hasValues \in BOOLEAN, NEW keep \in BOOLEAN, CreateRow(j, d, hasValues, keep)
      PROVE  MovedFirst /\ RetentionRespected
  BY <1>8 DEF CreateRow, AfterLast
<1>9. ASSUME NEW j \in Jobs, DeleteSourceObject(j)
      PROVE  MovedFirst /\ RetentionRespected
  BY <1>9 DEF DeleteSourceObject
<1>10. ASSUME NEW j \in Jobs, DeleteSourceValues(j)
      PROVE  MovedFirst /\ RetentionRespected
  BY <1>10 DEF DeleteSourceValues
<1>11. ASSUME NEW j \in Jobs, DeleteSourceRow(j)
      PROVE  MovedFirst /\ RetentionRespected
  BY <1>11 DEF DeleteSourceRow
<1>12. ASSUME NEW j \in Jobs, Archive(j)
      PROVE  MovedFirst /\ RetentionRespected
  BY <1>12 DEF Archive
<1>13. ASSUME NEW j \in Jobs, Resolve(j)
      PROVE  MovedFirst /\ RetentionRespected
  BY <1>13 DEF Resolve
<1>14. ASSUME NEW j \in Jobs, NEW d \in left[j], PurgeObject(j, d)
      PROVE  MovedFirst /\ RetentionRespected
  BY <1>14 DEF PurgeObject
<1>15. ASSUME NEW j \in Jobs, NEW report \in SUBSET asked[j], PurgeRows(j, report)
      PROVE  MovedFirst /\ RetentionRespected
  BY <1>15 DEF PurgeRows
<1>16. ASSUME NEW j \in Jobs, Fault(j)
      PROVE  MovedFirst /\ RetentionRespected
  BY <1>16 DEF Fault
<1>17. ASSUME NEW w \in Workers, NEW S \in SUBSET Docs, StartPurge(w, S)
      PROVE  MovedFirst /\ RetentionRespected
  BY <1>17 DEF StartPurge
<1>18. ASSUME NEW d \in Docs, Expire(d)
      PROVE  MovedFirst /\ RetentionRespected
  BY <1>18 DEF Expire
<1>19. ASSUME NEW d \in Docs, AddValue(d)
      PROVE  MovedFirst /\ RetentionRespected
  BY <1>19 DEF AddValue
<1>20. ASSUME Restart PROVE MovedFirst /\ RetentionRespected
  BY <1>20 DEF Restart
<1>21. ASSUME UNCHANGED vars PROVE MovedFirst /\ RetentionRespected
  BY <1>21 DEF vars
<1>22. ASSUME NEW j \in Handlers, NEW d \in Docs, NEW p \in Docs, CreateFile(j, d, p)
      PROVE  MovedFirst /\ RetentionRespected
  BY <1>22 DEF CreateFile, Given
<1>23. ASSUME NEW j \in Handlers, NEW p \in Docs, UploadDocument(j, p)
      PROVE  MovedFirst /\ RetentionRespected
  BY <1>23 DEF UploadDocument, Given
<1>24. QED
  BY <1>1, <1>2, <1>3, <1>4, <1>5, <1>6, <1>7, <1>8, <1>9, <1>10, <1>11, <1>12,
     <1>13, <1>14, <1>15, <1>16, <1>17, <1>18, <1>19, <1>20, <1>21, <1>22, <1>23
  DEF Next, Begin, Step, Jobs

-----------------------------------------------------------------------------
\* All parts together are inductive.
LEMMA Inductive == Spec => []IInv
<1>1. IInv /\ [Next]_vars => IInv'
  <2> SUFFICES ASSUME IInv, [Next]_vars PROVE IInv'
    OBVIOUS
  <2>1. TypeOK' BY NextTypeOK DEF IInv
  <2>2. RowsAge BY StepRows
  <2>3. QED
    BY <2>1, <2>2, StepCreation, StepPurge, StepStores DEF IInv
<1>2. QED BY <1>1, InitIInv, PTL DEF Spec

\* A document on the lists can be opened, unless a split is removing it, failed
\* to, or was cut off by a restart.
THEOREM LiveDocumentsOpen == Spec => []LiveHasObject
<1>1. IInv => LiveHasObject BY DEF IInv
<1>2. QED BY <1>1, Inductive, PTL

\* Without failures the bucket holds nothing that no row leads to.
THEOREM NothingOrphaned == Spec => []NoOrphans
<1>1. IInv => NoOrphans BY DEF IInv
<1>2. QED BY <1>1, Inductive, PTL

\* bulkDelete never reports a document that is still there.
THEOREM ReportsTrue == Spec => []ReportedAreGone
<1>1. IInv => ReportedAreGone BY DEF IInv
<1>2. QED BY <1>1, Inductive, PTL

\* The object of a live document is deleted by a split only, after all its parts.
THEOREM ContentMoved == Spec => ContentMovedFirst
<1>1. IInv /\ [Next]_vars => [MovedFirst]_vars
  BY StepRows, StepRemovals
<1>2. QED BY <1>1, Inductive, PTL DEF Spec, ContentMovedFirst, MovedFirst

\* Nothing archived is destroyed before its time by the timer.
THEOREM RetentionHolds == Spec => RetentionKept
<1>1. IInv /\ [Next]_vars => [RetentionRespected]_vars
  BY StepRows, StepRemovals
<1>2. QED BY <1>1, Inductive, PTL DEF Spec, RetentionKept, RetentionRespected
=============================================================================
