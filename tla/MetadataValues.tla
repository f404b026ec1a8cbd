---------------------------- MODULE MetadataValues ----------------------------
(***************************************************************************)
(* The metadata of documents: the keys a company defines, which take free  *)
(* text or the values of a list only, and the values documents have for    *)
(* them.  The database knows nothing of the lists, and lets a document     *)
(* have several values of a key; what keeps values and lists in step are   *)
(* the checks the handlers make before they write.                         *)
(*                                                                         *)
(* All keys of the model have one name, which the handlers that are given  *)
(* names look up; names are not unique in the database either.             *)
(***************************************************************************)
EXTENDS Naturals, FiniteSets

CONSTANTS
  Keys,      \* ids of files_metadata_keys rows
  Docs,      \* documents
  Values,    \* trimmed values
  Calls,     \* requests, and extractions by the AI
  None,      \* no key, no document
  MaxRows,   \* bound on the rows of files_metadata_values ever created
  MaxFaults  \* bound on failed queries and restarts

ASSUME MaxRowsAssumption == MaxRows \in Nat
ASSUME FaultsAssumption == MaxFaults \in Nat
ASSUME NoneAssumption == None \notin Keys /\ None \notin Docs

VARIABLES
  kind,      \* value_kind of a key, "none" before it is created, or "deleted"
  allowed,   \* allowed_values of a key
  rows,      \* files_metadata_values: an id, a document, a key, a value
  used,      \* row ids handed out so far
  pc,        \* the await a call is at
  target,    \* the document a call writes to
  key,       \* the key a call writes values of, or changes
  todo,      \* the values it is to write, or those it must not find in use
  wrote,     \* those it has written
  found,     \* the id of the row an upsert has found, 0 for none
  want,      \* the kind and the list a change of a key is to set
  faults,    \* failed queries and restarts so far
  \* history
  keysMixed, \* somebody was at work while a key was changed
  docsMixed  \* two calls wrote to one document at a time

store == <<kind, allowed, rows, used>>
locals == <<target, key, todo, wrote, found, want>>
state == <<kind, allowed, rows, used, pc, target, key, todo, wrote, found, want, faults>>
vars == <<kind, allowed, rows, used, pc, target, key, todo, wrote, found, want, faults,
          keysMixed, docsMixed>>

Setting == [kind : {"free", "list"}, allowed : SUBSET Values]
Row == [id : 1..MaxRows, doc : Docs, key : Keys, value : Values]
Writing == {"makewipe", "makefind", "wipe", "fill", "find", "write"}
Changing == {"usage", "setkey"}
Labels == {"idle", "delkey", "done"} \cup Writing \cup Changing
Active(c) == pc[c] \notin {"idle", "done"}
Goto(c, l) == pc' = [pc EXCEPT ![c] = l]

KeyExists(k) == kind[k] \in {"free", "list"}
RowsOf(d, k) == {r \in rows : r.doc = d /\ r.key = k}
InUse(k) == {r.value : r \in {s \in rows : s.key = k}}

\* validateMetadataValueForKey.
Accepts(k, v) == kind[k] = "list" => v \in allowed[k]

-----------------------------------------------------------------------------
(* Writing values. *)

\* What a call remembers when it goes on to write the values V of key k to d.
Writes(c, d, k, V) ==
  /\ target' = [target EXCEPT ![c] = d]
  /\ key' = [key EXCEPT ![c] = k]
  /\ todo' = [todo EXCEPT ![c] = V]
  /\ UNCHANGED <<store, wrote, found, want, faults>>

\* The handlers that are given a name take a key that has it; when there is
\* none they go on to create one.
ByName(c, d, V, next, make) ==
  \/ \E k \in Keys :
       /\ KeyExists(k) /\ \A v \in V : Accepts(k, v)
       /\ Writes(c, d, k, V)
       /\ Goto(c, next)
  \/ /\ \A k \in Keys : ~KeyExists(k)
     /\ Writes(c, d, None, V)
     /\ Goto(c, make)

\* updateFileMetadata: the document is to have these values and no others.
Replace(c, d, V) ==
  /\ pc[c] = "idle"
  /\ IF V = {} THEN Writes(c, d, None, {}) /\ Goto(c, "wipe")
               ELSE ByName(c, d, V, "wipe", "makewipe")

\* bulkUpdateMetadata, of which this is one document and one entry.
BulkUpdate(c, d, v) == pc[c] = "idle" /\ ByName(c, d, {v}, "find", "makefind")

\* extractAndApplyMetadataFromOcr is given the id of the key.  What Gemini
\* answers is checked against the key as it was before the question; a value out
\* of its list is skipped.
Extract(c, d, k, v) ==
  /\ pc[c] = "idle" /\ KeyExists(k) /\ Accepts(k, v)
  /\ Writes(c, d, k, {v})
  /\ Goto(c, "find")

\* uploadFlatFile and the splits write the values of a document they create.
Insert(c, d, k, v) ==
  /\ pc[c] = "idle" /\ KeyExists(k) /\ Accepts(k, v)
  /\ \A r \in rows : r.doc # d
  /\ \A b \in Calls : target[b] # d
  /\ Writes(c, d, k, {v})
  /\ Goto(c, "fill")

\* A key for a name that has none takes free text.
MakeKey(c, k) ==
  /\ pc[c] \in {"makewipe", "makefind"} /\ kind[k] = "none"
  /\ kind' = [kind EXCEPT ![k] = "free"]
  /\ key' = [key EXCEPT ![c] = k]
  /\ Goto(c, IF pc[c] = "makewipe" THEN "wipe" ELSE "find")
  /\ UNCHANGED <<allowed, rows, used, target, todo, wrote, found, want, faults>>

\* Mutant of Wipe: keeps the values it is about to write.
WipeOthersOnly(c) ==
  /\ pc[c] = "wipe"
  /\ rows' = {r \in rows : r.doc # target[c] \/ r.value \in todo[c]}
  /\ Goto(c, IF todo[c] = {} THEN "done" ELSE "fill")
  /\ UNCHANGED <<kind, allowed, used, locals, faults>>

\* A replacement deletes all values of the document, then creates its own.
Wipe(c) ==
  /\ pc[c] = "wipe"
  /\ rows' = {r \in rows : r.doc # target[c]}
  /\ Goto(c, IF todo[c] = {} THEN "done" ELSE "fill")
  /\ UNCHANGED <<kind, allowed, used, locals, faults>>

\* A new row refers to a key, which must be there: otherwise the call ends with an
\* error, and what it has deleted and written stays as it is.
NewRow(c, v) ==
  /\ KeyExists(key[c]) /\ used < MaxRows
  /\ used' = used + 1
  /\ rows' = rows \cup {[id |-> used + 1, doc |-> target[c], key |-> key[c], value |-> v]}
NoRow(c) == ~KeyExists(key[c]) /\ UNCHANGED <<rows, used>>

Fill(c, v) ==
  /\ pc[c] = "fill" /\ v \in todo[c] \ wrote[c]
  /\ \/ /\ NewRow(c, v)
        /\ wrote' = [wrote EXCEPT ![c] = @ \cup {v}]
        /\ Goto(c, IF wrote'[c] = todo[c] THEN "done" ELSE "fill")
     \/ NoRow(c) /\ Goto(c, "done") /\ UNCHANGED wrote
  /\ UNCHANGED <<kind, allowed, target, key, todo, found, want, faults>>

\* An upsert looks for a row of the key, any of them if there are several, and
\* updates it by its id, or creates one.
Find(c) ==
  /\ pc[c] = "find"
  /\ \/ \E r \in RowsOf(target[c], key[c]) : found' = [found EXCEPT ![c] = r.id]
     \/ RowsOf(target[c], key[c]) = {} /\ found' = [found EXCEPT ![c] = 0]
  /\ Goto(c, "write")
  /\ UNCHANGED <<store, target, key, todo, wrote, want, faults>>

UpdateRow(c, v) ==
  /\ rows' = {IF r.id = found[c] THEN [r EXCEPT !.value = v] ELSE r : r \in rows}
  /\ UNCHANGED used

\* An update of a row that is gone is an error, too, and writes nothing.
WriteValue(c, v) ==
  /\ pc[c] = "write" /\ v \in todo[c]
  /\ IF found[c] # 0 THEN UpdateRow(c, v) ELSE NewRow(c, v) \/ NoRow(c)
  /\ Goto(c, "done")
  /\ UNCHANGED <<kind, allowed, locals, faults>>

-----------------------------------------------------------------------------
(* The keys. *)

\* A list has at least one value; a key of free text has none.
Valid(s) == s.kind = "list" <=> s.allowed # {}

\* createFilesMetadataKey: a name may be given twice.
CreateKey(c, k, s) ==
  /\ pc[c] = "idle" /\ kind[k] = "none" /\ Valid(s)
  /\ kind' = [kind EXCEPT ![k] = s.kind]
  /\ allowed' = [allowed EXCEPT ![k] = s.allowed]
  /\ Goto(c, "done")
  /\ UNCHANGED <<rows, used, locals, faults>>

\* Mutant of Lost: a key that becomes a list is not checked.
LostUnlessNew(k, s) ==
  IF s.kind = "list" /\ kind[k] = "list" THEN allowed[k] \ s.allowed ELSE {}

\* The values a change must not find in use: those a list loses, or all that are
\* not in a new list.
Lost(k, s) ==
  IF s.kind = "free" THEN {}
  ELSE IF kind[k] = "list" THEN allowed[k] \ s.allowed ELSE Values \ s.allowed

\* updateFilesMetadataKey: the key as it is loaded decides what is checked.
UpdateKey(c, k, s) ==
  /\ pc[c] = "idle" /\ KeyExists(k) /\ Valid(s)
  /\ key' = [key EXCEPT ![c] = k]
  /\ want' = [want EXCEPT ![c] = s]
  /\ todo' = [todo EXCEPT ![c] = Lost(k, s)]
  /\ Goto(c, "usage")
  /\ UNCHANGED <<store, target, wrote, found, faults>>

\* assertEnumOptionsNotRemovedWhileInUse, assertPredefinedListCoversExistingValues:
\* 409 when one of the values is in use.
CheckUsage(c) ==
  /\ pc[c] = "usage"
  /\ Goto(c, IF InUse(key[c]) \cap todo[c] = {} THEN "setkey" ELSE "done")
  /\ UNCHANGED <<store, locals, faults>>

SetKey(c) ==
  /\ pc[c] = "setkey"
  /\ IF KeyExists(key[c])
     THEN /\ kind' = [kind EXCEPT ![key[c]] = want[c].kind]
          /\ allowed' = [allowed EXCEPT ![key[c]] = want[c].allowed]
     ELSE UNCHANGED <<kind, allowed>>
  /\ Goto(c, "done")
  /\ UNCHANGED <<rows, used, locals, faults>>

\* deleteFilesMetadataKey: the database refuses while a value refers to the key.
DeleteKey(c, k) ==
  /\ pc[c] = "idle" /\ KeyExists(k)
  /\ key' = [key EXCEPT ![c] = k]
  /\ Goto(c, "delkey")
  /\ UNCHANGED <<store, target, todo, wrote, found, want, faults>>

DropKey(c) ==
  /\ pc[c] = "delkey"
  /\ kind' = IF InUse(key[c]) = {} THEN [kind EXCEPT ![key[c]] = "deleted"] ELSE kind
  /\ Goto(c, "done")
  /\ UNCHANGED <<allowed, rows, used, locals, faults>>

\* A query of the call fails, or the server restarts: the call ends in the middle.
Fault(c) ==
  /\ faults < MaxFaults /\ Active(c)
  /\ faults' = faults + 1
  /\ Goto(c, "done")
  /\ UNCHANGED <<store, locals>>

-----------------------------------------------------------------------------
\* A company with one key and no document with metadata.
Init ==
  /\ \E k \in Keys, s \in Setting :
       /\ Valid(s)
       /\ kind = [l \in Keys |-> IF l = k THEN s.kind ELSE "none"]
       /\ allowed = [l \in Keys |-> IF l = k THEN s.allowed ELSE {}]
  /\ rows = {} /\ used = 0
  /\ pc = [c \in Calls |-> "idle"]
  /\ target = [c \in Calls |-> None]
  /\ key = [c \in Calls |-> None]
  /\ todo = [c \in Calls |-> {}]
  /\ wrote = [c \in Calls |-> {}]
  /\ found = [c \in Calls |-> 0]
  /\ want = [c \in Calls |-> [kind |-> "free", allowed |-> {}]]
  /\ faults = 0
  /\ keysMixed = FALSE /\ docsMixed = FALSE

Begin(c) ==
  \/ \E d \in Docs, V \in SUBSET Values : Replace(c, d, V)
  \/ \E d \in Docs, v \in Values : BulkUpdate(c, d, v)
  \/ \E d \in Docs, k \in Keys, v \in Values : Extract(c, d, k, v) \/ Insert(c, d, k, v)
  \/ \E k \in Keys, s \in Setting : CreateKey(c, k, s) \/ UpdateKey(c, k, s)
  \/ \E k \in Keys : DeleteKey(c, k)

Step(c) ==
  \/ \E k \in Keys : MakeKey(c, k)
  \/ Wipe(c)
  \/ \E v \in Values : Fill(c, v) \/ WriteValue(c, v)
  \/ Find(c)
  \/ CheckUsage(c) \/ SetKey(c) \/ DropKey(c)

Act == \E c \in Calls : Begin(c) \/ Step(c) \/ Fault(c)

\* Nobody else is at work while a key is changed.
KeysQuiet ==
  \A b, c \in Calls : b # c /\ pc[b] \in Changing => ~Active(c)

\* No two calls write to one document at a time.
DocsQuiet ==
  \A b, c \in Calls :
    b # c /\ pc[b] \in Writing /\ pc[c] \in Writing => target[b] # target[c]

Next ==
  /\ Act
  /\ keysMixed' = (keysMixed \/ ~KeysQuiet')
  /\ docsMixed' = (docsMixed \/ ~DocsQuiet')

Spec == Init /\ [][Next]_vars

-----------------------------------------------------------------------------
TypeOK ==
  /\ kind \in [Keys -> {"none", "free", "list", "deleted"}]
  /\ allowed \in [Keys -> SUBSET Values]
  /\ rows \subseteq Row
  /\ used \in 0..MaxRows
  /\ pc \in [Calls -> Labels]
  /\ target \in [Calls -> Docs \cup {None}]
  /\ key \in [Calls -> Keys \cup {None}]
  /\ todo \in [Calls -> SUBSET Values]
  /\ wrote \in [Calls -> SUBSET Values]
  /\ found \in [Calls -> 0..MaxRows]
  /\ want \in [Calls -> Setting]
  /\ faults \in 0..MaxFaults

\* Every value of a list key is one of its list, as long as nobody has written while
\* a key was changed; writers may overlap and break off as they like.  It is also
\* what a comment claims without that proviso: "When setting predefined_list,
\* every value currently stored for this key must appear in the new list"
\* (files-metadata-validation.ts).
ListRespected == ~keysMixed => \A r \in rows : Accepts(r.key, r.value)

\* An upsert creates a row only for a document that has none for the key, as long
\* as no two calls have written to one document at a time; the table itself lets it
\* have several.
UpsertsDoNotDuplicate ==
  [][~docsMixed' => \A c \in Calls : pc[c] = "write" /\ pc'[c] = "done" /\ used' # used =>
       RowsOf(target[c], key[c]) = {}]_vars

\* A replacement that comes to its end leaves the document with the values it was
\* given, once each, and no others, under the same proviso.  It is also what a
\* comment claims without it: "Replace all metadata key-value entries for a file"
\* (companies.controller.ts).
ReplacementIsExact ==
  [][~docsMixed' => \A c \in Calls :
       LET mine == {r \in rows' : r.doc = target[c]} IN
       pc[c] \in {"wipe", "fill"} /\ pc'[c] = "done" /\ wrote'[c] = todo[c] /\ faults' = faults =>
         /\ {r.value : r \in mine} = todo[c]
         /\ Cardinality(mine) = Cardinality(todo[c])]_vars
=============================================================================
