------------------------ MODULE MetadataValuesProofs ------------------------
(***************************************************************************)
(* Lists and values stay in step, for any keys, documents, values and      *)
(* calls, as long as nobody writes while a key is changed; upserts do not  *)
(* duplicate and replacements leave exactly what they were given, as long  *)
(* as no two calls write to one document at a time.                        *)
(***************************************************************************)
EXTENDS MetadataValues, FiniteSetTheorems, TLAPS

\* A call at these awaits has its key and its document.
KeysKnown ==
  \A c \in Calls :
    /\ pc[c] \in {"fill", "find", "write", "delkey"} \cup Changing => key[c] \in Keys
    /\ pc[c] = "wipe" /\ todo[c] # {} => key[c] \in Keys
    /\ pc[c] \in Writing => target[c] \in Docs

\* The ids of the rows are theirs alone.
RowsNumbered ==
  /\ \A r \in rows : r.id <= used
  /\ \A p, q \in rows : p.id = q.id => p = q

\* A row that an upsert has found is one of its document and its key, whatever
\* happens to it until the upsert writes to it.
FoundIsOfKey ==
  \A c \in Calls : pc[c] = "write" =>
    /\ found[c] <= used
    /\ \A r \in rows : r.id = found[c] => r.doc = target[c] /\ r.key = key[c]

Base == TypeOK /\ KeysKnown /\ RowsNumbered /\ FoundIsOfKey

\* The row that a call would create.
NumberedRow(c, v) == [id |-> used + 1, doc |-> target[c], key |-> key[c], value |-> v]

\* It is a row indeed.
LEMMA RowIsTyped ==
  ASSUME Base, NEW c \in Calls, NEW v \in Values, pc[c] \in {"fill", "write"}, NewRow(c, v)
  PROVE  /\ rows' = rows \cup {NumberedRow(c, v)}
         /\ used' = used + 1
         /\ NumberedRow(c, v) \in Row
         /\ used < MaxRows
<1>1. key[c] \in Keys /\ target[c] \in Docs
  BY DEF Base, KeysKnown, Writing
<1>2. used + 1 \in 1..MaxRows
  BY MaxRowsAssumption DEF Base, TypeOK, NewRow
<1>3. QED BY <1>1, <1>2 DEF NewRow, NumberedRow, Row

\* An update changes the values of the row with its id, and nothing else.
LEMMA UpdatedRows ==
  ASSUME Base, NEW c \in Calls, NEW v \in Values, UpdateRow(c, v)
  PROVE  /\ rows' \subseteq Row
         /\ \A q \in rows' : \E r \in rows : /\ q.id = r.id /\ q.doc = r.doc /\ q.key = r.key
                                             /\ q = r \/ (q.id = found[c] /\ q.value = v)
         /\ \A p, q \in rows' : p.id = q.id => p = q
<1> DEFINE New(r) == IF r.id = found[c] THEN [r EXCEPT !.value = v] ELSE r
<1>1. rows' = {New(r) : r \in rows}
  BY DEF UpdateRow
<1>2. ASSUME NEW r \in rows
      PROVE  /\ New(r) \in Row
             /\ New(r).id = r.id /\ New(r).doc = r.doc /\ New(r).key = r.key
             /\ New(r) = r \/ (New(r).id = found[c] /\ New(r).value = v)
  <2>1. r \in Row BY DEF Base, TypeOK
  <2>2. QED BY <2>1 DEF Row
<1> HIDE DEF New
<1>3. ASSUME NEW p \in rows', NEW q \in rows', p.id = q.id PROVE p = q
  <2>1. PICK r \in rows : p = New(r) BY <1>1
  <2>2. PICK s \in rows : q = New(s) BY <1>1
  <2>3. r = s BY <1>2, <1>3, <2>1, <2>2 DEF Base, RowsNumbered
  <2>4. QED BY <2>1, <2>2, <2>3
<1>4. QED BY <1>1, <1>2, <1>3

\* Every step keeps the types, and what a call knows of its key and its row.
LEMMA NextBase ==
  ASSUME Base, [Act]_state
  PROVE  Base'
<1> USE MaxRowsAssumption, FaultsAssumption, NoneAssumption
    DEF Base, TypeOK, Setting, Row, Labels, Writing, Changing, Active, Goto, Valid, KeyExists, KeysKnown,
        RowsNumbered, FoundIsOfKey, store, locals
<1>1. ASSUME NEW c \in Calls, NEW d \in Docs, NEW V \in SUBSET Values, Replace(c, d, V)
      PROVE  Base'
  <2>1. CASE V = {} /\ Writes(c, d, None, {}) /\ Goto(c, "wipe")
    BY <1>1, <2>1 DEF Replace, Writes
  <2>2. ASSUME NEW k \in Keys, KeyExists(k), \A v \in V : Accepts(k, v), Writes(c, d, k, V), Goto(c, "wipe"),
               pc[c] = "idle"
        PROVE  Base'
    BY <2>2 DEF Writes
  <2>3. CASE (\A k \in Keys : ~KeyExists(k)) /\ Writes(c, d, None, V) /\ Goto(c, "makewipe") /\ pc[c] = "idle"
    BY <2>3 DEF Writes
  <2>4. QED BY <1>1, <2>1, <2>2, <2>3 DEF Replace, ByName
<1>2. ASSUME NEW c \in Calls, NEW d \in Docs, NEW v \in Values, BulkUpdate(c, d, v)
      PROVE  Base'
  <2>2. ASSUME NEW k \in Keys, KeyExists(k), Accepts(k, v), Writes(c, d, k, {v}), Goto(c, "find"),
               pc[c] = "idle"
        PROVE  Base'
    BY <2>2 DEF Writes
  <2>3. CASE (\A k \in Keys : ~KeyExists(k)) /\ Writes(c, d, None, {v}) /\ Goto(c, "makefind") /\ pc[c] = "idle"
    BY <2>3 DEF Writes
  <2>4. QED BY <1>2, <2>2, <2>3 DEF BulkUpdate, ByName
<1>3. ASSUME NEW c \in Calls, NEW d \in Docs, NEW k \in Keys, NEW v \in Values, Extract(c, d, k, v)
      PROVE  Base'
  BY <1>3 DEF Extract, Writes
<1>4. ASSUME NEW c \in Calls, NEW d \in Docs, NEW k \in Keys, NEW v \in Values, Insert(c, d, k, v)
      PROVE  Base'
  BY <1>4 DEF Insert, Writes
<1>5. ASSUME NEW c \in Calls, NEW k \in Keys, NEW s \in Setting, CreateKey(c, k, s)
      PROVE  Base'
  BY <1>5 DEF CreateKey
<1>6. ASSUME NEW c \in Calls, NEW k \in Keys, NEW s \in Setting, UpdateKey(c, k, s)
      PROVE  Base'
  BY <1>6 DEF UpdateKey, Lost
<1>7. ASSUME NEW c \in Calls, NEW k \in Keys, DeleteKey(c, k)
      PROVE  Base'
  BY <1>7 DEF DeleteKey
<1>8. ASSUME NEW c \in Calls, NEW k \in Keys, MakeKey(c, k)
      PROVE  Base'
  BY <1>8 DEF MakeKey
<1>9. ASSUME NEW c \in Calls, Wipe(c)
      PROVE  Base'
  BY <1>9 DEF Wipe
<1>10. ASSUME NEW c \in Calls, NEW v \in Values, Fill(c, v)
      PROVE  Base'
  <2>1. CASE NewRow(c, v)
    <3>1. rows' = rows \cup {NumberedRow(c, v)} /\ used' = used + 1 /\ NumberedRow(c, v) \in Row /\ used < MaxRows
      BY <1>10, <2>1, RowIsTyped DEF Fill
    <3>2. QED
      <4>1. TypeOK'
        <5>1. rows' \subseteq Row
          BY <3>1
        <5>2. used' \in 0..MaxRows
          BY <3>1
        <5>3. pc' \in [Calls -> Labels] /\ todo' \in [Calls -> SUBSET Values]
          BY <1>10 DEF Fill
        <5>4. wrote' \in [Calls -> SUBSET Values]
          BY <1>10 DEF Fill
        <5>5. QED BY <1>10, <5>1, <5>2, <5>3, <5>4 DEF Fill
      <4>2. KeysKnown'
        BY <1>10, <3>1 DEF Fill, NumberedRow
      <4>3. RowsNumbered'
        BY <1>10, <3>1 DEF Fill, NumberedRow
      <4>4. FoundIsOfKey'
        BY <1>10, <3>1 DEF Fill, NumberedRow
      <4>5. QED BY <4>1, <4>2, <4>3, <4>4
  <2>2. CASE ~KeyExists(key[c]) /\ NoRow(c)
    <3>1. /\ pc' = [pc EXCEPT ![c] = "done"]
          /\ UNCHANGED <<kind, allowed, rows, used, target, key, todo, wrote, found, want, faults>>
      BY <1>10, <2>2 DEF Fill, NewRow, NoRow
    <3>2. QED BY <3>1
  <2>3. QED BY <1>10, <2>1, <2>2 DEF Fill, NoRow
<1>11. ASSUME NEW c \in Calls, NEW v \in Values, WriteValue(c, v)
      PROVE  Base'
  <2>1. CASE found[c] # 0
    <3>1. UpdateRow(c, v) BY <1>11, <2>1 DEF WriteValue
    <3>2. /\ rows' \subseteq Row
          /\ \A q \in rows' : \E r \in rows :
               /\ q.id = r.id /\ q.doc = r.doc /\ q.key = r.key
               /\ q = r \/ (q.id = found[c] /\ q.value = v)
          /\ \A p, q \in rows' : p.id = q.id => p = q
      BY <3>1, UpdatedRows
    <3>3. QED
      <4>1. TypeOK'
        BY <1>11, <2>1, <3>1, <3>2 DEF WriteValue, UpdateRow
      <4>2. KeysKnown'
        BY <1>11, <2>1, <3>1, <3>2 DEF WriteValue, UpdateRow
      <4>3. RowsNumbered'
        BY <1>11, <2>1, <3>1, <3>2 DEF WriteValue, UpdateRow
      <4>4. FoundIsOfKey'
        BY <1>11, <2>1, <3>1, <3>2 DEF WriteValue, UpdateRow
      <4>5. QED BY <4>1, <4>2, <4>3, <4>4
  <2>2. CASE found[c] = 0 /\ NewRow(c, v)
    <3>1. rows' = rows \cup {NumberedRow(c, v)} /\ used' = used + 1 /\ NumberedRow(c, v) \in Row /\ used < MaxRows
      BY <1>11, <2>2, RowIsTyped DEF WriteValue
    <3>2. QED
      <4>1. TypeOK'
        BY <1>11, <3>1 DEF WriteValue, NumberedRow
      <4>2. KeysKnown'
        BY <1>11, <3>1 DEF WriteValue, NumberedRow
      <4>3. RowsNumbered'
        BY <1>11, <3>1 DEF WriteValue, NumberedRow
      <4>4. FoundIsOfKey'
        BY <1>11, <3>1 DEF WriteValue, NumberedRow
      <4>5. QED BY <4>1, <4>2, <4>3, <4>4
  <2>3. CASE found[c] = 0 /\ NoRow(c)
    BY <1>11, <2>3 DEF WriteValue, NoRow
  <2>4. QED BY <1>11, <2>1, <2>2, <2>3 DEF WriteValue
<1>12. ASSUME NEW c \in Calls, Find(c)
      PROVE  Base'
  BY <1>12 DEF Find, RowsOf
<1>13. ASSUME NEW c \in Calls, CheckUsage(c)
      PROVE  Base'
  BY <1>13 DEF CheckUsage
<1>14. ASSUME NEW c \in Calls, SetKey(c)
      PROVE  Base'
  BY <1>14 DEF SetKey
<1>15. ASSUME NEW c \in Calls, DropKey(c)
      PROVE  Base'
  BY <1>15 DEF DropKey
<1>16. ASSUME NEW c \in Calls, Fault(c)
      PROVE  Base'
  BY <1>16 DEF Fault
<1>17. CASE UNCHANGED state
  BY <1>17 DEF state
<1>18. QED
  BY <1>1, <1>2, <1>3, <1>4, <1>5, <1>6, <1>7, <1>8, <1>9,
     <1>10, <1>11, <1>12, <1>13, <1>14, <1>15, <1>16, <1>17
  DEF Act, Begin, Step

\* The types hold initially.
LEMMA InitTypeOK == Init => TypeOK
<1> SUFFICES ASSUME Init PROVE TypeOK
  OBVIOUS
<1>1. /\ used \in 0..MaxRows /\ faults \in 0..MaxFaults
      /\ found \in [Calls -> 0..MaxRows]
  BY MaxRowsAssumption, FaultsAssumption DEF Init
<1>2. /\ kind \in [Keys -> {"none", "free", "list", "deleted"}]
      /\ allowed \in [Keys -> SUBSET Values]
  BY DEF Init, Setting
<1>3. want \in [Calls -> Setting]
  BY DEF Init, Setting
<1>4. QED BY <1>1, <1>2, <1>3 DEF Init, TypeOK, Labels

LEMMA InitBase == Init => Base
<1> SUFFICES ASSUME Init PROVE Base
  OBVIOUS
<1>1. TypeOK BY InitTypeOK
<1>2. QED BY <1>1 DEF Init, Base, KeysKnown, RowsNumbered, FoundIsOfKey, Changing, Writing

\* The keys, the rows and the calls always have a value of their types.
THEOREM TypeCorrect == Spec => []TypeOK
<1>1. Base /\ [Next]_vars => Base'
  BY NextBase DEF Next, vars, state
<1>2. Base => TypeOK BY DEF Base
<1>3. QED BY <1>1, <1>2, InitBase, PTL DEF Spec

-----------------------------------------------------------------------------
(* Lists and values.  A call that is about to write holds values its key    *)
(* accepts, and a call that is about to change a key knows which values may *)
(* be in the way; both go stale only if a key is changed meanwhile.         *)

\* What a foreign key of the database guarantees.
RowsHaveKeys == \A r \in rows : KeyExists(r.key)

WritesChecked ==
  \A c \in Calls : pc[c] \in {"wipe", "fill", "find", "write"} /\ key[c] # None =>
    kind[key[c]] # "none" /\ \A v \in todo[c] : Accepts(key[c], v)

ChangesChecked ==
  \A c \in Calls :
    /\ pc[c] \in Changing \cup {"delkey"} => key[c] \in Keys /\ kind[key[c]] # "none"
    /\ pc[c] \in Changing /\ want[c].kind = "list" =>
         \A r \in rows : r.key = key[c] =>
           r.value \in want[c].allowed \/ (pc[c] = "usage" /\ r.value \in todo[c])

ValuesInLists == \A r \in rows : Accepts(r.key, r.value)

LInv ==
  /\ Base
  /\ KeysQuiet
  /\ RowsHaveKeys
  /\ WritesChecked
  /\ ChangesChecked
  /\ ValuesInLists

\* An upsert writes to a row of its own key.
LEMMA UpdateKeepsLists ==
  ASSUME Base, RowsHaveKeys, ValuesInLists, NEW c \in Calls, NEW v \in Values, pc[c] = "write",
         UpdateRow(c, v), Accepts(key[c], v), UNCHANGED <<kind, allowed>>
  PROVE  RowsHaveKeys' /\ ValuesInLists'
<1>1. ASSUME NEW q \in rows' PROVE KeyExists(q.key) /\ Accepts(q.key, q.value)
  <2>1. PICK r \in rows : /\ q.id = r.id /\ q.key = r.key
                          /\ q = r \/ (q.id = found[c] /\ q.value = v)
    BY UpdatedRows
  <2>2. KeyExists(r.key) /\ Accepts(r.key, r.value)
    BY DEF RowsHaveKeys, ValuesInLists
  <2>3. r.id = found[c] => r.key = key[c]
    BY DEF Base, FoundIsOfKey
  <2>4. CASE q = r
    BY <2>2, <2>4
  <2>5. CASE q.id = found[c] /\ q.value = v
    <3>1. q.key = key[c] BY <2>1, <2>3, <2>5
    <3>2. KeyExists(q.key) BY <2>1, <2>2 DEF KeyExists
    <3>3. Accepts(q.key, q.value) BY <3>1, <2>5 DEF Accepts
    <3>4. QED BY <3>2, <3>3
  <2>6. QED BY <2>1, <2>4, <2>5
<1>2. QED BY <1>1 DEF RowsHaveKeys, ValuesInLists, KeyExists, Accepts

\* Only a key that no row refers to is deleted.
LEMMA DropKeepsLists ==
  ASSUME LInv, NEW c \in Calls, DropKey(c)
  PROVE  RowsHaveKeys' /\ WritesChecked' /\ ChangesChecked' /\ ValuesInLists'
<1>1. pc[c] = "delkey" /\ key[c] \in Keys /\ kind[key[c]] # "none" /\ kind \in [Keys -> {"none", "free", "list", "deleted"}]
  BY DEF DropKey, LInv, ChangesChecked, Base, TypeOK
<1>2. pc' = [pc EXCEPT ![c] = "done"] /\ pc \in [Calls -> Labels]
  BY DEF DropKey, Goto, LInv, Base, TypeOK
<1>3. UNCHANGED <<allowed, rows, target, key, todo, want>>
  BY DEF DropKey, locals
<1>4. CASE InUse(key[c]) # {}
  <2>1. UNCHANGED kind BY <1>4 DEF DropKey
  <2>2. QED
    BY <1>1, <1>2, <1>3, <2>1 DEF LInv, RowsHaveKeys, WritesChecked, ChangesChecked, ValuesInLists, KeyExists,
       Accepts, Changing
<1>5. CASE InUse(key[c]) = {}
  <2>1. kind' = [kind EXCEPT ![key[c]] = "deleted"]
    BY <1>5 DEF DropKey
  <2>2. \A r \in rows : r.key # key[c]
    BY <1>5 DEF InUse
  <2>3. \A k \in Keys : /\ kind[k] # "none" => kind'[k] # "none"
                        /\ k # key[c] => kind'[k] = kind[k]
                        /\ kind'[k] = "list" => kind[k] = "list"
    BY <1>1, <2>1
  <2>4. \A r \in rows : r.key \in Keys
    BY DEF LInv, Base, TypeOK, Row
  <2>5. RowsHaveKeys' /\ ValuesInLists'
    BY <1>3, <2>2, <2>3, <2>4 DEF LInv, RowsHaveKeys, ValuesInLists, KeyExists, Accepts
  <2>6. \A b \in Calls : pc'[b] # "done" => pc'[b] = pc[b]
    BY <1>2
  <2>7. WritesChecked'
    BY <1>3, <2>3, <2>6 DEF LInv, WritesChecked, Accepts, Base, TypeOK
  <2>8. ChangesChecked'
    BY <1>3, <2>3, <2>6 DEF LInv, ChangesChecked, Changing
  <2>9. QED BY <2>5, <2>7, <2>8
<1>6. QED BY <1>4, <1>5

\* Every step that changes no key under somebody's hands keeps the checks good.
LEMMA StepLists ==
  ASSUME LInv, [Act /\ KeysQuiet']_state
  PROVE  RowsHaveKeys' /\ WritesChecked' /\ ChangesChecked' /\ ValuesInLists'
<1> USE MaxRowsAssumption, FaultsAssumption, NoneAssumption
    DEF Base, TypeOK, Setting, Row, Labels, Writing, Changing, Active, Goto, Valid, KeyExists, Accepts, InUse,
        store, locals, KeysKnown, RowsNumbered, FoundIsOfKey, LInv, KeysQuiet, RowsHaveKeys, WritesChecked,
        ChangesChecked, ValuesInLists
<1>1. ASSUME NEW c \in Calls, NEW d \in Docs, NEW V \in SUBSET Values, Replace(c, d, V)
      PROVE  RowsHaveKeys' /\ WritesChecked' /\ ChangesChecked' /\ ValuesInLists'
  <2>1. CASE V = {} /\ Writes(c, d, None, {}) /\ Goto(c, "wipe")
    BY <1>1, <2>1 DEF Replace, Writes
  <2>2. ASSUME NEW k \in Keys, KeyExists(k), \A v \in V : Accepts(k, v), Writes(c, d, k, V), Goto(c, "wipe"),
               pc[c] = "idle"
        PROVE  RowsHaveKeys' /\ WritesChecked' /\ ChangesChecked' /\ ValuesInLists'
    BY <2>2 DEF Writes
  <2>3. CASE (\A k \in Keys : ~KeyExists(k)) /\ Writes(c, d, None, V) /\ Goto(c, "makewipe") /\ pc[c] = "idle"
    BY <2>3 DEF Writes
  <2>4. QED BY <1>1, <2>1, <2>2, <2>3 DEF Replace, ByName
<1>2. ASSUME NEW c \in Calls, NEW d \in Docs, NEW v \in Values, BulkUpdate(c, d, v)
      PROVE  RowsHaveKeys' /\ WritesChecked' /\ ChangesChecked' /\ ValuesInLists'
  <2>2. ASSUME NEW k \in Keys, KeyExists(k), Accepts(k, v), Writes(c, d, k, {v}), Goto(c, "find"),
               pc[c] = "idle"
        PROVE  RowsHaveKeys' /\ WritesChecked' /\ ChangesChecked' /\ ValuesInLists'
    BY <2>2 DEF Writes
  <2>3. CASE (\A k \in Keys : ~KeyExists(k)) /\ Writes(c, d, None, {v}) /\ Goto(c, "makefind") /\ pc[c] = "idle"
    BY <2>3 DEF Writes
  <2>4. QED BY <1>2, <2>2, <2>3 DEF BulkUpdate, ByName
<1>3. ASSUME NEW c \in Calls, NEW d \in Docs, NEW k \in Keys, NEW v \in Values, Extract(c, d, k, v)
      PROVE  RowsHaveKeys' /\ WritesChecked' /\ ChangesChecked' /\ ValuesInLists'
  BY <1>3 DEF Extract, Writes
<1>4. ASSUME NEW c \in Calls, NEW d \in Docs, NEW k \in Keys, NEW v \in Values, Insert(c, d, k, v)
      PROVE  RowsHaveKeys' /\ WritesChecked' /\ ChangesChecked' /\ ValuesInLists'
  BY <1>4 DEF Insert, Writes
<1>5. ASSUME NEW c \in Calls, NEW k \in Keys, NEW s \in Setting, CreateKey(c, k, s)
      PROVE  RowsHaveKeys' /\ WritesChecked' /\ ChangesChecked' /\ ValuesInLists'
  BY <1>5 DEF CreateKey
<1>6. ASSUME NEW c \in Calls, NEW k \in Keys, NEW s \in Setting, UpdateKey(c, k, s)
      PROVE  RowsHaveKeys' /\ WritesChecked' /\ ChangesChecked' /\ ValuesInLists'
  BY <1>6 DEF UpdateKey, Lost
<1>7. ASSUME NEW c \in Calls, NEW k \in Keys, DeleteKey(c, k)
      PROVE  RowsHaveKeys' /\ WritesChecked' /\ ChangesChecked' /\ ValuesInLists'
  BY <1>7 DEF DeleteKey
<1>8. ASSUME NEW c \in Calls, NEW k \in Keys, MakeKey(c, k)
      PROVE  RowsHaveKeys' /\ WritesChecked' /\ ChangesChecked' /\ ValuesInLists'
  BY <1>8 DEF MakeKey
<1>9. ASSUME NEW c \in Calls, Wipe(c)
      PROVE  RowsHaveKeys' /\ WritesChecked' /\ ChangesChecked' /\ ValuesInLists'
  BY <1>9 DEF Wipe
<1>10. ASSUME NEW c \in Calls, NEW v \in Values, Fill(c, v)
      PROVE  RowsHaveKeys' /\ WritesChecked' /\ ChangesChecked' /\ ValuesInLists'
  <2>1. CASE NewRow(c, v)
    <3>1. rows' = rows \cup {NumberedRow(c, v)} /\ used' = used + 1 /\ NumberedRow(c, v) \in Row /\ used < MaxRows
      BY <1>10, <2>1, RowIsTyped DEF Fill
    <3>2. QED
      <4>1. pc[c] = "fill" /\ \A b \in Calls : pc[b] \notin Changing
        BY <1>10 DEF Fill
      <4>2. v \in Values /\ v \in todo[c] /\ UNCHANGED <<kind, allowed, key, want, todo>>
        BY <1>10 DEF Fill
      <4>3. key[c] \in Keys /\ KeyExists(key[c])
        BY <2>1, <4>1 DEF NewRow
      <4>4. Accepts(key[c], v)
        BY <4>1, <4>2, <4>3
      <4>5. NumberedRow(c, v).key = key[c] /\ NumberedRow(c, v).value = v
        BY DEF NumberedRow
      <4>6. RowsHaveKeys' /\ ValuesInLists'
        BY <3>1, <4>2, <4>3, <4>4, <4>5
      <4>7. PICK l \in {"fill", "done"} : pc' = [pc EXCEPT ![c] = l]
        BY <1>10 DEF Fill
      <4>8. WritesChecked'
        BY <4>1, <4>2, <4>7
      <4>9. ChangesChecked'
        BY <4>1, <4>2, <4>7
      <4>10. QED BY <4>6, <4>8, <4>9
  <2>2. CASE ~KeyExists(key[c]) /\ NoRow(c)
    BY <1>10, <2>2 DEF Fill, NewRow, NoRow
  <2>3. QED BY <1>10, <2>1, <2>2 DEF Fill, NoRow
<1>11. ASSUME NEW c \in Calls, NEW v \in Values, WriteValue(c, v)
      PROVE  RowsHaveKeys' /\ WritesChecked' /\ ChangesChecked' /\ ValuesInLists'
  <2>1. CASE found[c] # 0
    <3>1. UpdateRow(c, v) BY <1>11, <2>1 DEF WriteValue
    <3>2. /\ rows' \subseteq Row
          /\ \A q \in rows' : \E r \in rows :
               /\ q.id = r.id /\ q.doc = r.doc /\ q.key = r.key
               /\ q = r \/ (q.id = found[c] /\ q.value = v)
          /\ \A p, q \in rows' : p.id = q.id => p = q
      BY <3>1, UpdatedRows
    <3>3. QED
      <4>1. pc[c] = "write" /\ \A b \in Calls : pc[b] \notin Changing
        BY <1>11 DEF WriteValue
      <4>2. Accepts(key[c], v) /\ v \in Values /\ UNCHANGED <<kind, allowed, key, want, todo>>
        BY <1>11 DEF WriteValue
      <4>3. pc' = [pc EXCEPT ![c] = "done"]
        BY <1>11 DEF WriteValue
      <4>4. RowsHaveKeys' /\ ValuesInLists'
        BY <3>1, <4>1, <4>2, UpdateKeepsLists
      <4>5. WritesChecked'
        BY <4>2, <4>3
      <4>6. ChangesChecked'
        BY <4>1, <4>2, <4>3
      <4>7. QED BY <4>4, <4>5, <4>6
  <2>2. CASE found[c] = 0 /\ NewRow(c, v)
    <3>1. rows' = rows \cup {NumberedRow(c, v)} /\ used' = used + 1 /\ NumberedRow(c, v) \in Row /\ used < MaxRows
      BY <1>11, <2>2, RowIsTyped DEF WriteValue
    <3>2. QED
      <4>1. pc[c] = "write" /\ \A b \in Calls : pc[b] \notin Changing
        BY <1>11 DEF WriteValue
      <4>2. v \in Values /\ v \in todo[c] /\ UNCHANGED <<kind, allowed, key, want, todo>>
        BY <1>11 DEF WriteValue
      <4>3. key[c] \in Keys /\ KeyExists(key[c])
        BY <2>2, <4>1 DEF NewRow
      <4>4. Accepts(key[c], v)
        BY <4>1, <4>2, <4>3
      <4>5. NumberedRow(c, v).key = key[c] /\ NumberedRow(c, v).value = v
        BY DEF NumberedRow
      <4>6. RowsHaveKeys' /\ ValuesInLists'
        BY <3>1, <4>2, <4>3, <4>4, <4>5
      <4>7. PICK l \in {"fill", "done"} : pc' = [pc EXCEPT ![c] = l]
        BY <1>11 DEF WriteValue
      <4>8. WritesChecked'
        BY <4>1, <4>2, <4>7
      <4>9. ChangesChecked'
        BY <4>1, <4>2, <4>7
      <4>10. QED BY <4>6, <4>8, <4>9
  <2>3. CASE found[c] = 0 /\ NoRow(c)
    BY <1>11, <2>3 DEF WriteValue, NoRow
  <2>4. QED BY <1>11, <2>1, <2>2, <2>3 DEF WriteValue
<1>12. ASSUME NEW c \in Calls, Find(c)
      PROVE  RowsHaveKeys' /\ WritesChecked' /\ ChangesChecked' /\ ValuesInLists'
  BY <1>12 DEF Find, RowsOf
<1>13. ASSUME NEW c \in Calls, CheckUsage(c)
      PROVE  RowsHaveKeys' /\ WritesChecked' /\ ChangesChecked' /\ ValuesInLists'
  BY <1>13 DEF CheckUsage
<1>14. ASSUME NEW c \in Calls, SetKey(c)
      PROVE  RowsHaveKeys' /\ WritesChecked' /\ ChangesChecked' /\ ValuesInLists'
  <2>1. \A b \in Calls \ {c} : ~Active(b)
    BY <1>14 DEF SetKey
  <2>2. key[c] \in Keys /\ kind[key[c]] # "none" /\ want[c] \in Setting
    BY <1>14 DEF SetKey
  <2>3. kind' = IF KeyExists(key[c]) THEN [kind EXCEPT ![key[c]] = want[c].kind] ELSE kind
    BY <1>14 DEF SetKey
  <2>4. RowsHaveKeys'
    BY <1>14, <2>2, <2>3 DEF SetKey
  <2>5. WritesChecked'
    BY <1>14, <2>1 DEF SetKey
  <2>6. ChangesChecked'
    BY <1>14, <2>1 DEF SetKey
  <2>7. ValuesInLists'
    <3>1. CASE ~KeyExists(key[c])
      BY <1>14, <3>1 DEF SetKey
    <3>2. CASE KeyExists(key[c])
      <4>1. ASSUME NEW r \in rows, r.key = key[c], want[c].kind = "list" PROVE r.value \in want[c].allowed
        BY <1>14, <4>1 DEF SetKey
      <4>2. allowed' = [allowed EXCEPT ![key[c]] = want[c].allowed] /\ rows' = rows
        BY <1>14, <3>2 DEF SetKey
      <4>3. ASSUME NEW r \in rows PROVE Accepts(r.key, r.value)'
        BY <2>2, <2>3, <3>2, <4>1, <4>2
      <4>4. QED BY <4>2, <4>3
    <3>3. QED BY <3>1, <3>2
  <2>8. QED BY <2>4, <2>5, <2>6, <2>7
<1>15. ASSUME NEW c \in Calls, DropKey(c)
      PROVE  RowsHaveKeys' /\ WritesChecked' /\ ChangesChecked' /\ ValuesInLists'
  BY <1>15, DropKeepsLists DEF DropKey
<1>16. ASSUME NEW c \in Calls, Fault(c)
      PROVE  RowsHaveKeys' /\ WritesChecked' /\ ChangesChecked' /\ ValuesInLists'
  BY <1>16 DEF Fault
<1>17. CASE UNCHANGED state
  BY <1>17 DEF state
<1>18. QED
  BY <1>1, <1>2, <1>3, <1>4, <1>5, <1>6, <1>7, <1>8, <1>9,
     <1>10, <1>11, <1>12, <1>13, <1>14, <1>15, <1>16, <1>17
  DEF Act, Begin, Step

\* The lists are respected as long as changes of keys have been alone.
QuietInv == Base /\ (~keysMixed => LInv)

\* No value outside of its list.
THEOREM ListsRespected == Spec => []ListRespected
<1>1. Init => QuietInv
  <2> SUFFICES ASSUME Init PROVE QuietInv
    OBVIOUS
  <2>1. Base BY InitBase
  <2>2. QED
    BY <2>1 DEF Init, QuietInv, LInv, KeysQuiet, RowsHaveKeys, WritesChecked, ChangesChecked,
       ValuesInLists, Changing
<1>2. QuietInv /\ [Next]_vars => QuietInv'
  <2> SUFFICES ASSUME QuietInv, [Next]_vars PROVE QuietInv'
    OBVIOUS
  <2>1. Base'
    BY NextBase DEF QuietInv, Next, vars, state
  <2>2. ASSUME ~keysMixed' PROVE LInv'
    <3>1. LInv
      BY <2>2 DEF QuietInv, Next, vars
    <3>2. KeysQuiet'
      BY <2>2, <3>1 DEF LInv, Next, KeysQuiet, Active, vars
    <3>3. [Act /\ KeysQuiet']_state
      BY <3>2 DEF Next, vars, state
    <3>4. QED BY <2>1, <3>1, <3>2, <3>3, StepLists DEF LInv
  <2>3. QED BY <2>1, <2>2 DEF QuietInv
<1>3. QuietInv => ListRespected
  BY DEF QuietInv, LInv, ValuesInLists, ListRespected
<1>4. QED BY <1>1, <1>2, <1>3, PTL DEF Spec

-----------------------------------------------------------------------------
(* Upserts.  What an upsert did not find is still not there when it writes,   *)
(* as long as nobody else writes to the document.                             *)

NothingFound ==
  \A c \in Calls :
    pc[c] = "write" /\ found[c] = 0 => RowsOf(target[c], key[c]) = {}

UInv == Base /\ DocsQuiet /\ NothingFound

\* Other calls write to other documents.
LEMMA StepUpserts ==
  ASSUME UInv, [Act /\ DocsQuiet']_state
  PROVE  NothingFound'
<1> USE MaxRowsAssumption, FaultsAssumption, NoneAssumption
    DEF Base, KeysKnown, RowsNumbered, FoundIsOfKey, TypeOK, Setting, Row, Labels, Writing, Changing, Active, Goto, Valid, KeyExists, RowsOf,
        store, locals, UInv, DocsQuiet, NothingFound
<1>1. ASSUME NEW c \in Calls, NEW d \in Docs, NEW V \in SUBSET Values, Replace(c, d, V)
      PROVE  NothingFound'
  <2>1. CASE V = {} /\ Writes(c, d, None, {}) /\ Goto(c, "wipe")
    BY <1>1, <2>1 DEF Replace, Writes
  <2>2. ASSUME NEW k \in Keys, KeyExists(k), \A v \in V : Accepts(k, v), Writes(c, d, k, V), Goto(c, "wipe"),
               pc[c] = "idle"
        PROVE  NothingFound'
    BY <2>2 DEF Writes
  <2>3. CASE (\A k \in Keys : ~KeyExists(k)) /\ Writes(c, d, None, V) /\ Goto(c, "makewipe") /\ pc[c] = "idle"
    BY <2>3 DEF Writes
  <2>4. QED BY <1>1, <2>1, <2>2, <2>3 DEF Replace, ByName
<1>2. ASSUME NEW c \in Calls, NEW d \in Docs, NEW v \in Values, BulkUpdate(c, d, v)
      PROVE  NothingFound'
  <2>2. ASSUME NEW k \in Keys, KeyExists(k), Accepts(k, v), Writes(c, d, k, {v}), Goto(c, "find"),
               pc[c] = "idle"
        PROVE  NothingFound'
    BY <2>2 DEF Writes
  <2>3. CASE (\A k \in Keys : ~KeyExists(k)) /\ Writes(c, d, None, {v}) /\ Goto(c, "makefind") /\ pc[c] = "idle"
    BY <2>3 DEF Writes
  <2>4. QED BY <1>2, <2>2, <2>3 DEF BulkUpdate, ByName
<1>3. ASSUME NEW c \in Calls, NEW d \in Docs, NEW k \in Keys, NEW v \in Values, Extract(c, d, k, v)
      PROVE  NothingFound'
  BY <1>3 DEF Extract, Writes
<1>4. ASSUME NEW c \in Calls, NEW d \in Docs, NEW k \in Keys, NEW v \in Values, Insert(c, d, k, v)
      PROVE  NothingFound'
  BY <1>4 DEF Insert, Writes
<1>5. ASSUME NEW c \in Calls, NEW k \in Keys, NEW s \in Setting, CreateKey(c, k, s)
      PROVE  NothingFound'
  BY <1>5 DEF CreateKey
<1>6. ASSUME NEW c \in Calls, NEW k \in Keys, NEW s \in Setting, UpdateKey(c, k, s)
      PROVE  NothingFound'
  BY <1>6 DEF UpdateKey, Lost
<1>7. ASSUME NEW c \in Calls, NEW k \in Keys, DeleteKey(c, k)
      PROVE  NothingFound'
  BY <1>7 DEF DeleteKey
<1>8. ASSUME NEW c \in Calls, NEW k \in Keys, MakeKey(c, k)
      PROVE  NothingFound'
  BY <1>8 DEF MakeKey
<1>9. ASSUME NEW c \in Calls, Wipe(c)
      PROVE  NothingFound'
  BY <1>9 DEF Wipe
<1>10. ASSUME NEW c \in Calls, NEW v \in Values, Fill(c, v)
      PROVE  NothingFound'
  <2>1. CASE NewRow(c, v)
    <3>1. rows' = rows \cup {NumberedRow(c, v)} /\ used' = used + 1 /\ NumberedRow(c, v) \in Row /\ used < MaxRows
      BY <1>10, <2>1, RowIsTyped DEF Fill
    <3>2. QED BY <1>10, <3>1 DEF Fill, NumberedRow
  <2>2. CASE ~KeyExists(key[c]) /\ NoRow(c)
    BY <1>10, <2>2 DEF Fill, NewRow, NoRow
  <2>3. QED BY <1>10, <2>1, <2>2 DEF Fill, NoRow
<1>11. ASSUME NEW c \in Calls, NEW v \in Values, WriteValue(c, v)
      PROVE  NothingFound'
  <2>1. CASE found[c] # 0
    <3>1. UpdateRow(c, v) BY <1>11, <2>1 DEF WriteValue
    <3>2. /\ rows' \subseteq Row
          /\ \A q \in rows' : \E r \in rows :
               /\ q.id = r.id /\ q.doc = r.doc /\ q.key = r.key
               /\ q = r \/ (q.id = found[c] /\ q.value = v)
          /\ \A p, q \in rows' : p.id = q.id => p = q
      BY <3>1, UpdatedRows
    <3>3. QED BY <1>11, <2>1, <3>1, <3>2 DEF WriteValue, UpdateRow
  <2>2. CASE found[c] = 0 /\ NewRow(c, v)
    <3>1. rows' = rows \cup {NumberedRow(c, v)} /\ used' = used + 1 /\ NumberedRow(c, v) \in Row /\ used < MaxRows
      BY <1>11, <2>2, RowIsTyped DEF WriteValue
    <3>2. QED BY <1>11, <2>2, <3>1 DEF WriteValue, NewRow, NumberedRow
  <2>3. CASE found[c] = 0 /\ NoRow(c)
    BY <1>11, <2>3 DEF WriteValue, NoRow
  <2>4. QED BY <1>11, <2>1, <2>2, <2>3 DEF WriteValue
<1>12. ASSUME NEW c \in Calls, Find(c)
      PROVE  NothingFound'
  BY <1>12 DEF Find, RowsOf
<1>13. ASSUME NEW c \in Calls, CheckUsage(c)
      PROVE  NothingFound'
  BY <1>13 DEF CheckUsage
<1>14. ASSUME NEW c \in Calls, SetKey(c)
      PROVE  NothingFound'
  BY <1>14 DEF SetKey
<1>15. ASSUME NEW c \in Calls, DropKey(c)
      PROVE  NothingFound'
  BY <1>15 DEF DropKey
<1>16. ASSUME NEW c \in Calls, Fault(c)
      PROVE  NothingFound'
  BY <1>16 DEF Fault
<1>17. CASE UNCHANGED state
  BY <1>17 DEF state
<1>18. QED
  BY <1>1, <1>2, <1>3, <1>4, <1>5, <1>6, <1>7, <1>8, <1>9,
     <1>10, <1>11, <1>12, <1>13, <1>14, <1>15, <1>16, <1>17
  DEF Act, Begin, Step

\* The step UpsertsDoNotDuplicate allows.
UpsertStep ==
  \A c \in Calls : pc[c] = "write" /\ pc'[c] = "done" /\ used' # used =>
    RowsOf(target[c], key[c]) = {}

\* A row is created by an upsert only if it found none.
LEMMA UpsertsFindFirst ==
  ASSUME UInv, [Act]_state
  PROVE  UpsertStep
<1> USE MaxRowsAssumption, FaultsAssumption, NoneAssumption
    DEF Base, KeysKnown, RowsNumbered, FoundIsOfKey, TypeOK, Setting, Row, Labels, Writing, Changing, Active, Goto, Valid, KeyExists, RowsOf,
        store, locals, UInv, DocsQuiet, NothingFound, UpsertStep
<1>1. ASSUME NEW c \in Calls, NEW d \in Docs, NEW V \in SUBSET Values, Replace(c, d, V)
      PROVE  UpsertStep
  <2>1. CASE V = {} /\ Writes(c, d, None, {}) /\ Goto(c, "wipe")
    BY <1>1, <2>1 DEF Replace, Writes
  <2>2. ASSUME NEW k \in Keys, KeyExists(k), \A v \in V : Accepts(k, v), Writes(c, d, k, V), Goto(c, "wipe"),
               pc[c] = "idle"
        PROVE  UpsertStep
    BY <2>2 DEF Writes
  <2>3. CASE (\A k \in Keys : ~KeyExists(k)) /\ Writes(c, d, None, V) /\ Goto(c, "makewipe") /\ pc[c] = "idle"
    BY <2>3 DEF Writes
  <2>4. QED BY <1>1, <2>1, <2>2, <2>3 DEF Replace, ByName
<1>2. ASSUME NEW c \in Calls, NEW d \in Docs, NEW v \in Values, BulkUpdate(c, d, v)
      PROVE  UpsertStep
  <2>2. ASSUME NEW k \in Keys, KeyExists(k), Accepts(k, v), Writes(c, d, k, {v}), Goto(c, "find"),
               pc[c] = "idle"
        PROVE  UpsertStep
    BY <2>2 DEF Writes
  <2>3. CASE (\A k \in Keys : ~KeyExists(k)) /\ Writes(c, d, None, {v}) /\ Goto(c, "makefind") /\ pc[c] = "idle"
    BY <2>3 DEF Writes
  <2>4. QED BY <1>2, <2>2, <2>3 DEF BulkUpdate, ByName
<1>3. ASSUME NEW c \in Calls, NEW d \in Docs, NEW k \in Keys, NEW v \in Values, Extract(c, d, k, v)
      PROVE  UpsertStep
  BY <1>3 DEF Extract, Writes
<1>4. ASSUME NEW c \in Calls, NEW d \in Docs, NEW k \in Keys, NEW v \in Values, Insert(c, d, k, v)
      PROVE  UpsertStep
  BY <1>4 DEF Insert, Writes
<1>5. ASSUME NEW c \in Calls, NEW k \in Keys, NEW s \in Setting, CreateKey(c, k, s)
      PROVE  UpsertStep
  BY <1>5 DEF CreateKey
<1>6. ASSUME NEW c \in Calls, NEW k \in Keys, NEW s \in Setting, UpdateKey(c, k, s)
      PROVE  UpsertStep
  BY <1>6 DEF UpdateKey, Lost
<1>7. ASSUME NEW c \in Calls, NEW k \in Keys, DeleteKey(c, k)
      PROVE  UpsertStep
  BY <1>7 DEF DeleteKey
<1>8. ASSUME NEW c \in Calls, NEW k \in Keys, MakeKey(c, k)
      PROVE  UpsertStep
  BY <1>8 DEF MakeKey
<1>9. ASSUME NEW c \in Calls, Wipe(c)
      PROVE  UpsertStep
  BY <1>9 DEF Wipe
<1>10. ASSUME NEW c \in Calls, NEW v \in Values, Fill(c, v)
      PROVE  UpsertStep
  <2>1. CASE NewRow(c, v)
    <3>1. rows' = rows \cup {NumberedRow(c, v)} /\ used' = used + 1 /\ NumberedRow(c, v) \in Row /\ used < MaxRows
      BY <1>10, <2>1, RowIsTyped DEF Fill
    <3>2. QED BY <1>10, <3>1 DEF Fill, NumberedRow
  <2>2. CASE ~KeyExists(key[c]) /\ NoRow(c)
    BY <1>10, <2>2 DEF Fill, NewRow, NoRow
  <2>3. QED BY <1>10, <2>1, <2>2 DEF Fill, NoRow
<1>11. ASSUME NEW c \in Calls, NEW v \in Values, WriteValue(c, v)
      PROVE  UpsertStep
  <2>1. CASE found[c] # 0
    <3>1. UpdateRow(c, v) BY <1>11, <2>1 DEF WriteValue
    <3>2. /\ rows' \subseteq Row
          /\ \A q \in rows' : \E r \in rows :
               /\ q.id = r.id /\ q.doc = r.doc /\ q.key = r.key
               /\ q = r \/ (q.id = found[c] /\ q.value = v)
          /\ \A p, q \in rows' : p.id = q.id => p = q
      BY <3>1, UpdatedRows
    <3>3. QED BY <1>11, <2>1, <3>1, <3>2 DEF WriteValue, UpdateRow
  <2>2. CASE found[c] = 0 /\ NewRow(c, v)
    <3>1. rows' = rows \cup {NumberedRow(c, v)} /\ used' = used + 1 /\ NumberedRow(c, v) \in Row /\ used < MaxRows
      BY <1>11, <2>2, RowIsTyped DEF WriteValue
    <3>2. QED BY <1>11, <2>2, <3>1 DEF WriteValue, NewRow, NumberedRow
  <2>3. CASE found[c] = 0 /\ NoRow(c)
    BY <1>11, <2>3 DEF WriteValue, NoRow
  <2>4. QED BY <1>11, <2>1, <2>2, <2>3 DEF WriteValue
<1>12. ASSUME NEW c \in Calls, Find(c)
      PROVE  UpsertStep
  BY <1>12 DEF Find, RowsOf
<1>13. ASSUME NEW c \in Calls, CheckUsage(c)
      PROVE  UpsertStep
  BY <1>13 DEF CheckUsage
<1>14. ASSUME NEW c \in Calls, SetKey(c)
      PROVE  UpsertStep
  BY <1>14 DEF SetKey
<1>15. ASSUME NEW c \in Calls, DropKey(c)
      PROVE  UpsertStep
  BY <1>15 DEF DropKey
<1>16. ASSUME NEW c \in Calls, Fault(c)
      PROVE  UpsertStep
  BY <1>16 DEF Fault
<1>17. CASE UNCHANGED state
  BY <1>17 DEF state
<1>18. QED
  BY <1>1, <1>2, <1>3, <1>4, <1>5, <1>6, <1>7, <1>8, <1>9,
     <1>10, <1>11, <1>12, <1>13, <1>14, <1>15, <1>16, <1>17
  DEF Act, Begin, Step

\* What an upsert did not find is not there as long as writers have kept to
\* different documents.
AloneInv == Base /\ (~docsMixed => UInv)

\* No upsert gives a document a second row for a key.
THEOREM NoDuplicates == Spec => UpsertsDoNotDuplicate
<1>1. Init => AloneInv
  <2> SUFFICES ASSUME Init PROVE AloneInv
    OBVIOUS
  <2>1. Base BY InitBase
  <2>2. QED BY <2>1 DEF Init, AloneInv, UInv, DocsQuiet, NothingFound, Writing
<1>2. AloneInv /\ [Next]_vars => AloneInv'
  <2> SUFFICES ASSUME AloneInv, [Next]_vars PROVE AloneInv'
    OBVIOUS
  <2>1. Base'
    BY NextBase DEF AloneInv, Next, vars, state
  <2>2. ASSUME ~docsMixed' PROVE UInv'
    <3>1. UInv
      BY <2>2 DEF AloneInv, Next, vars
    <3>2. DocsQuiet'
      BY <2>2, <3>1 DEF UInv, Next, DocsQuiet, vars
    <3>3. [Act /\ DocsQuiet']_state
      BY <3>2 DEF Next, vars, state
    <3>4. QED BY <2>1, <3>1, <3>2, <3>3, StepUpserts DEF UInv
  <2>3. QED BY <2>1, <2>2 DEF AloneInv
<1>3. AloneInv /\ [Next]_vars => [~docsMixed' => UpsertStep]_vars
  <2> SUFFICES ASSUME AloneInv, Next, ~docsMixed' PROVE UpsertStep
    BY DEF vars, state
  <2>1. UInv /\ [Act]_state
    BY DEF AloneInv, Next
  <2>2. QED BY <2>1, UpsertsFindFirst
<1>4. QED BY <1>1, <1>2, <1>3, PTL DEF Spec, UpsertsDoNotDuplicate, UpsertStep

-----------------------------------------------------------------------------
(* Replacements.  While a replacement creates its rows, the document has the *)
(* rows it has created so far and no others, as long as nobody else writes   *)
(* to the document.                                                          *)

DocRows(d) == {r \in rows : r.doc = d}

\* S is finite and has as many elements as T.
SameSize(S, T) == IsFiniteSet(S) /\ IsFiniteSet(T) /\ Cardinality(S) = Cardinality(T)

Filling(c) ==
  /\ pc[c] \in {"idle", "makewipe", "wipe"} => wrote[c] = {}
  /\ pc[c] = "fill" => /\ {r.value : r \in DocRows(target[c])} = wrote[c]
                       /\ SameSize(DocRows(target[c]), wrote[c])

RInv == Base /\ DocsQuiet /\ \A c \in Calls : Filling(c)

\* What the others see of the step of a call.
Apart(c) ==
  /\ \A e \in Calls \ {c} : /\ pc'[e] = pc[e] /\ target'[e] = target[e]
                            /\ todo'[e] = todo[e] /\ wrote'[e] = wrote[e]
  /\ rows' # rows => /\ pc[c] \in Writing
                     /\ \A d \in Docs \ {target[c]} : DocRows(d)' = DocRows(d)

LEMMA FillRows ==
  ASSUME Base, NEW c \in Calls, NEW v \in Values, Fill(c, v)
  PROVE  \/ /\ rows' = rows \cup {NumberedRow(c, v)} /\ NumberedRow(c, v) \notin rows
            /\ wrote'[c] = wrote[c] \cup {v} /\ v \in todo[c] /\ v \notin wrote[c]
            /\ pc'[c] \in {"fill", "done"} /\ (pc'[c] = "done" => wrote'[c] = todo[c])
         \/ rows' = rows /\ wrote' = wrote /\ pc'[c] = "done" /\ wrote[c] # todo[c]
<1>1. CASE NewRow(c, v) /\ wrote' = [wrote EXCEPT ![c] = @ \cup {v}]
           /\ Goto(c, IF wrote'[c] = todo[c] THEN "done" ELSE "fill")
  <2>1. rows' = rows \cup {NumberedRow(c, v)}
    BY <1>1, RowIsTyped DEF Fill
  <2>2. NumberedRow(c, v) \notin rows
    <3>1. \A r \in rows : r.id \in Nat /\ r.id <= used
      BY DEF Base, TypeOK, Row, RowsNumbered
    <3>2. used \in Nat
      BY MaxRowsAssumption DEF Base, TypeOK
    <3> QED BY <3>1, <3>2 DEF NumberedRow
  <2>3. wrote'[c] = wrote[c] \cup {v} /\ v \in todo[c] /\ v \notin wrote[c]
    BY <1>1 DEF Fill, Base, TypeOK
  <2>4. pc'[c] = IF wrote'[c] = todo[c] THEN "done" ELSE "fill"
    BY <1>1 DEF Goto, Base, TypeOK
  <2> QED BY <2>1, <2>2, <2>3, <2>4
<1>2. CASE NoRow(c) /\ Goto(c, "done") /\ UNCHANGED wrote
  BY <1>2 DEF Fill, NoRow, Goto, Base, TypeOK
<1> QED BY <1>1, <1>2 DEF Fill

LEMMA StepApart == ASSUME Base, NEW c \in Calls, Begin(c) \/ Step(c) \/ Fault(c) PROVE Apart(c)
<1> USE DEF Base, TypeOK, Goto, Apart
<1>1. ASSUME Begin(c) PROVE Apart(c)
  BY <1>1 DEF Begin, Replace, BulkUpdate, Extract, Insert, CreateKey, UpdateKey, DeleteKey, ByName,
              Writes, store, locals
<1>2. ASSUME NEW k \in Keys, MakeKey(c, k) PROVE Apart(c)
  BY <1>2 DEF MakeKey
<1>3. ASSUME Wipe(c) PROVE Apart(c)
  <2>1. \A d \in Docs \ {target[c]} : DocRows(d)' = DocRows(d)
    BY <1>3 DEF Wipe, DocRows
  <2> QED BY <1>3, <2>1 DEF Wipe, locals, Writing
<1>4. ASSUME NEW v \in Values, Fill(c, v) PROVE Apart(c)
  <2>1. \A d \in Docs \ {target[c]} : DocRows(d)' = DocRows(d)
    <3>1. NumberedRow(c, v).doc = target[c]
      BY DEF NumberedRow
    <3> QED BY <1>4, <3>1, FillRows DEF DocRows
  <2>2. pc[c] \in Writing
    BY <1>4 DEF Fill, Writing
  <2> QED BY <1>4, <2>1, <2>2 DEF Fill
<1>5. ASSUME NEW v \in Values, WriteValue(c, v) PROVE Apart(c)
  <2>1. \A d \in Docs \ {target[c]} : DocRows(d)' = DocRows(d)
    <3>1. CASE found[c] # 0
      <4>1. UpdateRow(c, v)
        BY <1>5, <3>1 DEF WriteValue
      <4>2. \A r \in rows : r.doc # target[c] => r.id # found[c]
        BY <1>5 DEF WriteValue, FoundIsOfKey
      <4> DEFINE New(r) == IF r.id = found[c] THEN [r EXCEPT !.value = v] ELSE r
      <4>3. rows' = {New(r) : r \in rows}
        BY <4>1 DEF UpdateRow
      <4>4. \A r \in rows : New(r).doc = r.doc /\ (r.doc # target[c] => New(r) = r)
        BY <4>2 DEF Row
      <4> HIDE DEF New
      <4> QED BY <4>3, <4>4 DEF DocRows
    <3>2. CASE found[c] = 0
      <4>1. rows' = rows \/ \E i : rows' = rows \cup {[id |-> i, doc |-> target[c], key |-> key[c], value |-> v]}
        BY <1>5, <3>2 DEF WriteValue, NewRow, NoRow
      <4> QED BY <4>1 DEF DocRows
    <3> QED BY <3>1, <3>2
  <2>2. pc[c] \in Writing
    BY <1>5 DEF WriteValue, Writing
  <2> QED BY <1>5, <2>1, <2>2 DEF WriteValue, locals
<1>6. ASSUME Find(c) \/ CheckUsage(c) \/ SetKey(c) \/ DropKey(c) \/ Fault(c) PROVE Apart(c)
  BY <1>6 DEF Find, CheckUsage, SetKey, DropKey, Fault, store, locals
<1> QED BY <1>1, <1>2, <1>3, <1>4, <1>5, <1>6 DEF Step

\* What a replacement has done when it ends.
Replaced(c) ==
  LET mine == {r \in rows' : r.doc = target[c]} IN
  pc[c] \in {"wipe", "fill"} /\ pc'[c] = "done" /\ wrote'[c] = todo[c] /\ faults' = faults =>
    /\ {r.value : r \in mine} = todo[c]
    /\ Cardinality(mine) = Cardinality(todo[c])

LEMMA ReplacedIf ==
  ASSUME NEW c, target'[c] = target[c],
         pc'[c] = "done" /\ wrote'[c] = todo[c] =>
           /\ {r.value : r \in DocRows(target[c])'} = wrote'[c]
           /\ SameSize(DocRows(target[c])', wrote'[c])
  PROVE  Replaced(c)
<1> DEFINE mine == {r \in rows' : r.doc = target[c]}
<1>1. DocRows(target[c])' = mine
  BY DEF DocRows
<1> HIDE DEF mine
<1>2. pc'[c] = "done" /\ wrote'[c] = todo[c] =>
        {r.value : r \in mine} = todo[c] /\ Cardinality(mine) = Cardinality(todo[c])
  BY <1>1 DEF SameSize
<1> QED BY <1>2 DEF Replaced, mine

\* The rows and the values of a call grow together.
LEMMA FillGrows ==
  ASSUME RInv, NEW c \in Calls, NEW v \in Values, Fill(c, v), wrote'[c] # wrote[c]
  PROVE  /\ {r.value : r \in DocRows(target[c])'} = wrote'[c]
         /\ SameSize(DocRows(target[c])', wrote'[c])
<1> DEFINE new == NumberedRow(c, v)
           old == DocRows(target[c])
<1>1. /\ rows' = rows \cup {new} /\ new \notin rows
      /\ wrote'[c] = wrote[c] \cup {v} /\ v \notin wrote[c]
  BY FillRows DEF RInv
<1>2. new.doc = target[c] /\ new.value = v /\ target' = target
  BY DEF NumberedRow, Fill
<1>3. DocRows(target[c])' = old \cup {new} /\ new \notin old
  BY <1>1, <1>2 DEF DocRows
<1>4. {r.value : r \in old} = wrote[c] /\ SameSize(old, wrote[c])
  BY DEF RInv, Filling, Fill
<1> HIDE DEF new, old
<1>5. {r.value : r \in old \cup {new}} = wrote'[c]
  BY <1>1, <1>2, <1>4
<1>6. SameSize(old \cup {new}, wrote[c] \cup {v})
  BY <1>1, <1>3, <1>4, FS_AddElement DEF SameSize
<1> QED BY <1>1, <1>3, <1>5, <1>6

LEMMA NoneOfSize == SameSize({}, {})
BY FS_EmptySet DEF SameSize

LEMMA StepFills ==
  ASSUME RInv, NEW c \in Calls, Begin(c) \/ Step(c) \/ Fault(c)
  PROVE  Filling(c)' /\ Replaced(c)
<1> USE DEF RInv, Base, TypeOK, Goto, Filling
<1>1. ASSUME NEW d \in Docs, NEW V \in SUBSET Values, Replace(c, d, V) \/ (\E v \in Values : BulkUpdate(c, d, v))
      PROVE  Filling(c)' /\ Replaced(c)
  <2>1. pc[c] = "idle" /\ wrote' = wrote /\ pc'[c] \in {"wipe", "makewipe", "find", "makefind"}
    BY <1>1 DEF Replace, BulkUpdate, ByName, Writes
  <2> QED BY <2>1 DEF Replaced
<1>2. ASSUME NEW d \in Docs, NEW k \in Keys, NEW v \in Values, Extract(c, d, k, v)
      PROVE  Filling(c)' /\ Replaced(c)
  BY <1>2 DEF Extract, Replaced
<1>3. ASSUME NEW d \in Docs, NEW k \in Keys, NEW v \in Values, Insert(c, d, k, v)
      PROVE  Filling(c)' /\ Replaced(c)
  <2>1. /\ pc[c] = "idle" /\ pc'[c] = "fill" /\ wrote'[c] = {} /\ target'[c] = d /\ rows' = rows
        /\ \A r \in rows : r.doc # d
    BY <1>3 DEF Insert, Writes, store
  <2>2. DocRows(target[c])' = {}
    BY <2>1 DEF DocRows
  <2> QED BY <2>1, <2>2, NoneOfSize DEF Replaced
<1>4. ASSUME NEW k \in Keys, NEW s \in Setting, CreateKey(c, k, s) \/ UpdateKey(c, k, s) \/ DeleteKey(c, k)
      PROVE  Filling(c)' /\ Replaced(c)
  BY <1>4 DEF CreateKey, UpdateKey, DeleteKey, Replaced
<1>5. ASSUME NEW k \in Keys, MakeKey(c, k) PROVE Filling(c)' /\ Replaced(c)
  BY <1>5 DEF MakeKey, Replaced
<1>6. ASSUME Wipe(c) PROVE Filling(c)' /\ Replaced(c)
  <2>1. /\ pc[c] = "wipe" /\ wrote' = wrote /\ wrote[c] = {} /\ target' = target /\ todo' = todo
        /\ pc'[c] = (IF todo[c] = {} THEN "done" ELSE "fill")
    BY <1>6 DEF Wipe, locals
  <2>2. rows' = {r \in rows : r.doc # target[c]}
    BY <1>6 DEF Wipe
  <2>3. target'[c] = target[c]
    BY <2>1
  <2>4. DocRows(target[c])' = {r \in rows' : r.doc = target[c]}
    BY <2>3 DEF DocRows
  <2>5. DocRows(target[c])' = {}
    BY ONLY <2>2, <2>4
  <2>6. DocRows(target[c])' = wrote'[c] /\ wrote'[c] = {}
    BY ONLY <2>1, <2>5
  <2>7. {r.value : r \in DocRows(target[c])'} = wrote'[c] /\ SameSize(DocRows(target[c])', wrote'[c])
    BY ONLY <2>6, NoneOfSize
  <2>8. Filling(c)'
    BY <2>1, <2>7
  <2>9. Replaced(c)
    BY ONLY <2>3, <2>7, ReplacedIf
  <2> QED BY ONLY <2>8, <2>9
<1>7. ASSUME NEW v \in Values, Fill(c, v) PROVE Filling(c)' /\ Replaced(c)
  <2>1. CASE wrote'[c] # wrote[c]
    <3>1. /\ {r.value : r \in DocRows(target[c])'} = wrote'[c]
          /\ SameSize(DocRows(target[c])', wrote'[c])
      BY <1>7, <2>1, FillGrows
    <3>2. target' = target /\ todo' = todo /\ pc'[c] \in {"fill", "done"}
      BY <1>7, FillRows DEF Fill
    <3> QED BY <3>1, <3>2, ReplacedIf
  <2>2. CASE wrote'[c] = wrote[c]
    <3>1. pc'[c] = "done" /\ wrote[c] # todo[c]
      BY <1>7, <2>2, FillRows
    <3> QED BY <2>2, <3>1 DEF Replaced
  <2> QED BY <2>1, <2>2
<1>8. ASSUME (\E v \in Values : WriteValue(c, v)) \/ Find(c) \/ CheckUsage(c) \/ SetKey(c) \/ DropKey(c)
      PROVE  Filling(c)' /\ Replaced(c)
  BY <1>8 DEF WriteValue, Find, CheckUsage, SetKey, DropKey, Replaced
<1>9. ASSUME Fault(c) PROVE Filling(c)' /\ Replaced(c)
  <2>1. faults' # faults /\ pc'[c] = "done"
    BY <1>9, FaultsAssumption DEF Fault
  <2> QED BY <2>1 DEF Replaced
<1> QED BY <1>1, <1>2, <1>3, <1>4, <1>5, <1>6, <1>7, <1>8, <1>9 DEF Begin, Step

LEMMA StepReplaces ==
  ASSUME RInv, Act
  PROVE  \A e \in Calls : Filling(e)' /\ Replaced(e)
<1>1. PICK c \in Calls : Begin(c) \/ Step(c) \/ Fault(c)
  BY DEF Act
<1>2. Filling(c)' /\ Replaced(c)
  BY <1>1, StepFills
<1>3. Apart(c)
  BY <1>1, StepApart DEF RInv
<1> SUFFICES ASSUME NEW e \in Calls, e # c PROVE Filling(e)' /\ Replaced(e)
  BY <1>2
<1>4. /\ pc'[e] = pc[e] /\ target'[e] = target[e] /\ todo'[e] = todo[e] /\ wrote'[e] = wrote[e]
      /\ Filling(e)
  BY <1>3 DEF Apart, RInv
<1>5. pc[e] = "fill" => DocRows(target[e])' = DocRows(target[e])
  <2> SUFFICES ASSUME pc[e] = "fill" PROVE DocRows(target[e])' = DocRows(target[e])
    OBVIOUS
  <2>1. CASE rows' = rows
    BY <1>4, <2>1 DEF DocRows
  <2>2. CASE rows' # rows
    <3>1. target[e] # target[c] /\ target[e] \in Docs
      BY <1>3, <2>2 DEF Apart, RInv, DocsQuiet, Writing, Base, KeysKnown
    <3>2. \A d \in Docs : d = target[e] => DocRows(d)' = DocRows(d)
      BY <1>3, <2>2, <3>1 DEF Apart
    <3> QED BY <1>4, <3>1, <3>2 DEF DocRows
  <2> QED BY <2>1, <2>2
<1>6. Filling(e)'
  BY <1>4, <1>5 DEF Filling
<1>7. Replaced(e)
  BY <1>4 DEF Replaced
<1> QED BY <1>6, <1>7

\* The invariant of the theorem.
ExactInv == Base /\ (~docsMixed => RInv)

\* A replacement that ends has left what it was given, once each, and nothing else.
THEOREM ReplacementsAreExact == Spec => ReplacementIsExact
<1>1. Init => ExactInv
  <2> SUFFICES ASSUME Init PROVE ExactInv
    OBVIOUS
  <2>1. Base
    BY InitBase
  <2> QED BY <2>1 DEF Init, ExactInv, RInv, DocsQuiet, Filling, Writing
<1>2. ExactInv /\ [Next]_vars => ExactInv'
  <2> SUFFICES ASSUME ExactInv, [Next]_vars PROVE ExactInv'
    OBVIOUS
  <2>1. Base'
    BY NextBase DEF ExactInv, Next, vars, state
  <2>2. ASSUME ~docsMixed' PROVE RInv'
    <3>1. RInv
      BY <2>2 DEF ExactInv, Next, vars
    <3>2. DocsQuiet'
      BY <2>2, <3>1 DEF RInv, Next, DocsQuiet, vars
    <3>3. \A c \in Calls : Filling(c)'
      <4>1. CASE Next
        BY <3>1, <4>1, StepReplaces DEF Next
      <4>2. CASE UNCHANGED vars
        BY <3>1, <4>2 DEF RInv, Filling, DocRows, vars
      <4> QED BY <4>1, <4>2
    <3> QED BY <2>1, <3>2, <3>3 DEF RInv
  <2> QED BY <2>1, <2>2 DEF ExactInv
<1>3. ExactInv /\ [Next]_vars => [~docsMixed' => \A c \in Calls : Replaced(c)]_vars
  BY StepReplaces DEF ExactInv, Next
<1> QED BY <1>1, <1>2, <1>3, PTL DEF Spec, ReplacementIsExact, Replaced
=============================================================================
