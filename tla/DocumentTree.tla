---------------------------- MODULE DocumentTree ----------------------------
(***************************************************************************)
(* The documents page of one user: the tree that the server builds from    *)
(* the values and the person of every document the user may see, the list  *)
(* it gives for filters, and the page that turns a node of the tree, or    *)
(* rows of filters, into the filters of a list.  The tree groups by what   *)
(* is shown, the name of a person; the list compares ids.                  *)
(*                                                                         *)
(* The document type is a second field of the kind of the person.  Rows of *)
(* the database may change at any time; who changes them, and may, is the  *)
(* matter of DocumentAccess, MetadataValues and PersonsFolders.            *)
(***************************************************************************)
EXTENDS Naturals, Sequences, FiniteSets, SequencesExt

CONSTANTS
  Documents,
  Ids, Labels,   \* persons, and the names they have
  Values,        \* of metadata keys, Blank among them
  Blank,
  SystemKeys,    \* the person of a document, under its key in filters
  MetaKeys,
  Missing,       \* what a filter for documents without a value asks for
  Nil,
  FirstStates,   \* databases to begin with
  Changes,       \* bound on changes of rows and beginnings of a search
  Pending,       \* bound on requests under way
  MaxRows        \* bound on rows of filters

FilterableKeys == SystemKeys \cup MetaKeys

ASSUME KeysAssumption == SystemKeys \cap MetaKeys = {} /\ Nil \notin FilterableKeys
ASSUME ValuesAssumption ==
  /\ IsFiniteSet(Ids) /\ Blank \in Values
  /\ Ids \cap Labels = {} /\ Nil \notin Ids /\ Missing \notin Ids \cup Labels \cup Values
ASSUME LimitsAssumption == {Changes, Pending, MaxRows} \subseteq Nat /\ Pending # 0

Condition == [key : FilterableKeys, value : Ids \cup Values]
Filter == [key : FilterableKeys, value : Ids \cup Labels \cup Values \cup {Missing}]

\* Persons under their keys, values under the others.
FactsOfDocument ==
  {fact \in [FilterableKeys -> SUBSET (Ids \cup Values)] :
     /\ \A k \in SystemKeys : fact[k] \subseteq Ids
     /\ \A k \in MetaKeys : fact[k] \subseteq Values}

\* The rows a request reads: the documents with their facts, the names of the
\* persons, the rules with those that apply to the user, and the user's
\* configuration of the tree, to which the page adds no key twice.
Database ==
  [status : [Documents -> {"absent", "live", "archived"}],
   fact : [Documents -> FactsOfDocument],
   label : [Ids -> Labels],
   admin : BOOLEAN, anyRule : BOOLEAN,
   mine : SUBSET SUBSET Condition,
   order : {o \in Seq(FilterableKeys) : IsInjective(o)}]

ASSUME FirstAssumption == FirstStates \subseteq Database

VARIABLES
  db,
  tree,     \* the nodes shown
  rows,     \* the rows of filters shown, each a key and values
  filters,  \* what the list is filtered by
  search,   \* whether words are searched for
  list,     \* the documents shown
  asked,    \* requests under way
  \* history
  changes,
  treeFresh, listFresh,  \* nothing has changed since it was read
  listFor   \* what the list shown was asked for; Nil before the first

client == <<tree, rows, filters, search, list>>
fresh == <<treeFresh, listFresh, listFor>>
treeVars == <<db, client, asked, changes, fresh>>

Node == [path : SUBSET Filter, docs : SUBSET Documents]
FilterRow == [key : FilterableKeys \cup {Nil}, values : SUBSET (Ids \cup Values)]
NoRow == [key |-> Nil, values |-> {}]
Request ==
  [what : {"tree"}] \cup [what : {"files"}, filters : SUBSET Filter, search : BOOLEAN]

\* Those of a sequence that are in s.
Add(q, x, s) == IF x \in s THEN Append(q, x) ELSE q
Selected(q, s) == FoldLeft(LAMBDA r, x : Add(r, x, s), <<>>, q)

-----------------------------------------------------------------------------
(* The server: which documents, and what of them, the user may see. *)

\* What filters and rules compare: the id of the person, the values of a key.
Facts(d, k) == db.fact[d][k]

\* What the tree shows of a system field.
resolveSystemFieldLabels(d, k) == {db.label[i] : i \in Facts(d, k)}

Present == {d \in Documents : db.status[d] # "absent"}

ruleMatchesFile(conditions, d) == \A c \in conditions : c.value \in Facts(d, c.key)

getAccessibleFileIds ==
  {d \in Present : \/ db.admin \/ ~db.anyRule
                   \/ \E conditions \in db.mine : ruleMatchesFile(conditions, d)}

\* The values of a key that may be named; a key that no condition mentions is
\* free, and so is everything under a rule without conditions.
getAllowedMetadataValues(k) ==
  LET wanted == {c \in UNION db.mine : c.key = k}
  IN  IF db.admin \/ ~db.anyRule \/ {} \in db.mine \/ wanted = {} THEN Values
      ELSE {c.value : c \in wanted}

\* The keys of the configuration that some document has; a key without a value
\* is dropped, a system field never.
KeyOrder ==
  Selected(db.order,
    SystemKeys \cup {k \in MetaKeys : \E d \in getAccessibleFileIds : Facts(d, k) # {}})

-----------------------------------------------------------------------------
(* buildVirtualTree: one level for each key. *)

TreeValues(d, k) ==
  IF k \in SystemKeys THEN resolveSystemFieldLabels(d, k)
  ELSE Facts(d, k) \cap getAllowedMetadataValues(k)

Below(node, key, value, docs) ==
  [path |-> node.path \cup {[key |-> key, value |-> value]}, docs |-> docs]

Uncategorized(node, k) == {d \in node.docs : TreeValues(d, k) \subseteq {Blank}}

\* Mutant of buildLevel: a document whose values are all blank is forgotten.
buildLevelOfValued(node, k) ==
  LET without == {d \in node.docs : TreeValues(d, k) = {}}
  IN  {Below(node, k, v, {d \in node.docs : v \in TreeValues(d, k)}) :
         v \in (UNION {TreeValues(d, k) : d \in node.docs}) \ {Blank}}
      \cup (IF without = {} THEN {} ELSE {Below(node, k, Missing, without)})

\* A document goes under each of its values, or under none if all are blank.
buildLevel(node, k) ==
  {Below(node, k, v, {d \in node.docs : v \in TreeValues(d, k)}) :
     v \in (UNION {TreeValues(d, k) : d \in node.docs}) \ {Blank}}
  \cup (IF Uncategorized(node, k) = {} THEN {}
        ELSE {Below(node, k, Missing, Uncategorized(node, k))})

\* The levels of the tree, the first of them everything; archived documents are
\* left out.
getVirtualTree ==
  LET root == [path |-> {}, docs |-> {d \in getAccessibleFileIds : db.status[d] = "live"}]
      level[i \in 0 .. Len(KeyOrder)] ==
        IF i = 0 THEN {root}
        ELSE UNION {buildLevel(n, KeyOrder[i]) : n \in level[i - 1]}
  IN  IF root.docs = {} THEN <<>> ELSE [i \in 1 .. Len(KeyOrder) |-> level[i]]

-----------------------------------------------------------------------------
(* listFlatFiles: the documents for filters. *)

\* A filter of a tree node names a person; the list looks for the first one of
\* that name, whichever it is.
FirstOfName ==
  {first \in [Labels -> Ids \cup {Nil}] :
     \A n \in Labels : IF \E i \in Ids : db.label[i] = n
                       THEN first[n] \in {i \in Ids : db.label[i] = n} ELSE first[n] = Nil}

Resolved(f, first) ==
  IF f.key \in SystemKeys /\ f.value \in Labels /\ first[f.value] # Nil
  THEN [f EXCEPT !.value = first[f.value]] ELSE f

\* Values of one key are alternatives, keys add up; without a value means that
\* there is none, not even a blank one.
groupMetadataFiltersByKey(d, fs) ==
  \A f \in fs : f.value # Missing => \E g \in fs : g.key = f.key /\ g.value \in Facts(d, f.key)
MissingAll(d, fs) == \A f \in fs : f.value = Missing => Facts(d, f.key) = {}

\* Mutant of FlatFiles: a hidden value counts as none, and a missing one is not
\* asked for.
FlatFilesOfPositive(fs) ==
  {d \in getAccessibleFileIds : db.status[d] = "live" /\ groupMetadataFiltersByKey(d, fs)}

FlatFiles(fs) ==
  {d \in getAccessibleFileIds :
     db.status[d] = "live" /\ groupMetadataFiltersByKey(d, fs) /\ MissingAll(d, fs)}

\* Words may be in the texts of any of them, and the first hundred are given.
Found(docs, searched) == IF searched THEN SUBSET docs ELSE {docs}

\* Suggestions for a row of filters: values of the documents the user may see.
listMetadataValueSuggestions(k) ==
  (UNION {Facts(d, k) : d \in getAccessibleFileIds}) \cap getAllowedMetadataValues(k)

-----------------------------------------------------------------------------
(* The page: its requests. *)

Tree == [what |-> "tree"]
Files(fs, searched) == [what |-> "files", filters |-> fs, search |-> searched]

\* A bound: the user waits when so many answers are out.
Room == Len(asked) < Pending

\* Changed filters ask for the list again; nothing that is under way is broken
\* off.
fetchFilesFor(fs, searched) == asked' = Append(asked, Files(fs, searched))

\* After something was saved both are asked for.
fetchBoth == asked' = asked \o <<Files(filters, search), Tree>>

\* An answer holds what the rows say when it is given.  That it takes its time to
\* arrive makes no difference to the page beyond a change in between, for which
\* treeFresh and listFresh stand.
ReceiveTree(i) ==
  /\ asked[i] = Tree
  /\ tree' = getVirtualTree
  /\ treeFresh' = TRUE
  /\ asked' = RemoveAt(asked, i)
  /\ UNCHANGED <<db, rows, filters, search, list, changes, listFresh, listFor>>

ReceiveFiles(i) ==
  /\ asked[i] # Tree
  /\ \E first \in FirstOfName :
       list' \in Found(FlatFiles({Resolved(f, first) : f \in asked[i].filters}), asked[i].search)
  /\ listFresh' = TRUE
  /\ listFor' = asked[i]
  /\ asked' = RemoveAt(asked, i)
  /\ UNCHANGED <<db, tree, rows, filters, search, changes, treeFresh>>

\* A failure leaves what is shown, under a message.
Fail(i) ==
  /\ asked' = RemoveAt(asked, i)
  /\ UNCHANGED <<db, client, changes, fresh>>

-----------------------------------------------------------------------------
(* The page: what its user does. *)

\* A node stands for its filters: the label shown, or that there is none.
navigateToNode(n) ==
  /\ filters' = n.path /\ rows' = <<>>
  /\ fetchFilesFor(n.path, search)
  /\ UNCHANGED <<db, tree, search, list, changes, fresh>>

clearNavigation ==
  /\ filters' = {} /\ rows' = <<>>
  /\ fetchFilesFor({}, search)
  /\ UNCHANGED <<db, tree, search, list, changes, fresh>>

\* Words are typed, other ones, or deleted: navigating leaves them.
SetSearch(searched) ==
  /\ search' = searched
  /\ IF search THEN UNCHANGED changes ELSE searched /\ changes < Changes /\ changes' = changes + 1
  /\ fetchFilesFor(filters, searched)
  /\ UNCHANGED <<db, tree, rows, filters, list, fresh>>

Complete(rs) ==
  UNION {{[key |-> r.key, value |-> v] : v \in r.values} : r \in {r \in Range(rs) : r.key # Nil}}

\* Mutant of Merged: what the rows say is added to what they said before.
MergedWithAll(rs) == filters \cup Complete(rs)

\* The rows take the place of earlier filters on their keys; filters on other
\* keys stay, those of a row that was removed among them.
Merged(rs) == {f \in filters : \A g \in Complete(rs) : g.key # f.key} \cup Complete(rs)

\* Rows without a key and a value go.
applyFilterRows(rs) ==
  /\ rows' = Selected(rs, FilterRow \ {NoRow})
  /\ filters' = Merged(rs)
  /\ fetchFilesFor(Merged(rs), search)
  /\ UNCHANGED <<db, tree, search, list, changes, fresh>>

AddRow ==
  /\ Len(rows) < MaxRows
  /\ rows' = Append(rows, NoRow)
  /\ UNCHANGED <<db, tree, filters, search, list, asked, changes, fresh>>

ChooseKey(i, k) == applyFilterRows([rows EXCEPT ![i] = [key |-> k, values |-> {}]])

\* A person is picked, by its id; of a key some values that were suggested.
ChooseValues(i, vs) ==
  /\ IF rows[i].key \in SystemKeys THEN vs \subseteq Ids /\ Cardinality(vs) <= 1
     ELSE rows[i].key # Nil /\ vs \subseteq listMetadataValueSuggestions(rows[i].key) \ {Blank}
  /\ applyFilterRows([rows EXCEPT ![i].values = vs])

RemoveRow(i) == applyFilterRows(RemoveAt(rows, i))

-----------------------------------------------------------------------------
(* Rows change, by this page, which then reads again, or by anyone. *)

Change(new, here) ==
  /\ changes < Changes /\ changes' = changes + 1
  /\ db' = new
  /\ treeFresh' = FALSE /\ listFresh' = FALSE
  /\ IF here THEN Room /\ fetchBoth ELSE UNCHANGED asked
  /\ UNCHANGED <<client, listFor>>

saveTreeConfig(order) ==
  /\ changes < Changes /\ changes' = changes + 1
  /\ db' = [db EXCEPT !.order = order]
  /\ treeFresh' = FALSE
  /\ asked' = Append(asked, Tree)
  /\ UNCHANGED <<client, listFresh, listFor>>

\* saveMetadata, bulk metadata and an extraction; the picker of the person.
ChangeFacts(d, k, vs, here) ==
  /\ db.status[d] = "live"
  /\ IF k \in SystemKeys THEN vs \subseteq Ids /\ Cardinality(vs) <= 1 ELSE vs \subseteq Values
  /\ Change([db EXCEPT !.fact[d][k] = vs], here)

\* A document is uploaded with its values, or archived.
UploadFile(d) ==
  /\ db.status[d] = "absent"
  /\ Change([db EXCEPT !.status[d] = "live"], FALSE)
ArchiveFile(d, here) ==
  /\ db.status[d] = "live"
  /\ Change([db EXCEPT !.status[d] = "archived"], here)

RenamePerson(i, n) == Change([db EXCEPT !.label[i] = n], FALSE)
AssignRules(rules) == Change([db EXCEPT !.mine = rules], FALSE)

-----------------------------------------------------------------------------
(* The page is opened: it asks for everything. *)

TreeInit ==
  /\ db \in FirstStates
  /\ tree = <<>> /\ rows = <<>> /\ filters = {} /\ search = FALSE /\ list = {}
  /\ asked = <<Tree, Files({}, FALSE)>>
  /\ changes = 0
  /\ treeFresh = FALSE /\ listFresh = FALSE /\ listFor = Nil

Receive == \E i \in 1 .. Len(asked) : ReceiveTree(i) \/ ReceiveFiles(i) \/ Fail(i)

Navigate ==
  /\ Room
  /\ \/ \E level \in Range(tree) : \E n \in level : navigateToNode(n)
     \/ clearNavigation
     \/ \E searched \in BOOLEAN : SetSearch(searched)

FilterByRows ==
  /\ Room
  /\ \/ AddRow
     \/ \E i \in 1 .. Len(rows) :
          \/ \E k \in FilterableKeys : ChooseKey(i, k)
          \/ \E vs \in SUBSET (Ids \cup Values) : ChooseValues(i, vs)
          \/ RemoveRow(i)

Write ==
  \/ Room /\ \E s \in FirstStates : saveTreeConfig(s.order)
  \/ \E here \in BOOLEAN, d \in Documents :
       \/ \E k \in FilterableKeys, vs \in SUBSET (Ids \cup Values) : ChangeFacts(d, k, vs, here)
       \/ ArchiveFile(d, here)
  \/ \E d \in Documents : UploadFile(d)
  \/ \E i \in Ids, n \in Labels : RenamePerson(i, n)
  \/ \E s \in FirstStates : AssignRules(s.mine)

TreeNext == Receive \/ Navigate \/ FilterByRows \/ Write

TreeSpec == TreeInit /\ [][TreeNext]_treeVars

-----------------------------------------------------------------------------
TreeTypeOK ==
  /\ db \in Database
  /\ tree \in Seq(SUBSET Node) /\ filters \subseteq Filter
  /\ rows \in Seq(FilterRow) /\ search \in BOOLEAN /\ list \subseteq Documents
  /\ asked \in Seq(Request) /\ Len(asked) <= Pending + 1
  /\ changes \in 0 .. Changes
  /\ treeFresh \in BOOLEAN /\ listFresh \in BOOLEAN /\ listFor \in Request \cup {Nil}

\* Tree and list were read of the same rows.
Comparable == treeFresh /\ listFresh

\* A node says exactly which documents its filters give: a person's name is of
\* one person, and no value of its keys is blank or hidden from the user.
Plain(n) ==
  \A f \in n.path :
    IF f.value = Missing
    THEN \A d \in n.docs : Facts(d, f.key) = {}
    ELSE f.key \in SystemKeys => Cardinality({i \in Ids : db.label[i] = f.value}) = 1

\* The list of a node never shows a document that the node does not hold; it
\* shows all of them, if names are clear, nothing is blank or hidden, and no words
\* are searched for.
NodeShowsItsDocuments ==
  Comparable =>
    \A level \in Range(tree) : \A n \in level : n.path = listFor.filters =>
      list \subseteq n.docs /\ (Plain(n) /\ ~listFor.search => list = n.docs)

\* Every document of the list without filters and words is in some node of each level: grouping
\* loses none, whatever values it has or the user may not see.
TreeHoldsEveryDocument ==
  Comparable /\ listFor.filters = {} /\ ~listFor.search =>
    \A level \in Range(tree) : UNION {n.docs : n \in level} = list

\* The rows say what the list is filtered by: of a key that has a value in some
\* row no other value is asked for, whatever was selected in the tree before.
RowsAreActive ==
  \A f \in Complete(rows) :
    {g.value : g \in {g \in filters : g.key = f.key}}
      = {g.value : g \in {g \in Complete(rows) : g.key = f.key}}
=============================================================================
