----------------------------- MODULE PeopleProofs -----------------------------
(***************************************************************************)
(* Theorems about the people of a company.  First the persons with their   *)
(* folders (PersonsFolders): no handler writes where its user was never    *)
(* allowed to, what is listed can be opened, a person's folder has the     *)
(* person's name, and deleting a person changes no level.  Then the        *)
(* members (Membership): the types, and what the checks before a write     *)
(* achieve when one call is at work at a time.                             *)
(*                                                                         *)
(* getRootFolderId walks up the tree of folders.  That it comes to an end  *)
(* is part of the invariant (Rooted), said without a length of the way: in *)
(* every set that holds a folder and is closed under parents there is a    *)
(* root.  So no proof here needs an induction.                             *)
(***************************************************************************)
EXTENDS PersonsFolders, Membership, TLAPS, FiniteSetTheorems

-----------------------------------------------------------------------------
(* The tree of folders, for any table t of them. *)

IsRoot(t, f) == t[f].exists /\ t[f].parent = NoFolder
IsChild(t, f) == t[f].exists /\ t[f].parent # NoFolder

\* Every parent is there: the foreign key.
Forest(t) ==
  \A f \in Folders : /\ t[f].exists \in BOOLEAN
                     /\ IsChild(t, f) => t[f].parent \in Folders /\ t[t[f].parent].exists

\* What is above a folder, itself included: what every set has that holds it and,
\* with a folder, its parent.
UpClosed(t, S) == \A g \in S : IsChild(t, g) => t[g].parent \in S
Above(t, f) == {g \in Folders : \A S \in SUBSET Folders : f \in S /\ UpClosed(t, S) => g \in S}
RootsAbove(t, f) == {g \in Above(t, f) : IsRoot(t, g)}

\* No way up goes round in a circle.
Rooted(t) == \A f \in Folders : t[f].exists => RootsAbove(t, f) # {}

\* The foreign keys; only roots have permissions.
Referenced ==
  /\ \A x \in Live(file) : file[x].folder \in Live(folder)
  /\ \A f \in Folders : grants[f] # {} => IsRoot(folder, f)

\* Every person has a root of its own, and a handler that has read a person knows
\* the person's folder, unless the person has lost it.
RootKnown(p, f) ==
  /\ person[p] # NoRow
  /\ p \in Live(person) => person[p].root \in {f, NoFolder}
  /\ f # NoFolder => /\ folder[f] # NoRow
                     /\ f \in Live(folder) => IsRoot(folder, f)
                     /\ \A q \in Live(person) : person[q].root = f => q = p
RootsOwned ==
  /\ \A p \in Live(person) : person[p].root # NoFolder =>
       /\ IsRoot(folder, person[p].root)
       /\ \A q \in Live(person) : person[q].root = person[p].root => q = p
  /\ \A c \in Calls :
       /\ calls[c].op = "update" => RootKnown(calls[c].person, calls[c].was.root)
       /\ calls[c].op = "remove" => RootKnown(calls[c].person, calls[c].root)

\* Until changes of a person overlap there is at most one, and it knows the name.
NamesKnown ==
  \A c \in Calls : calls[c].op = "update" /\ calls[c].person \in Live(person) \ mixed =>
    /\ calls[c].was.name = person[calls[c].person].name
    /\ \A d \in Calls : calls[d].op = "update" /\ calls[d].person = calls[c].person => d = c

\* A handler on its way up that no disturbance excuses has the same root above it
\* as when it began, where its user has not had the level to write since.
WayUp(c) ==
  LET w == calls[c] IN
  /\ w.folder \in Live(folder) /\ w.at \in Live(folder)
  /\ getRootFolderId[w.at] = getRootFolderId[w.folder]
  /\ w.stage = "grants" => IsRoot(folder, w.at)
  /\ w.stage # "allowed"
  /\ w.user \notin Admins
  /\ [to |-> w.user, type |-> "write"] \notin grants[getRootFolderId[w.folder]]
WaysKept == \A c \in Calls : Writing(c) /\ ~calls[c].excused => WayUp(c)

Inv ==
  /\ TypeOK /\ Forest(folder) /\ Rooted(folder)
  /\ Referenced /\ RootsOwned /\ NamesKnown /\ FolderNamedAfterPerson /\ WaysKept
-----------------------------------------------------------------------------
(* Lemmas about the tree. *)

\* The function that finds the roots of a table.
IsRootFunction(t, R) ==
  R = [f \in Folders |-> IF ~t[f].exists THEN NoFolder
                         ELSE IF t[f].parent = NoFolder THEN f
                         ELSE R[t[f].parent]]

LEMMA RootAboveRoot ==
  ASSUME NEW t, NEW f \in Folders, IsRoot(t, f)
  PROVE  RootsAbove(t, f) = {f}
<1>1. UpClosed(t, {f})
  BY DEF UpClosed, IsRoot, IsChild
<1>2. \A g \in Above(t, f) : g = f
  BY <1>1 DEF Above
<1>3. f \in Above(t, f)
  BY DEF Above
<1> QED BY <1>2, <1>3 DEF RootsAbove

\* What is above the parent is above the folder, and there is only the folder more.
LEMMA RootsAboveChild ==
  ASSUME NEW t, Forest(t), NEW f \in Folders, IsChild(t, f)
  PROVE  RootsAbove(t, f) = RootsAbove(t, t[f].parent)
<1> DEFINE p == t[f].parent
           S == {f} \cup Above(t, p)
<1>1. UpClosed(t, Above(t, p))
  <2>1. ASSUME NEW g \in Above(t, p), IsChild(t, g)
        PROVE  t[g].parent \in Above(t, p)
    <3>1. ASSUME NEW T \in SUBSET Folders, p \in T, UpClosed(t, T)
          PROVE  t[g].parent \in T
      <4>1. g \in T
        BY <3>1 DEF Above
      <4> QED BY <2>1, <3>1, <4>1 DEF UpClosed
    <3>2. UpClosed(t, Folders)
      BY DEF UpClosed, Forest
    <3>3. t[g].parent \in Folders
      BY <2>1, <3>2 DEF UpClosed, Above
    <3> QED BY <3>1, <3>3 DEF Above
  <2> QED BY <2>1 DEF UpClosed
<1>2. p \in Above(t, p)
  BY DEF Above, Forest
<1>3. UpClosed(t, S) /\ S \in SUBSET Folders
  BY <1>1, <1>2 DEF UpClosed, Above
<1>4. Above(t, f) \subseteq S
  BY <1>3 DEF Above
<1>5. Above(t, p) \subseteq Above(t, f)
  <2> SUFFICES ASSUME NEW g \in Above(t, p), NEW T \in SUBSET Folders, f \in T, UpClosed(t, T)
               PROVE  g \in T
    BY DEF Above
  <2>1. p \in T
    BY DEF UpClosed
  <2> QED BY <2>1 DEF Above
<1>6. ~IsRoot(t, f)
  BY DEF IsRoot, IsChild
<1> QED BY <1>4, <1>5, <1>6 DEF RootsAbove

LEMMA RootFunctionExists ==
  ASSUME NEW t, Forest(t)
  PROVE  \E R : IsRootFunction(t, R)
<1> DEFINE root(f) == CHOOSE g : g \in RootsAbove(t, f)
           R == [f \in Folders |-> IF ~t[f].exists THEN NoFolder ELSE root(f)]
<1>1. ASSUME NEW f \in Folders, t[f].exists, t[f].parent = NoFolder
      PROVE  R[f] = f
  <2>1. RootsAbove(t, f) = {f}
    BY <1>1, RootAboveRoot DEF IsRoot
  <2> QED BY <1>1, <2>1
<1>2. ASSUME NEW f \in Folders, t[f].exists, t[f].parent # NoFolder
      PROVE  R[f] = R[t[f].parent]
  <2>1. t[f].parent \in Folders /\ t[t[f].parent].exists
    BY <1>2 DEF Forest, IsChild
  <2>2. RootsAbove(t, f) = RootsAbove(t, t[f].parent)
    BY <1>2, <2>1, RootsAboveChild DEF IsChild
  <2>3. root(f) = root(t[f].parent)
    BY <2>2
  <2> HIDE DEF root
  <2> QED BY <1>2, <2>1, <2>3
<1> HIDE DEF root
<1>3. R = [f \in Folders |-> IF ~t[f].exists THEN NoFolder
                             ELSE IF t[f].parent = NoFolder THEN f
                             ELSE R[t[f].parent]]
  <2>1. \A f \in Folders : R[f] = IF ~t[f].exists THEN NoFolder
                                  ELSE IF t[f].parent = NoFolder THEN f
                                  ELSE R[t[f].parent]
    BY <1>1, <1>2
  <2> QED BY <2>1
<1> QED BY <1>3 DEF IsRootFunction

\* The way up stays in every set that is closed upwards, and ends at a root.
LEMMA RootIn ==
  ASSUME NEW t, Forest(t), Rooted(t), NEW R, IsRootFunction(t, R),
         NEW f \in Folders, t[f].exists,
         NEW S \in SUBSET Folders, f \in S, UpClosed(t, S)
  PROVE  R[f] \in S /\ IsRoot(t, R[f])
<1>1. PICK r \in RootsAbove(t, f) : TRUE
  BY DEF Rooted
<1>2. r \in S /\ IsRoot(t, r) /\ r \in Folders
  BY <1>1 DEF RootsAbove, Above
<1> DEFINE T == {g \in Folders : t[g].exists /\ R[g] = R[f]}
<1>3. UpClosed(t, T)
  BY DEF UpClosed, IsChild, Forest, IsRootFunction
<1>4. r \in T
  BY <1>1, <1>3 DEF RootsAbove, Above
<1>5. R[r] = r
  BY <1>2 DEF IsRoot, IsRootFunction
<1> QED BY <1>2, <1>4, <1>5

\* Roots stay where nothing above a folder changes.
LEMMA SameRoot ==
  ASSUME NEW t, Forest(t), Rooted(t), NEW R, IsRootFunction(t, R),
         NEW u, NEW V, IsRootFunction(u, V),
         NEW S \in SUBSET Folders, UpClosed(t, S), NEW f \in S,
         \A g \in S : t[g].exists /\ u[g].exists /\ u[g].parent = t[g].parent
  PROVE  V[f] = R[f]
<1> DEFINE T == {g \in S : V[g] = V[f]}
<1>1. UpClosed(t, T)
  BY DEF UpClosed, IsChild, IsRootFunction
<1>2. R[f] \in T /\ IsRoot(t, R[f])
  BY <1>1, RootIn
<1>3. V[R[f]] = R[f]
  BY <1>2 DEF IsRoot, IsRootFunction
<1> QED BY <1>2, <1>3

\* A folder keeps its parent or becomes a root, and a new one is below an old one.
LEMMA StaysRooted ==
  ASSUME NEW t, Forest(t), Rooted(t), NEW u, Forest(u),
         \A f \in Folders : u[f].exists =>
           IF t[f].exists THEN u[f].parent \in {t[f].parent, NoFolder}
           ELSE u[f].parent # NoFolder => t[u[f].parent].exists
  PROVE  Rooted(u)
<1> DEFINE old == {g \in Folders : t[g].exists /\ u[g].exists}
<1>1. ASSUME NEW f \in old PROVE RootsAbove(u, f) # {}
  <2> SUFFICES ASSUME \A g \in Above(u, f) : ~IsRoot(u, g)
               PROVE  FALSE
    BY DEF RootsAbove
  <2> DEFINE T == Above(u, f)
  <2>1. T \subseteq old
    <3>1. UpClosed(u, old)
      BY DEF UpClosed, IsChild, Forest
    <3> QED BY <3>1 DEF Above
  <2>2. \A g \in T : IsChild(u, g) /\ u[g].parent \in T
    <3> SUFFICES ASSUME NEW g \in T PROVE IsChild(u, g) /\ u[g].parent \in T
      OBVIOUS
    <3>1. IsChild(u, g) /\ u[g].parent \in Folders
      BY <2>1 DEF IsRoot, IsChild, Forest
    <3>2. ASSUME NEW S \in SUBSET Folders, f \in S, UpClosed(u, S) PROVE u[g].parent \in S
      <4>1. g \in S
        BY <3>2 DEF Above
      <4> QED BY <3>1, <3>2, <4>1 DEF UpClosed
    <3> HIDE DEF T
    <3>3. u[g].parent \in Above(u, f)
      BY <3>1, <3>2 DEF Above
    <3> QED BY <3>1, <3>3 DEF T
  <2>3. UpClosed(t, T)
    BY <2>1, <2>2 DEF UpClosed, IsChild
  <2>4. PICK r \in RootsAbove(t, f) : TRUE
    BY DEF Rooted
  <2>5. f \in T /\ T \in SUBSET Folders
    BY DEF Above
  <2>6. r \in Above(t, f) /\ t[r].parent = NoFolder
    BY <2>4 DEF RootsAbove, IsRoot
  <2> HIDE DEF T
  <2>7. r \in T
    BY <2>3, <2>5, <2>6 DEF Above
  <2> QED BY <2>1, <2>2, <2>6, <2>7 DEF IsChild
<1>2. ASSUME NEW f \in Folders, u[f].exists PROVE RootsAbove(u, f) # {}
  <2>1. CASE IsRoot(u, f)
    BY <2>1, RootAboveRoot
  <2>2. CASE t[f].exists
    BY <1>1, <1>2, <2>2
  <2>3. CASE IsChild(u, f) /\ ~t[f].exists
    <3>1. u[f].parent \in old
      BY <1>2, <2>3 DEF Forest, IsChild
    <3> QED BY <1>1, <2>3, <3>1, RootsAboveChild
  <2> QED BY <1>2, <2>1, <2>2, <2>3 DEF IsRoot, IsChild
<1> QED BY <1>2 DEF Rooted

-----------------------------------------------------------------------------
(* Types. *)

Call == UpdateCall \cup RemoveCall \cup WriteCall \cup {Idle}
FolderTables == [Folders -> FolderRow \cup {NoRow, Gone}]

LEMMA CallFields ==
  ASSUME TypeOK, NEW c \in Calls
  PROVE  /\ calls[c] \in Call
         /\ calls[c].op = "update" => calls[c] \in UpdateCall
         /\ calls[c].op = "remove" => calls[c] \in RemoveCall
         /\ Writing(c) => calls[c] \in WriteCall
  BY DEF TypeOK, Call, UpdateCall, RemoveCall, WriteCall, Idle, Writing

LEMMA CallSet ==
  ASSUME TypeOK, NEW c \in Calls, NEW w \in Call, calls' = [calls EXCEPT ![c] = w]
  PROVE  /\ calls' \in [Calls -> Call]
         /\ calls'[c] = w /\ \A d \in Calls \ {c} : calls'[d] = calls[d]
  BY DEF TypeOK, Call

LEMMA IdleIsCall == Idle \in Call
  BY DEF Call

\* What the rows say of themselves.
LEMMA RowFields ==
  ASSUME TypeOK
  PROVE  /\ \A f \in Folders : folder[f].exists =>
              folder[f] \in FolderRow /\ folder[f].parent \in Folders \cup {NoFolder}
         /\ \A p \in Persons : person[p].exists =>
              person[p] \in PersonRow /\ person[p].root \in Folders \cup {NoFolder}
         /\ \A x \in Files : file[x].exists => file[x] \in FileRow
         /\ \A f \in Folders : folder[f].exists \in BOOLEAN
         /\ \A p \in Persons : person[p].exists \in BOOLEAN
         /\ \A x \in Files : file[x].exists \in BOOLEAN
         /\ \A f \in Folders : folder[f] = NoRow => ~folder[f].exists
         /\ \A p \in Persons : person[p] = NoRow => ~person[p].exists
<1>1. \A f \in Folders : /\ folder[f].exists \in BOOLEAN
                         /\ folder[f] = NoRow => ~folder[f].exists
                         /\ folder[f].exists => folder[f] \in FolderRow
  <2> SUFFICES ASSUME NEW f \in Folders
        PROVE  /\ folder[f].exists \in BOOLEAN
               /\ folder[f] = NoRow => ~folder[f].exists
               /\ folder[f].exists => folder[f] \in FolderRow
    OBVIOUS
  <2>1. CASE folder[f] \in FolderRow
    <3>1. folder[f].exists = TRUE
      BY <2>1 DEF FolderRow
    <3>2. NoRow.exists = FALSE
      BY DEF NoRow
    <3> QED BY <2>1, <3>1, <3>2
  <2>2. CASE folder[f] \in {NoRow, Gone}
    <3>1. folder[f].exists = FALSE
      BY <2>2 DEF NoRow, Gone
    <3> QED BY <3>1
  <2> QED BY <2>1, <2>2 DEF TypeOK
<1>2. \A p \in Persons : /\ person[p].exists \in BOOLEAN
                         /\ person[p] = NoRow => ~person[p].exists
                         /\ person[p].exists => person[p] \in PersonRow
  <2> SUFFICES ASSUME NEW p \in Persons
        PROVE  /\ person[p].exists \in BOOLEAN
               /\ person[p] = NoRow => ~person[p].exists
               /\ person[p].exists => person[p] \in PersonRow
    OBVIOUS
  <2>1. CASE person[p] \in PersonRow
    <3>1. person[p].exists = TRUE
      BY <2>1 DEF PersonRow
    <3>2. NoRow.exists = FALSE
      BY DEF NoRow
    <3> QED BY <2>1, <3>1, <3>2
  <2>2. CASE person[p] \in {NoRow, Gone}
    <3>1. person[p].exists = FALSE
      BY <2>2 DEF NoRow, Gone
    <3> QED BY <3>1
  <2> QED BY <2>1, <2>2 DEF TypeOK
<1>3. \A x \in Files : /\ file[x].exists \in BOOLEAN
                       /\ file[x].exists => file[x] \in FileRow
  <2> SUFFICES ASSUME NEW x \in Files
        PROVE  /\ file[x].exists \in BOOLEAN
               /\ file[x].exists => file[x] \in FileRow
    OBVIOUS
  <2>1. CASE file[x] \in FileRow
    <3>1. file[x].exists = TRUE
      BY <2>1 DEF FileRow
    <3>2. NoRow.exists = FALSE
      BY DEF NoRow
    <3> QED BY <2>1, <3>1, <3>2
  <2>2. CASE file[x] \in {NoRow, Gone}
    <3>1. file[x].exists = FALSE
      BY <2>2 DEF NoRow, Gone
    <3> QED BY <3>1
  <2> QED BY <2>1, <2>2 DEF TypeOK
<1>4. /\ \A r \in FolderRow : r.parent \in Folders \cup {NoFolder}
      /\ \A r \in PersonRow : r.root \in Folders \cup {NoFolder}
  BY DEF FolderRow, PersonRow
<1> QED BY <1>1, <1>2, <1>3, <1>4

LEMMA LiveSets ==
  ASSUME TypeOK
  PROVE  /\ Live(folder) = {f \in Folders : folder[f].exists}
         /\ Live(person) = {p \in Persons : person[p].exists}
         /\ Live(file) = {x \in Files : file[x].exists}
  BY DEF TypeOK, Live

LEMMA WithoutTyped ==
  ASSUME TypeOK, NEW f
  PROVE  Without(f) \in FolderTables
<1>1. ASSUME NEW g \in Folders, g \in Below(f)
      PROVE  [folder[g] EXCEPT !.parent = NoFolder] \in FolderRow
  <2>1. folder[g] \in FolderRow
    BY <1>1, RowFields, LiveSets DEF Below
  <2> QED BY <2>1 DEF FolderRow
<1> QED BY <1>1 DEF Without, FolderTables, TypeOK

LEMMA DisturbedTyped ==
  ASSUME TypeOK
  PROVE  Disturbed \in [Calls -> Call]
<1>1. ASSUME NEW c \in Calls, Writing(c)
      PROVE  [calls[c] EXCEPT !.excused = TRUE] \in WriteCall
  BY <1>1, CallFields DEF WriteCall
<1> QED BY <1>1, CallFields DEF Disturbed, Call

LEMMA ExcusedTyped ==
  ASSUME TypeOK, NEW gr
  PROVE  Excused(gr) \in [Calls -> Call]
<1>1. ASSUME NEW c \in Calls, Writing(c)
      PROVE  [calls[c] EXCEPT !.excused = TRUE] \in WriteCall
  BY <1>1, CallFields DEF WriteCall
<1> QED BY <1>1, CallFields DEF Excused, Call

LEMMA PersonsTyped ==
  ASSUME TypeOK,
         \/ \E p \in Persons, f \in Folders, n \in Names : CreatePerson(p, f, n)
         \/ \E c \in Calls, p \in Persons, n \in Names : UpdateReads(c, p, n)
         \/ \E c \in Calls, p \in Persons : RemoveReads(c, p)
         \/ \E c \in Calls : \/ UpdateWrites(c) \/ UpdateFails(c)
                             \/ RemoveCounts(c) \/ RemoveWrites(c) \/ RemoveFails(c)
  PROVE  TypeOK'
<1>1. ASSUME NEW p \in Persons, NEW f \in Folders, NEW n \in Names, CreatePerson(p, f, n)
      PROVE  TypeOK'
  <2>1. /\ [exists |-> TRUE, name |-> n, parent |-> NoFolder] \in FolderRow
        /\ [exists |-> TRUE, name |-> n, root |-> f] \in PersonRow
    BY DEF FolderRow, PersonRow
  <2> QED BY <1>1, <2>1 DEF CreatePerson, TypeOK
<1>2. ASSUME NEW c \in Calls, NEW p \in Persons, NEW n \in Names, UpdateReads(c, p, n)
      PROVE  TypeOK'
  <2>1. person[p] \in PersonRow
    BY <1>2, RowFields DEF UpdateReads
  <2>2. [op |-> "update", person |-> p, was |-> person[p], name |-> n] \in Call
    BY <2>1 DEF UpdateCall, Call
  <2>3. calls' \in [Calls -> Call]
    BY <1>2, <2>2, CallSet DEF UpdateReads
  <2>4. mixed' \subseteq Persons
    BY <1>2 DEF UpdateReads, TypeOK
  <2> QED BY <1>2, <2>3, <2>4 DEF UpdateReads, TypeOK, Call
<1>3. ASSUME NEW c \in Calls, NEW p \in Persons, RemoveReads(c, p) PROVE TypeOK'
  <2>1. person[p].root \in Folders \cup {NoFolder}
    BY <1>3, RowFields DEF RemoveReads
  <2> DEFINE w == [op |-> "remove", person |-> p, root |-> person[p].root,
                   open |-> IF person[p].root = NoFolder THEN {} ELSE {"files", "subfolders"}]
  <2>2. w \in Call
    BY <2>1 DEF RemoveCall, Call
  <2>3. calls' = [calls EXCEPT ![c] = w]
    BY <1>3 DEF RemoveReads
  <2> HIDE DEF w
  <2>4. calls' \in [Calls -> Call]
    BY <2>2, <2>3, CallSet
  <2> QED BY <1>3, <2>4 DEF RemoveReads, TypeOK, Call
<1>4. ASSUME NEW c \in Calls, UpdateWrites(c) PROVE TypeOK'
  <2>1. calls[c] \in UpdateCall
    BY <1>4, CallFields DEF UpdateWrites
  <2>2. Renamed(calls[c]) \in FolderTables
    <3>1. CASE calls[c].was.root \in Live(folder)
      <4>1. folder[calls[c].was.root] \in FolderRow
        BY <3>1, RowFields, LiveSets
      <4>2. [folder[calls[c].was.root] EXCEPT !.name = calls[c].name] \in FolderRow
        BY <2>1, <4>1 DEF FolderRow, UpdateCall
      <4> QED BY <3>1, <4>2, LiveSets DEF Renamed, TypeOK, FolderTables
    <3> QED BY <3>1 DEF Renamed, TypeOK, FolderTables
  <2>3. person' \in [Persons -> PersonRow \cup {NoRow, Gone}]
    <3>1. calls[c].person \in Persons /\ calls[c].name \in Names
      BY <2>1 DEF UpdateCall
    <3>2. person[calls[c].person] \in PersonRow
      BY <1>4, <3>1, RowFields DEF UpdateWrites
    <3>3. [person[calls[c].person] EXCEPT !.name = calls[c].name] \in PersonRow
      BY <3>1, <3>2 DEF PersonRow
    <3> QED BY <1>4, <3>1, <3>3 DEF UpdateWrites, TypeOK
  <2>4. calls' \in [Calls -> Call]
    BY <1>4, CallSet, IdleIsCall DEF UpdateWrites
  <2> QED BY <1>4, <2>2, <2>3, <2>4 DEF UpdateWrites, TypeOK, Call, FolderTables
<1>5. ASSUME NEW c \in Calls, UpdateFails(c) \/ RemoveFails(c) PROVE TypeOK'
  <2>1. calls' \in [Calls -> Call]
    BY <1>5, CallSet, IdleIsCall DEF UpdateFails, RemoveFails
  <2> QED BY <1>5, <2>1 DEF UpdateFails, RemoveFails, TypeOK, Call
<1>6. ASSUME NEW c \in Calls, RemoveCounts(c) PROVE TypeOK'
  <2>1. PICK k \in calls[c].open :
          calls' = [calls EXCEPT ![c] = IF Empty(k, calls[c].root)
                                        THEN [calls[c] EXCEPT !.open = calls[c].open \ {k}] ELSE Idle]
    BY <1>6 DEF RemoveCounts
  <2>2. calls[c] \in RemoveCall
    BY <1>6, CallFields DEF RemoveCounts
  <2>3. [calls[c] EXCEPT !.open = calls[c].open \ {k}] \in RemoveCall
    BY <2>2 DEF RemoveCall
  <2>4. calls' \in [Calls -> Call]
    BY <2>1, <2>3, CallSet, IdleIsCall DEF Call
  <2> QED BY <1>6, <2>4 DEF RemoveCounts, TypeOK, Call
<1>7. ASSUME NEW c \in Calls, RemoveWrites(c) PROVE TypeOK'
  <2>1. folder' \in FolderTables
    BY <1>7, WithoutTyped DEF RemoveWrites
  <2>2. calls' \in [Calls -> Call]
    BY <1>7, DisturbedTyped, IdleIsCall DEF RemoveWrites
  <2>3. person' \in [Persons -> PersonRow \cup {NoRow, Gone}] /\ mixed' \subseteq Persons
    BY <1>7 DEF RemoveWrites, TypeOK
  <2> QED BY <1>7, <2>1, <2>2, <2>3 DEF RemoveWrites, TypeOK, Call, FolderTables
<1> QED BY <1>1, <1>2, <1>3, <1>4, <1>5, <1>6, <1>7

LEMMA FoldersTyped ==
  ASSUME TypeOK,
         \/ \E f \in Folders, p \in Folders \cup {NoFolder} : CreateFolder(f, p)
         \/ \E f \in Folders : UpdateFolder(f) \/ DeleteFolder(f)
         \/ \E f \in Folders, g \in Grant : AddFolderPermission(f, g) \/ DeleteFolderPermission(f, g)
         \/ \E u \in Users : GranteeGone(u)
  PROVE  TypeOK'
<1>1. ASSUME NEW f \in Folders, NEW p \in Folders \cup {NoFolder}, CreateFolder(f, p) PROVE TypeOK'
  <2>1. [exists |-> TRUE, name |-> OtherName, parent |-> p] \in FolderRow
    BY DEF FolderRow
  <2> QED BY <1>1, <2>1 DEF CreateFolder, TypeOK
<1>2. ASSUME NEW f \in Folders, UpdateFolder(f) PROVE TypeOK'
  <2>1. folder[f] \in FolderRow
    BY <1>2, RowFields, LiveSets DEF UpdateFolder
  <2>2. [folder[f] EXCEPT !.name = OtherName] \in FolderRow
    BY <2>1 DEF FolderRow
  <2>3. mixed' \subseteq Persons
    BY <1>2, LiveSets DEF UpdateFolder, TypeOK
  <2> QED BY <1>2, <2>2, <2>3 DEF UpdateFolder, TypeOK
<1>3. ASSUME NEW f \in Folders, DeleteFolder(f) PROVE TypeOK'
  <2>1. folder' \in FolderTables /\ calls' \in [Calls -> Call]
    BY <1>3, WithoutTyped, DisturbedTyped DEF DeleteFolder
  <2>2. \A p \in Live(person) : [person[p] EXCEPT !.root = NoFolder] \in PersonRow
    <3> SUFFICES ASSUME NEW p \in Live(person) PROVE [person[p] EXCEPT !.root = NoFolder] \in PersonRow
      OBVIOUS
    <3>1. person[p] \in PersonRow
      BY RowFields, LiveSets
    <3> QED BY <3>1 DEF PersonRow
  <2>3. person' \in [Persons -> PersonRow \cup {NoRow, Gone}]
    BY <1>3, <2>2 DEF DeleteFolder, TypeOK
  <2> QED BY <1>3, <2>1, <2>3 DEF DeleteFolder, TypeOK, Call, FolderTables
<1>4. ASSUME NEW f \in Folders, NEW g \in Grant, AddFolderPermission(f, g) \/ DeleteFolderPermission(f, g)
      PROVE  TypeOK'
  <2>1. grants' \in [Folders -> SUBSET Grant]
    BY <1>4 DEF AddFolderPermission, DeleteFolderPermission, TypeOK
  <2>2. calls' \in [Calls -> Call]
    BY <1>4, ExcusedTyped DEF AddFolderPermission, DeleteFolderPermission, TypeOK, Call
  <2> QED BY <1>4, <2>1, <2>2 DEF AddFolderPermission, DeleteFolderPermission, TypeOK, Call
<1>5. ASSUME NEW u \in Users, GranteeGone(u) PROVE TypeOK'
  <2>1. ToOthers \in Grant
    BY DEF Grant
  <2>2. grants' \in [Folders -> SUBSET Grant]
    BY <1>5, <2>1 DEF GranteeGone, TypeOK
  <2> QED BY <1>5, <2>2 DEF GranteeGone, TypeOK
<1> QED BY <1>1, <1>2, <1>3, <1>4, <1>5

LEMMA FilesTyped ==
  ASSUME TypeOK,
         \/ \E c \in Calls : \/ Walk(c) \/ ReadGrants(c)
                             \/ UploadWrites(c) \/ ArchiveWrites(c) \/ WriteFails(c)
         \/ \E c \in Calls, u \in Users \cup Admins, x \in Files :
              ArchiveReads(c, u, x) \/ \E f \in Folders : UploadReads(c, u, x, f)
         \/ \E x \in Files, f \in Folders : CreateFile(x, f)
         \/ \E x \in Files : Purge(x)
  PROVE  TypeOK'
<1>1. ASSUME NEW c \in Calls, Walk(c) PROVE TypeOK'
  <2>1. calls[c] \in WriteCall
    BY <1>1, CallFields DEF Walk
  <2> DEFINE r == folder[calls[c].at]
             w == IF ~r.exists THEN Idle
                  ELSE IF r.parent = NoFolder THEN [calls[c] EXCEPT !.stage = "grants"]
                  ELSE [calls[c] EXCEPT !.at = r.parent]
  <2>2. r.exists => r.parent \in Folders \cup {NoFolder}
    BY <2>1, RowFields DEF WriteCall
  <2>3. [calls[c] EXCEPT !.stage = "grants"] \in WriteCall
    BY <2>1 DEF WriteCall
  <2>4. r.exists /\ r.parent # NoFolder => [calls[c] EXCEPT !.at = r.parent] \in WriteCall
    BY <2>1, <2>2 DEF WriteCall
  <2>5. w \in Call
    BY <2>3, <2>4, IdleIsCall DEF Call
  <2>6. calls' = [calls EXCEPT ![c] = w]
    BY <1>1 DEF Walk, TypeOK
  <2> HIDE DEF w
  <2>7. calls' \in [Calls -> Call]
    BY <2>5, <2>6, CallSet
  <2> QED BY <1>1, <2>7 DEF Walk, TypeOK, Call
<1>2. ASSUME NEW c \in Calls, ReadGrants(c) PROVE TypeOK'
  <2>1. calls[c] \in WriteCall
    BY <1>2, CallFields DEF ReadGrants
  <2>2. [calls[c] EXCEPT !.stage = "allowed"] \in WriteCall
    BY <2>1 DEF WriteCall
  <2>3. \E w \in {[calls[c] EXCEPT !.stage = "allowed"], Idle} : calls' = [calls EXCEPT ![c] = w]
    BY <1>2 DEF ReadGrants, TypeOK
  <2>4. calls' \in [Calls -> Call]
    BY <2>2, <2>3, CallSet, IdleIsCall DEF Call
  <2> QED BY <1>2, <2>4 DEF ReadGrants, TypeOK, Call
<1>3. ASSUME NEW c \in Calls, UploadWrites(c) \/ ArchiveWrites(c) \/ WriteFails(c) PROVE TypeOK'
  <2>1. calls[c] \in WriteCall
    BY <1>3, CallFields DEF UploadWrites, ArchiveWrites, WriteFails, Writing
  <2>2. calls[c].file \in Files /\ calls[c].folder \in Folders
    BY <2>1 DEF WriteCall
  <2>3. file' \in [Files -> FileRow \cup {NoRow, Gone}]
    <3>1. CASE UploadWrites(c)
      <4>1. [exists |-> TRUE, folder |-> calls[c].folder, archived |-> FALSE] \in FileRow
        BY <2>2 DEF FileRow
      <4> QED BY <2>2, <3>1, <4>1 DEF UploadWrites, TypeOK
    <3>2. CASE ArchiveWrites(c) /\ file[calls[c].file].exists
      <4>1. [file[calls[c].file] EXCEPT !.archived = TRUE] \in FileRow
        BY <2>2, <3>2, RowFields DEF FileRow
      <4> QED BY <2>2, <3>2, <4>1 DEF ArchiveWrites, TypeOK
    <3> QED BY <1>3, <3>1, <3>2 DEF ArchiveWrites, WriteFails, TypeOK
  <2>4. calls' \in [Calls -> Call]
    BY <1>3, CallSet, IdleIsCall DEF UploadWrites, ArchiveWrites, WriteFails
  <2> QED BY <1>3, <2>3, <2>4 DEF UploadWrites, ArchiveWrites, WriteFails, TypeOK, Call
<1>4. ASSUME NEW c \in Calls, NEW u \in Users \cup Admins, NEW x \in Files, NEW op \in {"upload", "archive"},
             NEW f \in Folders, WriteReads(c, op, u, x, f)
      PROVE  TypeOK'
  <2> DEFINE may == getUserFolderPermissionLevel(u, f) = "write"
             w == [op |-> op, user |-> u, folder |-> f, file |-> x, at |-> f,
                   stage |-> "walk", excused |-> may]
  <2>1. may \in BOOLEAN
    OBVIOUS
  <2>2. calls' = [calls EXCEPT ![c] = w]
    BY <1>4 DEF WriteReads
  <2> HIDE DEF may
  <2>3. w \in Call
    BY <2>1 DEF Call, WriteCall
  <2> HIDE DEF w
  <2>4. calls' \in [Calls -> Call]
    BY <2>2, <2>3, CallSet
  <2> QED BY <1>4, <2>4 DEF WriteReads, TypeOK, Call
<1>5. ASSUME NEW c \in Calls, NEW u \in Users \cup Admins, NEW x \in Files, ArchiveReads(c, u, x)
      PROVE  TypeOK'
  <2>1. file[x].folder \in Folders
    BY <1>5, LiveSets DEF ArchiveReads, WriteReads
  <2> QED BY <1>4, <1>5, <2>1 DEF ArchiveReads
<1>6. ASSUME NEW x \in Files, NEW f \in Folders, CreateFile(x, f) PROVE TypeOK'
  <2>1. [exists |-> TRUE, folder |-> f, archived |-> FALSE] \in FileRow
    BY DEF FileRow
  <2> QED BY <1>6, <2>1 DEF CreateFile, TypeOK
<1>7. ASSUME NEW x \in Files, Purge(x) PROVE TypeOK'
  BY <1>7 DEF Purge, TypeOK
<1> QED BY <1>1, <1>2, <1>3, <1>4, <1>5, <1>6, <1>7 DEF UploadReads

LEMMA InitTyped == Init => TypeOK
  BY DEF Init, TypeOK

LEMMA NextTyped == ASSUME TypeOK, [Next]_vars PROVE TypeOK'
  BY PersonsTyped, FoldersTyped, FilesTyped DEF Next, vars, TypeOK

-----------------------------------------------------------------------------
(* What the steps do to the tree. *)

\* The tree stays, with other names perhaps; a folder is added below one that is
\* there, or at the top; a folder is deleted.
SameTree ==
  \A g \in Folders : /\ folder'[g].exists = folder[g].exists
                     /\ folder[g].exists => folder'[g].parent = folder[g].parent
                     /\ ~folder[g].exists => folder'[g] = folder[g]
Planted(f, p) ==
  /\ folder[f] = NoRow /\ folder'[f].exists /\ folder'[f].parent = p
  /\ p # NoFolder => p \in Folders /\ folder[p].exists
  /\ \A g \in Folders \ {f} : folder'[g] = folder[g]
Felled(f) ==
  /\ folder' = Without(f)
  /\ f \in Live(folder) => Deletable(f)
  /\ UNCHANGED <<grants, file>>

LEMMA WithoutFields ==
  ASSUME TypeOK, NEW f, NEW g \in Folders, folder' = Without(f)
  PROVE  /\ g = f => folder'[g] = Gone
         /\ g # f => folder'[g].exists = folder[g].exists
         /\ g # f /\ folder[g].exists => folder'[g].name = folder[g].name
         /\ g # f /\ folder[g].exists => folder'[g].parent =
                      IF folder[g].parent = f THEN NoFolder ELSE folder[g].parent
         /\ g # f /\ ~folder[g].exists => folder'[g] = folder[g]
<1>1. folder'[g] = IF g = f THEN Gone
                   ELSE IF g \in Below(f) THEN [folder[g] EXCEPT !.parent = NoFolder] ELSE folder[g]
  BY DEF Without
<1>2. g \in Below(f) <=> folder[g].exists /\ folder[g].parent = f
  BY LiveSets DEF Below
<1>3. CASE g = f \/ g \notin Below(f)
  BY <1>1, <1>2, <1>3
<1>4. CASE g # f /\ g \in Below(f)
  <2>1. folder[g] \in FolderRow
    BY <1>2, <1>4, RowFields
  <2>2. folder'[g] = [folder[g] EXCEPT !.parent = NoFolder]
    BY <1>1, <1>4
  <2>3. /\ folder'[g].exists = folder[g].exists /\ folder'[g].name = folder[g].name
        /\ folder'[g].parent = NoFolder
    BY <2>1, <2>2 DEF FolderRow
  <2> QED BY <1>2, <1>4, <2>3
<1> QED BY <1>3, <1>4

\* A folder that gets another name.
LEMMA OtherNameSameTree ==
  ASSUME TypeOK, NEW f \in Folders, folder[f].exists, NEW n, folder' = [folder EXCEPT ![f].name = n]
  PROVE  SameTree /\ folder'[f].name = n /\ \A g \in Folders \ {f} : folder'[g] = folder[g]
<1>1. folder[f] \in FolderRow
  BY RowFields
<1>2. folder'[f] = [folder[f] EXCEPT !.name = n] /\ \A g \in Folders \ {f} : folder'[g] = folder[g]
  BY DEF TypeOK
<1>3. /\ folder'[f].exists = folder[f].exists /\ folder'[f].parent = folder[f].parent
      /\ folder'[f].name = n
  <2>1. \A r \in FolderRow : LET s == [r EXCEPT !.name = n] IN
          s.exists = r.exists /\ s.parent = r.parent /\ s.name = n
    BY ONLY DEF FolderRow
  <2> QED BY <1>1, <1>2, <2>1
<1>4. ASSUME NEW g \in Folders
      PROVE  /\ folder'[g].exists = folder[g].exists
             /\ folder[g].exists => folder'[g].parent = folder[g].parent
             /\ ~folder[g].exists => folder'[g] = folder[g]
  <2>1. CASE g = f
    BY <1>3, <2>1
  <2>2. CASE g # f
    BY <1>2, <2>2
  <2> QED BY <2>1, <2>2
<1> QED BY <1>2, <1>3, <1>4 DEF SameTree

LEMMA TreeSteps ==
  ASSUME TypeOK, [Next]_vars
  PROVE  \/ SameTree
         \/ \E f \in Folders : \E p : Planted(f, p)
         \/ \E f : /\ Felled(f)
                   /\ \/ \E c \in Calls : RemoveWrites(c) /\ calls[c].root = f
                      \/ f \in Folders /\ DeleteFolder(f)
<1>1. CASE folder' = folder
  BY <1>1 DEF SameTree
<1>2. ASSUME NEW p \in Persons, NEW f \in Folders, NEW n \in Names, CreatePerson(p, f, n)
      PROVE  Planted(f, NoFolder)
  BY <1>2 DEF CreatePerson, Planted, TypeOK
<1>3. ASSUME NEW f \in Folders, NEW p \in Folders \cup {NoFolder}, CreateFolder(f, p)
      PROVE  Planted(f, p)
  BY <1>3, LiveSets DEF CreateFolder, Planted, TypeOK
<1>4. ASSUME NEW c \in Calls, UpdateWrites(c) PROVE SameTree
  <2>1. CASE calls[c].was.root \in Live(folder) /\ calls[c].name # calls[c].was.name
    BY <1>4, <2>1, OtherNameSameTree, LiveSets DEF UpdateWrites, Renamed
  <2>2. CASE ~(calls[c].was.root \in Live(folder) /\ calls[c].name # calls[c].was.name)
    BY <1>1, <1>4, <2>2 DEF UpdateWrites, Renamed, SameTree
  <2> QED BY <2>1, <2>2
<1>5. ASSUME NEW f \in Folders, UpdateFolder(f) PROVE SameTree
  BY <1>5, OtherNameSameTree, LiveSets DEF UpdateFolder
<1>6. ASSUME NEW c \in Calls, RemoveWrites(c) PROVE Felled(calls[c].root)
  BY <1>6 DEF RemoveWrites, Felled
<1>7. ASSUME NEW f \in Folders, DeleteFolder(f) PROVE Felled(f)
  BY <1>7 DEF DeleteFolder, Felled
<1>8. CASE Next
  <2>1. \/ folder' = folder
        \/ \E q \in Persons, f \in Folders, n \in Names : CreatePerson(q, f, n)
        \/ \E f \in Folders, q \in Folders \cup {NoFolder} : CreateFolder(f, q)
        \/ \E c \in Calls : UpdateWrites(c) \/ RemoveWrites(c)
        \/ \E f \in Folders : UpdateFolder(f) \/ DeleteFolder(f)
    BY <1>8 DEF Next, UpdateReads, RemoveReads, UpdateFails, RemoveCounts, RemoveFails, Walk,
                ReadGrants, UploadWrites, ArchiveWrites, WriteFails, AddFolderPermission,
                DeleteFolderPermission, GranteeGone, ArchiveReads, UploadReads, WriteReads,
                CreateFile, Purge
  <2> QED BY <1>1, <1>2, <1>3, <1>4, <1>5, <1>6, <1>7, <2>1
<1> QED BY <1>1, <1>8 DEF vars

LEMMA TreeKept ==
  ASSUME TypeOK, TypeOK', Forest(folder), Rooted(folder), [Next]_vars
  PROVE  Forest(folder') /\ Rooted(folder')
<1>1. \A f \in Folders : folder'[f].exists \in BOOLEAN
  <2>1. \A r \in FolderRow : r.exists = TRUE
    BY DEF FolderRow
  <2>2. NoRow.exists = FALSE /\ Gone.exists = FALSE
    BY DEF NoRow, Gone
  <2>3. \A f \in Folders : folder'[f] \in FolderRow \/ folder'[f] \in {NoRow, Gone}
    BY DEF TypeOK
  <2>4. \A f \in Folders : folder'[f].exists = TRUE \/ folder'[f].exists = FALSE
    BY <2>1, <2>2, <2>3
  <2> QED BY <2>4
<1>2. \A f \in Folders : folder[f] = NoRow => ~folder[f].exists
  BY RowFields
<1>3. CASE SameTree
  <2>1. Forest(folder')
    BY <1>1, <1>3 DEF Forest, IsChild, SameTree
  <2>2. \A f \in Folders : folder'[f].exists => folder[f].exists /\ folder'[f].parent = folder[f].parent
    BY <1>3 DEF SameTree
  <2> QED BY <2>1, <2>2, StaysRooted
<1>4. ASSUME NEW f \in Folders, NEW p, Planted(f, p) PROVE Forest(folder') /\ Rooted(folder')
  <2>1. Forest(folder')
    BY <1>1, <1>2, <1>4 DEF Forest, IsChild, Planted
  <2>2. \A g \in Folders : folder'[g].exists =>
          IF folder[g].exists THEN folder'[g].parent \in {folder[g].parent, NoFolder}
          ELSE folder'[g].parent # NoFolder => folder[folder'[g].parent].exists
    BY <1>2, <1>4 DEF Planted
  <2> QED BY <2>1, <2>2, StaysRooted
<1>5. ASSUME NEW f, Felled(f) PROVE Forest(folder') /\ Rooted(folder')
  <2>1. \A g \in Folders : folder'[g].exists =>
          /\ g # f /\ folder[g].exists /\ folder'[g].parent \in {folder[g].parent, NoFolder}
          /\ folder'[g].parent # NoFolder => folder'[g].parent # f
    <3>1. Gone.exists = FALSE
      BY DEF Gone
    <3> QED BY <1>5, <3>1, WithoutFields DEF Felled
  <2>2. \A g \in Folders : g # f => folder'[g].exists = folder[g].exists
    BY <1>5, WithoutFields DEF Felled
  <2>3. Forest(folder')
    BY <1>1, <2>1, <2>2 DEF Forest, IsChild
  <2> QED BY <2>1, <2>3, StaysRooted
<1> QED BY <1>3, <1>4, <1>5, TreeSteps

\* getRootFolderId finds the roots, before and after a step.
LEMMA RootFound == Forest(folder) => IsRootFunction(folder, getRootFolderId)
  BY RootFunctionExists DEF getRootFolderId, IsRootFunction

LEMMA RootFoundNext == Forest(folder') => IsRootFunction(folder', getRootFolderId')
  BY RootFunctionExists DEF getRootFolderId, IsRootFunction

\* While no folder is deleted, every folder keeps the root above it.
LEMMA RootsKept ==
  ASSUME TypeOK, Forest(folder), Rooted(folder), Forest(folder'),
         SameTree \/ \E f \in Folders : \E p : Planted(f, p)
  PROVE  \A g \in Folders : folder[g].exists =>
           /\ folder'[g].exists /\ folder'[g].parent = folder[g].parent
           /\ getRootFolderId'[g] = getRootFolderId[g]
<1> DEFINE S == {g \in Folders : folder[g].exists}
<1>1. \A g \in S : folder'[g].exists /\ folder'[g].parent = folder[g].parent
  BY RowFields DEF SameTree, Planted
<1>2. UpClosed(folder, S)
  BY DEF UpClosed, IsChild, Forest
<1> QED BY <1>1, <1>2, SameRoot, RootFound, RootFoundNext

-----------------------------------------------------------------------------
(* The foreign keys. *)

\* Documents stay where they are, and come into folders that are there; only roots
\* get permissions.
FilesStay ==
  \A x \in Files : file'[x].exists =>
    \/ file[x].exists /\ file'[x].folder = file[x].folder
    \/ file'[x].folder \in Live(folder) /\ folder' = folder
GrantsStay ==
  \A f \in Folders : grants'[f] # {} => grants[f] # {} \/ (IsRoot(folder, f) /\ folder' = folder)

LEMMA FileSteps == ASSUME TypeOK, [Next]_vars PROVE FilesStay
<1>1. CASE file' = file
  BY <1>1 DEF FilesStay
<1>2. ASSUME NEW c \in Calls, UploadWrites(c) PROVE FilesStay
  <2>1. calls[c].file \in Files
    BY <1>2, CallFields DEF UploadWrites, Writing, WriteCall
  <2>2. \A x \in Files : file'[x] = file[x] \/ file'[x].folder = calls[c].folder
    BY <1>2, <2>1 DEF UploadWrites, TypeOK
  <2> QED BY <1>2, <2>2 DEF UploadWrites, FilesStay
<1>3. ASSUME NEW x \in Files, NEW f \in Folders, CreateFile(x, f) PROVE FilesStay
  <2>1. \A y \in Files : file'[y] = file[y] \/ file'[y].folder = f
    BY <1>3 DEF CreateFile, TypeOK
  <2> QED BY <1>3, <2>1 DEF CreateFile, FilesStay
<1>4. ASSUME NEW c \in Calls, ArchiveWrites(c) PROVE FilesStay
  <2>1. calls[c].file \in Files
    BY <1>4, CallFields DEF ArchiveWrites, Writing, WriteCall
  <2>2. \A r \in FileRow : [r EXCEPT !.archived = TRUE].folder = r.folder
    BY DEF FileRow
  <2>3. file[calls[c].file].exists => [file[calls[c].file] EXCEPT !.archived = TRUE].folder
                                        = file[calls[c].file].folder
    BY <2>1, <2>2, RowFields
  <2>4. CASE file[calls[c].file].exists
    BY <1>4, <2>1, <2>3, <2>4 DEF ArchiveWrites, TypeOK, FilesStay
  <2> QED BY <1>1, <1>4, <2>4 DEF ArchiveWrites
<1>5. ASSUME NEW x \in Files, Purge(x) PROVE FilesStay
  <2>1. Gone.exists = FALSE
    BY DEF Gone
  <2>2. \A y \in Files : file'[y].exists => file'[y] = file[y]
    BY <1>5, <2>1 DEF Purge, TypeOK
  <2> QED BY <2>2 DEF FilesStay
<1>6. CASE Next
  <2>1. \/ file' = file
        \/ \E c \in Calls : UploadWrites(c) \/ ArchiveWrites(c)
        \/ \E x \in Files, f \in Folders : CreateFile(x, f)
        \/ \E x \in Files : Purge(x)
    BY <1>6 DEF Next, CreatePerson, UpdateReads, UpdateWrites, UpdateFails, RemoveReads,
                RemoveCounts, RemoveWrites, RemoveFails, CreateFolder, UpdateFolder, DeleteFolder,
                AddFolderPermission, DeleteFolderPermission, GranteeGone, ArchiveReads,
                UploadReads, WriteReads, Walk, ReadGrants, WriteFails
  <2> QED BY <1>1, <1>2, <1>3, <1>4, <1>5, <2>1
<1> QED BY <1>1, <1>6 DEF vars

LEMMA GrantSteps == ASSUME TypeOK, [Next]_vars PROVE GrantsStay
<1>1. CASE grants' = grants
  BY <1>1 DEF GrantsStay
<1>2. ASSUME NEW f \in Folders, NEW g \in Grant, AddFolderPermission(f, g) \/ DeleteFolderPermission(f, g)
      PROVE  GrantsStay
  BY <1>2, LiveSets DEF AddFolderPermission, DeleteFolderPermission, TypeOK, GrantsStay, IsRoot
<1>3. ASSUME NEW u \in Users, GranteeGone(u) PROVE GrantsStay
  BY <1>3 DEF GranteeGone, GrantsStay
<1>4. CASE Next
  <2>1. \/ grants' = grants
        \/ \E f \in Folders, g \in Grant : AddFolderPermission(f, g) \/ DeleteFolderPermission(f, g)
        \/ \E u \in Users : GranteeGone(u)
    BY <1>4 DEF Next, CreatePerson, UpdateReads, UpdateWrites, UpdateFails, RemoveReads,
                RemoveCounts, RemoveWrites, RemoveFails, CreateFolder, UpdateFolder, DeleteFolder,
                UploadWrites, ArchiveWrites, CreateFile, Purge, ArchiveReads, UploadReads,
                WriteReads, Walk, ReadGrants, WriteFails
  <2> QED BY <1>1, <1>2, <1>3, <2>1
<1> QED BY <1>1, <1>4 DEF vars

LEMMA ReferencedKept ==
  ASSUME TypeOK, TypeOK', Forest(folder), Referenced, [Next]_vars
  PROVE  Referenced'
<1>1. /\ \A x \in Files : file[x].exists => file[x].folder \in Folders /\ folder[file[x].folder].exists
      /\ \A f \in Folders : grants[f] # {} => folder[f].exists /\ folder[f].parent = NoFolder
  BY LiveSets DEF Referenced, IsRoot
<1>2. Live(file)' = {x \in Files : file'[x].exists} /\ Live(folder)' = {f \in Folders : folder'[f].exists}
  BY DEF TypeOK, Live
<1>3. /\ \A x \in Files : file'[x].exists =>
           \/ file[x].exists /\ file'[x].folder = file[x].folder
           \/ file'[x].folder \in Folders /\ folder'[file'[x].folder].exists
      /\ \A f \in Folders : grants'[f] # {} =>
           grants[f] # {} \/ (folder'[f].exists /\ folder'[f].parent = NoFolder)
  BY FileSteps, GrantSteps, LiveSets DEF FilesStay, GrantsStay, IsRoot
<1>4. CASE SameTree \/ \E f \in Folders : \E p : Planted(f, p)
  <2>1. \A f \in Folders : folder[f].exists => folder'[f].exists /\ folder'[f].parent = folder[f].parent
    BY <1>4, RowFields DEF SameTree, Planted
  <2> QED BY <1>1, <1>2, <1>3, <2>1 DEF Referenced, IsRoot
<1>5. ASSUME NEW f, Felled(f) PROVE Referenced'
  <2>1. \A x \in Files : file[x].exists => file[x].folder # f
    BY <1>1, <1>5, LiveSets DEF Felled, Deletable, In
  <2>2. \A g \in Folders : grants[g] # {} => g # f
    BY <1>1, <1>5, LiveSets DEF Felled, Deletable
  <2>3. \A g \in Folders : g # f => /\ folder'[g].exists = folder[g].exists
                                    /\ folder[g].exists => folder'[g].parent \in {folder[g].parent, NoFolder}
    BY <1>5, WithoutFields DEF Felled
  <2>4. file' = file /\ grants' = grants
    BY <1>5 DEF Felled
  <2>5. \A x \in Files : file'[x].exists => file'[x].folder \in Folders /\ folder'[file'[x].folder].exists
    <3> SUFFICES ASSUME NEW x \in Files, file'[x].exists
                 PROVE  file'[x].folder \in Folders /\ folder'[file'[x].folder].exists
      OBVIOUS
    <3> DEFINE g == file[x].folder
    <3>1. file'[x].folder = g /\ g \in Folders /\ folder[g].exists /\ g # f
      BY <1>1, <2>1, <2>4
    <3> HIDE DEF g
    <3> QED BY <2>3, <3>1
  <2>6. \A g \in Folders : grants'[g] # {} => folder'[g].exists /\ folder'[g].parent = NoFolder
    <3> SUFFICES ASSUME NEW g \in Folders, grants'[g] # {}
                 PROVE  folder'[g].exists /\ folder'[g].parent = NoFolder
      OBVIOUS
    <3>1. g # f /\ folder[g].exists /\ folder[g].parent = NoFolder
      BY <1>1, <2>2, <2>4
    <3> QED BY <2>3, <3>1
  <2> QED BY <1>2, <2>5, <2>6 DEF Referenced, IsRoot
<1> QED BY <1>4, <1>5, TreeSteps

-----------------------------------------------------------------------------
(* Persons, their roots and their names. *)

\* A handler goes on with the person it has read.
SameUpdate(d) == calls'[d].op = "update" => calls'[d] = calls[d]
SameRemove(d) ==
  calls'[d].op = "remove" =>
    calls[d].op = "remove" /\ calls'[d].person = calls[d].person /\ calls'[d].root = calls[d].root

LEMMA CallSteps ==
  ASSUME TypeOK, [Next]_vars
  PROVE  /\ \A d \in Calls : SameUpdate(d) \/ \E p \in Persons, n \in Names : UpdateReads(d, p, n)
         /\ \A d \in Calls : SameRemove(d) \/ \E p \in Persons : RemoveReads(d, p)
<1> USE DEF SameUpdate, SameRemove
<1>i. Idle.op = "idle"
  BY DEF Idle
<1>1. CASE calls' = calls
  BY <1>1
<1>2. ASSUME NEW c \in Calls, NEW w, w.op \notin {"update", "remove"}, calls' = [calls EXCEPT ![c] = w]
      PROVE  \A d \in Calls : SameUpdate(d) /\ SameRemove(d)
  BY <1>2 DEF TypeOK
<1>3. ASSUME NEW c \in Calls, NEW p \in Persons, NEW n \in Names, UpdateReads(c, p, n)
      PROVE  \A d \in Calls : d # c => SameUpdate(d) /\ SameRemove(d)
  BY <1>3 DEF UpdateReads, TypeOK
<1>4. ASSUME NEW c \in Calls, NEW p \in Persons, NEW n \in Names, UpdateReads(c, p, n)
      PROVE  SameRemove(c)
  BY <1>4 DEF UpdateReads, TypeOK
<1>5. ASSUME NEW c \in Calls, NEW p \in Persons, RemoveReads(c, p)
      PROVE  SameUpdate(c) /\ \A d \in Calls : d # c => SameUpdate(d) /\ SameRemove(d)
  BY <1>5 DEF RemoveReads, TypeOK
<1>6. ASSUME NEW c \in Calls, RemoveCounts(c) PROVE \A d \in Calls : SameUpdate(d) /\ SameRemove(d)
  <2>1. PICK k \in calls[c].open :
          calls' = [calls EXCEPT ![c] = IF Empty(k, calls[c].root)
                                        THEN [calls[c] EXCEPT !.open = calls[c].open \ {k}] ELSE Idle]
    BY <1>6 DEF RemoveCounts
  <2>2. calls[c] \in RemoveCall
    BY <1>6, CallFields DEF RemoveCounts
  <2> DEFINE w == [calls[c] EXCEPT !.open = calls[c].open \ {k}]
  <2>3. w.op = "remove" /\ w.person = calls[c].person /\ w.root = calls[c].root /\ calls[c].op = "remove"
    BY <2>2 DEF RemoveCall
  <2>4. calls' = [calls EXCEPT ![c] = IF Empty(k, calls[c].root) THEN w ELSE Idle]
    BY <2>1
  <2> HIDE DEF w
  <2> QED BY <1>i, <2>3, <2>4 DEF TypeOK
<1>7. \A d \in Calls : Writing(d) => [calls[d] EXCEPT !.excused = TRUE].op \notin {"update", "remove"}
  BY CallFields DEF WriteCall
<1>8. \A d \in Calls : /\ Disturbed[d].op \in {"update", "remove"} => Disturbed[d] = calls[d]
                       /\ Excused(grants')[d].op \in {"update", "remove"} => Excused(grants')[d] = calls[d]
  BY <1>7 DEF Disturbed, Excused
<1>9. ASSUME \/ calls' = Excused(grants') \/ calls' = Disturbed
             \/ \E c \in Calls : calls' = [Disturbed EXCEPT ![c] = Idle]
      PROVE  \A d \in Calls : SameUpdate(d) /\ SameRemove(d)
  <2>1. \A d \in Calls : calls'[d].op \in {"update", "remove"} => calls'[d] = calls[d]
    <3>1. CASE \E c \in Calls : calls' = [Disturbed EXCEPT ![c] = Idle]
      <4>1. \A d \in Calls : calls'[d] = Disturbed[d] \/ calls'[d] = Idle
        BY <3>1 DEF Disturbed
      <4> QED BY <1>i, <1>8, <4>1
    <3> QED BY <1>8, <1>9, <3>1
  <2> QED BY <2>1
<1>10. ASSUME NEW c \in Calls, calls[c] \in WriteCall,
              \/ Walk(c) \/ ReadGrants(c)
       PROVE  \A d \in Calls : SameUpdate(d) /\ SameRemove(d)
  <2>1. \A a : /\ [calls[c] EXCEPT !.stage = a].op \notin {"update", "remove"}
               /\ [calls[c] EXCEPT !.at = a].op \notin {"update", "remove"}
    BY <1>10 DEF WriteCall
  <2>2. PICK w : w.op \notin {"update", "remove"} /\ calls' = [calls EXCEPT ![c] = w]
    BY <1>i, <1>10, <2>1 DEF Walk, ReadGrants
  <2> QED BY <1>2, <2>2
<1>11. ASSUME NEW c \in Calls, NEW op \in {"upload", "archive"}, NEW u, NEW x, NEW f, WriteReads(c, op, u, x, f)
       PROVE  \A d \in Calls : SameUpdate(d) /\ SameRemove(d)
  BY <1>11 DEF WriteReads, TypeOK
<1>12. ASSUME NEW c \in Calls, calls' = [calls EXCEPT ![c] = Idle]
       PROVE  \A d \in Calls : SameUpdate(d) /\ SameRemove(d)
  BY <1>i, <1>2, <1>12
<1>13. CASE Next
  <2>1. \/ calls' = calls
        \/ \E c \in Calls : calls' = [calls EXCEPT ![c] = Idle]
        \/ \E c \in Calls, p \in Persons, n \in Names : UpdateReads(c, p, n)
        \/ \E c \in Calls, p \in Persons : RemoveReads(c, p)
        \/ \E c \in Calls : RemoveCounts(c)
        \/ calls' = Excused(grants') \/ calls' = Disturbed
        \/ \E c \in Calls : calls' = [Disturbed EXCEPT ![c] = Idle]
        \/ \E c \in Calls : Walk(c) \/ ReadGrants(c)
        \/ \E c \in Calls, op \in {"upload", "archive"} : \E u, x, f : WriteReads(c, op, u, x, f)
    BY <1>13 DEF Next, CreatePerson, UpdateWrites, UpdateFails, RemoveWrites, RemoveFails,
                 CreateFolder, UpdateFolder, DeleteFolder, AddFolderPermission,
                 DeleteFolderPermission, GranteeGone, ArchiveReads, UploadReads, UploadWrites,
                 ArchiveWrites, WriteFails, CreateFile, Purge
  <2>2. \A c \in Calls : Walk(c) \/ ReadGrants(c) => calls[c] \in WriteCall
    BY CallFields DEF Walk, ReadGrants
  <2> QED BY <1>1, <1>3, <1>4, <1>5, <1>6, <1>9, <1>10, <1>11, <1>12, <2>1, <2>2
<1> QED BY <1>1, <1>13 DEF vars

\* No id is given twice, and a root stays one.
FoldersAge ==
  \A f \in Folders : folder[f] # NoRow =>
    /\ folder'[f] # NoRow
    /\ folder'[f].exists =>
         folder[f].exists /\ folder'[f].parent \in {folder[f].parent, NoFolder}

LEMMA FoldersGetOlder == ASSUME TypeOK, [Next]_vars PROVE FoldersAge
<1>1. NoRow.exists = FALSE /\ Gone.exists = FALSE /\ Gone # NoRow
  <2>1. NoRow.used = FALSE /\ Gone.used = TRUE
    BY DEF NoRow, Gone
  <2> QED BY <2>1 DEF NoRow, Gone
<1>2. CASE SameTree
  BY <1>1, <1>2 DEF SameTree, FoldersAge
<1>3. ASSUME NEW f \in Folders, NEW p, Planted(f, p) PROVE FoldersAge
  BY <1>3 DEF Planted, FoldersAge
<1>4. ASSUME NEW f, Felled(f) PROVE FoldersAge
  <2> SUFFICES ASSUME NEW g \in Folders, folder[g] # NoRow
               PROVE  /\ folder'[g] # NoRow
                      /\ folder'[g].exists =>
                           folder[g].exists /\ folder'[g].parent \in {folder[g].parent, NoFolder}
    BY DEF FoldersAge
  <2>1. CASE g = f
    BY <1>1, <1>4, <2>1, WithoutFields DEF Felled
  <2>2. CASE g # f
    BY <1>1, <1>4, <2>2, WithoutFields DEF Felled
  <2> QED BY <2>1, <2>2
<1> QED BY <1>2, <1>3, <1>4, TreeSteps

\* A person keeps the root, which is there, or loses it, or has just been created.
PersonAges(p) ==
  /\ person[p] # NoRow => person'[p] # NoRow
  /\ person'[p].exists =>
       \/ /\ person[p].exists /\ person'[p].root \in {person[p].root, NoFolder}
          /\ person'[p].root # NoFolder => folder'[person'[p].root].exists
       \/ \E f \in Folders, n \in Names : CreatePerson(p, f, n)

LEMMA PersonsGetOlder ==
  ASSUME TypeOK, RootsOwned, [Next]_vars
  PROVE  \A p \in Persons : PersonAges(p)
<1>1. Gone.exists = FALSE /\ Gone # NoRow
  <2>1. NoRow.used = FALSE /\ Gone.used = TRUE
    BY DEF NoRow, Gone
  <2> QED BY <2>1 DEF Gone
<1>2. \A p \in Persons : person[p] = NoRow => ~person[p].exists
  BY RowFields
<1>3. \A p \in Persons : person[p].exists /\ person[p].root # NoFolder =>
        /\ person[p].root \in Folders /\ folder[person[p].root].exists
  BY RowFields, LiveSets DEF RootsOwned, IsRoot
<1>4. ASSUME NEW f, folder' = Without(f), NEW p \in Persons, person'[p].exists => person[p].exists,
             person'[p].exists => person'[p].root \in {person[p].root, NoFolder} \ ({f} \ {NoFolder}),
             person[p] # NoRow => person'[p] # NoRow
      PROVE  PersonAges(p)
  <2>1. \A g \in Folders : g # f => folder'[g].exists = folder[g].exists
    BY <1>4, WithoutFields
  <2> QED BY <1>3, <1>4, <2>1 DEF PersonAges
<1>5. ASSUME NEW c \in Calls, RemoveWrites(c), NEW p \in Persons PROVE PersonAges(p)
  <2> DEFINE f == calls[c].root
  <2>1. folder' = Without(f) /\ calls[c].op = "remove" /\ calls[c].person \in Persons
    BY <1>5, CallFields DEF RemoveWrites, RemoveCall
  <2>2. person' = [person EXCEPT ![calls[c].person] = Gone]
    BY <1>5 DEF RemoveWrites
  <2>3. RootKnown(calls[c].person, f)
    BY <2>1 DEF RootsOwned
  <2>4. p # calls[c].person /\ person[p].exists /\ person[p].root = f => f = NoFolder
    BY <2>3, LiveSets DEF RootKnown
  <2>5. CASE p = calls[c].person
    BY <1>1, <2>1, <2>2, <2>5 DEF PersonAges, TypeOK
  <2>6. CASE p # calls[c].person
    <3>1. person'[p] = person[p]
      BY <2>2, <2>6 DEF TypeOK
    <3> HIDE DEF f
    <3> QED BY <1>4, <2>1, <2>4, <2>6, <3>1
  <2> QED BY <2>5, <2>6
<1>6. ASSUME NEW f \in Folders, DeleteFolder(f), NEW p \in Persons PROVE PersonAges(p)
  <2>1. person'[p] = IF person[p].exists /\ person[p].root = f
                     THEN [person[p] EXCEPT !.root = NoFolder] ELSE person[p]
    BY <1>6, LiveSets DEF DeleteFolder
  <2>2. \A r \in PersonRow : /\ [r EXCEPT !.root = NoFolder].exists = TRUE
                             /\ [r EXCEPT !.root = NoFolder].root = NoFolder
    BY DEF PersonRow
  <2>3. person[p].exists /\ person[p].root = f => person'[p].exists /\ person'[p].root = NoFolder
    BY <2>1, <2>2, RowFields
  <2>4. person[p] # NoRow => person'[p] # NoRow
    <3>1. NoRow.exists = FALSE
      BY DEF NoRow
    <3> QED BY <2>1, <2>3, <3>1
  <2>5. folder' = Without(f)
    BY <1>6 DEF DeleteFolder
  <2> QED BY <1>4, <2>1, <2>3, <2>4, <2>5, FoldersAssumption
<1> DEFINE Stand == \A f \in Folders : folder[f].exists => folder'[f].exists
<1>7. SameTree \/ (\E f \in Folders : \E p : Planted(f, p)) => Stand
  BY RowFields DEF SameTree, Planted
<1>8. ASSUME person' = person, Stand, NEW p \in Persons PROVE PersonAges(p)
  BY <1>3, <1>8 DEF PersonAges
<1>9. ASSUME NEW c \in Calls, UpdateWrites(c), Stand, NEW p \in Persons PROVE PersonAges(p)
  <2>1. calls[c].person \in Persons
    BY <1>9, CallFields DEF UpdateWrites, UpdateCall
  <2>2. CASE p # calls[c].person
    <3>1. person'[p] = person[p]
      BY <1>9, <2>1, <2>2 DEF UpdateWrites, TypeOK
    <3> QED BY <1>3, <1>9, <3>1 DEF PersonAges
  <2>3. CASE p = calls[c].person
    <3>1. person[p] \in PersonRow /\ person'[p] = [person[p] EXCEPT !.name = calls[c].name]
      BY <1>9, <2>1, <2>3, RowFields DEF UpdateWrites, TypeOK
    <3>2. \A r \in PersonRow : \A n : /\ [r EXCEPT !.name = n].exists = TRUE
                                      /\ [r EXCEPT !.name = n].root = r.root
      BY ONLY DEF PersonRow
    <3>3. person[p].exists /\ person'[p].exists = TRUE /\ person'[p].root = person[p].root
      BY <1>9, <2>3, <3>1, <3>2 DEF UpdateWrites
    <3>4. person'[p] # NoRow
      <4>1. NoRow.exists = FALSE
        BY DEF NoRow
      <4> QED BY <3>3, <4>1
    <3> QED BY <1>3, <1>9, <3>3, <3>4 DEF PersonAges
  <2> QED BY <2>2, <2>3
<1>10. ASSUME NEW q \in Persons, NEW f \in Folders, NEW n \in Names, CreatePerson(q, f, n), Stand,
              NEW p \in Persons
       PROVE  PersonAges(p)
  <2>1. CASE p = q
    BY <1>10, <2>1 DEF CreatePerson, PersonAges
  <2>2. CASE p # q
    <3>1. person'[p] = person[p]
      BY <1>10, <2>2 DEF CreatePerson, TypeOK
    <3> QED BY <1>3, <1>10, <3>1 DEF PersonAges
  <2> QED BY <2>1, <2>2
<1>11. CASE Next
  <2>1. \/ person' = person
        \/ \E q \in Persons, f \in Folders, n \in Names : CreatePerson(q, f, n)
        \/ \E c \in Calls : UpdateWrites(c) \/ RemoveWrites(c)
        \/ \E f \in Folders : DeleteFolder(f)
    BY <1>11 DEF Next, UpdateReads, UpdateFails, RemoveReads, RemoveCounts, RemoveFails,
                 CreateFolder, UpdateFolder, AddFolderPermission, DeleteFolderPermission,
                 GranteeGone, ArchiveReads, UploadReads, WriteReads, Walk, ReadGrants,
                 UploadWrites, ArchiveWrites, WriteFails, CreateFile, Purge
  <2> QED BY <1>5, <1>6, <1>7, <1>8, <1>9, <1>10, <2>1, TreeSteps
<1>12. CASE UNCHANGED vars
  <2>1. Stand /\ person' = person
    BY <1>12 DEF vars
  <2> QED BY <1>8, <2>1
<1> QED BY <1>11, <1>12

LEMMA CreatedPerson ==
  ASSUME TypeOK, NEW p \in Persons, NEW f \in Folders, NEW n \in Names, CreatePerson(p, f, n)
  PROVE  /\ person[p] = NoRow /\ folder[f] = NoRow
         /\ person'[p].exists = TRUE /\ person'[p].root = f /\ person'[p].name = n
         /\ folder'[f].exists = TRUE /\ folder'[f].parent = NoFolder /\ folder'[f].name = n
         /\ \A q \in Persons \ {p} : person'[q] = person[q]
         /\ \A g \in Folders \ {f} : folder'[g] = folder[g]
  BY DEF CreatePerson, TypeOK

LEMMA RootKnownKept ==
  ASSUME TypeOK, TypeOK', FoldersAge, \A q \in Persons : PersonAges(q),
         NEW p \in Persons, NEW f \in Folders \cup {NoFolder}, RootKnown(p, f)
  PROVE  RootKnown(p, f)'
<1>1. Live(person)' = {q \in Persons : person'[q].exists} /\ Live(folder)' = {g \in Folders : folder'[g].exists}
  BY DEF TypeOK, Live
<1>2. person'[p] # NoRow
  BY DEF RootKnown, PersonAges
<1>3. ASSUME person'[p].exists PROVE person'[p].root \in {f, NoFolder}
  <2>1. person[p].exists /\ person'[p].root \in {person[p].root, NoFolder}
    BY <1>3, CreatedPerson DEF PersonAges, RootKnown
  <2> QED BY <2>1, LiveSets DEF RootKnown
<1>4. ASSUME f # NoFolder
      PROVE  folder'[f] # NoRow /\ (folder'[f].exists => folder'[f].parent = NoFolder)
  BY <1>4, LiveSets DEF FoldersAge, RootKnown, IsRoot
<1>5. ASSUME f # NoFolder, NEW q \in Persons, person'[q].exists, person'[q].root = f PROVE q = p
  <2>1. folder[f] # NoRow
    BY <1>5 DEF RootKnown
  <2>2. ASSUME NEW g \in Folders, NEW n \in Names, CreatePerson(q, g, n) PROVE FALSE
    <3>1. folder[g] = NoRow /\ person'[q].root = g
      BY <2>2, CreatedPerson
    <3> QED BY <1>5, <2>1, <3>1
  <2>3. person[q].exists /\ person[q].root = f
    BY <1>5, <2>2 DEF PersonAges
  <2> QED BY <1>5, <2>3, LiveSets DEF RootKnown
<1> QED BY <1>1, <1>2, <1>3, <1>4, <1>5 DEF RootKnown, IsRoot

LEMMA RootsOwnedKept ==
  ASSUME TypeOK, TypeOK', RootsOwned, [Next]_vars
  PROVE  RootsOwned'
<1>1. FoldersAge /\ \A q \in Persons : PersonAges(q)
  BY FoldersGetOlder, PersonsGetOlder
<1>2. Live(person)' = {q \in Persons : person'[q].exists}
  BY DEF TypeOK, Live
<1>3. \A q \in Persons : person[q].exists /\ person[q].root # NoFolder =>
        /\ person[q].root \in Folders /\ folder[person[q].root].exists
        /\ folder[person[q].root].parent = NoFolder
        /\ \A r \in Persons : person[r].exists /\ person[r].root = person[q].root => r = q
  BY RowFields, LiveSets DEF RootsOwned, IsRoot
<1>4. NoRow.exists = FALSE
  BY DEF NoRow
<1>5. ASSUME NEW p \in Persons, person'[p].exists, person'[p].root # NoFolder
      PROVE  /\ folder'[person'[p].root].exists /\ folder'[person'[p].root].parent = NoFolder
             /\ \A q \in Persons : person'[q].exists /\ person'[q].root = person'[p].root => q = p
  <2>1. ASSUME NEW q \in Persons, person'[q].exists, person'[q].root # NoFolder
        PROVE  \/ person[q].exists /\ person'[q].root = person[q].root /\ folder'[person'[q].root].exists
               \/ \E f \in Folders, n \in Names : CreatePerson(q, f, n)
    BY <1>1, <2>1 DEF PersonAges
  <2>2. CASE person[p].exists /\ person'[p].root = person[p].root /\ folder'[person'[p].root].exists
    <3>1. folder'[person'[p].root].parent = NoFolder
      BY <1>1, <1>3, <1>4, <1>5, <2>2 DEF FoldersAge
    <3>2. ASSUME NEW q \in Persons, person'[q].exists, person'[q].root = person'[p].root
          PROVE  q = p
      <4>1. CASE person[q].exists /\ person'[q].root = person[q].root
        BY <1>3, <1>5, <2>2, <3>2, <4>1
      <4>2. ASSUME NEW f \in Folders, NEW n \in Names, CreatePerson(q, f, n) PROVE FALSE
        <5>1. folder[f] = NoRow /\ person'[q].root = f
          BY <4>2, CreatedPerson
        <5>2. folder[f].exists
          BY <1>3, <1>5, <2>2, <3>2, <5>1
        <5> QED BY <1>4, <5>1, <5>2
      <4> QED BY <1>5, <2>1, <3>2, <4>1, <4>2
    <3> QED BY <2>2, <3>1, <3>2
  <2>3. ASSUME NEW f \in Folders, NEW n \in Names, CreatePerson(p, f, n)
        PROVE  /\ folder'[person'[p].root].exists /\ folder'[person'[p].root].parent = NoFolder
               /\ \A q \in Persons : person'[q].exists /\ person'[q].root = person'[p].root => q = p
    <3>1. ASSUME NEW q \in Persons, q # p, person'[q].exists, person'[q].root = f
          PROVE  FALSE
      <4>1. person[q].exists /\ person[q].root = f
        <5>1. person'[q] = person[q]
          BY <2>3, <3>1, CreatedPerson
        <5> QED BY <3>1, <5>1
      <4>2. folder[f] = NoRow
        BY <2>3, CreatedPerson
      <4> QED BY <1>3, <1>4, <4>1, <4>2, FoldersAssumption
    <3>2. /\ person'[p].root = f /\ folder'[f].exists = TRUE /\ folder'[f].parent = NoFolder
      BY <2>3, CreatedPerson
    <3> QED BY <3>1, <3>2
  <2> QED BY <1>5, <2>1, <2>2, <2>3
<1>6. ASSUME NEW d \in Calls, calls'[d].op = "update"
      PROVE  RootKnown(calls[d].person, calls[d].was.root)'
  <2>1. PICK p \in Persons, f \in Folders \cup {NoFolder} :
          RootKnown(p, f) /\ calls'[d].person = p /\ calls'[d].was.root = f
    <3>1. CASE SameUpdate(d)
      <4>1. calls'[d] = calls[d] /\ calls[d] \in UpdateCall
        BY <1>6, <3>1, CallFields DEF SameUpdate
      <4>2. calls[d].person \in Persons /\ calls[d].was.root \in Folders \cup {NoFolder} /\ calls[d].op = "update"
        BY <4>1 DEF UpdateCall, PersonRow
      <4> QED BY <4>1, <4>2 DEF RootsOwned
    <3>2. ASSUME NEW p \in Persons, NEW n \in Names, UpdateReads(d, p, n)
          PROVE  RootKnown(p, person[p].root) /\ calls'[d].person = p /\ calls'[d].was.root = person[p].root
                 /\ person[p].root \in Folders \cup {NoFolder}
      BY <1>3, <1>4, <3>2, RowFields, LiveSets DEF UpdateReads, TypeOK, RootKnown, IsRoot
    <3> QED BY <3>1, <3>2, CallSteps
  <2>2. RootKnown(p, f)'
    BY <1>1, <2>1, RootKnownKept
  <2> QED BY <2>1, <2>2 DEF RootKnown
<1>7. ASSUME NEW d \in Calls, calls'[d].op = "remove"
      PROVE  RootKnown(calls[d].person, calls[d].root)'
  <2>1. PICK p \in Persons, f \in Folders \cup {NoFolder} :
          RootKnown(p, f) /\ calls'[d].person = p /\ calls'[d].root = f
    <3>1. CASE SameRemove(d)
      <4>1. /\ calls'[d].person = calls[d].person /\ calls'[d].root = calls[d].root
            /\ calls[d].op = "remove" /\ calls[d] \in RemoveCall
        BY <1>7, <3>1, CallFields DEF SameRemove
      <4>2. calls[d].person \in Persons /\ calls[d].root \in Folders \cup {NoFolder}
        BY <4>1 DEF RemoveCall
      <4> QED BY <4>1, <4>2 DEF RootsOwned
    <3>2. ASSUME NEW p \in Persons, RemoveReads(d, p)
          PROVE  RootKnown(p, person[p].root) /\ calls'[d].person = p /\ calls'[d].root = person[p].root
                 /\ person[p].root \in Folders \cup {NoFolder}
      BY <1>3, <1>4, <3>2, RowFields, LiveSets DEF RemoveReads, TypeOK, RootKnown, IsRoot
    <3> QED BY <3>1, <3>2, CallSteps
  <2>2. RootKnown(p, f)'
    BY <1>1, <2>1, RootKnownKept
  <2> QED BY <2>1, <2>2 DEF RootKnown
<1>8. \A p \in Live(person)' : person'[p].root # NoFolder =>
        /\ IsRoot(folder', person'[p].root)
        /\ \A q \in Live(person)' : person'[q].root = person'[p].root => q = p
  BY <1>2, <1>5 DEF IsRoot
<1> QED BY <1>6, <1>7, <1>8 DEF RootsOwned

\* What does not concern the name of a person.
NameStays(p) ==
  person'[p].exists /\ p \notin mixed' =>
    /\ p \notin mixed /\ person[p].exists /\ person'[p].name = person[p].name
    /\ person'[p].root # NoFolder =>
         person'[p].root = person[p].root /\ folder'[person[p].root].name = folder[person[p].root].name

\* The steps that change a name, or begin to.
Naming ==
  \/ \E p \in Persons, f \in Folders, n \in Names : CreatePerson(p, f, n)
  \/ \E c \in Calls, p \in Persons, n \in Names : UpdateReads(c, p, n)
  \/ \E c \in Calls : UpdateWrites(c)

LEMMA NamesStay ==
  ASSUME TypeOK, RootsOwned, [Next]_vars, ~Naming
  PROVE  \A p \in Persons : NameStays(p)
<1>1. \A p \in Persons : person[p].exists /\ person[p].root # NoFolder =>
        person[p].root \in Folders /\ folder[person[p].root].exists
  BY RowFields, LiveSets DEF RootsOwned, IsRoot
<1>2. CASE person' = person /\ folder' = folder /\ mixed' = mixed
  BY <1>2 DEF NameStays
<1>3. ASSUME NEW f \in Folders, NEW q \in Folders \cup {NoFolder}, CreateFolder(f, q), NEW p \in Persons
      PROVE  NameStays(p)
  <2>1. NoRow.exists = FALSE
    BY DEF NoRow
  <2>2. \A g \in Folders : folder[g].exists => folder'[g] = folder[g]
    BY <1>3, <2>1 DEF CreateFolder, TypeOK
  <2> QED BY <1>1, <1>3, <2>2 DEF NameStays, CreateFolder
<1>4. ASSUME NEW f \in Folders, UpdateFolder(f), NEW p \in Persons PROVE NameStays(p)
  <2>1. \A g \in Folders : g # f => folder'[g] = folder[g]
    BY <1>4 DEF UpdateFolder, TypeOK
  <2>2. p \notin mixed' /\ person[p].exists => person[p].root # f
    BY <1>4, LiveSets DEF UpdateFolder
  <2>3. person' = person /\ mixed \subseteq mixed'
    BY <1>4 DEF UpdateFolder
  <2> QED BY <1>1, <2>1, <2>2, <2>3 DEF NameStays
<1>5. ASSUME NEW f, Felled(f), NEW p \in Persons,
             person'[p].exists => person'[p].name = person[p].name /\ (p \notin mixed' => p \notin mixed),
             ~\E g \in Folders, n \in Names : CreatePerson(p, g, n)
      PROVE  NameStays(p)
  <2> SUFFICES ASSUME person'[p].exists, p \notin mixed'
               PROVE  /\ p \notin mixed /\ person[p].exists /\ person'[p].name = person[p].name
                      /\ person'[p].root # NoFolder =>
                           /\ person'[p].root = person[p].root
                           /\ folder'[person[p].root].name = folder[person[p].root].name
    BY DEF NameStays
  <2>1. PersonAges(p)
    BY PersonsGetOlder
  <2>2. /\ person[p].exists
        /\ person'[p].root # NoFolder =>
             person'[p].root = person[p].root /\ folder'[person[p].root].exists
    BY <1>5, <2>1 DEF PersonAges
  <2>3. \A g \in Folders : folder[g].exists /\ folder'[g].exists => folder'[g].name = folder[g].name
    <3>1. Gone.exists = FALSE
      BY DEF Gone
    <3> QED BY <1>5, <3>1, WithoutFields DEF Felled
  <2> QED BY <1>1, <1>5, <2>2, <2>3
<1>6. ASSUME NEW c \in Calls, RemoveWrites(c), NEW p \in Persons PROVE NameStays(p)
  <2>1. Felled(calls[c].root) /\ person' = [person EXCEPT ![calls[c].person] = Gone]
    BY <1>6 DEF RemoveWrites, Felled
  <2>2. person'[p].exists => p # calls[c].person /\ person'[p] = person[p]
    <3>1. Gone.exists = FALSE
      BY DEF Gone
    <3> QED BY <2>1, <3>1 DEF TypeOK
  <2>3. mixed' = mixed \ {calls[c].person}
    BY <1>6 DEF RemoveWrites
  <2> QED BY <1>5, <2>1, <2>2, <2>3 DEF Naming
<1>7. ASSUME NEW f \in Folders, DeleteFolder(f), NEW p \in Persons PROVE NameStays(p)
  <2>1. Felled(f) /\ mixed' = mixed
    BY <1>7 DEF DeleteFolder, Felled
  <2>2. \A r \in PersonRow : [r EXCEPT !.root = NoFolder].name = r.name
    BY DEF PersonRow
  <2>3. person'[p].name = person[p].name
    BY <1>7, <2>2, RowFields, LiveSets DEF DeleteFolder
  <2> QED BY <1>5, <2>1, <2>3 DEF Naming
<1>8. CASE Next
  <2>1. \/ person' = person /\ folder' = folder /\ mixed' = mixed
        \/ \E f \in Folders, q \in Folders \cup {NoFolder} : CreateFolder(f, q)
        \/ \E f \in Folders : UpdateFolder(f) \/ DeleteFolder(f)
        \/ \E c \in Calls : RemoveWrites(c)
    BY <1>8 DEF Next, Naming, UpdateFails, RemoveReads, RemoveCounts, RemoveFails,
                AddFolderPermission, DeleteFolderPermission, GranteeGone, ArchiveReads,
                UploadReads, WriteReads, Walk, ReadGrants, UploadWrites, ArchiveWrites, WriteFails,
                CreateFile, Purge
  <2> QED BY <1>2, <1>3, <1>4, <1>6, <1>7, <2>1
<1> QED BY <1>2, <1>8 DEF vars

LEMMA NamesKept ==
  ASSUME TypeOK, TypeOK', RootsOwned, NamesKnown, FolderNamedAfterPerson, [Next]_vars
  PROVE  NamesKnown' /\ FolderNamedAfterPerson'
<1>1. Live(person)' = {q \in Persons : person'[q].exists}
  BY DEF TypeOK, Live
<1>2. \A q \in Persons : person[q].exists /\ q \notin mixed /\ person[q].root # NoFolder =>
        folder[person[q].root].name = person[q].name
  BY LiveSets DEF FolderNamedAfterPerson
<1>3. ASSUME
        \A d \in Calls :
             calls'[d].op = "update" /\ person'[calls'[d].person].exists /\ calls'[d].person \notin mixed' =>
             /\ calls'[d].was.name = person'[calls'[d].person].name
             /\ \A e \in Calls : calls'[e].op = "update" /\ calls'[e].person = calls'[d].person => e = d,
        \A q \in Persons : person'[q].exists /\ q \notin mixed' /\ person'[q].root # NoFolder =>
             folder'[person'[q].root].name = person'[q].name
      PROVE  NamesKnown' /\ FolderNamedAfterPerson'
  BY <1>1, <1>3 DEF NamesKnown, FolderNamedAfterPerson
<1>4. \A d \in Calls : calls[d].op = "update" =>
        /\ calls[d].person \in Persons /\ RootKnown(calls[d].person, calls[d].was.root)
        /\ person[calls[d].person].exists /\ calls[d].person \notin mixed =>
             /\ calls[d].was.name = person[calls[d].person].name
             /\ \A e \in Calls : calls[e].op = "update" /\ calls[e].person = calls[d].person => e = d
  BY CallFields, LiveSets DEF NamesKnown, RootsOwned, UpdateCall
<1>5. CASE ~Naming
  <2>1. \A q \in Persons : NameStays(q)
    BY <1>5, NamesStay
  <2>2. \A d \in Calls : calls'[d].op = "update" => calls'[d] = calls[d]
    BY <1>5, CallSteps DEF Naming, SameUpdate
  <2>3. \A d \in Calls :
          calls'[d].op = "update" /\ person'[calls'[d].person].exists /\ calls'[d].person \notin mixed' =>
          /\ calls'[d].was.name = person'[calls'[d].person].name
          /\ \A e \in Calls : calls'[e].op = "update" /\ calls'[e].person = calls'[d].person => e = d
    BY <1>4, <2>1, <2>2 DEF NameStays
  <2>4. \A q \in Persons : person'[q].exists /\ q \notin mixed' /\ person'[q].root # NoFolder =>
          folder'[person'[q].root].name = person'[q].name
    BY <1>2, <2>1 DEF NameStays
  <2> QED BY <1>3, <2>3, <2>4
<1>6. ASSUME NEW p \in Persons, NEW f \in Folders, NEW n \in Names, CreatePerson(p, f, n)
      PROVE  NamesKnown' /\ FolderNamedAfterPerson'
  <2>1. calls' = calls /\ mixed' = mixed
    BY <1>6 DEF CreatePerson
  <2>c. /\ person[p] = NoRow /\ folder[f] = NoRow
        /\ person'[p].exists = TRUE /\ person'[p].root = f /\ person'[p].name = n
        /\ folder'[f].exists = TRUE /\ folder'[f].parent = NoFolder /\ folder'[f].name = n
        /\ \A q \in Persons \ {p} : person'[q] = person[q]
        /\ \A g \in Folders \ {f} : folder'[g] = folder[g]
    BY <1>6 DEF CreatePerson, TypeOK
  <2>2. ASSUME NEW d \in Calls, calls[d].op = "update"
        PROVE  person'[calls[d].person] = person[calls[d].person]
    <3>1. calls[d].person \in Persons /\ person[calls[d].person] # NoRow
      BY <1>4, <2>2 DEF RootKnown
    <3> QED BY <2>c, <3>1
  <2>3. ASSUME NEW q \in Persons, person'[q].exists, q \notin mixed, person'[q].root # NoFolder
        PROVE  folder'[person'[q].root].name = person'[q].name
    <3>1. CASE q = p
      BY <2>c, <3>1
    <3>2. CASE q # p
      <4>1. person'[q] = person[q] /\ folder[f] = NoRow
        BY <2>c, <3>2
      <4>2. person[q].root \in Folders /\ folder[person[q].root].exists
        BY <2>3, <4>1, RowFields, LiveSets DEF RootsOwned, IsRoot
      <4>3. NoRow.exists = FALSE
        BY DEF NoRow
      <4>4. folder'[person[q].root] = folder[person[q].root]
        BY <2>c, <4>1, <4>2, <4>3
      <4> QED BY <1>2, <2>3, <4>1, <4>4
    <3> QED BY <3>1, <3>2
  <2> QED BY <1>3, <1>4, <2>1, <2>2, <2>3
<1>7. ASSUME NEW c \in Calls, NEW p \in Persons, NEW n \in Names, UpdateReads(c, p, n)
      PROVE  NamesKnown' /\ FolderNamedAfterPerson'
  <2>1. /\ person' = person /\ folder' = folder /\ calls[c] = Idle
        /\ mixed' = IF Busy(p) THEN mixed \cup {p} ELSE mixed
    BY <1>7 DEF UpdateReads
  <2>2. /\ calls'[c].op = "update" /\ calls'[c].person = p /\ calls'[c].was = person[p]
        /\ \A d \in Calls : d # c => calls'[d] = calls[d]
    BY <1>7 DEF UpdateReads, TypeOK
  <2>3. \A d \in Calls : d # c /\ calls[d].op = "update" /\ calls[d].person = p => p \in mixed'
    BY <2>1 DEF Busy
  <2> QED BY <1>2, <1>3, <1>4, <2>1, <2>2, <2>3
<1>8. ASSUME NEW c \in Calls, UpdateWrites(c) PROVE NamesKnown' /\ FolderNamedAfterPerson'
  <2> DEFINE u == calls[c]
             p == u.person
  <2>1. u \in UpdateCall /\ p \in Persons /\ u.op = "update" /\ person[p].exists
    BY <1>8, CallFields DEF UpdateWrites, UpdateCall
  <2>2. person[p] \in PersonRow /\ person' = [person EXCEPT ![p].name = u.name] /\ mixed' = mixed
    BY <1>8, <2>1, RowFields DEF UpdateWrites
  <2>3. \A r \in PersonRow : \A n : /\ [r EXCEPT !.name = n].root = r.root
                                    /\ [r EXCEPT !.name = n].name = n
    BY ONLY DEF PersonRow
  <2>4. /\ person'[p].root = person[p].root /\ person'[p].name = u.name
        /\ \A q \in Persons : q # p => person'[q] = person[q]
    BY <2>1, <2>2, <2>3 DEF TypeOK
  <2>5. \A d \in Calls : calls'[d].op = "update" => d # c /\ calls'[d] = calls[d]
    <3>1. Idle.op = "idle"
      BY DEF Idle
    <3> QED BY <1>8, <3>1 DEF UpdateWrites, TypeOK
  <2>6. \A d \in Calls : d # c /\ calls[d].op = "update" /\ p \notin mixed => calls[d].person # p
    BY <1>4, <2>1
  <2>7. RootKnown(p, u.was.root)
    BY <1>4, <2>1
  <2>8. \A g \in Folders : g # u.was.root => folder'[g] = folder[g]
    BY <1>8, LiveSets DEF UpdateWrites, Renamed, TypeOK
  <2>9. ASSUME NEW q \in Persons, person'[q].exists, q \notin mixed, person'[q].root # NoFolder
        PROVE  folder'[person'[q].root].name = person'[q].name
    <3>1. CASE q # p
      <4>1. person'[q] = person[q] /\ person[q].exists /\ person[q].root \in Folders
        BY <2>4, <2>9, <3>1, RowFields
      <4>2. person[q].root # u.was.root
        BY <2>7, <2>9, <3>1, <4>1, LiveSets DEF RootKnown
      <4> QED BY <1>2, <2>8, <2>9, <4>1, <4>2
    <3>2. CASE q = p
      <4>1. /\ person[p].root = u.was.root /\ u.was.root \in Folders
            /\ folder[u.was.root].exists
        BY <2>1, <2>4, <2>7, <2>9, <3>2, RowFields, LiveSets DEF RootKnown, RootsOwned, IsRoot
      <4>2. CASE u.name # u.was.name
        <5>1. folder' = [folder EXCEPT ![u.was.root].name = u.name]
          BY <1>8, <4>1, <4>2, LiveSets DEF UpdateWrites, Renamed
        <5>2. folder'[u.was.root].name = u.name
          BY <4>1, <5>1, OtherNameSameTree
        <5> QED BY <2>4, <3>2, <4>1, <5>2
      <4>3. CASE u.name = u.was.name
        <5>1. folder' = folder
          BY <1>8, <4>3 DEF UpdateWrites, Renamed
        <5>2. u.was.name = person[p].name
          BY <1>4, <2>1, <2>9, <3>2
        <5> QED BY <1>2, <2>1, <2>4, <2>9, <3>2, <4>3, <5>1, <5>2
      <4> QED BY <4>2, <4>3
    <3> QED BY <3>1, <3>2
  <2>10. ASSUME NEW d \in Calls, calls'[d].op = "update",
                person'[calls'[d].person].exists, calls'[d].person \notin mixed'
         PROVE  /\ calls'[d].was.name = person'[calls'[d].person].name
                /\ \A e \in Calls : calls'[e].op = "update" /\ calls'[e].person = calls'[d].person => e = d
    <3>1. d # c /\ calls'[d] = calls[d] /\ calls[d].op = "update" /\ calls[d].person # p
      BY <2>2, <2>5, <2>6, <2>10
    <3>2. person'[calls[d].person] = person[calls[d].person] /\ calls[d].person \in Persons
      BY <1>4, <2>4, <3>1
    <3> QED BY <1>4, <2>2, <2>5, <2>10, <3>1, <3>2
  <2> QED BY <1>3, <2>2, <2>9, <2>10
<1> QED BY <1>5, <1>6, <1>7, <1>8 DEF Naming

-----------------------------------------------------------------------------
(* The handlers that go up to a root before they write. *)

LEMMA RootFacts ==
  ASSUME TypeOK, Forest(folder), Rooted(folder)
  PROVE  /\ \A f \in Folders : folder[f].exists =>
              /\ getRootFolderId[f] \in Folders /\ IsRoot(folder, getRootFolderId[f])
              /\ folder[f].parent = NoFolder => getRootFolderId[f] = f
              /\ folder[f].parent # NoFolder =>
                   /\ folder[f].parent \in Folders /\ folder[folder[f].parent].exists
                   /\ getRootFolderId[f] = getRootFolderId[folder[f].parent]
         /\ \A f \in Folders : ~folder[f].exists => getRootFolderId[f] = NoFolder
<1>1. IsRootFunction(folder, getRootFolderId)
  BY RootFound
<1>2. UpClosed(folder, Folders)
  BY DEF UpClosed, Forest
<1>3. \A f \in Folders : folder[f].exists =>
        getRootFolderId[f] \in Folders /\ IsRoot(folder, getRootFolderId[f])
  BY <1>1, <1>2, RootIn
<1>4. \A f \in Folders : folder[f].exists /\ folder[f].parent # NoFolder =>
        folder[f].parent \in Folders /\ folder[folder[f].parent].exists
  BY DEF Forest, IsChild
<1>5. \A f \in Folders : getRootFolderId[f] =
        IF ~folder[f].exists THEN NoFolder
        ELSE IF folder[f].parent = NoFolder THEN f
        ELSE getRootFolderId[folder[f].parent]
  BY <1>1 DEF IsRootFunction
<1> QED BY <1>3, <1>4, <1>5

\* A handler goes on as it was, or it makes a step of its own.
WriteSteps(d) ==
  \/ ~Writing(d)' \/ calls'[d].excused
  \/ calls'[d] = calls[d]
  \/ Walk(d) \/ ReadGrants(d)
  \/ \E op \in {"upload", "archive"}, u \in Users \cup Admins, x \in Files, f \in Folders :
       WriteReads(d, op, u, x, f)

LEMMA WritingSteps ==
  ASSUME TypeOK, Referenced, [Next]_vars, NEW d \in Calls
  PROVE  WriteSteps(d)
<1> USE DEF WriteSteps
<1>i. Idle.op = "idle"
  BY DEF Idle
<1>w. Writing(d)' <=> calls'[d].op \in {"upload", "archive"}
  BY DEF Writing
<1>1. CASE calls' = calls
  BY <1>1
<1>2. ASSUME NEW c \in Calls, NEW w, w.op \notin {"upload", "archive"}, calls' = [calls EXCEPT ![c] = w]
      PROVE  WriteSteps(d)
  BY <1>2, <1>w DEF TypeOK
<1>3. ASSUME NEW c \in Calls, NEW p \in Persons, NEW n \in Names, UpdateReads(c, p, n)
      PROVE  WriteSteps(d)
  BY <1>2, <1>3 DEF UpdateReads
<1>4. ASSUME NEW c \in Calls, NEW p \in Persons, RemoveReads(c, p)
      PROVE  WriteSteps(d)
  BY <1>2, <1>4 DEF RemoveReads
<1>5. ASSUME NEW c \in Calls, RemoveCounts(c) PROVE WriteSteps(d)
  <2>1. PICK k \in calls[c].open :
          calls' = [calls EXCEPT ![c] = IF Empty(k, calls[c].root)
                                        THEN [calls[c] EXCEPT !.open = calls[c].open \ {k}] ELSE Idle]
    BY <1>5 DEF RemoveCounts
  <2>2. calls[c] \in RemoveCall
    BY <1>5, CallFields DEF RemoveCounts
  <2> DEFINE w == [calls[c] EXCEPT !.open = calls[c].open \ {k}]
  <2>3. w.op = "remove"
    BY <2>2 DEF RemoveCall
  <2>4. calls' = [calls EXCEPT ![c] = IF Empty(k, calls[c].root) THEN w ELSE Idle]
    BY <2>1
  <2> HIDE DEF w
  <2> QED BY <1>i, <1>2, <2>3, <2>4
<1>6. Writing(d) => [calls[d] EXCEPT !.excused = TRUE].excused
  BY CallFields DEF WriteCall
<1>7. ASSUME \/ calls' = Excused(grants') \/ calls' = Disturbed
             \/ \E c \in Calls : calls' = [Disturbed EXCEPT ![c] = Idle]
      PROVE  WriteSteps(d)
  <2>1. CASE calls' = Excused(grants')
    BY <1>6, <2>1 DEF Excused
  <2>2. CASE calls' = Disturbed
    BY <1>6, <2>2 DEF Disturbed
  <2>3. ASSUME NEW c \in Calls, calls' = [Disturbed EXCEPT ![c] = Idle]
        PROVE  WriteSteps(d)
    <3>1. calls'[d] = Disturbed[d] \/ calls'[d] = Idle
      BY <2>3 DEF Disturbed
    <3> QED BY <1>i, <1>w, <1>6, <3>1 DEF Disturbed
  <2> QED BY <1>7, <2>1, <2>2, <2>3
<1>8. ASSUME NEW c \in Calls, Walk(c) \/ ReadGrants(c) PROVE WriteSteps(d)
  <2>1. d # c => calls'[d] = calls[d]
    BY <1>8 DEF Walk, ReadGrants, TypeOK
  <2> QED BY <1>8, <2>1
<1>9. ASSUME NEW c \in Calls, NEW op \in {"upload", "archive"}, NEW u \in Users \cup Admins, NEW x \in Files,
             NEW f \in Folders, WriteReads(c, op, u, x, f)
      PROVE  WriteSteps(d)
  <2>1. d # c => calls'[d] = calls[d]
    BY <1>9 DEF WriteReads, TypeOK
  <2> QED BY <1>9, <2>1
<1>10. ASSUME NEW c \in Calls, NEW u \in Users \cup Admins, NEW x \in Files, ArchiveReads(c, u, x)
       PROVE  WriteSteps(d)
  <2>1. file[x].folder \in Folders
    BY <1>10, LiveSets DEF ArchiveReads, Referenced
  <2> QED BY <1>9, <1>10, <2>1 DEF ArchiveReads
<1>11. ASSUME NEW c \in Calls, calls' = [calls EXCEPT ![c] = Idle] PROVE WriteSteps(d)
  BY <1>i, <1>2, <1>11
<1>12. CASE Next
  <2>1. \/ calls' = calls
        \/ \E c \in Calls : calls' = [calls EXCEPT ![c] = Idle]
        \/ \E c \in Calls, p \in Persons, n \in Names : UpdateReads(c, p, n)
        \/ \E c \in Calls, p \in Persons : RemoveReads(c, p)
        \/ \E c \in Calls : RemoveCounts(c)
        \/ calls' = Excused(grants') \/ calls' = Disturbed
        \/ \E c \in Calls : calls' = [Disturbed EXCEPT ![c] = Idle]
        \/ \E c \in Calls : Walk(c) \/ ReadGrants(c)
        \/ \E c \in Calls, u \in Users \cup Admins, x \in Files : ArchiveReads(c, u, x)
        \/ \E c \in Calls, u \in Users \cup Admins, x \in Files, f \in Folders :
             WriteReads(c, "upload", u, x, f)
    BY <1>12 DEF Next, CreatePerson, UpdateWrites, UpdateFails, RemoveWrites, RemoveFails,
                 CreateFolder, UpdateFolder, DeleteFolder, AddFolderPermission,
                 DeleteFolderPermission, GranteeGone, UploadReads, UploadWrites, ArchiveWrites,
                 WriteFails, CreateFile, Purge
  <2> QED BY <1>1, <1>3, <1>4, <1>5, <1>7, <1>8, <1>9, <1>10, <1>11, <2>1
<1> QED BY <1>1, <1>12 DEF vars

\* Whoever is not excused has not been given the permission either.
LEMMA StillNotGranted ==
  ASSUME TypeOK, [Next]_vars, NEW d \in Calls, Writing(d), calls'[d] = calls[d], ~calls[d].excused,
         calls[d].folder \in Folders, getRootFolderId[calls[d].folder] \in Folders, WayUp(d)
  PROVE  [to |-> calls[d].user, type |-> "write"] \notin grants'[getRootFolderId[calls[d].folder]]
<1> DEFINE g == [to |-> calls[d].user, type |-> "write"]
           r == getRootFolderId[calls[d].folder]
<1>1. g \notin grants[r] /\ r \in Folders
  BY DEF WayUp
<1>2. g # ToOthers
  <2>1. calls[d].user # Others
    BY CallFields, UsersAssumption DEF WriteCall
  <2>2. g.to = calls[d].user /\ ToOthers.to = Others
    BY DEF ToOthers
  <2> QED BY <2>1, <2>2
<1>3. CASE grants' = grants
  BY <1>1, <1>3
<1>4. ASSUME NEW f \in Folders, NEW h \in Grant, AddFolderPermission(f, h) PROVE g \notin grants'[r]
  <2>1. calls'[d] = Excused(grants')[d]
    BY <1>4 DEF AddFolderPermission
  <2>2. [calls[d] EXCEPT !.excused = TRUE] # calls[d]
    BY CallFields DEF WriteCall
  <2> QED BY <2>1, <2>2 DEF Excused
<1>5. ASSUME NEW f \in Folders, NEW h \in Grant, DeleteFolderPermission(f, h)
      PROVE  g \notin grants'[r]
  BY <1>1, <1>5 DEF DeleteFolderPermission, TypeOK
<1>6. ASSUME NEW u \in Users, GranteeGone(u) PROVE g \notin grants'[r]
  <2>1. grants'[r] = {IF h.to = u THEN ToOthers ELSE h : h \in grants[r]}
    BY <1>1, <1>6 DEF GranteeGone
  <2> HIDE DEF g, r
  <2> QED BY <1>1, <1>2, <2>1
<1>7. CASE Next
  <2>1. \/ grants' = grants
        \/ \E f \in Folders, h \in Grant : AddFolderPermission(f, h) \/ DeleteFolderPermission(f, h)
        \/ \E u \in Users : GranteeGone(u)
    BY <1>7 DEF Next, CreatePerson, UpdateReads, UpdateWrites, UpdateFails, RemoveReads,
                RemoveCounts, RemoveWrites, RemoveFails, CreateFolder, UpdateFolder, DeleteFolder,
                UploadWrites, ArchiveWrites, CreateFile, Purge, ArchiveReads, UploadReads,
                WriteReads, Walk, ReadGrants, WriteFails
  <2> QED BY <1>3, <1>4, <1>5, <1>6, <2>1
<1> QED BY <1>3, <1>7 DEF vars

LEMMA WaysKeptNext ==
  ASSUME TypeOK, TypeOK', Forest(folder), Forest(folder'), Rooted(folder), Referenced, WaysKept,
         [Next]_vars
  PROVE  WaysKept'
<1>1. Live(folder)' = {f \in Folders : folder'[f].exists}
  BY DEF TypeOK, Live
<1>2. \A d \in Calls : Writing(d) => [calls[d] EXCEPT !.excused = TRUE].excused
  BY CallFields DEF WriteCall
<1>3. ASSUME calls' = Disturbed \/ \E c \in Calls : calls' = [Disturbed EXCEPT ![c] = Idle]
      PROVE  WaysKept'
  <2>1. \A d \in Calls : Writing(d)' => calls'[d].excused
    <3>1. Idle.op = "idle"
      BY DEF Idle
    <3>2. \A d \in Calls : calls'[d] = Disturbed[d] \/ calls'[d] = Idle
      BY <1>3 DEF Disturbed
    <3> QED BY <1>2, <3>1, <3>2 DEF Disturbed, Writing
  <2> QED BY <2>1 DEF WaysKept
<1>4. ASSUME SameTree \/ \E f \in Folders : \E p : Planted(f, p),
             NEW d \in Calls, Writing(d)', ~calls'[d].excused
      PROVE  WayUp(d)'
  <2> DEFINE w == calls[d]
             W == calls'[d]
  <2>1. /\ \A g \in Folders : folder[g].exists =>
             /\ folder'[g].exists /\ folder'[g].parent = folder[g].parent
             /\ getRootFolderId'[g] = getRootFolderId[g]
    BY <1>4, RootsKept
  <2>2. /\ \A f \in Folders : folder[f].exists =>
              /\ getRootFolderId[f] \in Folders /\ IsRoot(folder, getRootFolderId[f])
              /\ folder[f].parent = NoFolder => getRootFolderId[f] = f
              /\ folder[f].parent # NoFolder =>
                   /\ folder[f].parent \in Folders /\ folder[folder[f].parent].exists
                   /\ getRootFolderId[f] = getRootFolderId[folder[f].parent]
    BY RootFacts
  <2>3. ASSUME W.folder \in Folders, folder[W.folder].exists, W.at \in Folders, folder[W.at].exists,
               getRootFolderId[W.at] = getRootFolderId[W.folder],
               W.stage = "grants" => folder[W.at].parent = NoFolder,
               W.stage # "allowed", W.user \notin Admins,
               [to |-> W.user, type |-> "write"] \notin grants'[getRootFolderId[W.folder]]
        PROVE  WayUp(d)'
    <3>1. /\ folder'[W.folder].exists /\ folder'[W.at].exists
          /\ getRootFolderId'[W.folder] = getRootFolderId[W.folder]
          /\ getRootFolderId'[W.at] = getRootFolderId[W.at]
          /\ folder'[W.at].parent = folder[W.at].parent
      BY <2>1, <2>3
    <3>2. /\ W.folder \in Live(folder)' /\ W.at \in Live(folder)'
          /\ getRootFolderId'[W.at] = getRootFolderId'[W.folder]
          /\ W.stage = "grants" => IsRoot(folder', W.at)
          /\ [to |-> W.user, type |-> "write"] \notin grants'[getRootFolderId'[W.folder]]
      BY <1>1, <2>3, <3>1 DEF IsRoot
    <3> QED BY <2>3, <3>2 DEF WayUp
  <2>4. ASSUME w = calls[d], Writing(d), ~w.excused
        PROVE  /\ w \in WriteCall
               /\ w.folder \in Folders /\ folder[w.folder].exists /\ w.at \in Folders /\ folder[w.at].exists
               /\ getRootFolderId[w.at] = getRootFolderId[w.folder]
               /\ w.stage = "grants" => folder[w.at].parent = NoFolder
               /\ w.stage # "allowed" /\ w.user \notin Admins
               /\ [to |-> w.user, type |-> "write"] \notin grants[getRootFolderId[w.folder]]
               /\ getRootFolderId[w.folder] \in Folders /\ WayUp(d)
    BY <2>2, <2>4, CallFields, LiveSets DEF WaysKept, WayUp, IsRoot
  <2>5. CASE W = w
    <3>1. Writing(d) /\ ~w.excused
      BY <1>4, <2>5 DEF Writing
    <3>2. [to |-> w.user, type |-> "write"] \notin grants'[getRootFolderId[w.folder]]
      BY <2>4, <2>5, <3>1, StillNotGranted
    <3> QED BY <2>3, <2>4, <2>5, <3>1, <3>2
  <2>6. CASE Walk(d)
    <3>1. /\ Writing(d) /\ w.stage = "walk" /\ folder' = folder /\ grants' = grants
          /\ W = IF ~folder[w.at].exists THEN Idle
                 ELSE IF folder[w.at].parent = NoFolder THEN [w EXCEPT !.stage = "grants"]
                 ELSE [w EXCEPT !.at = folder[w.at].parent]
      BY <2>6 DEF Walk, TypeOK
    <3>2. w \in WriteCall
      BY <3>1, CallFields
    <3>3. \A v \in WriteCall : \A a : /\ [v EXCEPT !.stage = "grants"] =
                                           [op |-> v.op, user |-> v.user, folder |-> v.folder,
                                            file |-> v.file,
                                            at |-> v.at, stage |-> "grants", excused |-> v.excused]
                                      /\ [v EXCEPT !.at = a] =
                                           [op |-> v.op, user |-> v.user, folder |-> v.folder,
                                            file |-> v.file,
                                            at |-> a, stage |-> v.stage, excused |-> v.excused]
      BY ONLY DEF WriteCall
    <3>4. Idle.op = "idle" /\ W.op \in {"upload", "archive"}
      BY <1>4 DEF Idle, Writing
    <3>5. CASE folder[w.at].parent = NoFolder
      <4>1. W = [op |-> w.op, user |-> w.user, folder |-> w.folder, file |-> w.file,
                 at |-> w.at, stage |-> "grants", excused |-> w.excused]
        BY <3>1, <3>2, <3>3, <3>4, <3>5
      <4>2. ~w.excused
        BY <1>4, <4>1
      <4> HIDE DEF w, W
      <4> QED BY <2>3, <2>4, <3>1, <3>5, <4>1, <4>2 DEF w
    <3>6. CASE folder[w.at].parent # NoFolder
      <4>1. W = [op |-> w.op, user |-> w.user, folder |-> w.folder, file |-> w.file,
                 at |-> folder[w.at].parent, stage |-> w.stage, excused |-> w.excused]
        BY <3>1, <3>2, <3>3, <3>4, <3>6
      <4>2. ~w.excused
        BY <1>4, <4>1
      <4>3. /\ folder[w.at].parent \in Folders /\ folder[folder[w.at].parent].exists
            /\ getRootFolderId[folder[w.at].parent] = getRootFolderId[w.folder]
        BY <2>2, <2>4, <3>1, <3>6, <4>2
      <4> HIDE DEF w, W
      <4> QED BY <2>3, <2>4, <3>1, <4>1, <4>2, <4>3 DEF w
    <3> QED BY <3>5, <3>6
  <2>7. CASE ReadGrants(d)
    <3>1. /\ Writing(d) /\ w.stage = "grants"
          /\ W = IF LevelAt(w.user, w.at) = "write" THEN [w EXCEPT !.stage = "allowed"] ELSE Idle
      BY <2>7 DEF ReadGrants, TypeOK
    <3>2. Idle.op = "idle" /\ W.op \in {"upload", "archive"}
      BY <1>4 DEF Idle, Writing
    <3>3. w \in WriteCall
      BY <3>1, CallFields
    <3>4. \A v \in WriteCall : [v EXCEPT !.stage = "allowed"].excused = v.excused
      BY ONLY DEF WriteCall
    <3>5. LevelAt(w.user, w.at) = "write" /\ W = [w EXCEPT !.stage = "allowed"]
      BY <3>1, <3>2
    <3>6. ~w.excused
      BY <1>4, <3>3, <3>4, <3>5
    <3>7. /\ w.user \notin Admins /\ getRootFolderId[w.folder] = w.at /\ w.at \in Folders
          /\ [to |-> w.user, type |-> "write"] \notin grants[w.at]
      BY <2>2, <2>4, <3>1, <3>6
    <3>8. \A g \in grants[w.at] : g.to = w.user /\ w.user # Others => g = [to |-> w.user, type |-> g.type]
      BY <3>7 DEF TypeOK, Grant, ToOthers
    <3>9. w.user # Others
      BY <3>3, UsersAssumption DEF WriteCall
    <3> HIDE DEF w
    <3> QED BY <3>5, <3>7, <3>8, <3>9 DEF LevelAt
  <2>8. ASSUME NEW op \in {"upload", "archive"}, NEW u \in Users \cup Admins, NEW x \in Files,
               NEW f \in Folders, WriteReads(d, op, u, x, f)
        PROVE  WayUp(d)'
    <3>1. /\ folder[f].exists /\ grants' = grants
          /\ W = [op |-> op, user |-> u, folder |-> f, file |-> x, at |-> f,
                  stage |-> "walk", excused |-> getUserFolderPermissionLevel(u, f) = "write"]
      BY <2>8, LiveSets DEF WriteReads, TypeOK
    <3>2. LevelAt(u, getRootFolderId[f]) # "write"
      <4> DEFINE may == getUserFolderPermissionLevel(u, f) = "write"
      <4>1. W = [op |-> op, user |-> u, folder |-> f, file |-> x, at |-> f,
                 stage |-> "walk", excused |-> may] /\ may \in BOOLEAN
        BY <3>1
      <4> HIDE DEF may
      <4>2. W.excused = may
        BY <4>1
      <4>3. ~may
        BY <1>4, <4>1, <4>2
      <4> QED BY <4>3 DEF may, getUserFolderPermissionLevel
    <3>3. u \notin Admins /\ [to |-> u, type |-> "write"] \notin grants[getRootFolderId[f]]
      <4>1. u \notin Admins
        BY <3>2 DEF LevelAt
      <4>2. ASSUME [to |-> u, type |-> "write"] \in grants[getRootFolderId[f]] PROVE FALSE
        <5> DEFINE g == [to |-> u, type |-> "write"]
                   r == getRootFolderId[f]
        <5>1. g \in grants[r] /\ g.to = u /\ g.type = "write"
          BY <4>2
        <5> HIDE DEF g, r
        <5>2. LevelAt(u, r) = "write"
          BY <5>1 DEF LevelAt
        <5> QED BY <3>2, <5>2 DEF r
      <4> QED BY <4>1, <4>2
    <3> HIDE DEF W
    <3> QED BY <2>3, <3>1, <3>3
  <2> QED BY <1>4, <2>5, <2>6, <2>7, <2>8, WritingSteps DEF WriteSteps
<1>5. ASSUME SameTree \/ \E f \in Folders : \E p : Planted(f, p)
      PROVE  WaysKept'
  BY <1>4, <1>5 DEF WaysKept
<1>6. ASSUME NEW c \in Calls, RemoveWrites(c) PROVE WaysKept'
  BY <1>3, <1>6 DEF RemoveWrites
<1>7. ASSUME NEW f \in Folders, DeleteFolder(f) PROVE WaysKept'
  BY <1>3, <1>7 DEF DeleteFolder
<1> QED BY <1>5, <1>6, <1>7, TreeSteps

-----------------------------------------------------------------------------
(* The invariant, and what follows from it. *)

LEMMA InvInit == Init => Inv
<1> SUFFICES ASSUME Init PROVE Inv
  OBVIOUS
<1>1. TypeOK
  BY InitTyped
<1>2. NoRow.exists = FALSE /\ Idle.op = "idle"
  BY DEF NoRow, Idle
<1>3. /\ \A f \in Folders : folder[f].exists = FALSE /\ grants[f] = {}
      /\ \A p \in Persons : person[p].exists = FALSE
      /\ \A x \in Files : file[x].exists = FALSE
      /\ \A c \in Calls : calls[c].op = "idle"
  BY <1>2 DEF Init
<1>4. Live(folder) = {} /\ Live(person) = {} /\ Live(file) = {}
  BY <1>1, <1>3, LiveSets
<1>5. Forest(folder) /\ Rooted(folder)
  BY <1>3 DEF Forest, IsChild, Rooted
<1>6. Referenced /\ RootsOwned /\ NamesKnown /\ FolderNamedAfterPerson /\ WaysKept
  BY <1>3, <1>4 DEF Referenced, RootsOwned, NamesKnown, FolderNamedAfterPerson, WaysKept, Writing
<1> QED BY <1>1, <1>5, <1>6 DEF Inv

LEMMA InvNext == Inv /\ [Next]_vars => Inv'
<1> SUFFICES ASSUME Inv, [Next]_vars PROVE Inv'
  OBVIOUS
<1> USE DEF Inv
<1>1. TypeOK'
  BY NextTyped
<1>2. Forest(folder') /\ Rooted(folder')
  BY <1>1, TreeKept
<1>3. Referenced'
  BY <1>1, ReferencedKept
<1>4. RootsOwned'
  BY <1>1, RootsOwnedKept
<1>5. NamesKnown' /\ FolderNamedAfterPerson'
  BY <1>1, NamesKept
<1>6. WaysKept'
  BY <1>1, <1>2, WaysKeptNext
<1> QED BY <1>1, <1>2, <1>3, <1>4, <1>5, <1>6

LEMMA Invariance == Spec => []Inv
<1> QED BY InvInit, InvNext, PTL DEF Spec

\* Below a folder the level is that of the folder, and every document is in one.
LEMMA Opens == Inv => ListedCanBeOpened
<1> DEFINE Listed(u, x) == x \in listFiles(u, file[x].folder, {}, FALSE)
<1> SUFFICES ASSUME Inv, NEW u \in Users \cup Admins \cup SuperAdmins
      PROVE  /\ \A p \in Live(folder) \cup {NoFolder} : \A f \in listFolders(u, p) : getFolder(u, f)
             /\ \A f \in Live(folder) : getFolder(u, f) =>
                  /\ f \in listFolders(u, folder[f].parent)
                  /\ folder[f].parent # NoFolder => getFolder(u, folder[f].parent)
             /\ \A x \in Live(file) :
                  /\ Listed(u, x) <=> x \in listFiles(u, Anywhere, {x}, FALSE)
                  /\ Listed(u, x) <=> x \in getFileIdsByMetadata(u, {x})
                  /\ Listed(u, x) <=> getFileHistory(u, x)
                  /\ getDocumentUrl(u, x) => Listed(u, x)
                  /\ Listed(u, x) /\ (u \in SuperAdmins => u \in Admins) => getDocumentUrl(u, x)
  BY DEF ListedCanBeOpened
<1>1. /\ TypeOK
      /\ \A f \in Folders : folder[f].exists /\ folder[f].parent # NoFolder =>
           /\ folder[f].parent \in Folders /\ folder[folder[f].parent].exists
           /\ getRootFolderId[f] = getRootFolderId[folder[f].parent]
      /\ \A x \in Live(file) : file[x].folder \in Live(folder)
  BY RootFacts DEF Inv, Referenced
<1>2. Live(folder) = {f \in Folders : folder[f].exists}
  BY <1>1, LiveSets
<1>3. \A f \in Live(folder), admin \in BOOLEAN : folder[f].parent # NoFolder =>
        /\ folder[f].parent \in Live(folder)
        /\ canUserAccessFolder(u, f, admin) <=> canUserAccessFolder(u, folder[f].parent, admin)
  BY <1>1, <1>2 DEF canUserAccessFolder, getUserFolderPermissionLevel
<1>a. isCompanyAdmin(u) \in BOOLEAN
  BY DEF isCompanyAdmin
<1>4. \A p \in Live(folder) \cup {NoFolder} : \A f \in listFolders(u, p) : getFolder(u, f)
  BY <1>3, <1>a DEF listFolders, getFolder, Below
<1>5. ASSUME NEW f \in Live(folder), getFolder(u, f)
      PROVE  /\ f \in listFolders(u, folder[f].parent)
             /\ folder[f].parent # NoFolder => getFolder(u, folder[f].parent)
  BY <1>3, <1>5, <1>a DEF listFolders, getFolder, Below
<1>6. ASSUME NEW x \in Live(file)
      PROVE  /\ Listed(u, x) <=> x \in listFiles(u, Anywhere, {x}, FALSE)
             /\ Listed(u, x) <=> x \in getFileIdsByMetadata(u, {x})
             /\ Listed(u, x) <=> getFileHistory(u, x)
             /\ getDocumentUrl(u, x) => Listed(u, x)
             /\ Listed(u, x) /\ (u \in SuperAdmins => u \in Admins) => getDocumentUrl(u, x)
  <2> DEFINE f == file[x].folder
             Seen == ~file[x].archived /\ canUserAccessFolder(u, f, isCompanyAdmin(u))
  <2>1. f \in Live(folder) /\ f # Anywhere
    BY <1>1, <1>2, FoldersAssumption
  <2>2. Listed(u, x) <=> Seen
    BY <2>1 DEF listFiles, Shown
  <2>3. x \in listFiles(u, Anywhere, {x}, FALSE) <=> Seen
    BY DEF listFiles, Shown
  <2>4. x \in getFileIdsByMetadata(u, {x}) <=> Seen
    BY DEF getFileIdsByMetadata
  <2>5. getFileHistory(u, x) <=> Seen
    BY <2>1 DEF getFileHistory, canUserAccessFolder
  <2>6. getDocumentUrl(u, x) => Seen
    BY DEF getDocumentUrl, canUserAccessFolder, isCompanyAdmin
  <2>7. Seen /\ (u \in SuperAdmins => u \in Admins) => getDocumentUrl(u, x)
    BY DEF getDocumentUrl, canUserAccessFolder, isCompanyAdmin
  <2> QED BY <2>2, <2>3, <2>4, <2>5, <2>6, <2>7
<1> QED BY <1>4, <1>5, <1>6

\* A level is what the root above says, so only the folders below the one that is
\* deleted matter: they come below new roots, and these have no permissions as the
\* deleted one had none.
LEMMA RemovalStep ==
  ASSUME Inv, Inv', [Next]_vars, NEW c \in Calls, RemoveWrites(c)
  PROVE  /\ \A x \in Live(file) : file[x].folder \in Folders =>
              file'[x] = file[x] /\ folder'[file[x].folder].exists
         /\ \A u \in Users \cup Admins, f \in Live(folder) : folder'[f].exists =>
              getUserFolderPermissionLevel(u, f)' = getUserFolderPermissionLevel(u, f)
<1> DEFINE gone == calls[c].root
           R == getRootFolderId
           V == getRootFolderId'
<1>1. /\ TypeOK /\ Forest(folder) /\ Rooted(folder) /\ Referenced /\ RootsOwned
      /\ Forest(folder') /\ Rooted(folder')
  BY DEF Inv
<1>2. /\ IsRootFunction(folder, R) /\ IsRootFunction(folder', V)
  BY <1>1, RootFound, RootFoundNext
<1>3. /\ \A f \in Folders : folder[f].exists =>
           /\ R[f] \in Folders
           /\ folder[f].parent = NoFolder => R[f] = f
           /\ folder[f].parent # NoFolder =>
                /\ folder[f].parent \in Folders /\ folder[folder[f].parent].exists
                /\ R[f] = R[folder[f].parent]
  BY <1>1, RootFacts
<1>4. /\ folder' = Without(gone) /\ grants' = grants /\ file' = file
      /\ gone \in Live(folder) => Deletable(gone)
      /\ RootKnown(calls[c].person, gone)
  BY <1>1 DEF RemoveWrites, RootsOwned
<1>5. /\ Live(folder) = {f \in Folders : folder[f].exists}
      /\ Live(file) = {x \in Files : file[x].exists}
  BY <1>1, LiveSets
<1>6. \A g \in Folders :
        /\ folder'[g].exists => g # gone
        /\ g # gone => folder'[g].exists = folder[g].exists
        /\ g # gone /\ folder[g].exists => folder'[g].parent =
                     IF folder[g].parent = gone THEN NoFolder ELSE folder[g].parent
  <2>1. Gone.exists = FALSE
    BY DEF Gone
  <2> QED BY <1>1, <1>4, <2>1, WithoutFields
<1>7. \A f \in Folders : grants[f] # {} => folder[f].exists /\ folder[f].parent = NoFolder
  BY <1>1 DEF Referenced, IsRoot
<1> HIDE DEF R, V, gone
<1>8. ASSUME NEW x \in Live(file), file[x].folder \in Folders
      PROVE  file'[x] = file[x] /\ folder'[file[x].folder].exists
  <2>1. file[x].folder \in Live(folder)
    BY <1>1 DEF Referenced
  <2>2. file[x].folder # gone
    BY <1>4, <1>8, <2>1 DEF Deletable, In
  <2> QED BY <1>4, <1>5, <1>6, <1>8, <2>1, <2>2
<1>9. ASSUME NEW f \in Folders, folder[f].exists, folder'[f].exists
      PROVE  V[f] = R[f] \/ (grants[V[f]] = {} /\ grants[R[f]] = {})
  <2>1. CASE ~(gone \in Folders /\ folder[gone].exists)
    <3> DEFINE S == {g \in Folders : folder[g].exists}
    <3>1. \A g \in S : folder[g].exists /\ folder'[g].exists /\ folder'[g].parent = folder[g].parent
      BY <1>3, <1>6, <2>1
    <3>2. UpClosed(folder, S)
      BY <1>3 DEF UpClosed, IsChild
    <3>3. V[f] = R[f]
      BY <1>1, <1>2, <1>9, <3>1, <3>2, SameRoot
    <3> QED BY <3>3
  <2>2. CASE gone \in Folders /\ folder[gone].exists
    <3>1. grants[gone] = {} /\ folder[gone].parent = NoFolder /\ R[gone] = gone
      BY <1>3, <1>4, <1>5, <2>2, FoldersAssumption DEF Deletable, RootKnown, IsRoot
    <3>2. CASE R[f] # gone
      <4> DEFINE S == {g \in Folders : folder[g].exists /\ R[g] = R[f]}
      <4>1. \A g \in S : folder[g].exists /\ folder'[g].exists /\ folder'[g].parent = folder[g].parent
        <5> SUFFICES ASSUME NEW g \in S
              PROVE  folder[g].exists /\ folder'[g].exists /\ folder'[g].parent = folder[g].parent
          OBVIOUS
        <5>1. g # gone /\ folder[g].exists
          BY <3>1, <3>2
        <5>2. folder[g].parent # gone
          BY <1>3, <2>2, <3>1, <3>2, FoldersAssumption
        <5> QED BY <1>6, <5>1, <5>2
      <4>2. UpClosed(folder, S)
        BY <1>3 DEF UpClosed, IsChild
      <4>3. V[f] = R[f]
        BY <1>1, <1>2, <1>9, <4>1, <4>2, SameRoot
      <4> QED BY <4>3
    <3>3. CASE R[f] = gone
      <4> DEFINE T == {g \in Folders : folder'[g].exists /\ folder[g].exists /\ R[g] = gone}
      <4>1. UpClosed(folder', T)
        <5> SUFFICES ASSUME NEW g \in T, IsChild(folder', g) PROVE folder'[g].parent \in T
          BY DEF UpClosed
        <5>1. /\ g \in Folders /\ folder[g].exists /\ g # gone /\ R[g] = gone
              /\ folder[g].parent # gone /\ folder'[g].parent = folder[g].parent
              /\ folder[g].parent # NoFolder
          BY <1>6 DEF IsChild
        <5> QED BY <1>3, <1>6, <5>1
      <4>2. f \in T /\ T \in SUBSET Folders
        BY <1>9, <3>3
      <4>3. V[f] \in T
        <5> HIDE DEF T
        <5> QED BY <1>1, <1>2, <1>9, <4>1, <4>2, RootIn
      <4>4. grants[V[f]] = {}
        <5>1. V[f] # gone /\ R[V[f]] = gone /\ V[f] \in Folders /\ folder[V[f]].exists
          BY <1>6, <4>3
        <5> QED BY <1>3, <1>7, <5>1
      <4> QED BY <3>1, <3>3, <4>4
    <3> QED BY <3>2, <3>3
  <2> QED BY <2>1, <2>2
<1>10. ASSUME NEW u \in Users \cup Admins, NEW f \in Live(folder), folder'[f].exists
       PROVE  getUserFolderPermissionLevel(u, f)' = getUserFolderPermissionLevel(u, f)
  <2>1. PICK r, s : r = R[f] /\ s = V[f] /\ (s = r \/ (grants[s] = {} /\ grants[r] = {}))
    BY <1>5, <1>9, <1>10
  <2>2. LevelAt(u, s)' = LevelAt(u, r)
    BY <1>4, <2>1 DEF LevelAt
  <2>3. getUserFolderPermissionLevel(u, f) = LevelAt(u, r)
    BY <2>1 DEF getUserFolderPermissionLevel, R
  <2>4. getUserFolderPermissionLevel(u, f)' = LevelAt(u, s)'
    BY <2>1 DEF getUserFolderPermissionLevel, V
  <2> QED BY <2>2, <2>3, <2>4
<1> QED BY <1>8, <1>10

\* The tables of persons, folders, permissions and documents and the handlers under
\* way keep their types.
THEOREM PersonsTypeCorrect == Spec => []TypeOK
<1> QED BY Invariance, PTL DEF Inv

\* The transaction of update and remove (persons.controller.ts) keeps the name of a
\* person's folder that of the person, until changes of the person overlap or the
\* folder itself is renamed.
THEOREM FolderNamed == Spec => []FolderNamedAfterPerson
<1> QED BY Invariance, PTL DEF Inv

\* getFolder, listFolders, listFiles by folder or ids, getFileIdsByMetadata,
\* getFileHistory and getDocumentUrl each decide on their own, and agree: what one
\* shows another opens, but for super administrators, who may open less.
THEOREM ListedOpens == Spec => []ListedCanBeOpened
<1> QED BY Invariance, Opens, PTL

\* An upload or an archiving that passes the check of its level, read one row at a
\* time while others act, was allowed at some time since it began, unless a folder
\* was deleted on its way.
THEOREM WritesAllowed == Spec => []WritesWereAllowed
<1>1. Inv => WritesWereAllowed
  BY DEF Inv, WaysKept, WayUp, WritesWereAllowed
<1> QED BY Invariance, <1>1, PTL

\* remove deletes a person with the folder: no document loses its folder, and no
\* user gets or loses a level anywhere, whatever came into the folder after remove
\* counted what is in it.
THEOREM RemovalKeeps == Spec => RemovalKeepsLevels
<1>1. Inv /\ Inv' /\ [Next]_vars =>
        [\A c \in Calls : RemoveWrites(c) =>
           /\ \A x \in Live(file) : file[x].folder \in Folders =>
                file'[x] = file[x] /\ folder'[file[x].folder].exists
           /\ \A u \in Users \cup Admins, f \in Live(folder) : folder'[f].exists =>
                getUserFolderPermissionLevel(u, f)' = getUserFolderPermissionLevel(u, f)]_vars
  BY RemovalStep
<1> QED BY Invariance, <1>1, PTL DEF Spec, RemovalKeepsLevels

-----------------------------------------------------------------------------
(* The members of a company (Membership). *)

(***************************************************************************)
(* The types, in two parts: the store, with row ids that were handed out   *)
(* once each, and the calls, which know whom they are about.               *)
(***************************************************************************)
StoreType ==
  /\ account \in [People -> {"none", "login", "profile"}]
  /\ rows \subseteq Row /\ used \in 0..MaxRows
  /\ role \in [Roles -> {"none", "live", "deleted"}]
  /\ invite \in [Invites -> {"none", "pending", "accepted", "deleted"}]
  /\ invitee \in [Invites -> People \cup {None}]
  /\ grade \in [Invites -> Grade]
  /\ grouped \subseteq People

RowsDistinct ==
  /\ \A r \in rows : r.id <= used
  /\ \A r, s \in rows : r.id = s.id => r = s

CallType ==
  /\ pc \in [Requests -> Labels]
  /\ whom \in [Requests -> People \cup {None}]
  /\ row \in [Requests -> 0..MaxRows]
  /\ want \in [Requests -> Grade]
  /\ custom \in [Requests -> Roles \cup {None}]
  /\ inv \in [Requests -> Invites \cup {None}]
  /\ faults \in 0..MaxFaults

WhomKnown ==
  \A c \in Requests : pc[c] \in {"degroup", "unmember", "uninvite", "profile", "add", "link", "join"}
    => whom[c] \in People

HistoryType ==
  /\ counted \in [Requests -> SUBSET (1..MaxRows)]
  /\ since \in [Requests -> SUBSET (1..MaxRows)]
  /\ joined \in [Requests -> SUBSET People]

Typed == StoreType /\ RowsDistinct /\ CallType /\ WhomKnown /\ HistoryType

Act(d) == Begin(d) \/ Step(d) \/ Fault(d)

LEMMA TypedInit == MembersInit => Typed
<1> SUFFICES ASSUME MembersInit PROVE Typed
  OBVIOUS
<1>1. StoreType
  BY DEF MembersInit, StoreType, Grade
<1>2. RowsDistinct
  <2>1. ASSUME NEW r \in rows PROVE r.id <= used
    <3>1. r.id \in 1..used
      BY DEF MembersInit
    <3> QED BY <3>1 DEF MembersInit
  <2> QED BY <2>1 DEF MembersInit, RowsDistinct
<1>3. CallType
  BY FaultsAssumption, RowsAssumption DEF MembersInit, CallType, Labels, Grade
<1>4. WhomKnown
  BY DEF MembersInit, WhomKnown
<1>5. HistoryType
  BY DEF MembersInit, HistoryType
<1> QED BY <1>1, <1>2, <1>3, <1>4, <1>5 DEF Typed

\* Rows with a changed role or custom role, the same ids.
LEMMA RowsChanged ==
  ASSUME Typed, used' = used,
         NEW f, \A r \in rows : f[r] \in Row /\ f[r].id = r.id,
         rows' = {f[r] : r \in rows}
  PROVE  rows' \subseteq Row /\ used' \in 0..MaxRows /\ RowsDistinct'
BY DEF Typed, StoreType, RowsDistinct

LEMMA NewRowTyped ==
  ASSUME Typed, NEW u \in People, NEW g \in Grade, NewRow(u, g)
  PROVE  rows' \subseteq Row /\ used' \in 0..MaxRows /\ RowsDistinct'
<1>1. used \in Nat /\ used + 1 \in 1..MaxRows /\ used' = used + 1
  BY RowsAssumption DEF NewRow, Typed, StoreType
<1> DEFINE n == [id |-> used + 1, user |-> u, role |-> g, custom |-> None]
<1>2. n \in Row /\ n.id = used + 1 /\ rows' = rows \cup {n}
  BY <1>1 DEF NewRow, Row
<1>3. \A r \in rows : r.id \in Nat /\ r.id <= used
  BY DEF Typed, RowsDistinct, StoreType, Row
<1> HIDE DEF n
<1>4. \A r \in rows' : r.id <= used'
  BY <1>1, <1>2, <1>3
<1>5. \A r, s \in rows' : r.id = s.id => r = s
  BY <1>1, <1>2, <1>3 DEF Typed, RowsDistinct, StoreType
<1> QED BY <1>1, <1>2, <1>4, <1>5 DEF RowsDistinct, Typed, StoreType

LEMMA WithRoleTyped ==
  ASSUME Typed, NEW c \in Requests, NEW r \in rows
  PROVE  WithRole(c, r) \in Row /\ WithRole(c, r).id = r.id
<1>1. CustomFor(c) \in Roles \cup {None} /\ want[c] \in Grade
  BY DEF CustomFor, Typed, CallType
<1>2. r \in Row
  BY DEF Typed, StoreType
<1> QED BY <1>1, <1>2 DEF WithRole, Row

LEMMA SetRoleTyped ==
  ASSUME Typed, NEW c \in Requests, SetRole(c)
  PROVE  rows' \subseteq Row /\ used' \in 0..MaxRows /\ RowsDistinct'
<1> DEFINE f == [r \in rows |-> WithRole(c, r)]
<1>1. \A r \in rows : f[r] \in Row /\ f[r].id = r.id
  BY WithRoleTyped
<1>2. rows' = rows \/ rows' = {f[r] : r \in rows}
  BY DEF SetRole
<1>3. used' = used
  BY DEF SetRole
<1>4. CASE rows' = rows
  BY <1>3, <1>4 DEF Typed, StoreType, RowsDistinct
<1>5. CASE rows' = {f[r] : r \in rows}
  <2> HIDE DEF f
  <2> QED BY <1>1, <1>3, <1>5, RowsChanged
<1> QED BY <1>2, <1>4, <1>5

LEMMA DropRoleTyped ==
  ASSUME Typed, NEW c \in Requests, DropRole(c)
  PROVE  rows' \subseteq Row /\ used' \in 0..MaxRows /\ RowsDistinct'
<1> DEFINE f == [r \in rows |-> IF r.custom = custom[c] THEN [r EXCEPT !.custom = None] ELSE r]
<1>1. \A r \in rows : r \in Row
  BY DEF Typed, StoreType
<1>2. \A r \in rows : f[r] \in Row /\ f[r].id = r.id
  BY <1>1 DEF Row
<1>3. rows' = {f[r] : r \in rows} /\ used' = used
  BY DEF DropRole
<1> HIDE DEF f
<1> QED BY <1>2, <1>3, RowsChanged

LEMMA StoreTyped == ASSUME Typed, NEW d \in Requests, Act(d) PROVE StoreType' /\ RowsDistinct'
<1> USE DEF Typed, StoreType, RowsDistinct
<1>1. ASSUME NEW r \in rows, NEW g \in Grade, NEW k \in Roles \cup {None}, AssignRole(d, r, g, k)
      PROVE  StoreType' /\ RowsDistinct'
  BY <1>1 DEF AssignRole, store
<1>2. ASSUME NEW k \in Roles, CreateRole(d, k) \/ DeleteRole(d, k) PROVE StoreType' /\ RowsDistinct'
  BY <1>2 DEF CreateRole, DeleteRole, store
<1>3. ASSUME NEW u \in People, RemoveUser(d, u) \/ JoinGroup(d, u) \/ LeaveGroup(d, u)
      PROVE  StoreType' /\ RowsDistinct'
  BY <1>3 DEF RemoveUser, JoinGroup, LeaveGroup, store
<1>4. ASSUME NEW u \in People, NEW g \in Grade, AddExisting(d, u, g) \/ CreateUser(d, u, g)
      PROVE  StoreType' /\ RowsDistinct'
  BY <1>4 DEF AddExisting, CreateUser, store
<1>5. ASSUME NEW i \in Invites, NEW u \in People, NEW g \in Grade, Invite(d, i, u, g)
      PROVE  StoreType' /\ RowsDistinct'
  BY <1>5 DEF Invite
<1>6. ASSUME NEW i \in Invites, CancelInvitation(d, i) \/ \E u \in People : Accept(d, i, u)
      PROVE  StoreType' /\ RowsDistinct'
  BY <1>6 DEF CancelInvitation, Accept, store
<1>7. ASSUME CountAdmins(d) \/ CheckRole(d) \/ Fault(d) PROVE StoreType' /\ RowsDistinct'
  BY <1>7 DEF CountAdmins, CheckRole, Fault, store
<1>8. ASSUME SetRole(d) PROVE StoreType' /\ RowsDistinct'
  <2>1. rows' \subseteq Row /\ used' \in 0..MaxRows /\ RowsDistinct'
    BY <1>8, SetRoleTyped
  <2> QED BY <1>8, <2>1 DEF SetRole
<1>9. ASSUME DropRole(d) PROVE StoreType' /\ RowsDistinct'
  <2>1. rows' \subseteq Row /\ used' \in 0..MaxRows /\ RowsDistinct'
    BY <1>9, DropRoleTyped
  <2> QED BY <1>9, <2>1 DEF DropRole
<1>10. ASSUME RemoveFromGroups(d) \/ RemoveRows(d) \/ RemoveInvitations(d)
       PROVE  StoreType' /\ RowsDistinct'
  BY <1>10 DEF RemoveFromGroups, RemoveRows, RemoveInvitations
<1>11. ASSUME AddRow(d) \/ Join(d) PROVE StoreType' /\ RowsDistinct'
  <2>1. whom[d] \in People /\ want[d] \in Grade
    BY <1>11 DEF AddRow, Join, WhomKnown, CallType
  <2>2. NewRow(whom[d], want[d]) /\ UNCHANGED <<account, role, invite, invitee, grade, grouped>>
    BY <1>11 DEF AddRow, Join
  <2>3. rows' \subseteq Row /\ used' \in 0..MaxRows /\ RowsDistinct'
    BY <2>1, <2>2, NewRowTyped
  <2> QED BY <2>2, <2>3
<1>12. ASSUME CreateProfile(d) \/ CreateInvitation(d) \/ DeleteInvitation(d) \/ MarkAccepted(d)
       PROVE  StoreType' /\ RowsDistinct'
  BY <1>12 DEF CreateProfile, CreateInvitation, DeleteInvitation, MarkAccepted
<1> QED BY <1>1, <1>2, <1>3, <1>4, <1>5, <1>6, <1>7, <1>8, <1>9, <1>10, <1>11, <1>12 DEF Act,
                                                                                         Begin, Step

LEMMA CallTyped == ASSUME Typed, NEW d \in Requests, Act(d) PROVE CallType' /\ WhomKnown'
<1> USE DEF Typed, CallType, WhomKnown, Goto, Labels, local
<1>1. ASSUME NEW r \in rows, NEW g \in Grade, NEW k \in Roles \cup {None}, AssignRole(d, r, g, k)
      PROVE  CallType' /\ WhomKnown'
  <2>1. r.user \in People /\ r.id \in 0..MaxRows
    BY RowsAssumption DEF StoreType, Row
  <2>2. \E l \in {"count", "check", "assign"} : Goto(d, l)
    BY <1>1 DEF AssignRole, AfterCount
  <2> QED BY <1>1, <2>1, <2>2 DEF AssignRole
<1>2. ASSUME NEW k \in Roles, CreateRole(d, k) \/ DeleteRole(d, k) PROVE CallType' /\ WhomKnown'
  BY <1>2 DEF CreateRole, DeleteRole
<1>3. ASSUME NEW u \in People, RemoveUser(d, u) \/ JoinGroup(d, u) \/ LeaveGroup(d, u)
      PROVE  CallType' /\ WhomKnown'
  BY <1>3 DEF RemoveUser, JoinGroup, LeaveGroup
<1>4. ASSUME NEW u \in People, NEW g \in Grade, AddExisting(d, u, g) \/ CreateUser(d, u, g)
      PROVE  CallType' /\ WhomKnown'
  BY <1>4 DEF AddExisting, CreateUser
<1>5. ASSUME NEW i \in Invites, NEW u \in People, NEW g \in Grade, Invite(d, i, u, g)
      PROVE  CallType' /\ WhomKnown'
  BY <1>5 DEF Invite
<1>6. ASSUME NEW i \in Invites, CancelInvitation(d, i) PROVE CallType' /\ WhomKnown'
  BY <1>6 DEF CancelInvitation
<1>7. ASSUME NEW i \in Invites, NEW u \in People, Accept(d, i, u) PROVE CallType' /\ WhomKnown'
  <2>1. grade[i] \in Grade
    BY DEF StoreType
  <2> QED BY <1>7, <2>1 DEF Accept
<1>8. ASSUME CountAdmins(d) \/ CheckRole(d) PROVE CallType' /\ WhomKnown'
  <2>1. \E l \in {"check", "assign", "done"} : Goto(d, l)
    BY <1>8 DEF CountAdmins, CheckRole, AfterCount
  <2>2. UNCHANGED <<local, faults>>
    BY <1>8 DEF CountAdmins, CheckRole
  <2> QED BY <2>1, <2>2
<1>9. ASSUME SetRole(d) \/ DropRole(d) PROVE CallType' /\ WhomKnown'
  BY <1>9 DEF SetRole, DropRole
<1>10. ASSUME RemoveFromGroups(d) \/ RemoveRows(d) \/ RemoveInvitations(d)
       PROVE  CallType' /\ WhomKnown'
  BY <1>10 DEF RemoveFromGroups, RemoveRows, RemoveInvitations
<1>11. ASSUME AddRow(d) \/ Join(d) PROVE CallType' /\ WhomKnown'
  BY <1>11 DEF AddRow, Join
<1>12. ASSUME CreateProfile(d) \/ CreateInvitation(d) \/ DeleteInvitation(d) \/ MarkAccepted(d)
       PROVE  CallType' /\ WhomKnown'
  BY <1>12 DEF CreateProfile, CreateInvitation, DeleteInvitation, MarkAccepted
<1>13. ASSUME Fault(d) PROVE CallType' /\ WhomKnown'
  BY <1>13, FaultsAssumption DEF Fault
<1> QED BY <1>1, <1>2, <1>3, <1>4, <1>5, <1>6, <1>7, <1>8, <1>9, <1>10, <1>11, <1>12, <1>13
        DEF Act, Begin, Step

LEMMA ChangedIds ==
  ASSUME Typed, StoreType'
  PROVE  /\ Changed \subseteq 1..MaxRows
         /\ \A r \in rows' : r.id \in Changed \/ r \in rows
         /\ \A r \in rows : r.id \in Changed \/ r \in rows'
BY DEF Typed, StoreType, Changed, Ids, Row

LEMMA HistoryTyped ==
  ASSUME Typed, StoreType', NEW d \in Requests, Remember(d)
  PROVE  HistoryType'
<1>1. Changed \subseteq 1..MaxRows
  BY ChangedIds
<1>2. Ids(AdminRows) \subseteq 1..MaxRows
  BY DEF Typed, StoreType, Ids, AdminRows, Row
<1>3. grouped' \subseteq People
  BY DEF StoreType
<1> HIDE DEF Changed
<1>4. counted' \in [Requests -> SUBSET (1..MaxRows)]
  BY <1>2 DEF Remember, Typed, HistoryType
<1>5. since' \in [Requests -> SUBSET (1..MaxRows)]
  BY <1>1 DEF Remember, Typed, HistoryType
<1>6. joined' \in [Requests -> SUBSET People]
  BY <1>3 DEF Remember, Typed, HistoryType
<1> QED BY <1>4, <1>5, <1>6 DEF HistoryType

LEMMA TypedStep == Typed /\ [MembersNext]_membersVars => Typed'
<1> SUFFICES ASSUME Typed, [MembersNext]_membersVars PROVE Typed'
  OBVIOUS
<1>1. CASE UNCHANGED membersVars
  BY <1>1 DEF membersVars, Typed, StoreType, RowsDistinct, CallType, WhomKnown, HistoryType
<1>2. ASSUME NEW d \in Requests, Act(d), Remember(d) PROVE Typed'
  BY <1>2, StoreTyped, CallTyped, HistoryTyped DEF Typed
<1> QED BY <1>1, <1>2 DEF MembersNext, Act

\* Every variable keeps its type: no row id is handed out beyond the bound, and a
\* call that creates a row knows for whom.
THEOREM MembersTypeCorrect == MembersSpec => []MembersTypeOK
<1>1. Typed => MembersTypeOK
  BY DEF Typed, StoreType, CallType, HistoryType, MembersTypeOK
<1> QED BY <1>1, TypedInit, TypedStep, PTL DEF MembersSpec

(***************************************************************************)
(* Requests overlap.  What a call has looked at need not hold any more     *)
(* when it writes, but whatever differs has been recorded since: Looked    *)
(* names what each await may rely on.                                      *)
(***************************************************************************)
Looked(c) ==
  /\ pc[c] \notin {"check", "assign"} => counted[c] = {}
  /\ pc[c] \in {"check", "assign"} =>
       /\ row[c] \notin counted[c]
       /\ counted[c] \ since[c] \subseteq Ids(AdminRows)
       /\ counted[c] = {} /\ want[c] = "user" /\ row[c] \notin since[c] => row[c] \notin Ids(AdminRows)
  /\ pc[c] = "delrole" => \A r \in rows : r.custom = custom[c] => r.id \in since[c]
  /\ pc[c] \in {"unmember", "uninvite"} => (whom[c] \in grouped => whom[c] \in joined[c])
  /\ pc[c] = "uninvite" => Ids(RowsOf(whom[c])) \subseteq since[c]

Overlapping == Typed /\ \A c \in Requests : Looked(c)

\* A step moves its own call, and always moves it; it leaves what the others have
\* loaded.
LEMMA Moves ==
  ASSUME Typed, NEW d \in Requests, Act(d)
  PROVE  /\ pc'[d] # pc[d]
         /\ \A c \in Requests \ {d} : pc'[c] = pc[c]
<1>1. \E l \in Labels : l # pc[d] /\ Goto(d, l)
  <2> USE DEF Labels
  <2>1. CASE Begin(d)
    BY <2>1 DEF Begin, AssignRole, AfterCount, CreateRole, DeleteRole, RemoveUser, JoinGroup,
                LeaveGroup, AddExisting, CreateUser, Invite, CancelInvitation, Accept
  <2>2. CASE Step(d)
    BY <2>2 DEF Step, CountAdmins, AfterCount, CheckRole, SetRole, DropRole, RemoveFromGroups,
                RemoveRows, RemoveInvitations, CreateProfile, AddRow, CreateInvitation,
                DeleteInvitation, Join, MarkAccepted
  <2>3. CASE Fault(d)
    BY <2>3 DEF Fault, Active
  <2> QED BY <2>1, <2>2, <2>3 DEF Act
<1> QED BY <1>1 DEF Goto, Typed, CallType

LEMMA OthersLoaded ==
  ASSUME Typed, NEW d \in Requests, Act(d), NEW c \in Requests \ {d}
  PROVE  whom'[c] = whom[c] /\ row'[c] = row[c] /\ want'[c] = want[c] /\ custom'[c] = custom[c]
<1> USE DEF Typed, CallType
<1>1. CASE Begin(d)
  BY <1>1 DEF Begin, AssignRole, CreateRole, DeleteRole, RemoveUser, JoinGroup, LeaveGroup,
              AddExisting, CreateUser, Invite, CancelInvitation, Accept, local
<1>2. CASE Step(d)
  BY <1>2 DEF Step, CountAdmins, CheckRole, SetRole, DropRole, RemoveFromGroups, RemoveRows,
              RemoveInvitations, CreateProfile, AddRow, CreateInvitation, DeleteInvitation, Join,
              MarkAccepted, local
<1>3. CASE Fault(d)
  BY <1>3 DEF Fault, local
<1> QED BY <1>1, <1>2, <1>3 DEF Act

\* What a call relies on survives a step that leaves it where it is, or takes it
\* from the check of the custom role to the update.
LEMMA Persists ==
  ASSUME Typed, StoreType', NEW d \in Requests, Remember(d), NEW c \in Requests, Looked(c),
         pc'[c] = pc[c] \/ (pc[c] = "check" /\ pc'[c] = "assign"),
         c # d \/ pc[c] \notin {"count"},
         whom'[c] = whom[c], row'[c] = row[c], want'[c] = want[c], custom'[c] = custom[c]
  PROVE  Looked(c)'
<1> DEFINE changed == Changed
<1>1. /\ \A r \in rows' : r.id \in changed \/ r \in rows
      /\ \A r \in rows : r.id \in changed \/ r \in rows'
  BY ChangedIds
<1>2. pc'[c] \in {"check", "assign", "delrole", "uninvite"} => since'[c] = since[c] \cup changed
  BY DEF Remember
<1>3. pc'[c] \in {"check", "assign"} => counted'[c] = counted[c]
  BY DEF Remember
<1>4. pc'[c] \in {"unmember", "uninvite"} => joined'[c] = joined[c] \cup (grouped' \ grouped)
  BY DEF Remember
<1> HIDE DEF changed
<1>5. ASSUME pc'[c] \in {"check", "assign"}
      PROVE  /\ row'[c] \notin counted'[c]
             /\ counted'[c] \ since'[c] \subseteq Ids(AdminRows)'
             /\ counted'[c] = {} /\ want'[c] = "user" /\ row'[c] \notin since'[c] =>
                  row'[c] \notin Ids(AdminRows)'
  <2>1. /\ row[c] \notin counted[c]
        /\ counted[c] \ since[c] \subseteq Ids(AdminRows)
        /\ counted[c] = {} /\ want[c] = "user" /\ row[c] \notin since[c] => row[c] \notin Ids(AdminRows)
    BY <1>5 DEF Looked
  <2>2. counted'[c] = counted[c] /\ since'[c] = since[c] \cup changed
    BY <1>2, <1>3, <1>5
  <2>3. ASSUME NEW n \in counted[c], n \notin since[c], n \notin changed PROVE n \in Ids(AdminRows)'
    <3>1. PICK r \in AdminRows : r.id = n
      BY <2>1, <2>3 DEF Ids
    <3>2. r \in rows'
      BY <1>1, <2>3, <3>1 DEF AdminRows
    <3> QED BY <3>1, <3>2 DEF Ids, AdminRows
  <2>4. ASSUME counted[c] = {}, want[c] = "user", row[c] \notin since[c], row[c] \notin changed,
               NEW r \in rows', r.role = "company_admin", r.id = row[c]
        PROVE  FALSE
    <3>1. r \in AdminRows
      BY <1>1, <2>4 DEF AdminRows
    <3> QED BY <2>1, <2>4, <3>1 DEF Ids
  <2> QED BY <2>1, <2>2, <2>3, <2>4 DEF Ids, AdminRows
<1>6. pc'[c] = "delrole" => \A r \in rows' : r.custom = custom'[c] => r.id \in since'[c]
  BY <1>1, <1>2 DEF Looked
<1>7. pc'[c] \in {"unmember", "uninvite"} => (whom'[c] \in grouped' => whom'[c] \in joined'[c])
  BY <1>4 DEF Looked
<1>8. pc'[c] = "uninvite" => Ids(RowsOf(whom[c]))' \subseteq since'[c]
  BY <1>1, <1>2 DEF Looked, Ids, RowsOf
<1>9. pc'[c] \notin {"check", "assign"} => counted'[c] = {}
  BY DEF Remember
<1> QED BY <1>5, <1>6, <1>7, <1>8, <1>9 DEF Looked, Ids, RowsOf

\* Two administrators counted are two rows, and one of them is not the loaded one.
LEMMA Counted ==
  ASSUME Typed, ~(Cardinality(AdminRows) <= 1), NEW n
  PROVE  Ids(AdminRows) \ {n} # {}
<1> SUFFICES ASSUME \A s \in AdminRows : s.id = n PROVE FALSE
  BY DEF Ids
<1>1. CASE AdminRows = {}
  BY <1>1, FS_EmptySet
<1>2. ASSUME NEW r \in AdminRows PROVE FALSE
  <2>1. AdminRows = {r}
    BY <1>2 DEF AdminRows, Typed, RowsDistinct
  <2> QED BY <2>1, FS_Singleton
<1> QED BY <1>1, <1>2

\* The steps after which their own call relies on what it has just seen or done.
LEMMA LooksAtRows ==
  ASSUME Typed, NEW d \in Requests, Looked(d), Remember(d), NEW r \in rows, NEW g \in Grade,
         NEW k \in Roles \cup {None}, AssignRole(d, r, g, k)
  PROVE  Looked(d)'
<1>0. counted[d] = {}
  BY DEF AssignRole, Looked
<1>1. /\ row'[d] = r.id /\ want'[d] = g /\ UNCHANGED rows
      /\ pc'[d] \in {"count", "check", "assign"}
      /\ pc'[d] # "count" => ~(r.role = "company_admin" /\ g = "user")
  BY DEF AssignRole, AfterCount, Goto, Typed, CallType, store
<1>2. pc[d] = "idle"
  BY DEF AssignRole
<1>3. r.id \in Ids(AdminRows) => r.role = "company_admin"
  BY DEF Typed, RowsDistinct, Ids, AdminRows
<1>4. Ids(AdminRows)' = Ids(AdminRows)
  BY <1>1 DEF Ids, AdminRows
<1>5. counted'[d] = {}
  BY <1>0, <1>2 DEF Remember
<1> QED BY <1>1, <1>3, <1>4, <1>5 DEF Looked

LEMMA LooksAtAdmins ==
  ASSUME Typed, NEW d \in Requests, Remember(d), CountAdmins(d)
  PROVE  Looked(d)'
<1>1. /\ pc[d] = "count" /\ UNCHANGED <<rows, row>>
      /\ pc'[d] \in {"check", "assign", "done"}
      /\ pc'[d] # "done" => ~(Cardinality(AdminRows) <= 1)
  BY DEF CountAdmins, AfterCount, Goto, Typed, CallType, store, local
<1>2. pc'[d] # "done" => Ids(AdminRows) \ {row[d]} # {}
  BY <1>1, Counted
<1>3. pc'[d] # "done" => counted'[d] = Ids(AdminRows) \ {row[d]}
  BY <1>1 DEF Remember
<1>4. pc'[d] = "done" => counted'[d] = {}
  BY DEF Remember
<1>5. Ids(AdminRows)' = Ids(AdminRows)
  BY <1>1 DEF Ids, AdminRows
<1> QED BY <1>1, <1>2, <1>3, <1>4, <1>5 DEF Looked

LEMMA LooksAtUsers ==
  ASSUME Typed, NEW d \in Requests, Remember(d), NEW k \in Roles, DeleteRole(d, k)
  PROVE  Looked(d)'
<1>1. pc'[d] = "delrole" /\ custom'[d] = k /\ UNCHANGED rows /\ \A r \in rows : r.custom # k
  BY DEF DeleteRole, Goto, Typed, CallType, store
<1>2. counted'[d] = {}
  BY <1>1 DEF Remember
<1> QED BY <1>1, <1>2 DEF Looked

LEMMA TakesGroups ==
  ASSUME Typed, NEW d \in Requests, Remember(d), RemoveFromGroups(d)
  PROVE  Looked(d)'
<1>1. pc'[d] = "unmember" /\ whom'[d] = whom[d] /\ whom[d] \notin grouped'
  BY DEF RemoveFromGroups, Goto, Typed, CallType, local
<1>2. counted'[d] = {}
  BY <1>1 DEF Remember
<1> QED BY <1>1, <1>2 DEF Looked

LEMMA TakesRows ==
  ASSUME Typed, NEW d \in Requests, Looked(d), Remember(d), RemoveRows(d)
  PROVE  Looked(d)'
<1>1. /\ pc[d] = "unmember" /\ pc'[d] = "uninvite" /\ UNCHANGED <<whom, grouped>>
      /\ rows' = rows \ RowsOf(whom[d])
  BY DEF RemoveRows, Goto, Typed, CallType, local
<1>2. counted'[d] = {} /\ joined'[d] = joined[d] \cup (grouped' \ grouped)
  BY <1>1 DEF Remember
<1>5. whom[d] \in grouped => whom[d] \in joined[d]
  BY <1>1 DEF Looked
<1>6. Ids(RowsOf(whom[d]))' \subseteq since'[d]
  BY <1>1 DEF Ids, RowsOf
<1> QED BY <1>1, <1>2, <1>5, <1>6 DEF Looked

\* Where a call relies on nothing.
LEMMA LooksAtNothing ==
  ASSUME NEW d \in Requests, Remember(d),
         pc'[d] \notin {"check", "assign", "delrole", "unmember", "uninvite"}
  PROVE  Looked(d)'
BY DEF Remember, Looked

LEMMA Looks ==
  ASSUME Typed, Typed', NEW d \in Requests, Looked(d), Act(d), Remember(d)
  PROVE  Looked(d)'
<1> DEFINE Relied == {"check", "assign", "delrole", "unmember", "uninvite"}
<1>0. pc \in [Requests -> Labels]
  BY DEF Typed, CallType
<1>1. ASSUME NEW r \in rows, NEW g \in Grade, NEW k \in Roles \cup {None}, AssignRole(d, r, g, k)
      PROVE  Looked(d)'
  BY <1>1, LooksAtRows
<1>2. CASE CountAdmins(d)
  BY <1>2, LooksAtAdmins
<1>3. CASE CheckRole(d)
  <2>1. /\ pc[d] = "check" /\ pc'[d] \in {"assign", "done"}
        /\ UNCHANGED <<whom, row, want, custom>>
    BY <1>0, <1>3 DEF CheckRole, Goto, local
  <2>2. CASE pc'[d] = "assign"
    BY <2>1, <2>2, Persists DEF Typed
  <2>3. CASE pc'[d] = "done"
    BY <2>3, LooksAtNothing
  <2> QED BY <2>1, <2>2, <2>3
<1>4. ASSUME NEW k \in Roles, DeleteRole(d, k) PROVE Looked(d)'
  BY <1>4, LooksAtUsers
<1>5. CASE RemoveFromGroups(d)
  BY <1>5, TakesGroups
<1>6. CASE RemoveRows(d)
  BY <1>6, TakesRows
<1>7. ASSUME \/ \E k \in Roles : CreateRole(d, k)
             \/ \E u \in People : RemoveUser(d, u) \/ JoinGroup(d, u) \/ LeaveGroup(d, u)
             \/ \E u \in People, g \in Grade : AddExisting(d, u, g) \/ CreateUser(d, u, g)
             \/ \E i \in Invites, u \in People, g \in Grade : Invite(d, i, u, g)
             \/ \E i \in Invites : CancelInvitation(d, i) \/ \E u \in People : Accept(d, i, u)
      PROVE  Looked(d)'
  <2>1. pc'[d] \notin Relied
    BY <1>0, <1>7 DEF CreateRole, RemoveUser, JoinGroup, LeaveGroup, AddExisting, CreateUser, Invite,
                      CancelInvitation, Accept, Goto
  <2> QED BY <2>1, LooksAtNothing
<1>8. ASSUME \/ SetRole(d) \/ DropRole(d) \/ RemoveInvitations(d) \/ CreateProfile(d) \/ AddRow(d)
             \/ CreateInvitation(d) \/ DeleteInvitation(d) \/ Join(d) \/ MarkAccepted(d) \/ Fault(d)
      PROVE  Looked(d)'
  <2>1. pc'[d] \notin Relied
    BY <1>0, <1>8 DEF SetRole, DropRole, RemoveInvitations, CreateProfile, AddRow, CreateInvitation,
                      DeleteInvitation, Join, MarkAccepted, Fault, Goto
  <2> QED BY <2>1, LooksAtNothing
<1> QED BY <1>1, <1>2, <1>3, <1>4, <1>5, <1>6, <1>7, <1>8 DEF Act, Begin, Step

LEMMA OverlappingStep == Overlapping /\ [MembersNext]_membersVars => Overlapping'
<1> SUFFICES ASSUME Overlapping, [MembersNext]_membersVars PROVE Overlapping'
  OBVIOUS
<1>0. Typed'
  BY TypedStep DEF Overlapping
<1>1. CASE UNCHANGED membersVars
  BY <1>0, <1>1 DEF membersVars, Overlapping, Looked, AdminRows, RowsOf, Ids
<1>2. ASSUME NEW d \in Requests, Act(d), Remember(d) PROVE Overlapping'
  <2>1. Looked(d)'
    BY <1>0, <1>2, Looks DEF Overlapping
  <2>2. ASSUME NEW c \in Requests \ {d} PROVE Looked(c)'
    <3>1. pc'[c] = pc[c]
      BY <1>2, Moves DEF Overlapping
    <3>2. whom'[c] = whom[c] /\ row'[c] = row[c] /\ want'[c] = want[c] /\ custom'[c] = custom[c]
      BY <1>2, OthersLoaded DEF Overlapping
    <3> QED BY <1>0, <1>2, <3>1, <3>2, Persists DEF Overlapping, Typed
  <2> QED BY <1>0, <2>1, <2>2 DEF Overlapping
<1> QED BY <1>1, <1>2 DEF MembersNext, Act

LEMMA OverlappingInit == MembersInit => Overlapping
BY TypedInit DEF MembersInit, Overlapping, Looked

LEMMA OverlappingHolds == MembersSpec => []Overlapping
BY OverlappingInit, OverlappingStep, PTL DEF MembersSpec

(***************************************************************************)
(* What a step does, given what its call relies on.                        *)
(***************************************************************************)
LEMMA AdminStays ==
  ASSUME Overlapping, NEW c \in Requests, SetRole(c), AdminRows # {}
  PROVE  \/ AdminRows' # {}
         \/ counted[c] # {} /\ counted[c] \subseteq since[c]
         \/ counted[c] = {} /\ row[c] \in since[c]
<1>1. want[c] \in {"company_admin", "user"} /\ pc[c] = "assign"
  BY DEF Overlapping, Typed, CallType, Grade, SetRole
<1>2. ASSUME NEW s \in AdminRows, s.id # row[c] PROVE AdminRows' # {}
  <2>0. WithRole(c, s) = s
    BY <1>2 DEF WithRole
  <2>1. s \in rows'
    BY <1>2, <2>0 DEF SetRole, AdminRows
  <2> QED BY <1>2, <2>1 DEF AdminRows
<1>3. CASE \E s \in AdminRows : s.id # row[c]
  BY <1>2, <1>3
<1>4. CASE \A s \in AdminRows : s.id = row[c]
  <2>1. PICK s \in AdminRows : s.id = row[c]
    BY <1>4
  <2>2. Ids(AdminRows) = {row[c]}
    BY <1>4, <2>1 DEF Ids
  <2>3. CASE want[c] = "company_admin"
    <3>1. s \in rows' \/ WithRole(c, s) \in rows'
      BY <2>1 DEF SetRole, AdminRows
    <3>2. s \in Row
      BY DEF Overlapping, Typed, StoreType, AdminRows
    <3>3. WithRole(c, s).role = "company_admin" /\ s.role = "company_admin"
      BY <2>1, <2>3, <3>2 DEF WithRole, Row, AdminRows
    <3> QED BY <3>1, <3>3 DEF AdminRows
  <2>4. CASE want[c] = "user"
    <3>1. /\ row[c] \notin counted[c]
          /\ counted[c] \ since[c] \subseteq {row[c]}
          /\ counted[c] = {} /\ row[c] \notin since[c] => row[c] \notin {row[c]}
      BY <1>1, <2>2, <2>4 DEF Overlapping, Looked
    <3> QED BY <3>1
  <2> QED BY <1>1, <2>3, <2>4
<1> QED BY <1>3, <1>4

\* The call that goes from one await to another one is the call that acts.
LEMMA Actor ==
  ASSUME Typed, NEW c \in Requests, pc'[c] # pc[c], NEW d \in Requests, Act(d)
  PROVE  c = d
BY Moves

\* However requests overlap, assignUserRole takes the last administrator only when
\* those it has counted were changed meanwhile, or its own row was: the count of
\* administrators is worth what is left of it when the role is set.
THEOREM AdminKept == MembersSpec => LastAdminKept
<1>1. ASSUME Overlapping, [MembersNext]_membersVars,
             NEW c \in Requests, pc[c] = "assign", pc'[c] = "done", AdminRows # {}
      PROVE  \/ AdminRows' # {}
             \/ counted[c] # {} /\ counted[c] \subseteq since[c]
             \/ counted[c] = {} /\ row[c] \in since[c]
  <2>1. PICK d \in Requests : Act(d)
    BY <1>1 DEF membersVars, MembersNext, Act
  <2>2. Act(c)
    BY <1>1, <2>1, Actor DEF Overlapping
  <2>3. SetRole(c) \/ Fault(c)
    BY <1>1, <2>2 DEF Act, Begin, Step, AssignRole, CreateRole, DeleteRole, RemoveUser, JoinGroup,
                      LeaveGroup, AddExisting, CreateUser, Invite, CancelInvitation, Accept,
                      CountAdmins, CheckRole, DropRole, RemoveFromGroups, RemoveRows,
                      RemoveInvitations, CreateProfile, AddRow, CreateInvitation, DeleteInvitation,
                      Join, MarkAccepted
  <2>4. CASE Fault(c)
    BY <1>1, <2>4 DEF Fault, store, AdminRows
  <2> QED BY <1>1, <2>3, <2>4, AdminStays
<1>2. Overlapping /\ [MembersNext]_membersVars =>
        \A c \in Requests : pc[c] = "assign" /\ pc'[c] = "done" /\ AdminRows # {} =>
          \/ AdminRows' # {}
          \/ counted[c] # {} /\ counted[c] \subseteq since[c]
          \/ counted[c] = {} /\ row[c] \in since[c]
  BY <1>1
<1> QED BY <1>2, OverlappingHolds, PTL DEF MembersSpec, LastAdminKept

\* However requests overlap, deleteRole takes the permissions of those members only
\* who have been given the role since it counted.
THEOREM RoleUnused == MembersSpec => RoleUnusedWhenDeleted
<1>1. ASSUME Overlapping, [MembersNext]_membersVars, NEW k \in Roles,
             role[k] = "live", role'[k] = "deleted"
      PROVE  \E c \in Requests :
               /\ pc[c] = "delrole" /\ pc'[c] = "done" /\ custom[c] = k
               /\ \A r \in rows : r.custom = k => r.id \in since[c]
  <2>1. PICK d \in Requests : Act(d)
    BY <1>1 DEF membersVars, MembersNext, Act
  <2>2. DropRole(d)
    <3>1. role' = role \/ (\E j \in Roles : role' = [role EXCEPT ![j] = "live"]) \/ DropRole(d)
      BY <2>1 DEF Act, Begin, Step, AssignRole, CreateRole, DeleteRole, RemoveUser, JoinGroup,
                  LeaveGroup, AddExisting, CreateUser, Invite, CancelInvitation, Accept,
                  CountAdmins, CheckRole, SetRole, RemoveFromGroups, RemoveRows, RemoveInvitations,
                  CreateProfile, AddRow, CreateInvitation, DeleteInvitation, Join, MarkAccepted,
                  Fault, store
    <3>2. role \in [Roles -> {"none", "live", "deleted"}]
      BY <1>1 DEF Overlapping, Typed, StoreType
    <3> QED BY <1>1, <3>1, <3>2
  <2>3. custom[d] = k /\ pc[d] = "delrole" /\ pc'[d] = "done"
    BY <1>1, <2>2 DEF DropRole, Goto, Overlapping, Typed, StoreType, CallType
  <2>4. \A r \in rows : r.custom = k => r.id \in since[d]
    BY <1>1, <2>3 DEF Overlapping, Looked
  <2> QED BY <2>3, <2>4
<1>2. Overlapping /\ [MembersNext]_membersVars =>
        \A k \in Roles : role[k] = "live" /\ role'[k] = "deleted" =>
          \E c \in Requests :
            /\ pc[c] = "delrole" /\ pc'[c] = "done" /\ custom[c] = k
            /\ \A r \in rows : r.custom = k => r.id \in since[c]
  BY <1>1
<1> QED BY <1>2, OverlappingHolds, PTL DEF MembersSpec, RoleUnusedWhenDeleted

LEMMA RemovalEnds ==
  ASSUME Overlapping, NEW c \in Requests, RemoveInvitations(c),
         NEW u, whom[c] = u, account[u] = "profile", u \notin MixedCase
  PROVE  /\ Ids(RowsOf(u)') \subseteq since[c]
         /\ u \in grouped' => u \in joined[c]
         /\ \A i \in Invites : invitee[i] = u => invite'[i] # "pending"
<1>1. pc[c] = "uninvite" /\ UNCHANGED <<rows, grouped>>
  BY DEF RemoveInvitations
<1>2. Ids(RowsOf(u)) \subseteq since[c] /\ (u \in grouped => u \in joined[c])
  BY <1>1 DEF Overlapping, Looked
<1>3. \A i \in Invites : invitee[i] = u => invite'[i] # "pending"
  BY DEF RemoveInvitations
<1> QED BY <1>1, <1>2, <1>3 DEF RowsOf, Ids

\* However requests overlap, a removeUserFromCompany that comes to its end leaves
\* only rows that were created since its rows were taken, and groups that were
\* joined since, and no open invitation.
THEOREM RemovedForGood == MembersSpec => RemovalComplete
<1>1. ASSUME Overlapping, [MembersNext]_membersVars, NEW c \in Requests,
             NEW u \in People \ MixedCase,
             pc[c] = "uninvite", pc'[c] = "done", faults' = faults, whom[c] = u, account[u] = "profile"
      PROVE  /\ Ids(RowsOf(u)') \subseteq since[c]
             /\ u \in grouped' => u \in joined[c]
             /\ \A i \in Invites : invitee[i] = u => invite'[i] # "pending"
  <2>1. PICK d \in Requests : Act(d)
    BY <1>1 DEF membersVars, MembersNext, Act
  <2>2. Act(c)
    BY <1>1, <2>1, Actor DEF Overlapping
  <2>3. RemoveInvitations(c) \/ Fault(c)
    BY <1>1, <2>2 DEF Act, Begin, Step, AssignRole, CreateRole, DeleteRole, RemoveUser, JoinGroup,
                      LeaveGroup, AddExisting, CreateUser, Invite, CancelInvitation, Accept,
                      CountAdmins, CheckRole, SetRole, DropRole, RemoveFromGroups, RemoveRows,
                      CreateProfile, AddRow, CreateInvitation, DeleteInvitation, Join, MarkAccepted
  <2>4. ~Fault(c)
    BY <1>1 DEF Fault, Overlapping, Typed, CallType
  <2> QED BY <1>1, <2>3, <2>4, RemovalEnds
<1>2. Overlapping /\ [MembersNext]_membersVars =>
        \A c \in Requests, u \in People \ MixedCase :
          pc[c] = "uninvite" /\ pc'[c] = "done" /\ faults' = faults /\ whom[c] = u /\ account[u] = "profile" =>
            /\ Ids(RowsOf(u)') \subseteq since[c]
            /\ u \in grouped' => u \in joined[c]
            /\ \A i \in Invites : invitee[i] = u => invite'[i] # "pending"
  BY <1>1
<1> QED BY <1>2, OverlappingHolds, PTL DEF MembersSpec, RemovalComplete
=============================================================================
