---------------------------- MODULE PersonsFolders ----------------------------
(***************************************************************************)
(* The persons of a company and the folders of its documents.  Every       *)
(* person has a root folder of its own; who may read or write in a folder  *)
(* is decided by the permissions of the root it is below.  A handler reads *)
(* the database, decides, and writes later: others act in between, and     *)
(* only the foreign keys of the migrated database still hold when it       *)
(* writes.                                                                 *)
(***************************************************************************)
EXTENDS Naturals, FiniteSets

CONSTANTS
  Users,       \* members with any other role
  Admins,      \* members with the role company_admin
  SuperAdmins, \* of any role, or no members
  Others,      \* whom the permissions of all others are for: administrators, groups
               \* without any of Users, users and groups that are gone
  Persons,
  Folders,
  Files,
  Names,
  Calls,       \* handlers under way: a bound
  NoFolder,
  Anywhere,    \* no folder is asked for
  OtherName    \* any name that is not one of Names: those of the folders of no person

ASSUME UsersAssumption == Admins \cap Users = {} /\ Others \notin Users \cup Admins
ASSUME FoldersAssumption == {NoFolder, Anywhere} \cap Folders = {} /\ NoFolder # Anywhere
ASSUME NamesAssumption == OtherName \notin Names

VARIABLES
  person,   \* table persons
  folder,   \* table folders
  grants,   \* table folder_permissions, by folder
  file,     \* table files
  calls,    \* the handlers that have read and not yet written
  \* history
  mixed     \* persons changed by overlapping calls, or whose folder was renamed alone

vars == <<person, folder, grants, file, calls, mixed>>

\* What others may do makes no difference to Users.
ToOthers == [to |-> Others, type |-> "write"]
Grant == [to : Users, type : {"read", "write"}] \cup {ToOthers}
\* No id is given twice: a row that was deleted leaves Gone.
NoRow == [exists |-> FALSE, used |-> FALSE]
Gone == [exists |-> FALSE, used |-> TRUE]
FolderRow == [exists : {TRUE}, name : Names \cup {OtherName}, parent : Folders \cup {NoFolder}]
PersonRow == [exists : {TRUE}, name : Names, root : Folders \cup {NoFolder}]
FileRow == [exists : {TRUE}, folder : Folders \cup {NoFolder}, archived : BOOLEAN]

Idle == [op |-> "idle"]
\* The reads of update and remove.
UpdateCall == [op : {"update"}, person : Persons, was : PersonRow, name : Names]
RemoveCall == [op : {"remove"}, person : Persons, root : Folders \cup {NoFolder},
               open : SUBSET {"files", "subfolders"}]
\* A call that writes in a folder walks up to its root, at, and reads the grants.
WriteCall == [op : {"upload", "archive"}, user : Users \cup Admins, folder : Folders, file : Files,
              at : Folders, stage : {"walk", "grants", "allowed"},
              excused : BOOLEAN] \* its user could write, or a folder was deleted meanwhile

TypeOK ==
  /\ person \in [Persons -> PersonRow \cup {NoRow, Gone}]
  /\ folder \in [Folders -> FolderRow \cup {NoRow, Gone}]
  /\ grants \in [Folders -> SUBSET Grant]
  /\ file \in [Files -> FileRow \cup {NoRow, Gone}]
  /\ calls \in [Calls -> UpdateCall \cup RemoveCall \cup WriteCall \cup {Idle}]
  /\ mixed \subseteq Persons

Init ==
  /\ person = [p \in Persons |-> NoRow]
  /\ folder = [f \in Folders |-> NoRow]
  /\ grants = [f \in Folders |-> {}]
  /\ file = [x \in Files |-> NoRow]
  /\ calls = [c \in Calls |-> Idle]
  /\ mixed = {}

Live(t) == {i \in DOMAIN t : t[i].exists}
Below(f) == {g \in Live(folder) : folder[g].parent = f}
In(f) == {x \in Live(file) : file[x].folder = f}

-----------------------------------------------------------------------------
(* Levels. *)

\* A folder that is not there has none.
getRootFolderId[f \in Folders] ==
  IF ~folder[f].exists THEN NoFolder
  ELSE IF folder[f].parent = NoFolder THEN f
  ELSE getRootFolderId[folder[f].parent]

\* Mutant of LevelAt: the permissions of others count.
LevelAtOfAny(u, r) ==
  IF u \in Admins THEN "write"
  ELSE IF grants[r] = {} THEN "read"
  ELSE IF \A g \in grants[r] : g.to # u THEN "none"
  ELSE IF \E g \in grants[r] : g.type = "write" THEN "write" ELSE "read"

\* A root without permissions can be read by all.
LevelAt(u, r) ==
  LET mine == {g \in grants[r] : g.to = u}
  IN  IF u \in Admins THEN "write"
      ELSE IF grants[r] = {} THEN "read"
      ELSE IF mine = {} THEN "none"
      ELSE IF \E g \in mine : g.type = "write" THEN "write" ELSE "read"

getUserFolderPermissionLevel(u, f) == LevelAt(u, getRootFolderId[f])

-----------------------------------------------------------------------------
(* What the handlers that read show of folders and of the documents in them. *)

\* Listing, super administrators count as administrators; opening, uploading and
\* archiving, only their membership counts.
isCompanyAdmin(u) == u \in Admins \cup SuperAdmins

canUserAccessFolder(u, f, admin) ==
  f \in Live(folder) /\ (admin \/ getUserFolderPermissionLevel(u, f) # "none")

getFolder(u, f) == canUserAccessFolder(u, f, isCompanyAdmin(u))

\* Mutant of listFolders: the roots are not filtered.
listAllRoots(u, p) ==
  IF p = NoFolder THEN Below(NoFolder)
  ELSE IF canUserAccessFolder(u, p, isCompanyAdmin(u)) THEN Below(p) ELSE {}

\* The roots one by one; below a folder its level is that of all.
listFolders(u, p) ==
  IF p = NoFolder THEN {f \in Below(NoFolder) : canUserAccessFolder(u, f, isCompanyAdmin(u))}
  ELSE IF canUserAccessFolder(u, p, isCompanyAdmin(u)) THEN Below(p) ELSE {}

\* Only administrators may ask for archived documents.
Shown(u, x, includeArchived) == ~file[x].archived \/ (includeArchived /\ isCompanyAdmin(u))

\* The documents of a folder, for those who may enter it; of the root none; of the
\* company all, whatever their folders: only those asked for by ids, unless there are
\* none, are looked at one by one.
listFiles(u, f, ids, includeArchived) ==
  {x \in Live(file) :
     /\ f # Anywhere => file[x].folder = f /\ canUserAccessFolder(u, f, isCompanyAdmin(u))
     /\ Shown(u, x, includeArchived)
     /\ ids # {} => x \in ids /\ canUserAccessFolder(u, file[x].folder, isCompanyAdmin(u))}

\* found: the documents with a value that was looked for.
getFileIdsByMetadata(u, found) ==
  {x \in found \cap Live(file) :
     ~file[x].archived /\ canUserAccessFolder(u, file[x].folder, isCompanyAdmin(u))}

getFileHistory(u, x) ==
  ~file[x].archived /\ (isCompanyAdmin(u) \/ canUserAccessFolder(u, file[x].folder, FALSE))

getDocumentUrl(u, x) ==
  /\ ~file[x].archived
  /\ u \in Users \cup Admins /\ canUserAccessFolder(u, file[x].folder, u \in Admins)

-----------------------------------------------------------------------------
\* What the history of the handlers under way says after a folder was deleted, and
\* after the permissions have become gr.
Writing(c) == calls[c].op \in {"upload", "archive"}
Disturbed == [c \in Calls |-> IF Writing(c) THEN [calls[c] EXCEPT !.excused = TRUE] ELSE calls[c]]
Excused(gr) == [c \in Calls |->
  IF Writing(c) /\ ~calls[c].excused
       /\ [to |-> calls[c].user, type |-> "write"] \in gr[getRootFolderId[calls[c].folder]]
  THEN [calls[c] EXCEPT !.excused = TRUE] ELSE calls[c]]

-----------------------------------------------------------------------------
(* Persons. *)

\* One transaction: a folder and the person it is the root of.
CreatePerson(p, f, n) ==
  /\ person[p] = NoRow /\ folder[f] = NoRow
  /\ folder' = [folder EXCEPT ![f] = [exists |-> TRUE, name |-> n, parent |-> NoFolder]]
  /\ person' = [person EXCEPT ![p] = [exists |-> TRUE, name |-> n, root |-> f]]
  /\ UNCHANGED <<grants, file, calls, mixed>>

Busy(p) == \E c \in Calls : calls[c].op = "update" /\ calls[c].person = p

\* update reads the person; the name asked for may be the one there is, when the
\* request is about other fields.
UpdateReads(c, p, n) ==
  /\ calls[c] = Idle /\ person[p].exists
  /\ calls' = [calls EXCEPT ![c] = [op |-> "update", person |-> p, was |-> person[p], name |-> n]]
  /\ mixed' = IF Busy(p) THEN mixed \cup {p} ELSE mixed
  /\ UNCHANGED <<person, folder, grants, file>>

\* The folder gets the name when it is not the one that was read.
Renamed(u) ==
  IF u.was.root \in Live(folder) /\ u.name # u.was.name
  THEN [folder EXCEPT ![u.was.root].name = u.name]
  ELSE folder

UpdateWrites(c) ==
  /\ calls[c].op = "update" /\ person[calls[c].person].exists
  /\ folder' = Renamed(calls[c])
  /\ person' = [person EXCEPT ![calls[c].person].name = calls[c].name]
  /\ calls' = [calls EXCEPT ![c] = Idle]
  /\ UNCHANGED <<grants, file, mixed>>

\* Mutant of UpdateFails: the folder is renamed outside the transaction.
UpdateFailsAfterRename(c) ==
  /\ calls[c].op = "update"
  /\ folder' = Renamed(calls[c])
  /\ calls' = [calls EXCEPT ![c] = Idle]
  /\ UNCHANGED <<person, grants, file, mixed>>

\* The person is gone, or the database: the transaction is rolled back.
UpdateFails(c) ==
  /\ calls[c].op = "update"
  /\ calls' = [calls EXCEPT ![c] = Idle]
  /\ UNCHANGED <<person, folder, grants, file, mixed>>

RemoveReads(c, p) ==
  /\ calls[c] = Idle /\ person[p].exists
  /\ calls' = [calls EXCEPT ![c] = [op |-> "remove", person |-> p, root |-> person[p].root,
       open |-> IF person[p].root = NoFolder THEN {} ELSE {"files", "subfolders"}]]
  /\ UNCHANGED <<person, folder, grants, file, mixed>>

\* Two counts in any order; archived documents do not count.
Empty(k, f) ==
  \/ k = "files" /\ \A x \in In(f) : file[x].archived
  \/ k = "subfolders" /\ Below(f) = {}

RemoveCounts(c) ==
  /\ calls[c].op = "remove"
  /\ \E k \in calls[c].open :
       calls' = [calls EXCEPT ![c] = IF Empty(k, calls[c].root)
                                     THEN [@ EXCEPT !.open = calls[c].open \ {k}] ELSE Idle]
  /\ UNCHANGED <<person, folder, grants, file, mixed>>

\* Mutant of Deletable: the permissions of a folder are deleted with it.
DeletableWithGrants(f) == In(f) = {}

\* The foreign keys: a folder with documents, archived ones too, or with
\* permissions is not deleted.
Deletable(f) == In(f) = {} /\ grants[f] = {}

\* Its subfolders become roots.
Without(f) == [g \in Folders |->
  IF g = f THEN Gone
  ELSE IF g \in Below(f) THEN [folder[g] EXCEPT !.parent = NoFolder] ELSE folder[g]]

\* The person and the folder in one transaction; a folder deleted meanwhile is
\* no failure.
RemoveWrites(c) ==
  LET f == calls[c].root IN
  /\ calls[c].op = "remove" /\ calls[c].open = {}
  /\ person[calls[c].person].exists
  /\ f \in Live(folder) => Deletable(f)
  /\ person' = [person EXCEPT ![calls[c].person] = Gone]
  /\ folder' = Without(f)
  /\ calls' = [Disturbed EXCEPT ![c] = Idle]
  /\ mixed' = mixed \ {calls[c].person}
  /\ UNCHANGED <<grants, file>>

RemoveFails(c) ==
  /\ calls[c].op = "remove"
  /\ calls' = [calls EXCEPT ![c] = Idle]
  /\ UNCHANGED <<person, folder, grants, file, mixed>>

-----------------------------------------------------------------------------
(* Folders and permissions. *)

\* The parent is not checked beyond its foreign key.
CreateFolder(f, p) ==
  /\ folder[f] = NoRow /\ p \in Live(folder) \cup {NoFolder}
  /\ folder' = [folder EXCEPT ![f] = [exists |-> TRUE, name |-> OtherName, parent |-> p]]
  /\ UNCHANGED <<person, grants, file, calls, mixed>>

UpdateFolder(f) ==
  /\ f \in Live(folder)
  /\ folder' = [folder EXCEPT ![f].name = OtherName]
  /\ mixed' = mixed \cup {p \in Live(person) : person[p].root = f}
  /\ UNCHANGED <<person, grants, file, calls>>

\* Whether anything is in the folder is not asked; its person loses it.
DeleteFolder(f) ==
  /\ f \in Live(folder) /\ Deletable(f)
  /\ folder' = Without(f)
  /\ person' = [p \in Persons |-> IF p \in Live(person) /\ person[p].root = f
                                  THEN [person[p] EXCEPT !.root = NoFolder] ELSE person[p]]
  /\ calls' = Disturbed
  /\ UNCHANGED <<grants, file, mixed>>

\* A folder never gets another parent, so that nothing can come between the check
\* and the write.
AddFolderPermission(f, g) ==
  /\ f \in Live(folder) /\ folder[f].parent = NoFolder
  /\ grants' = [grants EXCEPT ![f] = @ \cup {g}]
  /\ calls' = Excused(grants')
  /\ UNCHANGED <<person, folder, file, mixed>>

DeleteFolderPermission(f, g) ==
  /\ g \in grants[f]
  /\ grants' = [grants EXCEPT ![f] = @ \ {g}]
  /\ UNCHANGED <<person, folder, file, calls, mixed>>

\* A user or a group is deleted: the permission stays, for nobody here.
GranteeGone(u) ==
  /\ \E f \in Folders : \E g \in grants[f] : g.to = u
  /\ grants' = [f \in Folders |->
       {IF g.to = u THEN ToOthers ELSE g : g \in grants[f]}]
  /\ UNCHANGED <<person, folder, file, calls, mixed>>

-----------------------------------------------------------------------------
(* Documents in folders. *)

WriteReads(c, op, u, x, f) ==
  /\ calls[c] = Idle /\ f \in Live(folder)
  /\ calls' = [calls EXCEPT ![c] = [op |-> op, user |-> u, folder |-> f, file |-> x, at |-> f,
       stage |-> "walk", excused |-> getUserFolderPermissionLevel(u, f) = "write"]]
  /\ UNCHANGED <<person, folder, grants, file, mixed>>

UploadReads(c, u, x, f) == file[x] = NoRow /\ WriteReads(c, "upload", u, x, f)

ArchiveReads(c, u, x) ==
  /\ file[x].exists /\ ~file[x].archived
  /\ WriteReads(c, "archive", u, x, file[x].folder)

\* One row of getRootFolderId at a time; a folder that is gone has no root.
Walk(c) ==
  /\ Writing(c) /\ calls[c].stage = "walk"
  /\ LET r == folder[calls[c].at] IN
     calls' = [calls EXCEPT ![c] =
       IF ~r.exists THEN Idle
       ELSE IF r.parent = NoFolder THEN [@ EXCEPT !.stage = "grants"]
       ELSE [@ EXCEPT !.at = r.parent]]
  /\ UNCHANGED <<person, folder, grants, file, mixed>>

ReadGrants(c) ==
  /\ Writing(c) /\ calls[c].stage = "grants"
  /\ calls' = [calls EXCEPT ![c] = IF LevelAt(calls[c].user, calls[c].at) = "write"
                                   THEN [@ EXCEPT !.stage = "allowed"] ELSE Idle]
  /\ UNCHANGED <<person, folder, grants, file, mixed>>

\* The stored object stays when the folder is gone by now.
UploadWrites(c) ==
  /\ calls[c].op = "upload" /\ calls[c].stage = "allowed"
  /\ calls[c].folder \in Live(folder) /\ file[calls[c].file] = NoRow
  /\ file' = [file EXCEPT ![calls[c].file] =
       [exists |-> TRUE, folder |-> calls[c].folder, archived |-> FALSE]]
  /\ calls' = [calls EXCEPT ![c] = Idle]
  /\ UNCHANGED <<person, folder, grants, mixed>>

ArchiveWrites(c) ==
  /\ calls[c].op = "archive" /\ calls[c].stage = "allowed"
  /\ file' = IF file[calls[c].file].exists
             THEN [file EXCEPT ![calls[c].file].archived = TRUE] ELSE file
  /\ calls' = [calls EXCEPT ![c] = Idle]
  /\ UNCHANGED <<person, folder, grants, mixed>>

WriteFails(c) ==
  /\ Writing(c)
  /\ calls' = [calls EXCEPT ![c] = Idle]
  /\ UNCHANGED <<person, folder, grants, file, mixed>>

\* createFile asks for no level, and for no folder of the company.
CreateFile(x, f) ==
  /\ file[x] = NoRow /\ f \in Live(folder)
  /\ file' = [file EXCEPT ![x] = [exists |-> TRUE, folder |-> f, archived |-> FALSE]]
  /\ UNCHANGED <<person, folder, grants, calls, mixed>>

\* The purge of the archive.
Purge(x) ==
  /\ file[x].exists /\ file[x].archived
  /\ file' = [file EXCEPT ![x] = Gone]
  /\ UNCHANGED <<person, folder, grants, calls, mixed>>

-----------------------------------------------------------------------------
Next ==
  \/ \E p \in Persons, f \in Folders, n \in Names : CreatePerson(p, f, n)
  \/ \E c \in Calls, p \in Persons, n \in Names : UpdateReads(c, p, n)
  \/ \E c \in Calls, p \in Persons : RemoveReads(c, p)
  \/ \E c \in Calls : \/ UpdateWrites(c) \/ UpdateFails(c)
                      \/ RemoveCounts(c) \/ RemoveWrites(c) \/ RemoveFails(c)
                      \/ Walk(c) \/ ReadGrants(c)
                      \/ UploadWrites(c) \/ ArchiveWrites(c) \/ WriteFails(c)
  \/ \E f \in Folders, p \in Folders \cup {NoFolder} : CreateFolder(f, p)
  \/ \E f \in Folders : UpdateFolder(f) \/ DeleteFolder(f)
  \/ \E f \in Folders, g \in Grant : AddFolderPermission(f, g) \/ DeleteFolderPermission(f, g)
  \/ \E u \in Users : GranteeGone(u)
  \/ \E c \in Calls, u \in Users \cup Admins, x \in Files :
       ArchiveReads(c, u, x) \/ \E f \in Folders : UploadReads(c, u, x, f)
  \/ \E x \in Files, f \in Folders : CreateFile(x, f)
  \/ \E x \in Files : Purge(x)

Spec == Init /\ [][Next]_vars

-----------------------------------------------------------------------------
(* Properties. *)

\* Deleting a person changes no access to what remains: whatever is created in
\* the folder after it was found to be empty, no document loses its folder, and
\* no user gets or loses a level on a folder or on a document in one.
RemovalKeepsLevels ==
  [][\A c \in Calls : RemoveWrites(c) =>
       /\ \A x \in Live(file) : file[x].folder \in Folders =>
            file'[x] = file[x] /\ folder'[file[x].folder].exists
       /\ \A u \in Users \cup Admins, f \in Live(folder) : folder'[f].exists =>
            getUserFolderPermissionLevel(u, f)' = getUserFolderPermissionLevel(u, f)]_vars

\* The folder of a person has the person's name, whatever fails in between, as
\* long as changes of the person do not overlap and nobody renames the folder
\* itself.
FolderNamedAfterPerson ==
  \A p \in Live(person) \ mixed :
    person[p].root # NoFolder => folder[person[p].root].name = person[p].name

\* Whoever may list a document, by its folder, by its id or by a value, may read its
\* history, and may open it, but for super administrators, who open no more than their
\* membership allows; what can be opened is listed, and the folders one may enter are
\* found on a way down from the roots, whatever has been deleted above: six handlers
\* decide it each on its own.  The list of all documents of the company is none of
\* them: nothing is checked for it.
ListedCanBeOpened == \A u \in Users \cup Admins \cup SuperAdmins :
  /\ \A p \in Live(folder) \cup {NoFolder} : \A f \in listFolders(u, p) : getFolder(u, f)
  /\ \A f \in Live(folder) : getFolder(u, f) =>
       /\ f \in listFolders(u, folder[f].parent)
       /\ folder[f].parent # NoFolder => getFolder(u, folder[f].parent)
  /\ \A x \in Live(file) : LET listed == x \in listFiles(u, file[x].folder, {}, FALSE) IN
       /\ listed <=> x \in listFiles(u, Anywhere, {x}, FALSE)
       /\ listed <=> x \in getFileIdsByMetadata(u, {x})
       /\ listed <=> getFileHistory(u, x)
       /\ getDocumentUrl(u, x) => listed
       /\ listed /\ (u \in SuperAdmins => u \in Admins) => getDocumentUrl(u, x)

\* A handler that goes on to write in a folder has met a time since it began at
\* which its user had the level for it, unless a folder was deleted while it read
\* its way up to the root.
WritesWereAllowed == \A c \in Calls :
  Writing(c) /\ calls[c].stage = "allowed" => calls[c].excused
=============================================================================
