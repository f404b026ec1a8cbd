# Lexora: a verification development

Lexora is a document management for law firms: documents are uploaded to
object storage, recognised by an OCR provider, described by metadata that a
language model extracts, split, shared by rules, archived and purged. The
backend (`src/backend`, Express with Prisma on PostgreSQL, MinIO for the
objects) has no locks and few transactions; its handlers are sequences of
queries, and Node.js interleaves them at every `await`. The client
(`src/frontend`, React) asks for everything with requests that are seldom
cancelled, and keeps what they answer in state that outlives the question.
Most of what can go wrong goes wrong between two of these steps, and this
development is about that: TLA+ modules of the handlers and pages, TLC runs on
small instances, and TLAPS proofs for instances of any size.

Line numbers are in `PROJECT.json`, under `map`, definition by definition.

## The parts of the system

| part | state it keeps | operations | how it meets the others | module |
| --- | --- | --- | --- | --- |
| OCR and extraction (`ocr.service`, `metadata-from-ocr-extraction.service`, `ocr.controller`) | status columns of a document, its text, its pending keys | an upload queues OCR, anyone may trigger it again, it chains the extraction, which can be asked for by itself | called without `await`, polled by the client | `OcrPipeline`, `DocumentProgress` |
| Documents (`documents.controller`, `files.controller`, `archivePurge.service`, `storage.service`) | a row in PostgreSQL, an object in the bucket | upload, split, archive, bulk deletion, purge by a timer; a row alone, an object alone | writes values; the purge removes rows under running OCR | `DocumentStore` |
| Metadata keys and values (`companies.controller`, `files-metadata-validation`) | keys with a kind and a list, rows of values | create, change, delete keys; replace, bulk update, extract, insert values | read by the permissions and the tree | `MetadataValues` |
| Permissions (`documentAccess`, `systemMetadataFields`) | rules, assignments, groups | create, change, delete; list; open | read by almost every handler | `DocumentAccess` |
| Persons and folders (`persons.controller`, `folderAccess`, `companies.controller`, `files.controller`) | a person with a root folder, folders, folder permissions | create, rename, delete; walk to the root; upload, list, open, archive in a folder | documents lie in folders | `PersonsFolders` |
| Members (`roles.controller`, `users.controller`, `companies.controller`) | `user_company`, roles, invitations, groups, accounts | change a role, remove, invite, accept, create, add | decide who an administrator is | `Membership` |
| Authentication and permissions (`auth` middleware, `rbac`) | none | who a request comes from and what it may do | in front of every route | `RequestGate` |
| Session of the client (`AuthContext`, `ProtectedRoute`) | user, companies, permissions, branding, token | sign in and out, select a company, accept an invitation | asks the gate | `Session` |
| Import jobs of the client (`DocumentImportJobsContext`, `ocrPoll`) | a job, its bar, its polls | upload, poll, report, dismiss | sees the status columns | `ImportJob` |
| Split of a PDF (`SplitPdfPage`, `processHistory`, `pdf-split.service`) | segments under review, a saved review, a record | propose, edit, apply, resume, split without review | asks OCR, Gemini and the document handlers | `SplitReview` |
| Documents page (`MetadataDocumentView`, the tree and the list of `documents.controller`) | tree, filters, search, list | navigate, filter, search, refresh | groups by values and persons, searches in texts | `DocumentTree` |
| The same page, beside its list | timers, preview, selection, dialog | open, recognise, extract, delete | polls OCR, reads text and history | `DocumentPane` |
| Companies and logos (`companies.controller`, `Settings`, `Companies`) | row of a company, its logo in the bucket | upload, remove, set an address, create, edit | row and bucket again | `CompanySettings` |
| Retries of Gemini and Mistral (`pdf-split.service`, `mistral.provider`) | attempts of one call | repeat, give up | inside OCR and split | `SplitReview` |
| Document types, tree configuration, file history, start-up, schema | rows | written by one statement each | | in the modules that read them |
| Notifications, e-mail, widgets, texts | rows nothing decides on | | | not modelled |

What is hard, and what makes each part right:

- **OCR and extraction.** Calls overlap on one document, decide from values
  read minutes before, are broken off by a removal, a failed query, a restart.
  Right: what the status says is true, it settles, and finished work is undone
  by nothing but an overlap.
- **Documents.** Two stores, no transaction over both. Right: what is listed
  can be opened, nothing is stored for nobody, nothing is removed before its
  content is elsewhere or its retention over, what was archived is purged.
- **Metadata.** Checks and writes are apart. Right: values of a list key are in
  the list, a replacement replaces.
- **Permissions.** Two readers of the same rules, several queries each. Right:
  they agree, a torn read errs on the safe side, taking away never gives.
- **Persons and folders.** Removal counts, then deletes; the way to the root is
  one query per folder. Right: nobody gains access by a removal, what a handler
  writes was allowed, what is listed can be opened.
- **Members.** Look, then write, no unique constraints. Right: an administrator
  stays, a role in use stays, a removal is complete.
- **Session, documents page, companies page.** Late answers. Right: what is
  shown belongs to what is selected, what is offered is allowed.
- **Jobs and splits.** Bounded polls, providers that fail, pages that are left.
  Right: what is reported is true, failures stay visible, everything started
  ends, the parts are what was reviewed.

## The modules

Handlers and pages are modules with one action per step that changes something
or is decided upon; what a call has read is kept until it writes, and others
act in between. What happens between two awaits, logging included in the code,
is one step. Definitions have the names of the source where it has one.
Definitions whose comment begins with "Mutant of" are altered copies that show
that a property can fail; no specification uses them. Variables under "history"
are read by properties only.

**`OcrPipeline`**: one document; `row`, `ocr`, `markdown`, `pending`, `extract`
are its columns. `processDocumentOcr` is `Load` (with the snapshot `snap` of
the pending keys), `Reject`, `StartOcr`, `Download`, `ProviderAnswers` and
`ReadAnswer` or `ProviderFails`, `Save`, and `CatchOcr`; the chained extraction is `Chain` to
`FinishExtraction` and `CatchExtraction`. `RemoveRow` is the purge, a split or
a bulk deletion seen from here, `DatabaseError` a failed query, `Restart` ends
all and resumes nothing. `Transfers` are the two awaits that nothing cuts off.
`overlapped` tells whether calls have overlapped.

**`DocumentProgress`**: the abstract specification of the former, for a reader
of the status columns. While calls have not overlapped the statuses only move
forward; afterwards they may move anywhere but back to what an upload writes.
`OcrPipeline` implements it under a refinement mapping (`Progress`, checked as
`ImplementsDocumentProgress`, proved as `ProgressImplemented`); `ImportJob` is
composed with it instead of the pipeline, one instance per file.

**`DocumentStore`**: `rows` and `objects` are the two stores. A handler works
on `ids`, those not done in `left`: uploads and the parts of a split are
`PutObject` and `CreateRow` in turn, the removal of the source is
`DeleteSourceObject`, `DeleteSourceValues`, `DeleteSourceRow`, whose failure by
the foreign key of a late value (`AddValue`) is part of it. The purge is
`StartPurge` or `BulkDelete`, `Resolve`, `PurgeObject`, `PurgeRows`; a worker
is one iteration of the timer, iterations overlap. `Expire` is time.
`CreateFile` and `UploadDocument` write a row or an object only, at a path that
the request names: `path` is the one a row has, `given` are the paths that came
from clients and the documents made of them.

**`MetadataValues`**: `kind` and `allowed` are the keys, `rows` the values with
ids, so that duplicates are visible. `Replace`, `MakeKey`, `Wipe`, `Fill` are
`updateFileMetadata`; `BulkUpdate`, `Extract`, `Find`, `WriteValue` the
upserts; `Insert`, `NewRow` an upload; `UpdateKey`, `CheckUsage`, `SetKey` the
change of a key. `keysMixed` remembers keys changed while somebody was at work,
`docsMixed` documents that two calls wrote to at once.

**`DocumentAccess`**: the facts of a document are its values and system fields.
`OpenLevel` and `ListLevel` are what `canUserAccessFileByMetadata` and
`getAccessibleFileIdsWithLevels` answer when nothing else happens; the calls
`Open` and `List` compute it query by query with changes in between. `best`
(the highest level held since the call began) and `moved` are history.

**`PersonsFolders`**: tables of persons, folders, permissions, files. `calls`
holds what a handler has read: `UpdateReads`/`UpdateWrites` rename a person
with its root, `RemoveReads`, `RemoveCounts`, `RemoveWrites` delete it, `Walk`
is one query on the way to the root, `ReadGrants` the decision there,
`UploadWrites` and `ArchiveWrites` what was decided. Foreign keys act when a
call writes (`UpdateFails`, `RemoveFails`, `WriteFails`). `listFolders`,
`getFolder`, `listFiles`, `getFileIdsByMetadata`, `getFileHistory` and
`getDocumentUrl` are the six handlers that decide who sees a document. A super
administrator counts as an administrator in all but the last one (`SuperAdmins`,
who may be members of any role or none), and `listFiles` without a folder and
ids (`Anywhere`) gives everything.

**`Membership`**: `rows` is `user_company` with ids, because nothing keeps a
user from having two; `MixedCase` are users with capital letters in their
address, which look-ups miss. `AssignRole` to `SetRole` are `assignUserRole`,
`DeleteRole`, `DropRole` are `deleteRole`, `RemoveFromGroups`, `RemoveRows`,
`RemoveInvitations` are `removeUserFromCompany`. A `Fault` breaks a call off.
Calls overlap as they like. What a call relies on is kept as history
(`Remember`): `counted` are the other administrators it has counted, `since` the
rows changed since it looked, `joined` the users who have joined a group since.

**`RequestGate`**: `authMiddleware`, `requirePermission` and
`ensureCompanyAccess` as operators over rows; **`Session`** uses them for the
server of a browser tab whose requests (`me`, `asked`, `brands`) are answered
in any order. The histories `fresh`, `orderly` and `alone` tell whether rows
have changed, answers were overtaken, or another tab has touched the token.

**`ImportJob`**: `runJob` with its upload, one poll per file (`PollAnswered`,
`PollBreaks`), the bar of the job and its dismissal.

**`SplitReview`**: the page that proposes, edits, keeps and applies segments (`task`, `call`, `segments`, `saved`,
`record`) and the server that validates them and creates the parts one by one
(`stage`, `asked`, `made`), with calls of providers that fail and are repeated.
`source` is the PDF as the server has it: live, archived, without its object,
taken by its own split, or gone by an action of someone else
(`removeElsewhere`).

**`DocumentTree`**: `db` is what a request reads; `getVirtualTree` and
`FlatFiles` are the two answers, `Navigate` and `FilterByRows` what the user does with
them. With words to search for (`SetSearch`) the list is any part of what the
filters give (`Found`): what the words are, and the rank that decides which
hundred are given, are left out.

**`DocumentPane`**: an event of the page with the effects React
runs after it is one action; `ticking` are the intervals that exist,
`ocrPolling` those that are registered; `url`, `text` and `history` are what the
preview has, of which document, and what has been asked for. `stray` tells
whether the preview was opened while the address of another document was there
or under way.

**`CompanySettings`**: a request on a logo has the queries it has still to do
in `left` (`Read`, `DeleteObject`, `PutObject`, `WriteRow`); `createCompany`
goes through its stages with `Seed`; `selected`, `detail`, `form`, `loads`, `saving` are the
super administrator's page.

## The runs

| run | module | shows | bounds |
| --- | --- | --- | --- |
| `ocr` | `MCOcrPipeline` | keys are kept while needed; in progress means a call at work; OCR and extraction settle unless a transfer never ends; `DocumentProgress` is implemented | 3 calls, 1 fault, fair |
| `store` | `MCDocumentStore` | listed documents have objects and there are no orphans, but at paths of clients; reports are true; content moves before it is removed; archived documents are purged | 2 documents, 2 requests, 1 purge worker, batches of 1, 1 fault, fair |
| `meta` | `MCMetadataValues` | values are in their lists; replacements are exact | 2 keys of one name, 2 documents, 2 values, 4 rows, 3 calls, 1 fault |
| `access` | `MCDocumentAccess` | torn answers err on the safe side; open implies listed; revocation narrows; the offer to upload is right | every configuration of 1 user, 1 group, 1 document, 2 rules, 2 facts; 1 call, 1 change |
| `members` | `MCMembership` | what takes the last administrator or a role in use, and what a removal leaves | 2 users, 1 role, 1 invitation, 4 rows, 3 calls, 1 fault |
| `persons` | `MCPersonsFolders` | removal keeps levels; a folder is named after its person; writes were allowed; what is listed opens | 1 user, 1 administrator, 1 super administrator, 1 person, 2 folders, 1 file, 2 names, 2 calls |
| `session` | `MCSession` | what is offered is allowed; who is shown is signed in | 2 users, 2 companies, 1 key, 1 change, 2 questions under way |
| `import` | `MCImportJob` | success is true; failure stays visible; jobs end | 1 job, 2 files, 2 polls each, fair |
| `split` | `MCSplitReview` | parts are what was reviewed; the source goes last; the page sends what is acceptable; an offered review has its document unless others took it; a proposal ends | 3 pages, 5 proposals, 1 type, 3 polls, fair |
| `tree` | `MCDocumentTree` | a node shows its documents; no document is missing; rows are what is filtered | 2 documents, 2 persons, 2 names, 3 values, 1 system key, 1 metadata key, 1 change or search, 1 request under way |
| `company` | `MCCompanySettings` | row and bucket agree on a logo; details are a company's own | 2 companies, 2 kinds of images, 1 address, 2 calls, 5 operations, 1 fault |
| `pane` | `MCDocumentPane` | what is opened shows its own; timers are registered | 2 documents, 1 key, 2 calls, 2 timers per document, 2 lists, 1 poll under way, 4 operations, 1 fault |

The bounds are the smallest at which the interesting cases happen. An overlap
needs two calls, one to come after both a third; a split needs a source and a
part, or a page between two others; one fault reaches every error path, and a
second one only ends another call. In `access` one call is enough because calls
do not write and the initial states are all configurations. In `members` three
calls remove a user, invite and accept, or give and delete a role and take an
administrator's; one of two administrators may be removed or degraded while the
other one is. In
`persons` two folders are a root and one below it. In `split` the proposals
are out of order, nested, overlapping, and out of range. In `tree` the names
coincide or not, and the first databases have blank values and hidden ones; to
begin a search counts as a change, so that a search of rows that have changed is
covered by the proofs only. In
`pane` two timers of one document are what escapes if one does. Interchangeable
ids are symmetric in runs without liveness; no liveness run uses symmetry.
Deadlock is not checked: when all requests are served or a bound is used up,
nothing is left to do.

Fairness, where a run has it:

- `ocr`: weak for the steps of each call but its transfers. A call that has
  begun goes on: Node.js runs its continuation, a query ends or fails, and
  timeouts cut off Gemini and the request to Mistral. Nothing is assumed of the
  transfer of an object from the bucket, nor of the body of an answer, which is
  read after the timeout was cleared (`mistral.provider.ts:45`): `OcrSettles`
  and `ExtractionSettles` say that a call for ever in one of them is the only
  reason not to settle. Nobody must upload, ask or remove.
- `store`: weak for the steps of jobs that have begun, unless they wait for OCR,
  for the start of an iteration (`setInterval`) and for `Expire`. A deletion in
  the bucket ends or fails.
- `import`: uploads and polls are answered or break, pauses end, promises
  resolve. `JobsEnd` needs nothing of the server: the attempts are bounded.
- `split`: requests of the page are answered, calls of Gemini end by their
  timeout. Nothing is assumed of a call of Mistral, whose timeout is cleared
  before its body is read; the attempts of the poll bound the wait.

Some properties speak of a part of the behaviours only, and what that leaves
open is part of what they say:

- `ListRespected` is about keys that were changed while nobody was at work
  (`keysMixed`): a value written between the check of a new list and its update
  is outside of the list.
- `ReplacementIsExact` is about documents that one call writes to at a time
  (`docsMixed`): two replacements mix, two upserts duplicate.
- `LiveHasObject`, `NoOrphans` and `ContentMovedFirst` are about all but the
  paths that clients have given and the documents made of them (`given`):
  `createFile` and `uploadDocument` write to one store, and at any path.
- The properties of `members` say exactly what overlapping requests may do: take
  the last administrator when all others that were counted have been changed
  since, or when the row was not an administrator's when it was loaded; delete a
  role from under those who got it since its members were counted; leave a row
  or a group that came after the query that took them. A removal by itself does
  not ask whether it takes the last administrator.
- `FolderNamedAfterPerson` is about persons changed by one call at a time, and
  not renamed by their folder (`mixed`).
- `OfferedIsAllowed` and `ShownIsSignedIn` are about answers that came in order
  (`orderly`, `fresh`, `alone`): no request of the context is cancelled.
- `NodeShowsItsDocuments` and `TreeHoldsEveryDocument` compare a tree and a
  list read of the same rows; the equalities are for names that are of one
  person and for a list without words to search for.
- `ListedCanBeOpened` is not about the list without folder and ids, for which
  nothing is checked, and lets super administrators who are no administrators of
  the company open less than they list.
- `ResumableIsLive` excepts a PDF that another page has archived or taken, and a
  split whose answer was lost.
- `OpenedShowsItsOwn` says of the address of a document that it is its own unless
  the preview was opened while that of another one was there or under way
  (`stray`).
- `RevocationNarrows` excepts the last rule, without which everybody reads.
- `LogoIsServable` is about companies whose requests on the logo have not
  overlapped or failed (`overlapped`, `faults`): an upload deletes the old object first.
- `OfferIsExact` excludes companies without documents, of which the list is
  answered before the rules are read.
- `WritesWereAllowed` excuses a folder deleted while the way to its root was
  read.
- Progress in `ocr` excepts a restart, a failed query and a blank text, after
  which the code promises nothing.

## The proofs

TLAPS checks the theorems below for all values of the constants, under the
named assumptions of the modules (bounds are natural numbers, the value that
stands for nothing is none of the others, what is counted is finite) and
nothing else. Every invariant and every action property of the runs is proved,
and the types of every module that a run checks.

There are eight modules of proofs. Those that speak of two components extend
both, which is why `Session`, `Membership`, `SplitReview` and `DocumentTree`
have names of their own for what is `Init`, `Next`, `Spec`, `TypeOK` and
`vars` elsewhere (`SplitInit`, `SplitNext`, and so on). With the fairness of its
run the specification of `SplitReview` is `FairSplitSpec`; the theorems are about
`SplitSpec`, which has fewer demands and hence more behaviours.

**`ProcessingProofs`**, on what the server and the page make of a PDF.

- `OcrPipeline`: `TypeCorrect`, `KeysKept`, `OcrInProgress`, `Extracting`,
  `CompletedText`, `ProgressImplemented`. The status properties are not
  inductive by themselves: the invariant says at which await a call may be for
  each status (a call between `Save` and the chained extraction holds a text,
  one about to settle the extraction is of the kind that may). The refinement
  adds `SerialInv`: while calls have not overlapped, at most one is at work, and
  it is at an await that fits the status the row shows.
- `SplitReview`: `SplitTypeCorrect`, `SentIsAccepted`, `FiledAsReviewed`,
  `NoPageIsLost`, `ResumableHasDocument`, for any number of pages and any
  proposal. `NormalizedIsTidy` says that what `normalizeNonOverlappingSegments`
  makes of any segments is in order and apart; `ApartIsDisjoint` and `CutSoFar`
  carry this to the files that exist at each moment of `splitPdfApply`, the
  `asked` of which never changes while files are made of it. `Resumable` says at
  which stage of the page a saved review and its record still have a document.

**`DocumentStoreProofs`**: `TypeCorrect`, `LiveDocumentsOpen`,
`NothingOrphaned`, `ReportsTrue`, `ContentMoved`, `RetentionHolds`. The
invariant ties each handler's `ids`, `left` and `src` to the rows: what a
creation has left has no row and belongs to no other handler, what a split
removes has all of its parts, what a purge resolved is archived or gone unless
a split took it.

**`MetadataValuesProofs`**: `TypeCorrect`; `ListsRespected`, from an invariant
that what a writer has checked is still accepted when it writes unless the key
is mixed; `NoDuplicates`, from one that a writer who found no row is right
until it writes unless the document is mixed; `ReplacementsAreExact`, from
`Filling`: between its queries a replacement finds in the document the rows it
has created so far, once each, and no others.

**`DocumentAccessProofs`**: `TypeCorrect`, `OpenListed`, `RevocationsNarrow`,
the latter two from `LevelGrows`, the monotonicity of a level in the rules and
in the facts. `TornIsSafe` and `OfferExact` need to know what a call that has
read half of its rows is heading for: `WouldAnswer` is what it will answer if
nothing else changes. Its own steps do not change that (`HeadsOn`), and the
first change that it sees, of whatever kind and between whatever queries,
leaves it no higher than before, or no higher than what is right after the
change (`HeadsWell`), either of which the user has had.

**`PeopleProofs`**, on who people are and where their documents lie.

- `PersonsFolders`: `PersonsTypeCorrect`, `FolderNamed`, `ListedOpens`,
  `WritesAllowed`, `RemovalKeeps`. The invariant: the folders are a forest
  whose parents exist and every folder has a root above it (`Forest`,
  `Rooted`), what refers to a folder refers to one that exists, and only roots
  have permissions (`Referenced`), each person has a root of its own
  (`RootsOwned`), a handler that renames knows the name unless changes of the
  person overlapped (`NamesKnown`), and a handler on its way up has the root
  above it that it had when it began (`WaysKept`). The recursive function
  `getRootFolderId` is related to this without an induction: what is above a
  folder is what every set has that holds the folder and the parents of its
  members, so that a root above it is found if no set without one is closed.
- `Membership`: `MembersTypeCorrect`, `AdminKept`, `RoleUnused`,
  `RemovedForGood`, for requests that overlap in any way. `Looked` says what each
  await may rely on: the administrators it counted are still there unless they
  were changed since, a role to delete has no members but those that got it
  since, a user to uninvite has no groups and rows but those that came since.

**`ClientProofs`**, on what a tab remembers.

- `ImportJob`: `TypeCorrect`, `FailuresAreVisible`, `DoneMeansDone`.
  `ReportStaysTrue` says that what a poll has found stays true of the document,
  by the steps that `DocumentProgress` allows; with the refinement it is true of
  the pipeline.
- `Session`: `SessionTypeCorrect`, `SignedInIsShown`, `OfferAllowed`. While
  sign-ins have not overlapped, at most one `/api/me` is out, of the token
  stored (`Signed`); the roles are those of the rows it read (`RolesRead`); and
  of permissions and branding either the newest question is about the selected
  company and still out, or none is and what is held is its answer
  (`PermissionsCurrent`, `BrandingCurrent`).

**`DocumentsPageProofs`**, on the page of documents.

- `DocumentPane`: `TypeCorrect`, `OpenedIsOwn`, `TimersDoNotEscape`. The
  invariant adds to the properties that the one history request that counts is
  for the document opened, that while a preview that is not `stray` is open no
  address of another document is under way (`UrlOwn`), and, of a page that has been left, that whatever its
  loops still ask for is in `waiting`, and that no list and no call is awaited.
- `DocumentTree`: `TreeTypeCorrect`, `NodesShowTheirs`, `TreeHoldsAll`,
  `RowsActive`, for any database, any order of the keys and any rules.
  `NodeAt` says what a node of a level is: its documents are those that show
  what each filter of its path says, and its path has one filter at most for
  each key above it, which no order with a key twice would give; `LevelAt`, that
  a level holds everything. `FilterAgrees` compares the two readings of one
  filter, that of the tree by names and allowed values and that of the list by
  ids and all values, and `NodesAgree` adds them up. The invariant keeps with
  an answer that it is what the rows still give until they change.

**`CompanySettingsProofs`**: `TypeCorrect`, `DetailsStayOwn`,
`LogosAreServable`. The invariant `Logos` is per company: `Consistent(r, b, p)`
says what a lone request knows of bucket and path before each query it has
left, and a company without requests has exactly the object its path names.
`AddressesPassBy` shows that requests on other companies change nothing of it.

Two facts hold the proofs about sequences and levels together. `Least`, that a
nonempty set of natural numbers has a least element, comes from the theorems on
well-founded relations; whatever is to hold for all lengths is shown by taking
the least for which it fails. With it `FoldExists`, `SelectionExists` and
`LevelsExist` show that the functions exist that folds and levels of a tree are
defined by, and the lemmas after each what they contain. `Least` and `Greatest`
are stated and proved in both modules that use them.

Only model-checked: the liveness properties (`OcrSettles`, `ExtractionSettles`,
`ArchivedIsPurged`, `JobsEnd`, `ProposalEnds`), since liveness under fairness
is out of the prover's reach. `RetentionKept` and `UpsertsDoNotDuplicate` are
proved and in no run.

## What the models showed

Behaviours of the code that the models have, met while they were written, and
that a reader of its comments and tests would not expect.

Server:

- The timeout of a request to Mistral is cleared before the body of its answer is
  read (`mistral.provider.ts:45`), and the object is downloaded without any: a
  document can stay in recognition although nothing failed.
- `createFile` (`companies.controller.ts:1640`) makes a document of a path that
  nobody has stored anything at, or that is another document's, whose removal
  then takes the object of both; `uploadDocument` (`files.controller.ts:212`)
  stores over what is there, and no row leads to what it stores.
- Two requests that each take the role from the other administrator leave none
  (`roles.controller.ts:347`), and so does a removal of the last one, which does
  not look (`companies.controller.ts:1027`).
- `listFiles` without folder and ids answers with all documents
  (`companies.controller.ts:1574`), and a super administrator lists what
  `getDocumentUrl` refuses (`files.controller.ts:120`).
- A split warns that the original could not be removed although its object is
  gone already (`documents.controller.ts:2065`).
- An OCR that yields a blank text leaves its extraction pending for ever
  (`metadata-from-ocr-extraction.service.ts:241`), and the client waits for it
  until its attempts are used up.
- `canUserAccessFileByMetadata` does not know system fields, which the list
  treats "like any other metadata" (`systemMetadataFields.ts:86`): a document
  listed by a rule on its person cannot be opened.
- `acceptInvitation` catches a violation of a unique constraint that
  `user_company` does not have (`users.controller.ts:206`): a second row.
- Deleting a folder in the middle makes its subfolders roots without
  permissions (`companies.controller.ts:1436`); archived documents or
  permissions make the removal of a person fail after its check passed.
- `updateCompany` deletes the object of the logo before it validates the
  colours (`companies.controller.ts:358`), an upload deletes the previous one
  before the new one is stored (517).
- Two persons of one name share a node of the tree, and the list resolves it to
  one of them; hidden values make a document "Uncategorized" in the tree, and
  the filter for missing values is about unfiltered ones.
- A part of a split that fails leaves the parts before it; a retry makes them
  again.

Client:

- `MetadataDocumentView.tsx:677` clears every interval of the previous map
  whenever the map changes, so that the polling of other documents stops; its
  comment says "on unmount". A poll that fails is not started again, and a
  recognition answered after the page was left starts a timer nobody clears.
- The request for the address of an opened document is never cancelled
  (`MetadataDocumentView.tsx:795`): open one, close it, open another, and the
  late answer shows the first under the name of the second, in the split view
  beside its text.
- The PDF of a kept review may be archived or split elsewhere; the review is
  offered all the same, and what it asks for is answered with 404.
- A failing request for a text is repeated at once, without end (1477). An
  answer for one document closes the extraction dialog of another.
- Merging or removing a segment brings excluded pages back, an excluded page
  leaves only the first of two overlapping segments, and a merged segment loses
  the type of the second. Edits are not written to the saved review; reviews
  are offered for longer than they can be resumed (`SplitPdfPage.tsx:314`).
- Signing out leaves `isSuperAdmin` and the stored company; a failed `/api/me`
  clears whichever token is stored by then.
- Late answers show users of an earlier company on the companies page, and
  `Settings.tsx` does not cancel its loads. A dismissed bar hides a later
  failure, save for a toast.

## Not modelled

- Notifications and e-mail: rows written and marked one statement at a time;
  output whose failure is logged.
- Components of the user interface, layout, texts, toasts.
- Passwords, the refresh of tokens, the portal; the permissions of a role,
  which one transaction writes; the pages `UsersGroups.tsx` and
  `DocumentTypes.tsx`, whose hazard (an open form keeps ids of deleted keys) is
  one of a single read.
- Colours, slugs, languages, the regeneration of API keys: columns nothing else
  depends on.
- Resuming OCR after a restart: the code has none, the models have the restart.
- Delays between retries and classes of errors: a call may be repeated as often
  as its loop allows.

## Plan

Done: the modules above, their runs, and the proofs of everything a run checks
but liveness.

Next, in the order of weight:

1. Abstract specifications of the two stores, with refinement mappings from
   `DocumentStore` and `MetadataValues`: documents created and removed in one
   step, values as sets; proved step by step, as `DocumentProgress` is.
2. A bound on what a torn answer of `DocumentAccess` gives after more than one
   change, from `WouldAnswer`.
3. The dialog that edits metadata, composed with `MetadataValues`; the page on
   users and groups, composed with `Membership`.
