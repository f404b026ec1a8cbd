---------------------------- MODULE DocumentAccess ----------------------------
(***************************************************************************)
(* Who may see which document.  A company has rules; a rule is assigned to *)
(* users and to groups, and gives them read or write access to the         *)
(* documents that meet its conditions.  Two pieces of code read the rules: *)
(* one lists the documents a user has access to, the other one decides     *)
(* about one document when it is opened, extracted or archived.  Both take *)
(* several queries, between which anything may change.                     *)
(*                                                                         *)
(* The documents are the flat ones; those in a folder are opened by the    *)
(* permissions of the folder.                                              *)
(***************************************************************************)
EXTENDS Naturals

CONSTANTS
  Users, Groups,
  Docs,
  Rules,       \* ids of document_permission_rules rows
  Facts,       \* a metadata key with a value, or a system field with one
  SystemFacts, \* those of a system field: a person, a document type
  Calls,       \* requests that read the rules
  None,        \* no rule, no user, no document
  MaxChanges   \* bound on changes of any kind

ASSUME FactsAssumption == SystemFacts \subseteq Facts
ASSUME ChangesAssumption == MaxChanges \in Nat
ASSUME NoneAssumption == None \notin Users \cup Docs
ASSUME GroupsAssumption == Users \cap Groups = {}

VARIABLES
  admins,    \* users whose user_company row says company_admin
  member,    \* profile_group_members: users with groups
  rules,     \* the type and the conditions of a rule, or None
  assigned,  \* document_permission_assignments: rules with users or groups
  present,   \* documents that exist
  facts,     \* their metadata values and system fields
  pc, kind,  \* the await a call is at, and what it is
  user, doc, \* who calls, and the document a call is to open
  isAdmin,   \* what the call has read of the user,
  groups,    \*   of the user's groups,
  mine,      \*   of the rules for them,
  listed,    \*   of the documents there are,
  seen,      \*   and of the facts of the documents
  answer,    \* the level it gives for a document
  offer,     \* whether it says that the user may upload
  best,      \* history: the highest level since the call began
  moved,     \* history: changes since the call began
  changes    \* changes so far

config == <<admins, member, rules, assigned, present, facts>>
local == <<kind, user, doc, isAdmin, groups, mine, listed, seen, answer, offer>>
vars == <<admins, member, rules, assigned, present, facts, pc, kind, user, doc, isAdmin, groups,
          mine, listed, seen, answer, offer, best, moved, changes>>

Level == 0..2
NoAccess == 0
Read == 1
Write == 2

Rule == [type : {Read, Write}, conditions : SUBSET Facts]
ASSUME RuleAssumption == None \notin Rule
Labels == {"idle", "groups", "files", "values", "count", "rules", "facts", "done"}
Active(c) == pc[c] \notin {"idle", "done"}
Goto(c, l) == pc' = [pc EXCEPT ![c] = l]

-----------------------------------------------------------------------------
(* The functions of documentAccess.ts, on what a call has read. *)

LiveRules == {r \in Rules : rules[r] # None}
GroupsOf(u) == {g \in Groups : <<u, g>> \in member}

\* Mutant of UserRules: a rule that is assigned to nobody is for everybody.
UserOrFreeRules(u, G) ==
  {rules[r] : r \in {s \in LiveRules : \/ \E w \in {u} \cup G : <<s, w>> \in assigned
                                      \/ \A a \in assigned : a[1] # s}}

\* getUserRules.
UserRules(u, G) == {rules[r] : r \in {s \in LiveRules : \E w \in {u} \cup G : <<s, w>> \in assigned}}

\* ruleMatchesFile: a document has to have all facts of the conditions.
Matches(rule, F) == rule.conditions \subseteq F

\* The highest level of the rules R for a document with the facts F.
LevelIn(R, F) ==
  IF \E r \in R : r.type = Write /\ Matches(r, F) THEN Write
  ELSE IF \E r \in R : Matches(r, F) THEN Read ELSE NoAccess

\* What a call reads of a document: the table of metadata values has no system
\* fields, only injectSystemFieldIds adds them.
StoredFacts(d) == facts[d] \ SystemFacts
InjectedFacts(d) == facts[d] \cap SystemFacts

\* What opening d would be answered if nothing else was going on.
OpenLevel(u, d) ==
  IF u \in admins THEN Write
  ELSE IF LiveRules = {} THEN Read
  ELSE LevelIn(UserRules(u, GroupsOf(u)), StoredFacts(d))

\* Mutant of ListLevel: the system fields of a document take the place of its values.
ListLevelReplacing(u, d) ==
  IF d \notin present THEN NoAccess
  ELSE IF u \in admins THEN Write
  ELSE IF LiveRules = {} THEN Read
  ELSE LevelIn(UserRules(u, GroupsOf(u)),
               IF InjectedFacts(d) = {} THEN StoredFacts(d) ELSE InjectedFacts(d))

\* And what the list would say of it.
ListLevel(u, d) ==
  IF d \notin present THEN NoAccess
  ELSE IF u \in admins THEN Write
  ELSE IF LiveRules = {} THEN Read
  ELSE LevelIn(UserRules(u, GroupsOf(u)), StoredFacts(d) \cup InjectedFacts(d))

LevelNow(k, u, d) == IF k = "open" THEN OpenLevel(u, d) ELSE ListLevel(u, d)

\* assertFlatDocumentWriteAccess, which uploads and the splits ask.
MayUpload(u) == u \in admins \/ \E r \in UserRules(u, GroupsOf(u)) : r.type = Write

-----------------------------------------------------------------------------
(* Calls. *)

\* canUserAccessFileByMetadata and its callers, which load the document and the
\* membership first.
Open(c, u, d) ==
  /\ pc[c] = "idle" /\ d \in present
  /\ kind' = [kind EXCEPT ![c] = "open"]
  /\ user' = [user EXCEPT ![c] = u]
  /\ doc' = [doc EXCEPT ![c] = d]
  /\ isAdmin' = [isAdmin EXCEPT ![c] = u \in admins]
  /\ best' = [best EXCEPT ![c] = [e \in Docs |-> OpenLevel(u, e)]]
  /\ Goto(c, "groups")
  /\ UNCHANGED <<config, groups, mine, listed, seen, answer, offer, moved, changes>>

\* getAccessibleFileIdsWithLevels and its callers.
List(c, u) ==
  /\ pc[c] = "idle"
  /\ kind' = [kind EXCEPT ![c] = "list"]
  /\ user' = [user EXCEPT ![c] = u]
  /\ isAdmin' = [isAdmin EXCEPT ![c] = u \in admins]
  /\ best' = [best EXCEPT ![c] = [e \in Docs |-> ListLevel(u, e)]]
  /\ Goto(c, "groups")
  /\ UNCHANGED <<config, doc, groups, mine, listed, seen, answer, offer, moved, changes>>

\* The documents a call decides about.
Asked(c) == IF kind[c] = "open" THEN {doc[c]} ELSE listed[c]

\* A call ends with a level for each of its documents.
Answer(c, level, may) ==
  /\ answer' = [answer EXCEPT ![c] = [d \in Docs |-> IF d \in Asked(c) THEN level[d] ELSE NoAccess]]
  /\ offer' = [offer EXCEPT ![c] = may]
  /\ Goto(c, "done")

ReadGroups(c) ==
  /\ pc[c] = "groups"
  /\ groups' = [groups EXCEPT ![c] = GroupsOf(user[c])]
  /\ IF kind[c] = "open" /\ isAdmin[c]
     THEN Answer(c, [d \in Docs |-> Write], FALSE)
     ELSE Goto(c, IF kind[c] = "open" THEN "count" ELSE "files") /\ UNCHANGED <<answer, offer>>
  /\ UNCHANGED <<config, kind, user, doc, isAdmin, mine, listed, seen, best, moved, changes>>

\* A list reads the documents with their system fields, then the values.
ReadFiles(c) ==
  /\ pc[c] = "files"
  /\ listed' = [listed EXCEPT ![c] = present]
  /\ seen' = [seen EXCEPT ![c] = [d \in Docs |-> IF d \in present THEN InjectedFacts(d) ELSE {}]]
  /\ IF present = {}
     THEN /\ answer' = [answer EXCEPT ![c] = [d \in Docs |-> NoAccess]]
          /\ offer' = [offer EXCEPT ![c] = isAdmin[c]]
          /\ Goto(c, "done")
     ELSE Goto(c, "values") /\ UNCHANGED <<answer, offer>>
  /\ UNCHANGED <<config, kind, user, doc, isAdmin, groups, mine, best, moved, changes>>

ReadValues(c) ==
  /\ pc[c] = "values"
  /\ seen' = [seen EXCEPT ![c] =
       [d \in Docs |-> IF d \in listed[c] THEN @[d] \cup StoredFacts(d) ELSE {}]]
  /\ IF isAdmin[c]
     THEN Answer(c, [d \in Docs |-> Write], TRUE)
     ELSE Goto(c, "count") /\ UNCHANGED <<answer, offer>>
  /\ UNCHANGED <<config, kind, user, doc, isAdmin, groups, mine, listed, best, moved, changes>>

\* A company without any rule lets its members read everything.
CountRules(c) ==
  /\ pc[c] = "count"
  /\ IF LiveRules = {}
     THEN Answer(c, [d \in Docs |-> Read], FALSE)
     ELSE Goto(c, "rules") /\ UNCHANGED <<answer, offer>>
  /\ UNCHANGED <<config, kind, user, doc, isAdmin, groups, mine, listed, seen, best, moved, changes>>

\* Mutant of ReadRules: who cannot write a document that is there is offered no upload.
ReadRulesForWritten(c) ==
  LET R == UserRules(user[c], groups[c])
      A == [d \in Docs |-> IF d \in listed[c] THEN LevelIn(R, seen[c][d]) ELSE NoAccess] IN
  /\ pc[c] = "rules"
  /\ mine' = [mine EXCEPT ![c] = R]
  /\ IF R = {} THEN Answer(c, [d \in Docs |-> NoAccess], FALSE)
     ELSE IF kind[c] = "list" THEN Answer(c, A, \E d \in listed[c] : A[d] = Write)
     ELSE Goto(c, "facts") /\ UNCHANGED <<answer, offer>>
  /\ UNCHANGED <<config, kind, user, doc, isAdmin, groups, listed, seen, best, moved, changes>>

\* Mutant of ReadRules: who has no rule may read.
ReadRulesLeniently(c) ==
  LET R == UserRules(user[c], groups[c]) IN
  /\ pc[c] = "rules"
  /\ mine' = [mine EXCEPT ![c] = R]
  /\ IF R = {} THEN Answer(c, [d \in Docs |-> Read], FALSE)
     ELSE IF kind[c] = "list"
     THEN Answer(c, [d \in Docs |-> LevelIn(R, seen[c][d])], \E r \in R : r.type = Write)
     ELSE Goto(c, "facts") /\ UNCHANGED <<answer, offer>>
  /\ UNCHANGED <<config, kind, user, doc, isAdmin, groups, listed, seen, best, moved, changes>>

\* The rules of the user and the groups.  Without any the call ends here; a list
\* has read everything else already.
ReadRules(c) ==
  LET R == UserRules(user[c], groups[c]) IN
  /\ pc[c] = "rules"
  /\ mine' = [mine EXCEPT ![c] = R]
  /\ IF R = {} THEN Answer(c, [d \in Docs |-> NoAccess], FALSE)
     ELSE IF kind[c] = "list"
     THEN Answer(c, [d \in Docs |-> LevelIn(R, seen[c][d])], \E r \in R : r.type = Write)
     ELSE Goto(c, "facts") /\ UNCHANGED <<answer, offer>>
  /\ UNCHANGED <<config, kind, user, doc, isAdmin, groups, listed, seen, best, moved, changes>>

ReadFacts(c) ==
  /\ pc[c] = "facts"
  /\ Answer(c, [d \in Docs |-> LevelIn(mine[c], StoredFacts(d))], FALSE)
  /\ UNCHANGED <<config, kind, user, doc, isAdmin, groups, mine, listed, seen, best, moved, changes>>

-----------------------------------------------------------------------------
(* Changes.  Each of them is one statement of a handler. *)

CreateRule(r, rule) ==
  /\ rules[r] = None /\ rules' = [rules EXCEPT ![r] = rule]
  /\ UNCHANGED <<admins, member, assigned, present, facts>>
UpdateRule(r, rule) ==
  /\ rules[r] # None /\ rules' = [rules EXCEPT ![r] = rule]
  /\ UNCHANGED <<admins, member, assigned, present, facts>>

\* The assignments of a rule are deleted with it.
DeleteRule(r) ==
  /\ rules[r] # None /\ rules' = [rules EXCEPT ![r] = None]
  /\ assigned' = {a \in assigned : a[1] # r}
  /\ UNCHANGED <<admins, member, present, facts>>

Assign(r, w) ==
  /\ rules[r] # None /\ assigned' = assigned \cup {<<r, w>>}
  /\ UNCHANGED <<admins, member, rules, present, facts>>
Unassign(r, w) ==
  /\ <<r, w>> \in assigned /\ assigned' = assigned \ {<<r, w>>}
  /\ UNCHANGED <<admins, member, rules, present, facts>>

JoinGroup(u, g) ==
  /\ member' = member \cup {<<u, g>>} /\ UNCHANGED <<admins, rules, assigned, present, facts>>
LeaveGroup(u, g) ==
  /\ member' = member \ {<<u, g>>} /\ UNCHANGED <<admins, rules, assigned, present, facts>>

\* The rows that refer to a group that is deleted stay and refer to nobody.
DeleteGroup(g) ==
  /\ member' = {m \in member : m[2] # g}
  /\ assigned' = {a \in assigned : a[2] # g}
  /\ UNCHANGED <<admins, rules, present, facts>>

\* assignUserRole.
ChangeRole(u) ==
  /\ admins' \in {admins \cup {u}, admins \ {u}}
  /\ UNCHANGED <<member, rules, assigned, present, facts>>

\* Metadata values are set and removed by other statements than system fields; a
\* new document has its system fields first.
ChangeValues(d, F) ==
  /\ d \in present /\ facts' = [facts EXCEPT ![d] = F \cup InjectedFacts(d)]
  /\ UNCHANGED <<admins, member, rules, assigned, present>>
ChangeSystemFields(d, F) ==
  /\ d \in present /\ facts' = [facts EXCEPT ![d] = F \cup StoredFacts(d)]
  /\ UNCHANGED <<admins, member, rules, assigned, present>>
AddDoc(d, F) ==
  /\ d \notin present /\ present' = present \cup {d} /\ facts' = [facts EXCEPT ![d] = F]
  /\ UNCHANGED <<admins, member, rules, assigned>>
RemoveDoc(d) ==
  /\ d \in present /\ present' = present \ {d} /\ facts' = [facts EXCEPT ![d] = {}]
  /\ UNCHANGED <<admins, member, rules, assigned>>

Change ==
  \/ \E r \in Rules, rule \in Rule : CreateRule(r, rule) \/ UpdateRule(r, rule)
  \/ \E r \in Rules : DeleteRule(r)
  \/ \E r \in Rules, w \in Users \cup Groups : Assign(r, w) \/ Unassign(r, w)
  \/ \E u \in Users, g \in Groups : JoinGroup(u, g) \/ LeaveGroup(u, g)
  \/ \E g \in Groups : DeleteGroup(g)
  \/ \E u \in Users : ChangeRole(u)
  \/ \E d \in Docs, F \in SUBSET (Facts \ SystemFacts) : ChangeValues(d, F)
  \/ \E d \in Docs, F \in SUBSET SystemFacts : ChangeSystemFields(d, F) \/ AddDoc(d, F)
  \/ \E d \in Docs : RemoveDoc(d)

Higher(m, n) == IF m > n THEN m ELSE n

\* A change, and what the histories of the calls make of it.
Changes ==
  /\ changes < MaxChanges /\ changes' = changes + 1
  /\ Change
  /\ UNCHANGED <<pc, local>>
  /\ best' = [c \in Calls |-> IF ~Active(c) THEN best[c] ELSE
       [d \in Docs |-> Higher(best[c][d], LevelNow(kind[c], user[c], d)')]]
  /\ moved' = [c \in Calls |-> IF pc[c] # "idle" THEN moved[c] + 1 ELSE 0]

-----------------------------------------------------------------------------
Init ==
  /\ admins \in SUBSET Users
  /\ member \in SUBSET (Users \X Groups)
  /\ rules \in [Rules -> Rule \cup {None}]
  /\ assigned \in SUBSET (LiveRules \X (Users \cup Groups))
  /\ present \in SUBSET Docs
  /\ facts \in {f \in [Docs -> SUBSET Facts] : \A d \in Docs \ present : f[d] = {}}
  /\ pc = [c \in Calls |-> "idle"] /\ kind = [c \in Calls |-> "open"]
  /\ user = [c \in Calls |-> None] /\ doc = [c \in Calls |-> None]
  /\ isAdmin = [c \in Calls |-> FALSE] /\ offer = [c \in Calls |-> FALSE]
  /\ groups = [c \in Calls |-> {}] /\ mine = [c \in Calls |-> {}]
  /\ listed = [c \in Calls |-> {}]
  /\ seen = [c \in Calls |-> [d \in Docs |-> {}]]
  /\ answer = [c \in Calls |-> [d \in Docs |-> NoAccess]]
  /\ best = [c \in Calls |-> [d \in Docs |-> NoAccess]]
  /\ moved = [c \in Calls |-> 0] /\ changes = 0

Step(c) ==
  \/ ReadGroups(c) \/ ReadFiles(c) \/ ReadValues(c)
  \/ CountRules(c) \/ ReadRules(c) \/ ReadFacts(c)

Next ==
  \/ \E c \in Calls, u \in Users : List(c, u) \/ \E d \in Docs : Open(c, u, d)
  \/ \E c \in Calls : Step(c)
  \/ Changes

Spec == Init /\ [][Next]_vars

-----------------------------------------------------------------------------
TypeOK ==
  /\ admins \subseteq Users
  /\ member \subseteq Users \X Groups
  /\ rules \in [Rules -> Rule \cup {None}]
  /\ assigned \subseteq LiveRules \X (Users \cup Groups)
  /\ present \subseteq Docs
  /\ facts \in [Docs -> SUBSET Facts]
  /\ pc \in [Calls -> Labels]
  /\ kind \in [Calls -> {"open", "list"}]
  /\ user \in [Calls -> Users \cup {None}]
  /\ doc \in [Calls -> Docs \cup {None}]
  /\ isAdmin \in [Calls -> BOOLEAN] /\ offer \in [Calls -> BOOLEAN]
  /\ groups \in [Calls -> SUBSET Groups]
  /\ mine \in [Calls -> SUBSET Rule]
  /\ listed \in [Calls -> SUBSET Docs]
  /\ seen \in [Calls -> [Docs -> SUBSET Facts]]
  /\ answer \in [Calls -> [Docs -> Level]]
  /\ best \in [Calls -> [Docs -> Level]]
  /\ moved \in [Calls -> 0..MaxChanges] /\ changes \in 0..MaxChanges

\* A call whose queries see one change at most gives no level that the user did
\* not have at some moment of the call: a torn answer errs on the safe side.
GrantedWasAllowed ==
  \A c \in Calls : pc[c] = "done" /\ moved[c] <= 1 =>
    \A d \in Docs : answer[c][d] <= best[c][d]

\* Whoever may open a document finds it on the list, as writable if it is.
OpenImpliesListed == \A u \in Users, d \in present : OpenLevel(u, d) <= ListLevel(u, d)

\* Taking something away (a rule that is not the last one, an assignment, a
\* membership, a group, the role of an administrator) gives nobody more access.
RevocationNarrows ==
  [][/\ admins' \subseteq admins /\ member' \subseteq member /\ assigned' \subseteq assigned
     /\ \A r \in Rules : rules'[r] \in {rules[r], None}
     /\ LiveRules' # {} /\ UNCHANGED <<present, facts>>
     => \A u \in Users, d \in Docs : /\ OpenLevel(u, d)' <= OpenLevel(u, d)
                                     /\ ListLevel(u, d)' <= ListLevel(u, d)]_vars

\* "whether the user has any write rule at all (for upload gating)"
\* (documentAccess.ts): what a list that nothing has disturbed says of uploading is
\* what an upload will be answered, save in a company without documents, where the
\* list returns before it has read a rule.
OfferIsExact ==
  \A c \in Calls :
    pc[c] = "done" /\ kind[c] = "list" /\ moved[c] = 0 /\ present # {} =>
      (offer[c] <=> MayUpload(user[c]))
=============================================================================
