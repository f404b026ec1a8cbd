------------------------------ MODULE Membership ------------------------------
(***************************************************************************)
(* The members of a company: the rows of user_company with their role and  *)
(* custom role, the custom roles, the invitations, the membership of a     *)
(* group, and the accounts behind them.  The handlers look before they     *)
(* write, in separate queries, and the database has no unique constraint   *)
(* on the members or the invitations of a company.  Requests overlap as    *)
(* they like; counted, since and joined are history, which no guard reads, *)
(* and tell the properties what has changed since a call looked.           *)
(***************************************************************************)
EXTENDS Naturals, FiniteSets

CONSTANTS
  People,     \* users, each with one e-mail address
  MixedCase,  \* those whose profile does not have the address in lower case
  Roles,      \* ids of custom roles
  Invites,    \* ids of invitations
  Requests,   \* requests under way
  None,       \* no user, no custom role, no invitation
  MaxRows,    \* bound on the rows of user_company ever created
  MaxFaults   \* bound on failed queries and restarts

ASSUME RowsAssumption == MaxRows \in Nat
ASSUME FaultsAssumption == MaxFaults \in Nat
ASSUME NoneAssumption == None \notin People \cup Roles \cup Invites

VARIABLES
  account,  \* "none", "login" for a user without a profile, or "profile"
  rows,     \* user_company: an id, a user, a role, a custom role
  used,     \* row ids handed out so far
  role,     \* custom roles: "none", "live", "deleted"
  invite,   \* invitations: "none", "pending", "accepted", "deleted"
  invitee,  \* the user whose address an invitation has
  grade,    \* and the role it is for
  grouped,  \* users with a row in profile_group_members
  pc,       \* the await a call is at
  whom,     \* the user a call is about
  row,      \* the id of the row it has loaded
  want,     \* the role it is to give
  custom,   \* the custom role it is to give, or to delete
  inv,      \* its invitation
  faults,   \* failed queries and restarts so far
  counted,  \* the other administrators a call has counted, by their rows
  since,    \* rows created, changed or removed since it last looked at them
  joined    \* users who have joined a group since it took its user from them

store == <<account, rows, used, role, invite, invitee, grade, grouped>>
local == <<whom, row, want, custom, inv>>
history == <<counted, since, joined>>
membersVars == <<account, rows, used, role, invite, invitee, grade, grouped,
                 pc, whom, row, want, custom, inv, faults, counted, since, joined>>

Grade == {"company_admin", "user"}
Row == [id : 1..MaxRows, user : People, role : Grade, custom : Roles \cup {None}]
Labels == {"idle", "count", "check", "assign", "degroup", "unmember", "uninvite", "invite",
           "cancel", "join", "mark", "add", "profile", "link", "delrole", "done"}
Active(c) == pc[c] \notin {"idle", "done"}
Goto(c, l) == pc' = [pc EXCEPT ![c] = l]

AdminRows == {r \in rows : r.role = "company_admin"}
RowsOf(u) == {r \in rows : r.user = u}
LiveRoles == {r \in Roles : role[r] = "live"}

\* Nothing stops a second row for a user.
NewRow(u, g) ==
  /\ used < MaxRows /\ used' = used + 1
  /\ rows' = rows \cup {[id |-> used + 1, user |-> u, role |-> g, custom |-> None]}

-----------------------------------------------------------------------------
(* Roles. *)

AfterCount(c) == IF custom'[c] = None THEN "assign" ELSE "check"

\* assignUserRole loads one of the rows of the user; who is to lose the role of an
\* administrator goes through the count of administrators.
AssignRole(c, r, g, k) ==
  /\ pc[c] = "idle" /\ r \in rows
  /\ whom' = [whom EXCEPT ![c] = r.user]
  /\ row' = [row EXCEPT ![c] = r.id]
  /\ want' = [want EXCEPT ![c] = g]
  /\ custom' = [custom EXCEPT ![c] = k]
  /\ Goto(c, IF r.role = "company_admin" /\ g = "user" THEN "count" ELSE AfterCount(c))
  /\ UNCHANGED <<store, inv, faults>>

\* Mutant of CountAdmins: the last administrator passes.
CountNoAdmins(c) ==
  /\ pc[c] = "count" /\ UNCHANGED <<store, local, faults>>
  /\ Goto(c, IF Cardinality(AdminRows) < 1 THEN "done" ELSE AfterCount(c))

CountAdmins(c) ==
  /\ pc[c] = "count" /\ UNCHANGED <<store, local, faults>>
  /\ Goto(c, IF Cardinality(AdminRows) <= 1 THEN "done" ELSE AfterCount(c))

CheckRole(c) ==
  /\ pc[c] = "check" /\ UNCHANGED <<store, local, faults>>
  /\ Goto(c, IF custom[c] \in LiveRoles THEN "assign" ELSE "done")

\* The transaction updates the loaded row by its id; an administrator has no custom
\* role.  It fails when the row is gone, or refers to a role that is.
CustomFor(c) == IF want[c] = "company_admin" THEN None ELSE custom[c]
WithRole(c, r) == IF r.id = row[c] THEN [r EXCEPT !.role = want[c], !.custom = CustomFor(c)] ELSE r

SetRole(c) ==
  /\ pc[c] = "assign" /\ Goto(c, "done")
  /\ \/ CustomFor(c) \in LiveRoles \cup {None} /\ rows' = {WithRole(c, r) : r \in rows}
     \/ CustomFor(c) \notin LiveRoles \cup {None} /\ UNCHANGED rows
  /\ UNCHANGED <<account, used, role, invite, invitee, grade, grouped, local, faults>>

CreateRole(c, k) ==
  /\ pc[c] = "idle" /\ role[k] = "none"
  /\ role' = [role EXCEPT ![k] = "live"]
  /\ Goto(c, "done")
  /\ UNCHANGED <<account, rows, used, invite, invitee, grade, grouped, local, faults>>

\* Mutant of DeleteRole: does not count.
DeleteUsedRole(c, k) ==
  /\ pc[c] = "idle" /\ role[k] = "live"
  /\ custom' = [custom EXCEPT ![c] = k]
  /\ Goto(c, "delrole")
  /\ UNCHANGED <<store, whom, row, want, inv, faults>>

\* deleteRole counts the rows with the role, and refuses if there are any.
DeleteRole(c, k) ==
  /\ pc[c] = "idle" /\ role[k] = "live" /\ \A r \in rows : r.custom # k
  /\ custom' = [custom EXCEPT ![c] = k]
  /\ Goto(c, "delrole")
  /\ UNCHANGED <<store, whom, row, want, inv, faults>>

\* What refers to a deleted role is set to null.
DropRole(c) ==
  /\ pc[c] = "delrole" /\ Goto(c, "done")
  /\ role' = [role EXCEPT ![custom[c]] = "deleted"]
  /\ rows' = {IF r.custom = custom[c] THEN [r EXCEPT !.custom = None] ELSE r : r \in rows}
  /\ UNCHANGED <<account, used, invite, invitee, grade, grouped, local, faults>>

-----------------------------------------------------------------------------
(* Members. *)

\* removeUserFromCompany takes the groups, the rows, and the invitations.
RemoveUser(c, u) ==
  /\ pc[c] = "idle"
  /\ whom' = [whom EXCEPT ![c] = u]
  /\ Goto(c, "degroup")
  /\ UNCHANGED <<store, row, want, custom, inv, faults>>

RemoveFromGroups(c) ==
  /\ pc[c] = "degroup" /\ Goto(c, "unmember")
  /\ grouped' = grouped \ {whom[c]}
  /\ UNCHANGED <<account, rows, used, role, invite, invitee, grade, local, faults>>

\* Mutant of RemoveRows: takes one row of the user.
RemoveOneRow(c) ==
  /\ pc[c] = "unmember" /\ Goto(c, "uninvite")
  /\ rows' = {r \in rows : r.user = whom[c] => \E s \in RowsOf(whom[c]) : s.id < r.id}
  /\ UNCHANGED <<account, used, role, invite, invitee, grade, grouped, local, faults>>

RemoveRows(c) ==
  /\ pc[c] = "unmember" /\ Goto(c, "uninvite")
  /\ rows' = rows \ RowsOf(whom[c])
  /\ UNCHANGED <<account, used, role, invite, invitee, grade, grouped, local, faults>>

\* Invitations have their address in lower case and are looked up by that of the
\* profile, as it is.
RemoveInvitations(c) ==
  /\ pc[c] = "uninvite" /\ Goto(c, "done")
  /\ invite' = [i \in Invites |->
       IF invite[i] # "none" /\ invitee[i] = whom[c] /\ whom[c] \notin MixedCase
          /\ account[whom[c]] = "profile"
       THEN "deleted" ELSE invite[i]]
  /\ UNCHANGED <<account, rows, used, role, invitee, grade, grouped, local, faults>>

\* addExistingUserToCompany looks for the profile, by the address in lower case, then
\* for a row.
AddExisting(c, u, g) ==
  /\ pc[c] = "idle" /\ account[u] = "profile" /\ u \notin MixedCase /\ RowsOf(u) = {}
  /\ whom' = [whom EXCEPT ![c] = u]
  /\ want' = [want EXCEPT ![c] = g]
  /\ Goto(c, "add")
  /\ UNCHANGED <<store, row, custom, inv, faults>>

\* createUserForCompany creates the login, the profile and the row one by one, with
\* the address in lower case.
CreateUser(c, u, g) ==
  /\ pc[c] = "idle" /\ account[u] = "none" /\ u \notin MixedCase
  /\ account' = [account EXCEPT ![u] = "login"]
  /\ whom' = [whom EXCEPT ![c] = u]
  /\ want' = [want EXCEPT ![c] = g]
  /\ Goto(c, "profile")
  /\ UNCHANGED <<rows, used, role, invite, invitee, grade, grouped, row, custom, inv, faults>>

CreateProfile(c) ==
  /\ pc[c] = "profile" /\ Goto(c, "link")
  /\ account' = [account EXCEPT ![whom[c]] = "profile"]
  /\ UNCHANGED <<rows, used, role, invite, invitee, grade, grouped, local, faults>>

AddRow(c) ==
  /\ pc[c] \in {"add", "link"} /\ Goto(c, "done")
  /\ NewRow(whom[c], want[c])
  /\ UNCHANGED <<account, role, invite, invitee, grade, grouped, local, faults>>

\* addGroupMember and removeGroupMember: a profile need not be a member.
JoinGroup(c, u) ==
  /\ pc[c] = "idle" /\ account[u] = "profile" /\ Goto(c, "done")
  /\ grouped' = grouped \cup {u}
  /\ UNCHANGED <<account, rows, used, role, invite, invitee, grade, local, faults>>
LeaveGroup(c, u) ==
  /\ pc[c] = "idle" /\ u \in grouped /\ Goto(c, "done")
  /\ grouped' = grouped \ {u}
  /\ UNCHANGED <<account, rows, used, role, invite, invitee, grade, local, faults>>

-----------------------------------------------------------------------------
(* Invitations. *)

\* inviteUser and deleteInvitation are for administrators.
Invite(c, i, u, g) ==
  /\ pc[c] = "idle" /\ invite[i] = "none" /\ invitee[i] = None /\ AdminRows # {}
  /\ invitee' = [invitee EXCEPT ![i] = u]
  /\ grade' = [grade EXCEPT ![i] = g]
  /\ inv' = [inv EXCEPT ![c] = i]
  /\ Goto(c, "invite")
  /\ UNCHANGED <<account, rows, used, role, invite, grouped, whom, row, want, custom, faults>>

CreateInvitation(c) ==
  /\ pc[c] = "invite" /\ Goto(c, "done")
  /\ invite' = [invite EXCEPT ![inv[c]] = "pending"]
  /\ UNCHANGED <<account, rows, used, role, invitee, grade, grouped, local, faults>>

CancelInvitation(c, i) ==
  /\ pc[c] = "idle" /\ invite[i] \in {"pending", "accepted"} /\ AdminRows # {}
  /\ inv' = [inv EXCEPT ![c] = i]
  /\ Goto(c, "cancel")
  /\ UNCHANGED <<store, whom, row, want, custom, faults>>

DeleteInvitation(c) ==
  /\ pc[c] = "cancel" /\ Goto(c, "done")
  /\ invite' = [invite EXCEPT ![inv[c]] = "deleted"]
  /\ UNCHANGED <<account, rows, used, role, invitee, grade, grouped, local, faults>>

\* acceptInvitation takes whoever has the token.
Accept(c, i, u) ==
  /\ pc[c] = "idle" /\ invite[i] = "pending" /\ account[u] = "profile"
  /\ whom' = [whom EXCEPT ![c] = u]
  /\ inv' = [inv EXCEPT ![c] = i]
  /\ want' = [want EXCEPT ![c] = grade[i]]
  /\ Goto(c, "join")
  /\ UNCHANGED <<store, row, custom, faults>>

Join(c) ==
  /\ pc[c] = "join" /\ Goto(c, "mark")
  /\ NewRow(whom[c], want[c])
  /\ UNCHANGED <<account, role, invite, invitee, grade, grouped, local, faults>>

\* An invitation that was deleted meanwhile cannot be marked: the call fails, and
\* the row stays.
MarkAccepted(c) ==
  /\ pc[c] = "mark" /\ Goto(c, "done")
  /\ invite' = [invite EXCEPT ![inv[c]] = IF @ = "deleted" THEN @ ELSE "accepted"]
  /\ UNCHANGED <<account, rows, used, role, invitee, grade, grouped, local, faults>>

\* A query fails or the server restarts: the call ends in the middle.
Fault(c) ==
  /\ faults < MaxFaults /\ Active(c)
  /\ faults' = faults + 1 /\ Goto(c, "done")
  /\ UNCHANGED <<store, local>>

-----------------------------------------------------------------------------
\* A company with some members, one row each, at least one administrator, with
\* custom roles that nobody has yet, and with groups of some profiles.
MembersInit ==
  /\ account \in [People -> {"none", "profile"}]
  /\ rows \in SUBSET {r \in Row : r.custom = None /\ account[r.user] = "profile"}
  /\ used \in 0..MaxRows /\ {r.id : r \in rows} = 1..used
  /\ AdminRows # {}
  /\ \A r, s \in rows : r.id = s.id \/ r.user = s.user => r = s
  /\ role \in [Roles -> {"none", "live"}]
  /\ invite = [i \in Invites |-> "none"] /\ invitee = [i \in Invites |-> None]
  /\ grade = [i \in Invites |-> "user"]
  /\ grouped \in SUBSET {u \in People : account[u] = "profile"}
  /\ pc = [c \in Requests |-> "idle"]
  /\ whom = [c \in Requests |-> None] /\ row = [c \in Requests |-> 0]
  /\ want = [c \in Requests |-> "user"] /\ custom = [c \in Requests |-> None]
  /\ inv = [c \in Requests |-> None]
  /\ faults = 0
  /\ counted = [c \in Requests |-> {}] /\ since = [c \in Requests |-> {}]
  /\ joined = [c \in Requests |-> {}]

Begin(c) ==
  \/ \E r \in rows, g \in Grade, k \in Roles \cup {None} : AssignRole(c, r, g, k)
  \/ \E k \in Roles : CreateRole(c, k) \/ DeleteRole(c, k)
  \/ \E u \in People : RemoveUser(c, u) \/ JoinGroup(c, u) \/ LeaveGroup(c, u)
  \/ \E u \in People, g \in Grade : AddExisting(c, u, g) \/ CreateUser(c, u, g)
  \/ \E i \in Invites, u \in People, g \in Grade : Invite(c, i, u, g)
  \/ \E i \in Invites : CancelInvitation(c, i) \/ \E u \in People : Accept(c, i, u)

Step(c) ==
  \/ CountAdmins(c) \/ CheckRole(c) \/ SetRole(c) \/ DropRole(c)
  \/ RemoveFromGroups(c) \/ RemoveRows(c) \/ RemoveInvitations(c)
  \/ CreateProfile(c) \/ AddRow(c)
  \/ CreateInvitation(c) \/ DeleteInvitation(c) \/ Join(c) \/ MarkAccepted(c)

\* What the history keeps of a step of a call, for every call that has looked at
\* something it is to rely on.
Ids(R) == {r.id : r \in R}
Changed == Ids((rows \ rows') \cup (rows' \ rows))
Remember(c) ==
  /\ counted' = [b \in Requests |->
       IF pc'[b] \notin {"check", "assign"} THEN {}
       ELSE IF b = c /\ pc[c] = "count" THEN Ids(AdminRows) \ {row[c]} ELSE counted[b]]
  /\ since' = [b \in Requests |->
       IF pc'[b] \in {"check", "assign", "delrole", "uninvite"} THEN since[b] \cup Changed ELSE {}]
  /\ joined' = [b \in Requests |->
       IF pc'[b] \in {"unmember", "uninvite"} THEN joined[b] \cup (grouped' \ grouped) ELSE {}]

MembersNext == \E c \in Requests : (Begin(c) \/ Step(c) \/ Fault(c)) /\ Remember(c)

MembersSpec == MembersInit /\ [][MembersNext]_membersVars

-----------------------------------------------------------------------------
MembersTypeOK ==
  /\ account \in [People -> {"none", "login", "profile"}]
  /\ rows \subseteq Row /\ used \in 0..MaxRows
  /\ role \in [Roles -> {"none", "live", "deleted"}]
  /\ invite \in [Invites -> {"none", "pending", "accepted", "deleted"}]
  /\ invitee \in [Invites -> People \cup {None}]
  /\ grade \in [Invites -> Grade]
  /\ grouped \subseteq People
  /\ pc \in [Requests -> Labels]
  /\ whom \in [Requests -> People \cup {None}]
  /\ row \in [Requests -> 0..MaxRows]
  /\ want \in [Requests -> Grade]
  /\ custom \in [Requests -> Roles \cup {None}]
  /\ inv \in [Requests -> Invites \cup {None}]
  /\ faults \in 0..MaxFaults
  /\ counted \in [Requests -> SUBSET (1..MaxRows)]
  /\ since \in [Requests -> SUBSET (1..MaxRows)]
  /\ joined \in [Requests -> SUBSET People]

\* A change of a role takes the last administrator from the company in two cases
\* only: every other administrator that was counted has been changed or removed
\* between the count and the update, or the row was not an administrator's when it
\* was loaded, so that nothing was counted, and has become one since.  In no other
\* order of requests is the refusal untrue: "Cannot remove the last admin from the
\* organisation" (roles.controller.ts).
LastAdminKept ==
  [][\A c \in Requests : pc[c] = "assign" /\ pc'[c] = "done" /\ AdminRows # {} =>
       \/ AdminRows' # {}
       \/ counted[c] # {} /\ counted[c] \subseteq since[c]
       \/ counted[c] = {} /\ row[c] \in since[c]]_membersVars

\* A custom role is deleted from under those members only who have been given it
\* since the call counted the members that have it: "Cannot delete a role that has
\* users assigned to it" (roles.controller.ts), however requests overlap.
RoleUnusedWhenDeleted ==
  [][\A k \in Roles : role[k] = "live" /\ role'[k] = "deleted" =>
       \E c \in Requests :
         /\ pc[c] = "delrole" /\ pc'[c] = "done" /\ custom[c] = k
         /\ \A r \in rows : r.custom = k => r.id \in since[c]]_membersVars

\* A removal that comes to its end leaves of the user what came after its queries
\* only, for an address in lower case: a row that an acceptance or an administrator
\* has created since its rows were taken, however many there were, and a group
\* joined since; no invitation is open.
RemovalComplete ==
  [][\A c \in Requests, u \in People \ MixedCase :
       pc[c] = "uninvite" /\ pc'[c] = "done" /\ faults' = faults /\ whom[c] = u /\ account[u] = "profile" =>
         /\ Ids(RowsOf(u)') \subseteq since[c]
         /\ u \in grouped' => u \in joined[c]
         /\ \A i \in Invites : invitee[i] = u => invite'[i] # "pending"]_membersVars
=============================================================================
