------------------------------- MODULE Session -------------------------------
(***************************************************************************)
(* The session of a browser tab (AuthContext.tsx): who is signed in, which *)
(* company is selected, what the user may do there and whose name and      *)
(* colours are shown.  Every part is fetched by a request of its own, and  *)
(* no request is cancelled: answers come in any order, after a switch to   *)
(* another company, a new sign-in or the end of the session.               *)
(*                                                                         *)
(* An answer says what the server says when it arrives; the history fresh  *)
(* tells when the rows have changed after a question was asked.            *)
(***************************************************************************)
EXTENDS RequestGate, Naturals, FiniteSets

CONSTANTS
  FirstRows,  \* rows of user_company to begin with: a set of functions
  Changes,    \* bound on changes of the rows
  Pending,    \* bound on the questions about companies that are under way
  Repeats     \* bound on the requests of the same user for /api/me

VARIABLES
  row,         \* server: user and company to their row
  token,       \* localStorage: whose token, shared by the tabs of the browser
  stored,      \* localStorage, and the ref of the tab: the company selected last
  user,        \* the rest is the state of the context
  companies,   \* userCompanies: company to role
  isSuperAdmin,
  loading,
  selected,
  permissions,
  branding,    \* the company the name, logo and colour are of
  me,          \* requests under way: /api/me, by the user of the token
  asks,        \* my-permissions, with the company
  brands,      \* the company itself
  \* history
  changes,
  fresh,       \* no row has changed since the session was read
  orderly,     \* no answer was overtaken by that to a later question, and none failed
  alone        \* /api/me was asked once at a time, and the token left alone

context == <<user, companies, isSuperAdmin, loading, selected, permissions, branding>>
requests == <<me, asks, brands>>
history == <<changes, fresh, orderly, alone>>
sessionVars == <<row, token, stored, context, requests, history>>

ASSUME RowsAssumption == FirstRows \subseteq [Users -> [Companies -> Row]]
ASSUME BoundsAssumption == {Changes, Pending, Repeats} \subseteq Nat

\* A question about a company; old when a later one has been asked.
Question == [by : Users \cup {NoUser}, of : Companies, old : BOOLEAN]

NoCompanies == [c \in Companies |-> "none"]
Member(cs) == {c \in Companies : cs[c] # "none"}

SessionTypeOK ==
  /\ row \in [Users -> [Companies -> Row]]
  /\ token \in Users \cup {NoUser} /\ user \in Users \cup {NoUser}
  /\ stored \in Companies \cup {NoCompany} /\ selected \in Companies \cup {NoCompany}
  /\ companies \in [Companies -> {"none", "user", "company_admin"}]
  /\ isSuperAdmin \in BOOLEAN /\ loading \in BOOLEAN
  /\ permissions \subseteq Keys \cup {"*"}
  /\ branding \in Companies \cup {NoCompany}
  /\ me \in [Users -> Nat]
  /\ asks \subseteq Question /\ brands \subseteq Question
  /\ changes \in 0 .. Changes
  /\ fresh \in BOOLEAN /\ orderly \in BOOLEAN /\ alone \in BOOLEAN

NothingOpen == \A u \in Users : me[u] = 0
Quiet == NothingOpen /\ asks = {} /\ brands = {}

\* A bound: the user does nothing more while so many answers are out.
Room ==
  /\ \A u \in Users : me[u] < Repeats
  /\ Cardinality(asks) + Cardinality(brands) < Pending

\* A page that is loaded with a token asks for the user behind it.
AskedFirst(t) == [u \in Users |-> IF u = t THEN 1 ELSE 0]

\* The browser may have a token and a selection from an earlier session.
SessionInit ==
  /\ row \in FirstRows
  /\ token \in Users \cup {NoUser} /\ stored \in Companies \cup {NoCompany}
  /\ user = NoUser /\ companies = NoCompanies /\ isSuperAdmin = FALSE
  /\ loading = (token # NoUser)
  /\ selected = stored /\ permissions = {} /\ branding = NoCompany
  /\ me = AskedFirst(token) /\ asks = {} /\ brands = {}
  /\ changes = 0 /\ fresh = TRUE /\ orderly = TRUE /\ alone = TRUE

\* The page is loaded again: the selection comes from the storage, and the answers
\* to the questions of the page before are nobody's.
Reload ==
  /\ user' = NoUser /\ companies' = NoCompanies /\ isSuperAdmin' = FALSE
  /\ loading' = (token # NoUser)
  /\ selected' = stored /\ permissions' = {} /\ branding' = NoCompany
  /\ me' = AskedFirst(token) /\ asks' = {} /\ brands' = {}
  /\ fresh' = TRUE /\ orderly' = TRUE /\ alone' = TRUE
  /\ UNCHANGED <<row, token, stored, changes>>

-----------------------------------------------------------------------------
(* The effects of the context. *)

\* Mutant of Effects: they depend on the selected company only.
Ask(questions) ==
  {[q EXCEPT !.old = TRUE] : q \in questions} \cup {[by |-> token', of |-> selected', old |-> FALSE]}

EffectsOfSelection ==
  IF selected' = selected \/ selected' = NoCompany
  THEN UNCHANGED <<permissions, branding, asks, brands, orderly>>
  ELSE /\ asks' = Ask(asks) /\ brands' = Ask(brands)
       /\ orderly' = (orderly \/ (asks = {} /\ brands = {}))
       /\ UNCHANGED <<permissions, branding>>

\* After a change of the user or of the selection both are asked for again, or
\* cleared when there is nothing to ask.
Effects ==
  \/ /\ user = NoUser /\ user' = NoUser /\ selected' = selected
     /\ UNCHANGED <<permissions, branding, asks, brands, orderly>>
  \/ /\ user # NoUser \/ user' # NoUser \/ selected' # selected
     /\ selected' = NoCompany \/ user' = NoUser
     /\ permissions' = {} /\ branding' = NoCompany
     /\ UNCHANGED <<asks, brands, orderly>>
  \/ /\ selected' # NoCompany /\ user' # NoUser
     /\ asks' = Ask(asks) /\ brands' = Ask(brands)
     /\ orderly' = (orderly \/ (asks = {} /\ brands = {}))
     /\ UNCHANGED <<permissions, branding>>

\* fetchUserData asks with the token there is.
FetchUserData ==
  /\ token' # NoUser
  /\ loading' = TRUE
  /\ me' = [me EXCEPT ![token'] = @ + 1]
  /\ alone' = NothingOpen

\* The answer: the company selected last stays selected if the user is one of its
\* members, otherwise the first of the answer is; without companies the selection
\* stays what it was.
MeAnswered(u) ==
  /\ me[u] > 0
  /\ me' = [me EXCEPT ![u] = @ - 1]
  /\ user' = u
  /\ companies' = [c \in Companies |-> row[u][c].role]
  /\ isSuperAdmin' = OfToken(u).super
  /\ \/ Member(companies') = {} /\ UNCHANGED <<selected, stored>>
     \/ stored \in Member(companies') /\ selected' = stored /\ UNCHANGED stored
     \/ /\ stored \notin Member(companies')
        /\ selected' \in Member(companies') /\ stored' = selected'
  /\ loading' = FALSE
  /\ UNCHANGED <<row, token, changes, fresh, alone>>
  /\ Effects

\* Mutant of Cleared: whoever was signed in stays.
KeptUser ==
  /\ token' = NoUser
  /\ companies' = NoCompanies
  /\ selected' = NoCompany
  /\ UNCHANGED user

\* What the end of a session clears; the stored selection outlives it.
Cleared ==
  /\ token' = NoUser
  /\ user' = NoUser
  /\ companies' = NoCompanies
  /\ selected' = NoCompany

\* No connection, a token that has expired, a user that is gone: any failure ends
\* the session, whichever token is in the storage by now.
MeFails(u) ==
  /\ me[u] > 0
  /\ me' = [me EXCEPT ![u] = @ - 1]
  /\ Cleared
  /\ isSuperAdmin' = FALSE
  /\ loading' = FALSE
  /\ UNCHANGED <<row, stored, changes, fresh, alone>>
  /\ Effects

\* Answers to the questions about a company.
InOrder(questions, q) == ~q.old \/ \E p \in questions : ~p.old
NewerOpen(questions, q) == \E p \in questions \ {q} : ~p.old

PermissionsAnswered(q) ==
  /\ permissions' = IF q.by = NoUser THEN {} ELSE getMyPermissions(OfToken(q.by), row[q.by][q.of])
  /\ asks' = asks \ {q}
  /\ orderly' = (orderly /\ InOrder(asks, q))
  /\ UNCHANGED <<branding, brands>>

PermissionsFail(q) ==
  /\ permissions' = {}
  /\ asks' = asks \ {q}
  /\ orderly' = (orderly /\ NewerOpen(asks, q))
  /\ UNCHANGED <<branding, brands>>

\* The company and its logo; without access to the company there is none.
BrandingAnswered(q) ==
  /\ branding' = IF q.by # NoUser /\ ensureCompanyAccess(OfToken(q.by), q.of, row[q.by][q.of])
                 THEN q.of ELSE NoCompany
  /\ brands' = brands \ {q}
  /\ orderly' = (orderly /\ InOrder(brands, q))
  /\ UNCHANGED <<permissions, asks>>

BrandingFails(q) ==
  /\ branding' = NoCompany
  /\ brands' = brands \ {q}
  /\ orderly' = (orderly /\ NewerOpen(brands, q))
  /\ UNCHANGED <<permissions, asks>>

Answers ==
  /\ \/ \E q \in asks : PermissionsAnswered(q) \/ PermissionsFail(q)
     \/ \E q \in brands : BrandingAnswered(q) \/ BrandingFails(q)
  /\ UNCHANGED <<row, token, stored, user, companies, isSuperAdmin, loading, selected,
                 me, changes, fresh, alone>>

-----------------------------------------------------------------------------
(* The user. *)

\* ProtectedRoute shows its pages.
PageShown == user # NoUser /\ ~loading /\ (Member(companies) # {} \/ isSuperAdmin)

\* The page for signing in is not protected: it can be used while the answer to
\* the token of an earlier session is still out, and by somebody signed in.
SignIn(u) ==
  /\ Room
  /\ token' = u
  /\ FetchUserData
  /\ fresh' = (fresh \/ Quiet)
  /\ UNCHANGED <<row, stored, user, companies, isSuperAdmin, selected, permissions, branding,
                 asks, brands, changes, orderly>>

\* handleSave of the settings reads the session again.
RefreshUserData ==
  /\ Room
  /\ PageShown
  /\ UNCHANGED token
  /\ FetchUserData
  /\ fresh' = (fresh \/ Quiet)
  /\ UNCHANGED <<row, stored, user, companies, isSuperAdmin, selected, permissions, branding,
                 asks, brands, changes, orderly>>

\* isSuperAdmin stays as it was.
SignOut ==
  /\ user # NoUser /\ ~loading
  /\ Cleared
  /\ UNCHANGED <<row, stored, isSuperAdmin, loading, me, changes, fresh, alone>>
  /\ Effects

\* The switcher shows itself to members of two companies; it has loaded its list
\* after the session was read.
SetSelectedCompanyId(c) ==
  /\ Room
  /\ PageShown
  /\ Cardinality(Member(companies)) > 1
  /\ \/ c \in Member(companies)
     \/ token # NoUser /\ (OfToken(token).super \/ row[token][c].role # "none")
  /\ c # selected
  /\ selected' = c /\ stored' = c
  /\ UNCHANGED <<row, token, user, companies, isSuperAdmin, loading, me, changes, fresh, alone>>
  /\ Effects

\* handleAccept selects the company the user has just joined and reads the
\* session again; only the new selection runs the effects.
AcceptInvitation(c) ==
  /\ Room
  /\ user # NoUser /\ ~loading
  /\ token # NoUser /\ row[token][c].role = "none"
  /\ changes < Changes /\ changes' = changes + 1
  /\ row' = [row EXCEPT ![token][c] = [role |-> "user", keys |-> {}]]
  /\ selected' = c /\ stored' = c
  /\ UNCHANGED <<token, user, companies, isSuperAdmin>>
  /\ FetchUserData
  /\ fresh' = Quiet
  /\ IF c = selected THEN UNCHANGED <<permissions, branding, asks, brands, orderly>> ELSE Effects

-----------------------------------------------------------------------------
(* Others. *)

\* An administrator of the company changes a member or the member's role.
ChangeRow(u, c) ==
  /\ changes < Changes /\ changes' = changes + 1
  /\ \E r \in Row : r # row[u][c] /\ row' = [row EXCEPT ![u][c] = r]
  /\ fresh' = FALSE
  /\ UNCHANGED <<token, stored, context, requests, orderly, alone>>

\* Another tab signs in or out; nothing tells this one.
OtherTab(t) ==
  /\ t # token
  /\ token' = t
  /\ alone' = FALSE
  /\ UNCHANGED <<row, stored, context, requests, changes, fresh, orderly>>

-----------------------------------------------------------------------------
SessionNext ==
  \/ Reload
  \/ \E u \in Users : MeAnswered(u) \/ MeFails(u) \/ SignIn(u)
  \/ Answers
  \/ RefreshUserData \/ SignOut
  \/ \E c \in Companies : SetSelectedCompanyId(c) \/ AcceptInvitation(c)
  \/ \E u \in Users, c \in Companies : ChangeRow(u, c)
  \/ \E t \in Users \cup {NoUser} : OtherTab(t)

SessionSpec == SessionInit /\ [][SessionNext]_sessionVars

-----------------------------------------------------------------------------
(* Properties. *)

isCompanyAdmin == selected # NoCompany /\ companies[selected] = "company_admin"

HasPermission(k) == isSuperAdmin \/ isCompanyAdmin \/ "*" \in permissions \/ k \in permissions

\* What the pages offer is what the server allows, neither more nor less, and the
\* name shown is that of the selected company, once every answer is in, as long
\* as answers have come in the order of the questions and nobody has changed the
\* rows meanwhile.
OfferedIsAllowed ==
  user # NoUser /\ ~loading /\ selected # NoCompany /\ Quiet /\ fresh /\ orderly /\ alone =>
    /\ \A k \in Keys : HasPermission(k) <=>
         requirePermission(OfToken(user), selected, row[user][selected], k)
    /\ branding \in {selected, NoCompany}

\* Whoever a page shows as signed in is the one the requests are made for, as
\* long as sign-ins have not overlapped and no other tab has changed the token.
ShownIsSignedIn == user # NoUser /\ ~loading /\ alone => token = user
=============================================================================
