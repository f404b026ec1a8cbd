----------------------------- MODULE RequestGate -----------------------------
(***************************************************************************)
(* Who a request comes from and what it may do: authMiddleware, the        *)
(* permission a route requires (rbac.ts) and the check of the company that *)
(* a handler makes once more.  Operators only; Session and PersonsFolders  *)
(* use them with the rows they have.                                       *)
(***************************************************************************)

CONSTANTS
  Users,
  Companies,
  Keys,         \* keys of the permission catalogue
  SuperAdmins,  \* users whose admin role says super_admin
  NoUser,
  NoCompany

ASSUME UsersAssumption == NoUser \notin Users /\ SuperAdmins \subseteq Users
ASSUME CompaniesAssumption == NoCompany \notin Companies
ASSUME KeysAssumption == "*" \notin Keys

\* A row of user_company with the permissions of its custom role.
Row == [role : {"none", "user", "company_admin"}, keys : SUBSET Keys]
NoRow == [role |-> "none", keys |-> {}]

\* What a request carries: the key of the super administrator in one of the two
\* headers, a bearer token (NoUser when it is missing or not valid), and the key
\* of a company.
Credentials == [superKey : {"none", "own header", "api key"},
                bearer : Users \cup {NoUser}, apiKey : Companies \cup {NoCompany}]

\* Who it comes from.
Caller == [user : Users \cup {NoUser}, super : BOOLEAN, company : Companies \cup {NoCompany}]
SuperCaller == [user |-> NoUser, super |-> TRUE, company |-> NoCompany]
Unauthorized == [user |-> NoUser, super |-> FALSE, company |-> NoCompany]

\* A token goes before an API key, so that a key never widens what a user may do;
\* only the header of the super administrator goes before the token.
authMiddleware(cr, active) ==
  IF cr.superKey = "own header" THEN SuperCaller
  ELSE IF cr.bearer # NoUser
       THEN [user |-> cr.bearer, super |-> cr.bearer \in SuperAdmins, company |-> NoCompany]
  ELSE IF cr.superKey = "api key" THEN SuperCaller
  ELSE IF cr.apiKey \in active
       THEN [user |-> NoUser, super |-> FALSE, company |-> cr.apiKey]
  ELSE Unauthorized

\* The caller behind the token of the client, which sends nothing else.
OfToken(u) == authMiddleware([superKey |-> "none", bearer |-> u, apiKey |-> NoCompany], {})

hasPermission(r, k) ==
  \/ r.role = "company_admin"
  \/ r.role = "user" /\ k \in r.keys

\* r is the row of the caller's user in c.
requirePermission(caller, c, r, k) ==
  \/ caller.super
  \/ caller.user = NoUser /\ caller.company = c
  \/ caller.user # NoUser /\ hasPermission(r, k)

ensureCompanyAccess(caller, c, r) ==
  \/ caller.super
  \/ caller.user = NoUser /\ caller.company = c
  \/ caller.user # NoUser /\ r.role # "none"

\* GET my-permissions for a user; a refusal is no permission for the client.
getMyPermissions(caller, r) ==
  IF caller.super \/ r.role = "company_admin" THEN {"*"}
  ELSE IF r.role = "user" THEN r.keys ELSE {}
=============================================================================
