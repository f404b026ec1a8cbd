------------------------------ MODULE MCSession ------------------------------
(* Two users and two companies: u1 is a member of the first with a custom role *)
(* without permissions and administers the second; u2 is a super administrator *)
(* and a member of the second.  A change of a row gives the other roles.       *)
EXTENDS Session

MCRows ==
  {[u \in Users |-> [c \in Companies |->
      IF u \in SuperAdmins
      THEN IF c = "c2" THEN [role |-> "user", keys |-> {}] ELSE NoRow
      ELSE [role |-> IF c = "c1" THEN "user" ELSE "company_admin", keys |-> {}]]]}
=============================================================================
