----------------------------- MODULE MCMembership -----------------------------
(***************************************************************************)
(* Membership with two users, a custom role, an invitation and three calls *)
(* that overlap.                                                           *)
(***************************************************************************)
EXTENDS Membership, TLC

CONSTANTS u1, m, k1, i1, c1, c2, c3
MCMixedUsers == {u1, m}
MCMixedCase == {m}
MCRoles == {k1}
MCInvites == {i1}
MCCalls == {c1, c2, c3}
MCSymmetry == Permutations(MCCalls)
=============================================================================
