--------------------------- MODULE MCDocumentAccess ---------------------------
(***************************************************************************)
(* DocumentAccess with one user, one group, one document, two rules, a     *)
(* metadata fact and a system fact.                                        *)
(***************************************************************************)
EXTENDS DocumentAccess, TLC

CONSTANTS u1, g1, d1, r1, r2, plain, person, c1
MCUsers == {u1}
MCGroups == {g1}
MCDocs == {d1}
MCRules == {r1, r2}
MCFacts == {plain, person}
MCSystemFacts == {person}
MCCalls == {c1}
MCSymmetry == Permutations(MCRules)
=============================================================================
