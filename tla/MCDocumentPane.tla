---------------------------- MODULE MCDocumentPane ----------------------------
(***************************************************************************)
(* DocumentPane with two documents, one key, four operations of the user,  *)
(* two requests of a kind but one poll at a time, and one failure.         *)
(***************************************************************************)
EXTENDS DocumentPane

CONSTANTS a, b, k, c1, c2
MCDocs == {a, b}
MCKeys == {k}
MCCalls == {c1, c2}

\* Every action treats the documents, and the places, alike.
Symmetry == Permutations(MCDocs) \cup Permutations(MCCalls)
=============================================================================
