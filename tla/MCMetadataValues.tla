-------------------------- MODULE MCMetadataValues --------------------------
(***************************************************************************)
(* MetadataValues with a key and a second one of the same name, two        *)
(* documents and two values, and three calls.                              *)
(***************************************************************************)
EXTENDS MetadataValues, TLC

CONSTANTS k1, k2, d1, d2, a, b, c1, c2, c3
MCKeys == {k1, k2}
MCDocs == {d1, d2}
MCValues == {a, b}
MCCalls == {c1, c2, c3}
MCSymmetry ==
  Permutations(MCKeys) \cup Permutations(MCDocs) \cup Permutations(MCValues) \cup Permutations(MCCalls)
=============================================================================
