--------------------------- MODULE MCPersonsFolders ---------------------------
(***************************************************************************)
(* PersonsFolders with a person, a member, an administrator and a super    *)
(* administrator who is no member, two folders and a document; two         *)
(* handlers overlap with each other and with everything done at once.      *)
(***************************************************************************)
EXTENDS PersonsFolders, TLC

MCSymmetry == Permutations(Folders) \cup Permutations(Calls) \cup Permutations(Names)
=============================================================================
