---------------------------- MODULE MCSplitReview ----------------------------
(* Proposals that are out of order, contain one another, begin together,       *)
(* overlap, or have a page before the first and one after the last.           *)
(* Editing leads from any of them to every list of segments that do not overlap. *)
EXTENDS SplitReview

S(a, b) == [start |-> a, end |-> b]

MCProposals ==
  {<<S(3, 3), S(1, 1), S(2, 2)>>,
   <<S(1, 3), S(2, 2)>>,
   <<S(2, 3), S(2, 2)>>,
   <<S(2, 3), S(1, 2)>>,
   <<S(0, 1), S(2, PageCount + 1)>>}
=============================================================================
