--------------------------- MODULE MCCompanySettings ---------------------------
(***************************************************************************)
(* CompanySettings with two companies, one of them to be created, two      *)
(* kinds of images and one address, two requests on logos at a time, five  *)
(* operations begun by users and one failure.                              *)
(***************************************************************************)
EXTENDS CompanySettings

CONSTANTS a, b, png, svg, u, c1, c2
MCCompanies == {a, b}
MCFirst == {a}
MCKinds == {png, svg}
MCUrls == {u}
MCCalls == {c1, c2}
=============================================================================
