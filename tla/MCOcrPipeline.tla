---------------------------- MODULE MCOcrPipeline ----------------------------
(***************************************************************************)
(* OcrPipeline with three calls on the document: the one its upload starts *)
(* and two more, enough for a call to be overtaken twice.                  *)
(***************************************************************************)
EXTENDS OcrPipeline

CONSTANTS c1, c2, c3
MCCalls == {c1, c2, c3}
=============================================================================
