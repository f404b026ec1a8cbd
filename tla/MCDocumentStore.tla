--------------------------- MODULE MCDocumentStore ---------------------------
(***************************************************************************)
(* DocumentStore with one timer and two requests on two documents: the     *)
(* source of a split and its part, or two bystanders.                      *)
(***************************************************************************)
EXTENDS DocumentStore

CONSTANTS h1, h2, w, d1, d2
MCHandlers == {h1, h2}
MCWorkers == {w}
MCDocs == {d1, d2}
=============================================================================
