--------------------------- MODULE MCDocumentTree ---------------------------
(***************************************************************************)
(* DocumentTree with two documents, two persons, one metadata key with two *)
(* values and the blank one, and databases chosen for what can go wrong:   *)
(* persons of one name, several values, blank ones, hidden ones, archived  *)
(* documents, rules on either kind of key.                                 *)
(***************************************************************************)
EXTENDS DocumentTree

CONSTANTS d1, d2, p1, p2
MCDocuments == {d1, d2}
MCIds == {p1, p2}
MCLabels == {"ann", "bob"}
MCValues == {"x", "y", ""}
MCSystemKeys == {"person"}
MCMetaKeys == {"topic"}

With(person, topics) == [k \in FilterableKeys |-> IF k = "person" THEN person ELSE topics]
OfTopic(v) == [key |-> "topic", value |-> v]
OfPerson(i) == [key |-> "person", value |-> i]

MCFacts == d1 :> With({p1}, {"x"}) @@ d2 :> With({p2}, {"x", "y"})

MCState(r, rules, second, o) ==
  [status |-> d1 :> "live" @@ d2 :> second, fact |-> MCFacts, label |-> p1 :> "ann" @@ p2 :> "bob",
   admin |-> r = "admin", anyRule |-> r # "free", mine |-> rules, order |-> o]

\* An administrator; a user whose rules name a value of the key and a person; a
\* user of a company without rules and, so far, with one document.
MCFirst == {
  MCState("admin", {}, "live", <<"topic", "person">>),
  MCState("reader", {{OfTopic("x")}, {OfPerson(p1)}}, "live", <<"topic", "person">>),
  MCState("free", {}, "absent", <<"person", "topic">>)}
=============================================================================
