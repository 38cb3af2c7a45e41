--------------------------- MODULE MCIdentityGraph ---------------------------
(* Small identity graphs: one person with rows in both families, linked in *)
(* every way by at most MaxPicked links, and names with ties and merges.   *)
EXTENDS IdentityGraph

CONSTANTS MaxPicked

Row(family, id, shapes, usable) ==
  [family |-> family, id |-> id, shapes |-> shapes, usable |-> usable]

MCRows ==
  {Row("legacy", 1, {"base"}, TRUE), Row("partitioned", 1, {"base"}, TRUE),
   Row("partitioned", 2, {"loan", "base"}, TRUE),
   Row("partitioned", 3, {"tax"}, FALSE)}

Link(source, id, confidence) ==
  [hal |-> 1, source |-> source, id |-> id, confidence |-> confidence]

(* Ids 1 and 2 under several names of their tables; 9 names no row. *)
MCLinks ==
  {Link(1, 1, 0), Link(2, 1, 1), Link(2, 2, 1), Link(3, 2, 1),
   Link(3, 1, 2), Link(2, 3, 1), Link(4, 9, 0)}

Entity(hal, merged, count) == [hal |-> hal, merged |-> merged, count |-> count]
Key(at, last, first, hal)  == [at |-> at, last |-> last, first |-> first, hal |-> hal]

(* Two surnames, the second of two words; a word may be either name.       *)
Doe  == <<1>>
Dyke == <<2, 1>>

MCPeople == {Entity(1, FALSE, 2), Entity(2, FALSE, 2), Entity(3, TRUE, 4),
             Entity(4, FALSE, 0), Entity(5, FALSE, 7)}

MCKeys == {Key(1, Doe, 1, 4), Key(2, Doe, 1, 3), Key(3, Doe, 2, 2), Key(4, Doe, 2, 1),
           Key(5, Doe, 2, 1), Key(6, Doe, 3, 5), Key(7, Doe, 3, 0), Key(8, Dyke, 1, 2),
           Key(9, Dyke, 1, 1), Key(10, Dyke, 2, 3)}

MCGraphs ==
  {[people |-> MCPeople, keys |-> MCKeys, rows |-> MCRows, links |-> S] :
     S \in UNION {kSubset(k, MCLinks) : k \in 0..MaxPicked}}

Typed(words, comma) == [words |-> words, comma |-> comma]

(* "DOE", "2 DOE", "DOE, 2 3", "DYKE,", "DYKE, 1", nobody's, no surname.   *)
MCNames == {Typed(Doe, None), Typed(<<2>> \o Doe, None), Typed(Doe \o <<2, 3>>, 1),
            Typed(Dyke, 2), Typed(Append(Dyke, 1), 2), Typed(<<3>>, None), Typed(<<2>>, 0)}
==============================================================================
