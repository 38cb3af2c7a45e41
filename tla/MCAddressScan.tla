---------------------------- MODULE MCAddressScan ----------------------------
(* Small addresses for AddressScan: every choice of at most MaxPicked rows *)
(* from a pool in which each feed and each boundary is represented.        *)
EXTENDS AddressScan

CONSTANTS MaxPicked, Overlapping

W(word) == [word |-> word, mark |-> "none"]
M(word) == [word |-> word, mark |-> "punctuation"]

Oak     == <<W("12"), W("OAK")>>
OakSt   == Append(Oak, W("ST"))
OakApt  == OakSt \o <<W("APT"), W("#4")>>
Street  == Append(Oak, W("STREET"))
Oakland == <<W("12"), W("OAKLAND"), W("AVENUE")>>
Dotted  == <<W("12"), M("ST"), W("JOHN")>>
Bare    == <<W("12"), W("ST"), W("JOHN")>>
Percent == <<[word |-> "", mark |-> "like"]>>

MCNumbered == {"12"}
MCBegins   == {<<"OAK", "OAKLAND">>, <<"#", "#4">>}

ZipRow(id, t, feeds, dl, city, name, text) ==
  [id |-> id, table |-> t, feeds |-> feeds, text |-> text, dl |-> dl, city |-> city,
   taxPartition |-> FALSE, state |-> IF city = 0 THEN 0 ELSE 2, name |-> name,
   usable |-> TRUE, company |-> FALSE]

TaxRow(id, city, name, usable, company, text) ==
  [id |-> id, table |-> "records_new", feeds |-> {"tax"}, text |-> text, dl |-> FALSE,
   taxPartition |-> TRUE, city |-> city, state |-> 2, name |-> name,
   usable |-> usable, company |-> company]

(* A row of the tax feed that was loaded into a later partition.           *)
LaterRow(id, city, name, text) ==
  [TaxRow(id, city, name, TRUE, FALSE, text) EXCEPT !.taxPartition = FALSE]

(* The row with two feeds has a blank city. *)
Pool ==
  {ZipRow(1, "records_new", {"payday"}, FALSE, 2, 2, Street),
   ZipRow(2, "records_new", {"payday"}, TRUE, 3, 3, OakSt),
   ZipRow(3, "records_legacy", {"base"}, FALSE, 2, 2, Oak),
   ZipRow(4, "records_new", {"base"}, FALSE, 0, 0, OakApt),
   ZipRow(5, "records_legacy", {"trace"}, FALSE, 2, 3, Street),
   ZipRow(6, "records_new", {"auto"}, FALSE, 3, 2, Oakland),
   TaxRow(7, 2, 1, TRUE, FALSE, Street), TaxRow(8, 2, 4, FALSE, FALSE, OakSt),
   TaxRow(9, 3, 1, TRUE, TRUE, Oak), TaxRow(10, 2, 2, TRUE, FALSE, OakApt),
   LaterRow(12, 2, 3, Street)}
    \cup IF Overlapping
         THEN {ZipRow(11, "records_new", {"base", "auto"}, FALSE, Blank, 4, Oak)} ELSE {}

Typed(spellings, rows) == [spellings |-> spellings, rows |-> rows]

(* The last three: one spelling finds both rows, the other one only; one   *)
(* that is no address; and another street.                                 *)
MCAddresses ==
  {Typed({OakSt, Street}, S) : S \in UNION {kSubset(k, Pool) : k \in 0..MaxPicked}}
    \cup {Typed({Dotted, Bare}, {ZipRow(1, "records_new", {"auto"}, FALSE, 3, 2, Bare),
                                ZipRow(2, "records_new", {"auto"}, FALSE, 3, 3, Dotted)}),
          Typed({Percent}, {ZipRow(1, "records_new", {"auto"}, FALSE, 3, 2, Oak)}),
          Typed({OakApt}, {ZipRow(1, "records_legacy", {"base"}, FALSE, 3, 2, OakSt),
                           ZipRow(2, "records_legacy", {"base"}, FALSE, 2, 3, Bare)})}
==============================================================================
