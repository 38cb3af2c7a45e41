---------------------------- MODULE MCCloneLoader ----------------------------
(* Small csv directories: in the first row of utility, trace and loan every*)
(* choice of a few kinds, which share keys directly and in chains.         *)
EXTENDS CloneLoader

Row(name, dob, phone, home) ==
  [name |-> name, dob |-> dob, phone |-> phone, home |-> home, house |-> TRUE]

(* One name, whose rows are alike by phone, by date of birth, by address   *)
(* or only through another row; and a row without a surname.               *)
MCKinds == {Row(1, 1, 1, 1), Row(1, 0, 1, 2), Row(1, 1, 0, 3), Row(0, 1, 1, 1)}

MCDrives == <<[name |-> 1, home |-> 2, licence |-> 0],
              [name |-> 1, home |-> 2, licence |-> 5],
              [name |-> 2, home |-> 2, licence |-> 6]>>

Corpus(u, t, l) ==
  [utility |-> <<u>>, trace |-> <<t>>,
   base |-> <<Row(1, 0, 1, 3), Row(2, 1, 0, 2), Row(0, 1, 1, 1)>>,
   loan |-> <<l, Row(2, 0, 0, 2), Row(1, 0, 0, 2)>>,
   auto |-> <<Row(2, 0, 1, 3)>>, tax |-> <<Row(1, 0, 0, 3)>>, drive |-> MCDrives]

(* As many rows as before, and one more. *)
MCLater ==
  LET r == Row(1, 0, 1, 2)
      c == Corpus(r, r, r)
  IN  {c, [c EXCEPT !.loan = @ \o <<Row(3, 0, 0, 1)>>]}

MCCorpora ==
  {Corpus(u, t, l) : u, t \in MCKinds, l \in {Row(1, 0, 1, 2), Row(0, 1, 1, 1)}}
    \cup MCLater
==============================================================================
