----------------------------- MODULE AddressText -----------------------------
(***************************************************************************)
(* The spelling of an address: the key that the cache files it under       *)
(* (normalize.py), the prefix that a scan asks the partner for             *)
(* (AddressQuery.build), and the partner's own s5_street_norm, which the   *)
(* query applies to that prefix and to the addresses it holds. The two     *)
(* normalizers fold different things.                                      *)
(*                                                                         *)
(* A text is a sequence of words, in upper case as both normalizers make   *)
(* it. A word is what it says, "" if it says nothing, and what follows it: *)
(* nothing, a punctuation character, or a metacharacter of LIKE.           *)
(***************************************************************************)
EXTENDS Naturals, Sequences, FiniteSets, SequencesExt

CONSTANTS
  Numbered,  \* the words that begin with a digit
  Begins     \* the pairs of words of which the second begins with the first

Marks == {"none", "punctuation", "like"}

(* Blanks separate words: none is empty and without a mark.                *)
Words == [word : STRING, mark : Marks] \ [word : {""}, mark : {"none"}]
Texts == Seq(Words)

(* The street types that both normalizers abbreviate.                      *)
StreetTypes ==
  [STREET |-> "ST", AVENUE |-> "AVE", ROAD |-> "RD", DRIVE |-> "DR", LANE |-> "LN",
   BOULEVARD |-> "BLVD", COURT |-> "CT", PLACE |-> "PL", TERRACE |-> "TER",
   PARKWAY |-> "PKWY", HIGHWAY |-> "HWY", CIRCLE |-> "CIR"]

Units == [APARTMENT |-> "APT", SUITE |-> "STE"]

(* No street type, spelled out or not, begins with a digit.                *)
ASSUME TextAssumption ==
  Numbered \cap (DOMAIN StreetTypes \cup Range(StreetTypes)) = {}

(* The elements of a sequence at some of its positions, in their order.    *)
Only(s, at) ==
  [k \in 1..Cardinality(at) |->
     s[CHOOSE i \in at : Cardinality({j \in at : j <= i}) = k]]

Rewritten(table, word) == IF word \in DOMAIN table THEN table[word] ELSE word

StartsUnit(word) == \E u \in {"#", "APT", "STE"} : word = u \/ <<u, word>> \in Begins

(* The two words that are folded only before a unit or at the very end,    *)
(* where a character that became a blank follows no more.                  *)
Ending == [TRACE |-> "TRCE", PK |-> "PARK", PRK |-> "PARK"]

(* normalize_address: every mark becomes a blank.                          *)
NormalizeAddress(text) ==
  LET said  == Only(text, {i \in DOMAIN text : text[i].word # ""})
      base  == [i \in DOMAIN said |->
                  Rewritten(Units, Rewritten(StreetTypes, said[i].word))]
      bare  == text # <<>> /\ Last(text).word # "" /\ Last(text).mark = "none"
      ends(i) == IF i = Len(base) THEN bare ELSE StartsUnit(base[i + 1])
  IN  [i \in DOMAIN base |-> IF ends(i) THEN Rewritten(Ending, base[i]) ELSE base[i]]

(* What is left of a text without the metacharacters of LIKE.              *)
Raw(text) ==
  LET kept == Only(text, {i \in DOMAIN text :
                            text[i].word # "" \/ text[i].mark = "punctuation"})
  IN  [i \in DOMAIN kept |->
         IF kept[i].mark = "like" THEN [kept[i] EXCEPT !.mark = "none"] ELSE kept[i]]

(* A faulty AddressPrefix, which asks for all of the address.              *)
WholeAddress(text) == Raw(text)

(* AddressQuery.build: the house number and the first word of the street,  *)
(* or the whole of an address without a number.                            *)
AddressPrefix(text) ==
  LET raw == Raw(text)
  IN  IF raw # <<>> /\ raw[1].word \in Numbered /\ Len(raw) > 2 THEN SubSeq(raw, 1, 2) ELSE raw

(* silver.s5_street_norm, which keeps every mark.                          *)
StreetNorm(text) ==
  [i \in DOMAIN text |-> [text[i] EXCEPT !.word = Rewritten(StreetTypes, @)]]

(* LIKE x || '%' in the last word of x.                                    *)
Starts(x, y) ==
  \/ x.word = y.word /\ x.mark \in {"none", y.mark}
  \/ <<x.word, y.word>> \in Begins /\ x.mark = "none"

(* s5_street_norm(address) LIKE s5_street_norm(prefix) || '%'              *)
Selects(prefix, address) ==
  LET p == StreetNorm(prefix)
      a == StreetNorm(address)
  IN  /\ Len(p) <= Len(a)
      /\ \A i \in DOMAIN p : IF i < Len(p) THEN p[i] = a[i] ELSE Starts(p[i], a[i])
==============================================================================
