-------------------------- MODULE AddressScanProofs --------------------------
(***************************************************************************)
(* Theorems about AddressScan, for every address, with any spellings and   *)
(* rows, and every budget: types, per-shape scans out of one query per     *)
(* table, a missing tax row, and the positions that outlive their bundle.  *)
(* They rest on IInv, that the bundle, and the one a handle came from, are *)
(* each what some scan of the address materializes; and on two facts about *)
(* it: spellings of one key ask the partner for the same rows, and a vote  *)
(* is that of the set of rows, in whichever order they came.               *)
(***************************************************************************)
EXTENDS AddressScan, SortedSequences

------------------------------------------------------------------------------
(* A part of a sequence: the elements at some positions.                   *)

Distinct(s) == \A i, j \in 1..Len(s) : s[i] = s[j] => i = j

LEMMA SomeOf ==
  ASSUME NEW S, NEW s \in Seq(S), NEW at \in SUBSET (1..Len(s))
  PROVE  /\ IsFiniteSet(at) /\ Cardinality(at) \in Nat /\ Cardinality(at) <= Len(s)
         /\ at \subseteq Nat
<1> DEFINE len == Len(s)
<1>1. len \in Nat
  OBVIOUS
<1>2. at \subseteq Nat /\ at \in SUBSET (1..len)
  OBVIOUS
<1> HIDE DEF len
<1>3. IsFiniteSet(1..len) /\ Cardinality(1..len) = len
  BY <1>1, FS_Interval
<1>4. IsFiniteSet(at) /\ Cardinality(at) <= len /\ Cardinality(at) \in Nat
  BY <1>2, <1>3, FS_Subset, FS_CardinalityType
<1> QED BY <1>2, <1>4 DEF len

(* o is what s has at n positions, the set `at` in ascending order.        *)
Takes(s, at, n, o, p) ==
  /\ p \in [1..n -> at]
  /\ \A i, j \in 1..n : i < j => p[i] < p[j]
  /\ \A i \in at : \E k \in 1..n : p[k] = i
  /\ \A k \in 1..n : o[k] = s[p[k]]

LEMMA Positions ==
  ASSUME NEW S, NEW s \in Seq(S), NEW at \in SUBSET (1..Len(s))
  PROVE  /\ Cardinality(at) \in Nat /\ Cardinality(at) <= Len(s)
         /\ Only(s, at) \in Seq(S) /\ Len(Only(s, at)) = Cardinality(at)
         /\ DOMAIN Only(s, at) = 1..Cardinality(at)
         /\ \E p : Takes(s, at, Cardinality(at), Only(s, at), p)
<1> DEFINE n == Cardinality(at)
           p == [k \in 1..n |-> CHOOSE i \in at : RankIn(at, i) = k]
<1>1. IsFiniteSet(at) /\ n \in Nat /\ n <= Len(s) /\ at \subseteq Nat
  BY SomeOf
<1>2. \A i \in at : s[i] \in S
  OBVIOUS
<1>3. /\ \A i \in at : RankIn(at, i) \in 1..n
      /\ \A i, j \in at : i < j => RankIn(at, i) < RankIn(at, j)
      /\ \A k \in 1..n : \E i \in at : RankIn(at, i) = k
  BY <1>1, Ranks
<1> HIDE DEF n
<1>4. \A k \in 1..n : p[k] \in at /\ RankIn(at, p[k]) = k
  BY <1>3
<1>5. p \in [1..n -> at]
  BY <1>4
<1>6. Only(s, at) = [k \in 1..n |-> s[p[k]]]
  BY DEF Only, RankIn, n
<1> HIDE DEF p
<1>7. ASSUME NEW i \in 1..n, NEW j \in 1..n, i < j PROVE p[i] < p[j]
  <2>1. p[i] \in at /\ p[j] \in at /\ p[i] \in Nat /\ p[j] \in Nat
    BY <1>1, <1>4
  <2>2. p[i] # p[j]
    BY <1>4, <1>7
  <2>3. ~(p[j] < p[i])
    <3> SUFFICES ASSUME p[j] < p[i] PROVE FALSE
      OBVIOUS
    <3>1. RankIn(at, p[j]) < RankIn(at, p[i])
      BY <1>3, <2>1
    <3> QED BY <1>4, <1>7, <3>1
  <2> QED BY <2>1, <2>2, <2>3
<1>8. ASSUME NEW i \in at PROVE \E k \in 1..n : p[k] = i
  <2> DEFINE q == p[RankIn(at, i)]
  <2>1. RankIn(at, i) \in 1..n /\ q \in at /\ RankIn(at, q) = RankIn(at, i)
    BY <1>3, <1>4
  <2> HIDE DEF q
  <2>2. ~(q < i) /\ ~(i < q)
    BY <1>1, <1>3, <2>1
  <2>3. q = i
    BY <1>1, <2>1, <2>2
  <2> QED BY <2>1, <2>3 DEF q
<1>9. Only(s, at) \in [1..n -> S]
  <2>1. \A k \in 1..n : s[p[k]] \in S
    BY <1>2, <1>4
  <2> QED BY <1>6, <2>1
<1>10. Only(s, at) \in Seq(S) /\ Len(Only(s, at)) = n /\ DOMAIN Only(s, at) = 1..n
  BY <1>1, <1>9
<1>11. \A k \in 1..n : Only(s, at)[k] = s[p[k]]
  BY <1>6
<1>12. Takes(s, at, n, Only(s, at), p)
  BY <1>5, <1>7, <1>8, <1>11 DEF Takes
<1> QED BY <1>1, <1>10, <1>12 DEF n

(* What is taken of a sequence is what was at the positions, and each      *)
(* element once, if the sequence held it once.                             *)
LEMMA PartOf ==
  ASSUME NEW S, NEW s \in Seq(S), NEW at \in SUBSET (1..Len(s))
  PROVE  /\ Only(s, at) \in Seq(S) /\ Len(Only(s, at)) <= Len(s)
         /\ ToSet(Only(s, at)) = {s[i] : i \in at}
         /\ Distinct(s) => Distinct(Only(s, at))
<1> DEFINE n == Cardinality(at)
           o == Only(s, at)
<1>1. /\ n \in Nat /\ n <= Len(s) /\ o \in Seq(S) /\ Len(o) = n /\ DOMAIN o = 1..n
      /\ \E p : Takes(s, at, n, o, p)
  BY Positions
<1> HIDE DEF n, o
<1>p. PICK p : Takes(s, at, n, o, p)
  BY <1>1
<1>2. /\ p \in [1..n -> at]
      /\ \A i, j \in 1..n : i < j => p[i] < p[j]
      /\ \A i \in at : \E k \in 1..n : p[k] = i
      /\ \A k \in 1..n : o[k] = s[p[k]]
  BY <1>p DEF Takes
<1>3. ToSet(o) = {s[i] : i \in at}
  <2>1. \A k \in 1..n : p[k] \in at /\ o[k] = s[p[k]]
    BY <1>2
  <2>2. \A i \in at : \E k \in 1..n : o[k] = s[i]
    <3> TAKE i \in at
    <3>1. PICK k \in 1..n : p[k] = i
      BY <1>2
    <3> QED BY <2>1, <3>1
  <2>3. ToSet(o) = {o[k] : k \in 1..n}
    BY <1>1 DEF ToSet
  <2>4. \A k \in 1..n : o[k] \in {s[i] : i \in at}
    BY <2>1
  <2>5. \A i \in at : s[i] \in {o[k] : k \in 1..n}
    BY <2>2
  <2> QED BY <2>3, <2>4, <2>5
<1>4. Distinct(s) => Distinct(o)
  <2> SUFFICES ASSUME Distinct(s), NEW i \in 1..n, NEW j \in 1..n, o[i] = o[j] PROVE i = j
    BY <1>1 DEF Distinct
  <2>1. p[i] \in 1..Len(s) /\ p[j] \in 1..Len(s) /\ s[p[i]] = s[p[j]]
    BY <1>2
  <2>2. p[i] = p[j]
    BY <2>1 DEF Distinct
  <2>3. ~(p[i] < p[j]) /\ ~(p[j] < p[i])
    BY <2>1, <2>2
  <2>4. ~(i < j) /\ ~(j < i)
    BY <1>2, <2>3
  <2> QED BY <1>1, <2>4
<1> QED BY <1>1, <1>3, <1>4 DEF o

(* The first positions, if all are taken, keep their elements.             *)
LEMMA FirstKept ==
  ASSUME NEW S, NEW s \in Seq(S), NEW at \in SUBSET (1..Len(s)),
         NEW m \in Nat, 1..m \subseteq at
  PROVE  /\ Only(s, at) \in Seq(S) /\ Len(Only(s, at)) \in m..Len(s)
         /\ \A i \in 1..m : Only(s, at)[i] = s[i]
<1> DEFINE n == Cardinality(at)
           o == Only(s, at)
<1>1. /\ n \in Nat /\ n <= Len(s) /\ o \in Seq(S) /\ Len(o) = n /\ Len(s) \in Nat
      /\ \E p : Takes(s, at, n, o, p)
  BY Positions
<1>p. PICK p : Takes(s, at, n, o, p)
  BY <1>1
<1>2. /\ p \in [1..n -> at]
      /\ \A i, j \in 1..n : i < j => p[i] < p[j]
      /\ \A i \in at : \E k \in 1..n : p[k] = i
      /\ \A k \in 1..n : o[k] = s[p[k]]
  BY <1>p DEF Takes
<1>3. m <= n
  <2>1. IsFiniteSet(at)
    BY SomeOf
  <2>2. Cardinality(1..m) <= n
    BY <2>1, FS_Subset
  <2> QED BY <2>2, FS_Interval
<1> HIDE DEF n, o
<1>4. \A i \in 1..n : p[i] \in 1..Len(s)
  BY <1>2
<1> DEFINE off == {i \in 1..m : p[i] # i}
<1>5. off = {}
  <2> SUFFICES ASSUME off # {} PROVE FALSE
    OBVIOUS
  <2>1. off \subseteq Nat
    OBVIOUS
  <2>2. PICK i \in off : \A j \in off : i <= j
    <3> HIDE DEF off
    <3> QED BY <2>1, LeastNatural
  <2>3. i \in 1..n /\ i \in at /\ p[i] # i /\ p[i] \in Nat
    BY <1>1, <1>3, <1>4, <2>2
  <2>4. \A j \in 1..m : j < i => p[j] = j
    BY <2>2
  <2>5. CASE p[i] < i
    <3>1. p[i] \in 1..m /\ p[i] \in 1..n /\ p[p[i]] = p[i]
      BY <1>1, <1>3, <1>4, <2>2, <2>3, <2>4, <2>5
    <3>2. p[p[i]] < p[i]
      BY <1>2, <2>3, <2>5, <3>1
    <3> QED BY <2>3, <3>1, <3>2
  <2>6. CASE i < p[i]
    <3>1. PICK k \in 1..n : p[k] = i
      BY <1>2, <2>3
    <3>2. ~(i < k)
      <4> SUFFICES ASSUME i < k PROVE FALSE
        OBVIOUS
      <4>1. p[i] < p[k]
        BY <1>2, <2>3
      <4> QED BY <2>3, <2>6, <3>1, <4>1
    <3>3. k # i
      BY <2>3, <3>1
    <3>4. k < i /\ k \in 1..m
      BY <1>1, <2>2, <3>2, <3>3
    <3> QED BY <2>4, <3>1, <3>3, <3>4
  <2> QED BY <2>2, <2>3, <2>5, <2>6
<1>6. \A i \in 1..m : o[i] = s[i]
  BY <1>1, <1>2, <1>3, <1>5
<1> QED BY <1>1, <1>3, <1>6 DEF o

LEMMA JoinedSet ==
  ASSUME NEW S, NEW s \in Seq(S), NEW t \in Seq(S)
  PROVE  s \o t \in Seq(S) /\ ToSet(s \o t) = ToSet(s) \cup ToSet(t)
<1> DEFINE u == s \o t
<1>1. /\ u \in Seq(S) /\ Len(u) = Len(s) + Len(t)
      /\ \A i \in 1..Len(s) : u[i] = s[i]
      /\ \A i \in 1..Len(t) : u[Len(s) + i] = t[i]
  OBVIOUS
<1>2. \A i \in 1..Len(u) : i \in 1..Len(s) \/ (i - Len(s) \in 1..Len(t)
                                                /\ Len(s) + (i - Len(s)) = i)
  BY <1>1
<1>3. \A i \in 1..Len(s) : i \in 1..Len(u)
  BY <1>1
<1>4. \A i \in 1..Len(t) : Len(s) + i \in 1..Len(u)
  BY <1>1
<1> HIDE DEF u
<1>5. ASSUME NEW z \in ToSet(u) PROVE z \in ToSet(s) \cup ToSet(t)
  <2>1. PICK i \in 1..Len(u) : u[i] = z
    BY <1>1, InToSet
  <2>2. CASE i \in 1..Len(s)
    BY <1>1, <2>1, <2>2, InToSet
  <2>3. CASE i - Len(s) \in 1..Len(t) /\ Len(s) + (i - Len(s)) = i
    <3>1. t[i - Len(s)] = z
      BY <1>1, <2>1, <2>3
    <3> QED BY <2>3, <3>1, InToSet
  <2> QED BY <1>2, <2>2, <2>3
<1>6. ASSUME NEW z \in ToSet(s) PROVE z \in ToSet(u)
  <2>1. PICK i \in 1..Len(s) : s[i] = z
    BY InToSet
  <2> QED BY <1>1, <1>3, <2>1, InToSet
<1>7. ASSUME NEW z \in ToSet(t) PROVE z \in ToSet(u)
  <2>1. PICK i \in 1..Len(t) : t[i] = z
    BY InToSet
  <2> QED BY <1>1, <1>4, <2>1, InToSet
<1> QED BY <1>1, <1>5, <1>6, <1>7 DEF u

LEMMA JoinedDistinct ==
  ASSUME NEW S, NEW s \in Seq(S), NEW t \in Seq(S), Distinct(s), Distinct(t),
         \A z \in ToSet(s) : z \notin ToSet(t)
  PROVE  Distinct(s \o t)
<1> DEFINE u == s \o t
<1>1. /\ Len(u) = Len(s) + Len(t) /\ Len(s) \in Nat /\ Len(t) \in Nat
      /\ \A i \in 1..Len(u) : /\ i <= Len(s) => i \in 1..Len(s) /\ u[i] = s[i]
                              /\ i > Len(s) => i - Len(s) \in 1..Len(t) /\ u[i] = t[i - Len(s)]
  OBVIOUS
<1> HIDE DEF u
<1>2. SUFFICES ASSUME NEW i \in 1..Len(u), NEW j \in 1..Len(u), u[i] = u[j] PROVE i = j
  BY DEF Distinct, u
<1>3. CASE i <= Len(s) /\ j <= Len(s)
  BY <1>1, <1>2, <1>3 DEF Distinct
<1>4. CASE i > Len(s) /\ j > Len(s)
  <2>1. i - Len(s) = j - Len(s)
    BY <1>1, <1>2, <1>4 DEF Distinct
  <2> QED BY <1>1, <2>1
<1>5. CASE i <= Len(s) /\ j > Len(s)
  <2>1. u[i] \in ToSet(s) /\ u[j] \in ToSet(t)
    BY <1>1, <1>5, InToSet
  <2> QED BY <1>2, <2>1
<1>6. CASE i > Len(s) /\ j <= Len(s)
  <2>1. u[i] \in ToSet(t) /\ u[j] \in ToSet(s)
    BY <1>1, <1>6, InToSet
  <2> QED BY <1>2, <2>1
<1> QED BY <1>1, <1>3, <1>4, <1>5, <1>6

LEMMA BeginningOf ==
  ASSUME NEW S, NEW s \in Seq(S), Distinct(s), NEW m \in 0..Len(s)
  PROVE  /\ SubSeq(s, 1, m) \in Seq(S) /\ Len(SubSeq(s, 1, m)) = m
         /\ Distinct(SubSeq(s, 1, m)) /\ ToSet(SubSeq(s, 1, m)) \subseteq ToSet(s)
<1> DEFINE b == SubSeq(s, 1, m)
<1>1. b \in Seq(S) /\ Len(b) = m /\ \A i \in 1..m : b[i] = s[i] /\ i \in 1..Len(s)
  OBVIOUS
<1> HIDE DEF b
<1>2. Distinct(b)
  BY <1>1 DEF Distinct
<1>3. ToSet(b) \subseteq ToSet(s)
  BY <1>1, InToSet
<1> QED BY <1>1, <1>2, <1>3 DEF b

------------------------------------------------------------------------------
(* Words that both normalizers fold alike.                                 *)

Plain(w) == /\ w.mark = "none"
            /\ w.word \notin {"APARTMENT", "APT", "SUITE", "STE"}
            /\ w.word \notin UNION {{z, Ending[z]} : z \in DOMAIN Ending}

Street(w) == Rewritten(StreetTypes, w.word)

LEMMA Abbreviations ==
  /\ \A w \in DOMAIN StreetTypes :
       StreetTypes[w] \in {"ST", "AVE", "RD", "DR", "LN", "BLVD", "CT", "PL", "TER", "PKWY",
                           "HWY", "CIR"}
  /\ DOMAIN Units = {"APARTMENT", "SUITE"} /\ DOMAIN Ending = {"TRACE", "PK", "PRK"}
<1>1. \A w \in DOMAIN StreetTypes :
        StreetTypes[w] \in {"ST", "AVE", "RD", "DR", "LN", "BLVD", "CT", "PL", "TER", "PKWY",
                            "HWY", "CIR"}
  BY DEF StreetTypes
<1>2. DOMAIN Units = {"APARTMENT", "SUITE"}
  BY DEF Units
<1>3. DOMAIN Ending = {"TRACE", "PK", "PRK"}
  BY DEF Ending
<1> QED BY <1>1, <1>2, <1>3

LEMMA StreetWords ==
  ASSUME NEW word
  PROVE  \/ Rewritten(StreetTypes, word) = word
         \/ /\ word \in DOMAIN StreetTypes
            /\ Rewritten(StreetTypes, word) = StreetTypes[word]
            /\ Rewritten(StreetTypes, word) \in
                 {"ST", "AVE", "RD", "DR", "LN", "BLVD", "CT", "PL", "TER", "PKWY",
                  "HWY", "CIR"}
BY Abbreviations DEF Rewritten

LEMMA Unfolded ==
  ASSUME NEW word
  PROVE  /\ word \notin {"APARTMENT", "SUITE"} => Rewritten(Units, word) = word
         /\ word \notin {"TRACE", "PK", "PRK"} => Rewritten(Ending, word) = word
BY Abbreviations DEF Rewritten

LEMMA PlainWord ==
  ASSUME NEW w \in Words, Plain(w)
  PROVE  /\ w.word # ""
         /\ Rewritten(Units, Street(w)) = Street(w)
         /\ Rewritten(Ending, Street(w)) = Street(w)
<1>1. w.word # ""
  BY DEF Words, Plain, Marks
<1>2. w.word \notin {"APARTMENT", "SUITE"} /\ w.word \notin {"TRACE", "PK", "PRK"}
  BY DEF Plain, Ending
<1>3. Street(w) \notin {"APARTMENT", "SUITE", "TRACE", "PK", "PRK"}
  BY <1>1, <1>2, StreetWords DEF Street
<1> QED BY <1>1, <1>3, Unfolded

LEMMA NumberKept ==
  ASSUME NEW v, NEW w,
         Rewritten(StreetTypes, v) = Rewritten(StreetTypes, w), v \in Numbered
  PROVE  v = w
<1>1. \A z \in Numbered : z \notin DOMAIN StreetTypes /\ z \notin Range(StreetTypes)
  BY TextAssumption
<1>2. Rewritten(StreetTypes, v) = v
  BY <1>1 DEF Rewritten
<1>3. Rewritten(StreetTypes, w) = w \/ Rewritten(StreetTypes, w) \in Range(StreetTypes)
  BY DEF Rewritten, Range
<1> QED BY <1>1, <1>2, <1>3

LEMMA SeqOfItsOwn ==
  ASSUME NEW n \in Nat, NEW s, DOMAIN s = 1..n, s = [i \in DOMAIN s |-> s[i]]
  PROVE  s \in Seq(ToSet(s)) /\ Len(s) = n
<1>1. \A i \in 1..n : s[i] \in ToSet(s)
  BY DEF ToSet
<1>2. s \in [1..n -> ToSet(s)]
  BY <1>1
<1> QED BY <1>2

(* The first words of a text, if plain, are those of its normal form but   *)
(* for the street types, and what a scan keeps of it begins with them.     *)
LEMMA NormalBegins ==
  ASSUME NEW text \in Texts, NEW m \in 0..Len(text), \A i \in 1..m : Plain(text[i])
  PROVE  LET k == NormalizeAddress(text)
         IN  /\ Len(k) \in m..Len(text) /\ k \in Seq(ToSet(k))
             /\ \A i \in 1..m : k[i] = Street(text[i])
<1> DEFINE at == {i \in DOMAIN text : text[i].word # ""}
           said == Only(text, at)
           base == [i \in DOMAIN said |->
                      Rewritten(Units, Rewritten(StreetTypes, said[i].word))]
           bare == text # <<>> /\ Last(text).word # "" /\ Last(text).mark = "none"
           ends(i) == IF i = Len(base) THEN bare ELSE StartsUnit(base[i + 1])
           k == [i \in DOMAIN base |-> IF ends(i) THEN Rewritten(Ending, base[i]) ELSE base[i]]
<1>1. text \in Seq(Words) /\ DOMAIN text = 1..Len(text) /\ m \in Nat /\ m <= Len(text)
       /\ \A i \in 1..Len(text) : text[i] \in Words
  BY DEF Texts
<1>2. at \in SUBSET (1..Len(text)) /\ 1..m \subseteq at
  <2>1. \A i \in 1..m : i \in 1..Len(text) /\ text[i] \in Words /\ Plain(text[i])
    BY <1>1
  <2>2. \A i \in 1..m : text[i].word # ""
    BY <2>1, PlainWord
  <2> QED BY <1>1, <2>1, <2>2
<1>3. NormalizeAddress(text) = k
  BY DEF NormalizeAddress
<1> HIDE DEF at
<1>4. /\ said \in Seq(Words) /\ Len(said) \in m..Len(text)
      /\ \A i \in 1..m : said[i] = text[i]
  BY <1>1, <1>2, FirstKept
<1> HIDE DEF said
<1>5. DOMAIN said = 1..Len(said) /\ Len(said) \in Nat
  BY <1>4
<1>7. \A i \in 1..m : base[i] = Street(text[i]) /\ Rewritten(Ending, base[i]) = base[i]
  <2> TAKE i \in 1..m
  <2>1. i \in 1..Len(said) /\ said[i] = text[i] /\ text[i] \in Words /\ Plain(text[i])
    BY <1>1, <1>4
  <2>2. base[i] = Rewritten(Units, Street(text[i]))
    BY <1>5, <2>1 DEF Street
  <2> HIDE DEF base
  <2> QED BY <2>1, <2>2, PlainWord
<1>8. DOMAIN base = 1..Len(said)
  BY <1>5
<1> HIDE DEF base, ends
<1>9. DOMAIN k = 1..Len(said) /\ k = [i \in DOMAIN k |-> k[i]]
  BY <1>8
<1>10. \A i \in 1..m : k[i] = Street(text[i])
  <2>1. \A i \in 1..m : i \in 1..Len(said)
    BY <1>4
  <2> QED BY <1>7, <1>8, <2>1
<1> HIDE DEF k
<1>11. k \in Seq(ToSet(k)) /\ Len(k) = Len(said)
  BY <1>5, <1>9, SeqOfItsOwn
<1> QED BY <1>3, <1>4, <1>10, <1>11

LEMMA RawBegins ==
  ASSUME NEW text \in Texts, NEW m \in 0..Len(text), \A i \in 1..m : Plain(text[i])
  PROVE  /\ Len(Raw(text)) \in m..Len(text)
         /\ Raw(text) \in Seq(ToSet(Raw(text)))
         /\ \A i \in 1..m : Raw(text)[i] = text[i]
<1> DEFINE at == {i \in DOMAIN text : text[i].word # "" \/ text[i].mark = "punctuation"}
           kept == Only(text, at)
           r == [i \in DOMAIN kept |->
                   IF kept[i].mark = "like" THEN [kept[i] EXCEPT !.mark = "none"] ELSE kept[i]]
<1>1. text \in Seq(Words) /\ DOMAIN text = 1..Len(text) /\ m \in Nat /\ m <= Len(text)
       /\ \A i \in 1..Len(text) : text[i] \in Words
  BY DEF Texts
<1>2. at \in SUBSET (1..Len(text)) /\ 1..m \subseteq at
  <2>1. \A i \in 1..m : i \in 1..Len(text) /\ text[i] \in Words /\ Plain(text[i])
    BY <1>1
  <2>2. \A i \in 1..m : text[i].word # ""
    BY <2>1, PlainWord
  <2> QED BY <1>1, <2>1, <2>2
<1>3. Raw(text) = r
  BY DEF Raw
<1> HIDE DEF at
<1>4. /\ kept \in Seq(Words) /\ Len(kept) \in m..Len(text)
      /\ \A i \in 1..m : kept[i] = text[i]
  BY <1>1, <1>2, FirstKept
<1> HIDE DEF kept
<1>5. DOMAIN kept = 1..Len(kept) /\ Len(kept) \in Nat
  BY <1>4
<1>8. \A i \in 1..m : r[i] = text[i]
  <2> TAKE i \in 1..m
  <2>1. i \in 1..Len(kept) /\ kept[i] = text[i] /\ text[i].mark = "none"
    BY <1>4 DEF Plain
  <2> QED BY <1>5, <2>1
<1>9. DOMAIN r = 1..Len(kept) /\ r = [i \in DOMAIN r |-> r[i]]
  BY <1>5
<1> HIDE DEF r
<1>10. r \in Seq(ToSet(r)) /\ Len(r) = Len(kept)
  BY <1>5, <1>9, SeqOfItsOwn
<1> QED BY <1>3, <1>4, <1>8, <1>10
LEMMA OnlyTwo == \A n \in Nat : n >= 2 /\ ~(n > 2) => n = 2
OBVIOUS

(* What FoldedAlike says of a text: it is plain as far as a scan compares. *)
LEMMA FoldedIsPlain ==
  ASSUME NEW text \in Texts, FoldedAlike(text)
  PROVE  /\ \A i \in 1..Len(text) : i <= 2 => Plain(text[i])
         /\ text # <<>> =>
              /\ Raw(text) # <<>> /\ Raw(text)[1] = text[1]
              /\ text[1].word \notin Numbered => \A i \in 1..Len(text) : Plain(text[i])
         /\ text = <<>> => Raw(text) = <<>>
<1> DEFINE len == Len(text)
           n == IF Raw(text)[1].word \in Numbered THEN Min({2, len}) ELSE len
<1>1. len \in Nat /\ Min({2, len}) = IF 2 <= len THEN 2 ELSE len
  BY MinOfTwo DEF Texts
<1>2. n \in 0..len /\ \A i \in 1..len : i <= 2 => i <= n
  <2>1. CASE Raw(text)[1].word \in Numbered
    <3>1. n = IF 2 <= len THEN 2 ELSE len
      BY <1>1, <2>1
    <3> HIDE DEF n, len
    <3> QED BY <1>1, <3>1
  <2>2. CASE Raw(text)[1].word \notin Numbered
    <3>1. n = len
      BY <2>2
    <3> HIDE DEF n, len
    <3> QED BY <1>1, <3>1
  <2> QED BY <2>1, <2>2
<1>3. \A i \in 1..n : Plain(text[i])
  BY DEF FoldedAlike, Plain
<1>4. \A i \in 1..len : i <= 2 => Plain(text[i])
  <2> HIDE DEF n, len
  <2>1. \A i \in 1..len : i <= 2 => i \in 1..n
    BY <1>1, <1>2
  <2> QED BY <1>3, <2>1
<1>5. ASSUME text # <<>> PROVE 1 \in 1..len /\ Plain(text[1])
  BY <1>1, <1>4, <1>5 DEF Texts
<1>6. ASSUME text # <<>> PROVE Raw(text) # <<>> /\ Raw(text)[1] = text[1]
  <2>1. 1 \in 0..len /\ \A i \in 1..1 : Plain(text[i])
    BY <1>1, <1>5, <1>6
  <2>2. Len(Raw(text)) \in 1..len /\ \A i \in 1..1 : Raw(text)[i] = text[i]
    BY <2>1, RawBegins
  <2> QED BY <2>2
<1>7. ASSUME text = <<>> PROVE Raw(text) = <<>>
  <2>1. 0 \in 0..len /\ \A i \in 1..0 : Plain(text[i])
    BY <1>1
  <2>2. Len(Raw(text)) \in 0..len /\ Raw(text) \in Seq(ToSet(Raw(text)))
    BY <2>1, RawBegins
  <2>3. len = 0
    BY <1>7
  <2> HIDE DEF len
  <2> QED BY <2>2, <2>3
<1> QED BY <1>3, <1>4, <1>6, <1>7

Compared(k) == IF k[1] \in Numbered /\ Len(k) > 2 THEN 2 ELSE Len(k)

(* What the query compares with, of a text that both normalizers fold      *)
(* alike, is in its normal form.                                           *)
LEMMA PrefixIsNormal ==
  ASSUME NEW text \in Texts, FoldedAlike(text), text # <<>>
  PROVE  LET k == NormalizeAddress(text)
         IN  /\ Len(k) \in Nat \ {0} /\ (text[1].word \in Numbered <=> k[1] \in Numbered)
             /\ StreetNorm(AddressPrefix(text)) =
                  [i \in 1..Compared(k) |-> [word |-> k[i], mark |-> "none"]]
<1> DEFINE k == NormalizeAddress(text)
           len == Len(text)
           m == IF text[1].word \notin Numbered THEN len ELSE IF len < 2 THEN len ELSE 2
           p == AddressPrefix(text)
<1>1. /\ len \in Nat \ {0} /\ DOMAIN text = 1..len /\ m \in 0..len /\ m >= 1
      /\ \A i \in 1..len : text[i] \in Words
  BY DEF Texts
<1>2. \A i \in 1..m : Plain(text[i]) /\ text[i] \in Words
  BY <1>1, FoldedIsPlain
<1> HIDE DEF m
<1>3. Len(k) \in m..len /\ \A i \in 1..m : k[i] = Street(text[i])
  BY <1>1, <1>2, NormalBegins
<1>4. /\ Len(Raw(text)) \in m..len /\ Raw(text) \in Seq(ToSet(Raw(text)))
      /\ \A i \in 1..m : Raw(text)[i] = text[i]
  BY <1>1, <1>2, RawBegins
<1> HIDE DEF k
<1>5. text[1].word \in Numbered <=> k[1] \in Numbered
  <2>1. k[1] = Rewritten(StreetTypes, text[1].word)
    BY <1>1, <1>3 DEF Street
  <2>2. \A z \in Numbered : z \notin DOMAIN StreetTypes /\ z \notin Range(StreetTypes)
    BY TextAssumption
  <2> QED BY <2>1, <2>2 DEF Rewritten, Range
<1>6. Compared(k) = m
  BY <1>1, <1>3, <1>5 DEF Compared, m
<1>7. Len(p) = m /\ DOMAIN p = 1..m /\ \A i \in 1..m : p[i] = text[i]
  <2> DEFINE r == Raw(text)
  <2>1. r # <<>> /\ r[1] = text[1] /\ Len(r) \in Nat /\ Len(r) >= 1
    BY <1>1, <1>4
  <2>2. p = IF text[1].word \in Numbered /\ Len(r) > 2 THEN SubSeq(r, 1, 2) ELSE r
    BY <2>1 DEF AddressPrefix
  <2> HIDE DEF r, p
  <2>3. CASE text[1].word \in Numbered /\ Len(r) > 2
    <3>1. m = 2
      BY <1>1, <1>4, <2>3 DEF m, r
    <3>2. \A i \in 1..2 : SubSeq(r, 1, 2)[i] = r[i]
      BY <1>4, <2>3 DEF r
    <3>3. SubSeq(r, 1, 2) \in Seq(ToSet(r)) /\ Len(SubSeq(r, 1, 2)) = 2
      BY <1>4, <2>3 DEF r
    <3>4. DOMAIN SubSeq(r, 1, 2) = 1..2
      BY <3>3
    <3> QED BY <1>4, <2>2, <2>3, <3>1, <3>2, <3>3, <3>4 DEF r
  <2>4. CASE ~(text[1].word \in Numbered /\ Len(r) > 2)
    <3>1. p = r /\ DOMAIN r = 1..Len(r)
      BY <1>4, <2>2, <2>4 DEF r
    <3>2. Len(r) \in m..len
      BY <1>4 DEF r
    <3>3. Len(r) = m
      <4> HIDE DEF len
      <4>1. CASE text[1].word \notin Numbered
        BY <1>1, <3>2, <4>1 DEF m
      <4>2. CASE text[1].word \in Numbered
        <5>1. Len(r) <= 2 /\ m = IF len < 2 THEN len ELSE 2
          BY <2>1, <2>4, <4>2 DEF m
        <5>2. CASE len < 2
          <6>1. m = 1 /\ len = 1
            BY <1>1, <5>1, <5>2
          <6> QED BY <3>2, <6>1
        <5>3. CASE ~(len < 2)
          <6>1. m = 2
            BY <5>1, <5>3
          <6>2. Len(r) \in 2..len /\ Len(r) <= 2
            BY <3>2, <5>1, <6>1
          <6>3. Len(r) >= 2 /\ ~(Len(r) > 2)
            BY <1>1, <2>1, <6>2
          <6> QED BY <2>1, <6>1, <6>3, OnlyTwo
        <5> QED BY <5>2, <5>3
      <4> QED BY <4>1, <4>2
    <3> QED BY <1>4, <3>1, <3>3 DEF r
  <2> QED BY <2>3, <2>4
<1>8. \A i \in 1..m : [p[i] EXCEPT !.word = Rewritten(StreetTypes, @)]
                        = [word |-> k[i], mark |-> "none"]
  <2> TAKE i \in 1..m
  <2>1. p[i] = text[i] /\ text[i] \in [word : STRING, mark : Marks] /\ text[i].mark = "none"
    BY <1>2, <1>7 DEF Words, Plain
  <2>2. k[i] = Rewritten(StreetTypes, text[i].word)
    BY <1>3 DEF Street
  <2> QED BY <2>1, <2>2
<1>9. StreetNorm(p) = [i \in 1..m |-> [word |-> k[i], mark |-> "none"]]
  <2>1. StreetNorm(p) = [i \in 1..m |-> [p[i] EXCEPT !.word = Rewritten(StreetTypes, @)]]
    BY <1>7 DEF StreetNorm
  <2> QED BY <1>8, <2>1
<1>10. Len(k) \in Nat \ {0}
  BY <1>1, <1>3
<1> QED BY <1>5, <1>6, <1>9, <1>10 DEF k

(* Whichever spelling an address is scanned with, the same rows are asked  *)
(* for.                                                                    *)
LEMMA SpellingsSelectAlike ==
  ASSUME NEW x \in Texts, NEW y \in Texts, FoldedAlike(x), FoldedAlike(y),
         NormalizeAddress(x) = NormalizeAddress(y)
  PROVE  /\ Raw(x) = <<>> <=> Raw(y) = <<>>
         /\ Raw(x) # <<>> =>
              \A a : Selects(AddressPrefix(x), a) <=> Selects(AddressPrefix(y), a)
<1>1. \A z \in Texts : FoldedAlike(z) =>
        (Raw(z) = <<>> <=> z = <<>>) /\ (z = <<>> <=> Len(NormalizeAddress(z)) = 0)
  <2> TAKE z \in Texts
  <2> HAVE FoldedAlike(z)
  <2>1. Raw(z) = <<>> <=> z = <<>>
    BY FoldedIsPlain
  <2>2. z # <<>> => Len(NormalizeAddress(z)) # 0
    BY PrefixIsNormal
  <2>3. ASSUME z = <<>> PROVE Len(NormalizeAddress(z)) = 0
    <3>1. Len(z) = 0 /\ 0 \in 0..Len(z) /\ \A i \in 1..0 : Plain(z[i])
      BY <2>3
    <3>2. Len(NormalizeAddress(z)) \in 0..Len(z)
      BY <3>1, NormalBegins
    <3> QED BY <3>1, <3>2
  <2> QED BY <2>1, <2>2, <2>3
<1>2. Raw(x) = <<>> <=> Raw(y) = <<>>
  BY <1>1
<1>3. ASSUME Raw(x) # <<>> PROVE StreetNorm(AddressPrefix(x)) = StreetNorm(AddressPrefix(y))
  <2>1. x # <<>> /\ y # <<>>
    BY <1>1, <1>2, <1>3
  <2> QED BY <2>1, PrefixIsNormal
<1> QED BY <1>2, <1>3 DEF Selects

(* A numbered address is asked for with two words, and whatever else is    *)
(* said of the same place begins with them.                                *)
LEMMA SamePlaceSelected ==
  ASSUME NEW x \in Texts, NEW y \in Texts, FoldedAlike(x), FoldedAlike(y),
         Raw(x) # <<>>, Raw(x)[1].word \in Numbered, SamePlace(y, x)
  PROVE  Selects(AddressPrefix(x), y)
<1> DEFINE k == NormalizeAddress(x)
           l == NormalizeAddress(y)
           p == StreetNorm(AddressPrefix(x))
           a == StreetNorm(y)
<1>1. x # <<>> /\ x[1].word \in Numbered
  BY FoldedIsPlain
<1>2. /\ Len(k) \in Nat \ {0} /\ k[1] \in Numbered
      /\ p = [i \in 1..Compared(k) |-> [word |-> k[i], mark |-> "none"]]
  BY <1>1, PrefixIsNormal
<1>3. Len(x) \in Nat /\ Len(y) \in Nat
  BY DEF Texts
<1>4. /\ Len(k) \in 0..Len(x) /\ k \in Seq(ToSet(k))
      /\ Len(l) \in 0..Len(y) /\ l \in Seq(ToSet(l))
  <2>1. \A z \in Texts : 0 \in 0..Len(z) /\ \A i \in 1..0 : Plain(z[i])
    BY DEF Texts
  <2> QED BY <2>1, NormalBegins
<1>5. /\ Len(k) >= 2 /\ Len(l) >= 2 /\ (IsPrefix(l, k) \/ IsPrefix(k, l))
  <2>1. Min({Len(l), Len(k)}) >= 2 /\ (IsPrefix(l, k) \/ IsPrefix(k, l))
    BY DEF SamePlace
  <2>2. Min({Len(l), Len(k)}) = IF Len(l) <= Len(k) THEN Len(l) ELSE Len(k)
    <3> HIDE DEF k, l
    <3> QED BY <1>3, <1>4, MinOfTwo
  <2> HIDE DEF k, l
  <2> QED BY <1>3, <1>4, <2>1, <2>2
<1>6. ASSUME NEW z \in Texts, FoldedAlike(z), 2 <= Len(z), NEW i \in 1..2
      PROVE  /\ NormalizeAddress(z)[i] = Street(z[i])
             /\ z[i] \in [word : STRING, mark : Marks] /\ z[i].mark = "none"
  <2>1. 2 \in 0..Len(z) /\ \A j \in 1..2 : Plain(z[j])
    BY <1>6, FoldedIsPlain DEF Texts
  <2>2. NormalizeAddress(z)[i] = Street(z[i])
    BY <2>1, NormalBegins
  <2>3. i \in 1..Len(z) /\ z[i] \in Words
    BY <1>6 DEF Texts
  <2>4. z[i] \in [word : STRING, mark : Marks]
    BY <2>3 DEF Words
  <2> QED BY <2>1, <2>2, <2>4 DEF Plain
<1>7. k[1] = l[1] /\ k[2] = l[2]
  <2> HIDE DEF k, l
  <2> QED BY <1>4, <1>5 DEF IsPrefix
<1>8. Compared(k) = 2
  <2>1. k[1] \in Numbered /\ Len(k) \in Nat /\ Len(k) >= 2
    BY <1>2, <1>5
  <2> HIDE DEF k
  <2>2. CASE Len(k) > 2
    BY <2>1, <2>2 DEF Compared
  <2>3. CASE ~(Len(k) > 2)
    <3>1. Len(k) = 2
      BY <2>1, <2>3, OnlyTwo
    <3>2. Compared(k) = Len(k)
      BY <2>3 DEF Compared
    <3> QED BY <3>1, <3>2
  <2> QED BY <2>2, <2>3
<1> HIDE DEF p
<1>9. Len(p) = 2 /\ DOMAIN p = 1..2 /\ \A i \in 1..2 : p[i] = [word |-> k[i], mark |-> "none"]
  <2>1. p = [i \in 1..2 |-> [word |-> k[i], mark |-> "none"]]
    BY <1>2, <1>8
  <2>2. DOMAIN p = 1..2 /\ p = [i \in DOMAIN p |-> p[i]]
    BY <2>1
  <2>3. Len(p) = 2
    BY <2>2, SeqOfItsOwn
  <2> QED BY <2>1, <2>2, <2>3
<1>10. Len(y) >= 2
  BY <1>3, <1>4, <1>5
<1>11. \A i \in 1..2 : a[i] = [word |-> k[i], mark |-> "none"]
  <2> TAKE i \in 1..2
  <2>1. /\ l[i] = Rewritten(StreetTypes, y[i].word) /\ y[i].mark = "none"
        /\ y[i] \in [word : STRING, mark : Marks]
    BY <1>6, <1>10 DEF Street
  <2>2. i \in DOMAIN y
    BY <1>10 DEF Texts
  <2>3. a[i] = [y[i] EXCEPT !.word = Rewritten(StreetTypes, @)]
    BY <2>2 DEF StreetNorm
  <2>4. l[i] = k[i]
    BY <1>7
  <2> HIDE DEF a, k, l
  <2> QED BY <2>1, <2>3, <2>4
<1>12. Len(a) = Len(y)
  <2>1. DOMAIN a = 1..Len(y) /\ a = [i \in DOMAIN a |-> a[i]]
    BY DEF StreetNorm, Texts
  <2> HIDE DEF a
  <2> QED BY <1>3, <2>1, SeqOfItsOwn
<1> HIDE DEF a, k
<1>13. Starts(p[2], a[2])
  BY <1>9, <1>11 DEF Starts
<1> QED BY <1>9, <1>10, <1>11, <1>12, <1>13 DEF Selects, p, a
------------------------------------------------------------------------------
(* The rows of an address, by their ids.                                   *)

LEMMA RowFacts ==
  ASSUME address \in Addresses
  PROVE  /\ address.rows \subseteq Rows /\ IsFiniteSet(address.rows)
         /\ \A r, q \in address.rows : r.id = q.id => r = q
         /\ \A r \in address.rows :
              /\ r.id \in Nat /\ r.city \in Nat /\ r.state \in Nat /\ r.name \in Nat
              /\ r.text \in Texts /\ r.table \in ToSet(Tables) /\ r.feeds \in SUBSET Feeds
         /\ None \notin address.spellings
         /\ \A x, y \in address.spellings :
              x \in Texts /\ NormalizeAddress(x) = NormalizeAddress(y)
         /\ MaxRows \in Nat \ {0}
<1>1. address.rows \subseteq Rows
  BY AddressAssumption
<1>2. \A r \in Rows : /\ r.id \in Nat /\ r.city \in Nat /\ r.state \in Nat /\ r.name \in Nat
                      /\ r.text \in Texts /\ r.table \in ToSet(Tables)
                      /\ r.feeds \in SUBSET Feeds
  BY DEF Rows
<1> QED BY <1>1, <1>2, AddressAssumption

IdKey(S) == [r \in S |-> r.id]

LEMMA IdKeys ==
  ASSUME address \in Addresses, NEW S \in SUBSET address.rows
  PROVE  /\ IsFiniteSet(S) /\ IdKey(S) \in [S -> Int]
         /\ \A r, q \in S : IdKey(S)[r] = IdKey(S)[q] => r = q
         /\ \A r \in S : /\ IdKey(S)[r] = r.id
                         /\ RankBy(S, IdKey(S), r) = Cardinality({q \in S : q.id <= r.id})
<1>1. IsFiniteSet(S) /\ \A r \in S : r.id \in Nat
  BY RowFacts, FS_Subset
<1>2. \A r \in S : IdKey(S)[r] = r.id
  BY DEF IdKey
<1>3. IdKey(S) \in [S -> Int]
  BY <1>1 DEF IdKey
<1>4. \A r, q \in S : IdKey(S)[r] = IdKey(S)[q] => r = q
  BY <1>2, RowFacts
<1>5. ASSUME NEW r \in S
      PROVE  RankBy(S, IdKey(S), r) = Cardinality({q \in S : q.id <= r.id})
  <2>1. {q \in S : IdKey(S)[q] <= IdKey(S)[r]} = {q \in S : q.id <= r.id}
    BY <1>2
  <2> QED BY <2>1 DEF RankBy
<1> QED BY <1>1, <1>2, <1>3, <1>4, <1>5

LEMMA InOrderFacts ==
  ASSUME address \in Addresses, NEW S \in SUBSET address.rows
  PROVE  LET s == InIdOrder(S)
         IN  /\ s \in Seq(address.rows) /\ Len(s) = Cardinality(S) /\ ToSet(s) = S
             /\ DOMAIN s = 1..Len(s) /\ Len(s) \in Nat
             /\ \A i, j \in 1..Len(s) : i < j => s[i].id < s[j].id
<1> DEFINE key == IdKey(S)
           s == InKeyOrder(S, key)
<1>1. /\ IsFiniteSet(S) /\ key \in [S -> Int]
      /\ \A r, q \in S : key[r] = key[q] => r = q
      /\ \A r \in S : /\ key[r] = r.id
                      /\ RankBy(S, key, r) = Cardinality({q \in S : q.id <= r.id})
  BY IdKeys
<1>2. InIdOrder(S) = s
  BY <1>1 DEF InIdOrder, InKeyOrder
<1> HIDE DEF key
<1>3. /\ s \in Seq(S) /\ Len(s) = Cardinality(S) /\ ToSet(s) = S
      /\ DOMAIN s = 1..Len(s)
      /\ \A i, j \in 1..Len(s) : i < j => key[s[i]] < key[s[j]]
  BY <1>1, RankedSeq
<1> HIDE DEF s
<1>4. \A i \in 1..Len(s) : s[i] \in S
  BY <1>3, ElementOfSeq
<1>5. s \in Seq(address.rows) /\ Len(s) \in Nat
  BY <1>3, SeqMonotonic
<1>6. \A i, j \in 1..Len(s) : i < j => s[i].id < s[j].id
  BY <1>1, <1>3, <1>4
<1> QED BY <1>2, <1>3, <1>5, <1>6

(* Of each group, a query returns the rows of least id, up to the budget.  *)
LEMMA LeastIds ==
  ASSUME address \in Addresses, NEW S \in SUBSET address.rows
  PROVE  LET T == {r \in S : Cardinality({q \in S : q.id <= r.id}) <= MaxRows}
         IN  IsFiniteSet(T) /\ Cardinality(T) = Min({MaxRows, Cardinality(S)})
<1> DEFINE key == IdKey(S)
           T == {r \in S : Cardinality({q \in S : q.id <= r.id}) <= MaxRows}
<1>1. /\ IsFiniteSet(S) /\ key \in [S -> Int]
      /\ \A r, q \in S : key[r] = key[q] => r = q
      /\ \A r \in S : RankBy(S, key, r) = Cardinality({q \in S : q.id <= r.id})
  BY IdKeys
<1> HIDE DEF key
<1>2. T = {r \in S : RankBy(S, key, r) <= MaxRows}
  BY <1>1
<1>3. MaxRows \in Nat
  BY RowFacts
<1> HIDE DEF T
<1>4. IsFiniteSet(T) /\ Cardinality(T) = Min({MaxRows, Cardinality(S)})
  BY <1>1, <1>2, <1>3, LeastOf
<1> QED BY <1>4 DEF T

LEMMA ScanFacts ==
  ASSUME address \in Addresses, NEW t, NEW x
  PROVE  /\ CollapsedScan(t, x) \subseteq address.rows /\ IsFiniteSet(CollapsedScan(t, x))
         /\ \A r \in CollapsedScan(t, x) : r.table = t
<1>1. CollapsedScan(t, x) \subseteq address.rows
  BY DEF CollapsedScan, Matching, AtAddress
<1>2. \A r \in CollapsedScan(t, x) : r.table = t
  BY DEF CollapsedScan, Matching
<1> QED BY <1>1, <1>2, RowFacts, FS_Subset

------------------------------------------------------------------------------
(* What phase one keeps: of each shape, rows that the queries returned,    *)
(* none of them twice, all of them if they are within the budget.          *)

AllTables == ToSet(Tables)

Returned(x, T, s) ==
  {r \in address.rows : s \in ShapesFor(r) /\ \E t \in T : r \in CollapsedScan(t, x)}

Fetching(x, T, f) ==
  /\ f \in [ZipShapes -> Seq(address.rows)]
  /\ \A s \in ZipShapes : Distinct(f[s]) /\ ToSet(f[s]) = Returned(x, T, s)

Kept(x, f) ==
  /\ f \in [ZipShapes -> Seq(address.rows)]
  /\ \A s \in ZipShapes :
       /\ Distinct(f[s]) /\ ToSet(f[s]) \subseteq Returned(x, AllTables, s)
       /\ Len(f[s]) = Min({MaxRows, Cardinality(Returned(x, AllTables, s))})

LEMMA TablesAre ==
  /\ AllTables = {"records_legacy", "records_new"} /\ Len(Tables) = 2
  /\ Head(Tables) = "records_legacy" /\ Tail(Tables) = <<"records_new">>
  /\ Head(Tail(Tables)) = "records_new" /\ Len(Tail(Tables)) = 1
  /\ Tail(Tables) # Tables /\ Tables # <<>> /\ Tail(Tables) # <<>>
<1>1. Len(Tables) = 2 /\ Tables[1] = "records_legacy" /\ Tables[2] = "records_new"
       /\ Head(Tables) = "records_legacy" /\ Tail(Tables) = <<"records_new">>
       /\ DOMAIN Tables = 1..2
  BY DEF Tables
<1>2. AllTables = {"records_legacy", "records_new"}
  <2>1. AllTables = {Tables[i] : i \in 1..2}
    BY <1>1 DEF AllTables, ToSet
  <2> QED BY <1>1, <2>1
<1>3. Len(<<"records_new">>) = 1 /\ Head(<<"records_new">>) = "records_new"
  OBVIOUS
<1> QED BY <1>1, <1>2, <1>3

LEMMA ReturnedFinite ==
  ASSUME address \in Addresses, NEW x, NEW T, NEW s
  PROVE  /\ Returned(x, T, s) \subseteq address.rows /\ IsFiniteSet(Returned(x, T, s))
         /\ Cardinality(Returned(x, T, s)) \in Nat
<1>1. Returned(x, T, s) \subseteq address.rows
  BY DEF Returned
<1> QED BY <1>1, RowFacts, FS_Subset, FS_CardinalityType

LEMMA FetchingNothing ==
  ASSUME NEW x
  PROVE  Fetching(x, {}, Nothing) /\ Nothing \in [ZipShapes -> Seq(address.rows)]
<1>1. \A s \in ZipShapes : Nothing[s] = <<>>
  BY DEF Nothing
<1>2. Distinct(<<>>) /\ ToSet(<<>>) = {} /\ <<>> \in Seq(address.rows)
  BY DEF Distinct, ToSet
<1>3. \A s : Returned(x, {}, s) = {}
  BY DEF Returned
<1>4. Nothing \in [ZipShapes -> Seq(address.rows)]
  BY <1>2 DEF Nothing
<1> QED BY <1>1, <1>2, <1>3, <1>4 DEF Fetching

(* The rows of one more table.                                             *)
LEMMA FetchTable ==
  ASSUME address \in Addresses, NEW x, NEW T, Fetching(x, T, found), NEW t, t \notin T,
         NEW rows \in SetToSeqs(CollapsedScan(t, x))
  PROVE  Fetching(x, T \cup {t}, Assigned(rows))
<1> DEFINE C == CollapsedScan(t, x)
           at(s) == {i \in DOMAIN rows : s \in ShapesFor(rows[i])}
           new(s) == Only(rows, at(s))
<1>1. C \subseteq address.rows /\ IsFiniteSet(C) /\ \A r \in C : r.table = t
  BY ScanFacts
<1> HIDE DEF C
<1>2. /\ rows \in Seq(C) /\ ToSet(rows) = C /\ DOMAIN rows = 1..Len(rows) /\ Distinct(rows)
  BY <1>1, Listing DEF C, Distinct
<1>3. ASSUME NEW s \in ZipShapes
      PROVE  /\ new(s) \in Seq(address.rows) /\ Distinct(new(s))
             /\ ToSet(new(s)) = {r \in C : s \in ShapesFor(r)}
  <2>1. at(s) \in SUBSET (1..Len(rows))
    BY <1>2
  <2>2. /\ new(s) \in Seq(C) /\ Distinct(new(s)) /\ ToSet(new(s)) = {rows[i] : i \in at(s)}
    BY <1>2, <2>1, PartOf
  <2>3. {rows[i] : i \in at(s)} = {r \in C : s \in ShapesFor(r)}
    <3>1. \A i \in at(s) : rows[i] \in C /\ s \in ShapesFor(rows[i])
      BY <1>2
    <3>2. \A r \in C : \E i \in DOMAIN rows : rows[i] = r
      BY <1>2 DEF ToSet
    <3> QED BY <3>1, <3>2
  <2> QED BY <1>1, <2>2, <2>3, SeqMonotonic
<1>4. \A s \in ZipShapes : Assigned(rows)[s] = found[s] \o new(s)
  BY DEF Assigned
<1> HIDE DEF new, at
<1>5. ASSUME NEW s \in ZipShapes
      PROVE  LET a == Assigned(rows)[s]
             IN  /\ a \in Seq(address.rows) /\ Distinct(a)
                 /\ ToSet(a) = Returned(x, T \cup {t}, s)
  <2> DEFINE f == found[s]
             g == new(s)
             a == f \o g
  <2>1. /\ f \in Seq(address.rows) /\ Distinct(f) /\ ToSet(f) = Returned(x, T, s)
        /\ g \in Seq(address.rows) /\ Distinct(g)
        /\ ToSet(g) = {r \in C : s \in ShapesFor(r)}
    BY <1>3 DEF Fetching
  <2>2. \A r \in ToSet(f) : r \notin ToSet(g)
    BY <1>1, <2>1, ScanFacts DEF Returned
  <2> HIDE DEF f, g
  <2>3. a \in Seq(address.rows) /\ ToSet(a) = ToSet(f) \cup ToSet(g)
    BY <2>1, JoinedSet
  <2>4. Distinct(a)
    BY <2>1, <2>2, JoinedDistinct
  <2>5. ToSet(f) \cup ToSet(g) = Returned(x, T \cup {t}, s)
    BY <1>1, <2>1 DEF Returned, C
  <2> QED BY <1>4, <2>3, <2>4, <2>5 DEF f, g
<1>6. Assigned(rows) \in [ZipShapes -> Seq(address.rows)]
  BY <1>5 DEF Assigned
<1> QED BY <1>5, <1>6 DEF Fetching

(* The budget, applied again.                                              *)
LEMMA TruncatedKept ==
  ASSUME address \in Addresses, NEW x, NEW f, Fetching(x, AllTables, f)
  PROVE  Kept(x, Truncated(f))
<1>1. MaxRows \in Nat
  BY RowFacts
<1>2. ASSUME NEW s \in ZipShapes
      PROVE  LET g == Truncated(f)[s]
                 R == Returned(x, AllTables, s)
             IN  /\ g \in Seq(address.rows) /\ Distinct(g) /\ ToSet(g) \subseteq R
                 /\ Len(g) = Min({MaxRows, Cardinality(R)})
  <2> DEFINE h == f[s]
             R == Returned(x, AllTables, s)
             m == Min({MaxRows, Len(h)})
  <2>1. h \in Seq(address.rows) /\ Distinct(h) /\ ToSet(h) = R
    BY DEF Fetching
  <2>2. Cardinality(R) = Len(h)
    BY <2>1, InjectiveCardinality DEF Distinct
  <2>3. Truncated(f)[s] = SubSeq(h, 1, m)
    BY DEF Truncated
  <2> HIDE DEF h, R
  <2>4. m \in 0..Len(h)
    <3>1. m = IF MaxRows <= Len(h) THEN MaxRows ELSE Len(h)
      BY <1>1, <2>1, MinOfTwo
    <3> HIDE DEF m
    <3> QED BY <1>1, <2>1, <3>1
  <2>5. /\ SubSeq(h, 1, m) \in Seq(address.rows) /\ Len(SubSeq(h, 1, m)) = m
        /\ Distinct(SubSeq(h, 1, m)) /\ ToSet(SubSeq(h, 1, m)) \subseteq ToSet(h)
    BY <2>1, <2>4, BeginningOf
  <2> QED BY <2>1, <2>2, <2>3, <2>5 DEF R
<1>3. Truncated(f) \in [ZipShapes -> Seq(address.rows)]
  BY <1>2 DEF Truncated
<1> QED BY <1>2, <1>3 DEF Kept

(* Within the budget, all.                                                 *)
LEMMA WholeShape ==
  ASSUME address \in Addresses, NEW x, NEW f, Kept(x, f), NEW s \in ZipShapes,
         Cardinality(Returned(x, AllTables, s)) <= MaxRows
  PROVE  ToSet(f[s]) = Returned(x, AllTables, s)
<1> DEFINE R == Returned(x, AllTables, s)
<1>1. IsFiniteSet(R) /\ Cardinality(R) \in Nat /\ MaxRows \in Nat
  BY ReturnedFinite, RowFacts
<1>2. /\ f[s] \in Seq(address.rows) /\ Distinct(f[s]) /\ ToSet(f[s]) \subseteq R
      /\ Len(f[s]) = Min({MaxRows, Cardinality(R)})
  BY DEF Kept
<1>3. Cardinality(ToSet(f[s])) = Len(f[s])
  BY <1>2, InjectiveCardinality DEF Distinct
<1> HIDE DEF R
<1>4. Min({MaxRows, Cardinality(R)}) = Cardinality(R)
  <2>1. Min({MaxRows, Cardinality(R)}) =
          IF MaxRows <= Cardinality(R) THEN MaxRows ELSE Cardinality(R)
    BY <1>1, MinOfTwo
  <2>2. Cardinality(R) <= MaxRows
    BY DEF R
  <2> QED BY <1>1, <2>1, <2>2
<1> QED BY <1>1, <1>2, <1>3, <1>4, FS_Subset DEF R
------------------------------------------------------------------------------
(* The vote depends on the rows that are kept, not on their order.         *)

Listed(f) == /\ f \in [ZipShapes -> Seq(address.rows)]
             /\ \A s \in ZipShapes : Distinct(f[s])

SameRows(f, g) == \A s \in ZipShapes : ToSet(f[s]) = ToSet(g[s])

Voters(f, field, v) ==
  {p \in ZipShapes \X address.rows : p[2] \in ToSet(f[p[1]]) /\ p[2][field] = v}

Cast(f, field) == UNION {{r[field] : r \in ToSet(f[s])} : s \in ZipShapes} \ {0}

LEMMA SixAreFinite ==
  ASSUME NEW a, NEW b, NEW c, NEW d, NEW e, NEW g
  PROVE  IsFiniteSet({a, b, c, d, e, g})
<1>1. IsFiniteSet({}) /\ \A S, x : IsFiniteSet(S) => IsFiniteSet(S \cup {x})
  BY FS_EmptySet, FS_AddElement
<1>2. IsFiniteSet({} \cup {a} \cup {b} \cup {c} \cup {d} \cup {e} \cup {g})
  BY <1>1
<1>3. {} \cup {a} \cup {b} \cup {c} \cup {d} \cup {e} \cup {g} = {a, b, c, d, e, g}
  OBVIOUS
<1> QED BY <1>2, <1>3

LEMMA ZipShapesFinite == IsFiniteSet(ZipShapes)
BY SixAreFinite DEF ZipShapes

LEMMA BallotsAre ==
  ASSUME address \in Addresses, NEW f, Listed(f), NEW field, NEW v
  PROVE  /\ Ballots(f, field, v) = Cardinality(Voters(f, field, v))
         /\ Ballots(f, field, v) \in 0..Cardinality(ZipShapes \X address.rows)
<1> DEFINE at(s) == {j \in DOMAIN f[s] : f[s][j][field] = v}
           B == UNION {{<<s, i>> : i \in at(s)} : s \in ZipShapes}
           V == Voters(f, field, v)
           P == ZipShapes \X address.rows
           g == [p \in B |-> <<p[1], f[p[1]][p[2]]>>]
<1>1. IsFiniteSet(P)
  BY ZipShapesFinite, RowFacts, FS_Product
<1>2. V \in SUBSET P
  BY DEF Voters
<1>3. IsFiniteSet(V) /\ Cardinality(V) <= Cardinality(P) /\ Cardinality(P) \in Nat
       /\ Cardinality(V) \in Nat
  <2> HIDE DEF V, P
  <2> QED BY <1>1, <1>2, FS_Subset, FS_CardinalityType
<1>4. \A s \in ZipShapes : /\ f[s] \in Seq(address.rows) /\ Distinct(f[s])
                           /\ DOMAIN f[s] = 1..Len(f[s])
  BY DEF Listed
<1>5. \A p \in B : /\ p[1] \in ZipShapes /\ p[2] \in 1..Len(f[p[1]]) /\ p = <<p[1], p[2]>>
                   /\ f[p[1]][p[2]][field] = v
  BY <1>4
<1>6. ASSUME NEW s \in ZipShapes, NEW i \in 1..Len(f[s]), f[s][i][field] = v
      PROVE  <<s, i>> \in B
  <2>1. i \in at(s)
    BY <1>4, <1>6
  <2>2. <<s, i>> \in {<<s, j>> : j \in at(s)}
    BY <2>1
  <2> HIDE DEF at
  <2> QED BY <2>2
<1> HIDE DEF B
<1>7. \A p \in B : g[p] \in V
  <2> TAKE p \in B
  <2>1. f[p[1]][p[2]] \in ToSet(f[p[1]]) /\ f[p[1]][p[2]] \in address.rows
    BY <1>4, <1>5, InToSet
  <2> QED BY <1>5, <2>1 DEF Voters
<1>8. \A p, q \in B : g[p] = g[q] => p = q
  <2> TAKE p, q \in B
  <2> HAVE g[p] = g[q]
  <2>1. p[1] = q[1] /\ f[p[1]][p[2]] = f[q[1]][q[2]]
    OBVIOUS
  <2>2. p[2] = q[2]
    BY <1>4, <1>5, <2>1 DEF Distinct
  <2> QED BY <1>5, <2>1, <2>2
<1>9. ASSUME NEW w \in V PROVE \E p \in B : g[p] = w
  <2>1. /\ w[1] \in ZipShapes /\ w[2] \in ToSet(f[w[1]]) /\ w[2][field] = v
        /\ w = <<w[1], w[2]>>
    BY DEF Voters
  <2>2. PICK i \in 1..Len(f[w[1]]) : f[w[1]][i] = w[2]
    BY <1>4, <2>1, InToSet
  <2>3. <<w[1], i>> \in B
    BY <1>6, <2>1, <2>2
  <2>4. g[<<w[1], i>>] = w
    BY <2>1, <2>2, <2>3
  <2> QED BY <2>3, <2>4
<1> HIDE DEF V
<1>10. g \in Injection(B, V) /\ g \in Surjection(B, V)
  <2>1. g \in [B -> V]
    BY <1>7
  <2> HIDE DEF g
  <2> QED BY <1>8, <1>9, <2>1 DEF Injection, IsInjective, Surjection
<1>11. Cardinality(B) = Cardinality(V)
  <2> HIDE DEF g
  <2> QED BY <1>3, <1>10, FS_Injection
<1>12. Ballots(f, field, v) = Cardinality(B)
  BY DEF Ballots, B
<1> QED BY <1>3, <1>11, <1>12 DEF V

LEMMA CastFacts ==
  ASSUME address \in Addresses, NEW f, Listed(f), NEW field \in {"city", "state"}
  PROVE  Cast(f, field) \subseteq Nat
<1>1. \A r \in address.rows : r[field] \in Nat
  <2>1. CASE field = "city"
    BY <2>1, RowFacts
  <2>2. CASE field = "state"
    BY <2>2, RowFacts
  <2> QED BY <2>1, <2>2
<1>2. \A s \in ZipShapes : ToSet(f[s]) \subseteq address.rows
  BY InToSet DEF Listed
<1> QED BY <1>1, <1>2 DEF Cast

(* The most named value, and the least of those.                           *)
LEMMA VoteIs ==
  ASSUME address \in Addresses, NEW f, Listed(f), NEW field \in {"city", "state"}
  PROVE  /\ Cast(f, field) = {} => Vote(f, field) = 0
         /\ Cast(f, field) # {} =>
              /\ Vote(f, field) \in Cast(f, field)
              /\ \A w \in Cast(f, field) :
                   \/ Ballots(f, field, Vote(f, field)) > Ballots(f, field, w)
                   \/ /\ Ballots(f, field, Vote(f, field)) = Ballots(f, field, w)
                      /\ Vote(f, field) <= w
         /\ Vote(f, field) \in Nat
<1> DEFINE C == Cast(f, field)
           b(v) == Ballots(f, field, v)
           wins(v) == \A w \in C : b(v) > b(w) \/ (b(v) = b(w) /\ v <= w)
           N == Cardinality(ZipShapes \X address.rows)
<1>1. Vote(f, field) = IF C = {} THEN 0 ELSE CHOOSE v \in C : wins(v)
  BY DEF Vote, Cast
<1>2. C \subseteq Nat
  BY CastFacts
<1>3. \A v : b(v) \in 0..N
  BY BallotsAre
<1>4. N \in Nat
  BY ZipShapesFinite, RowFacts, FS_Product, FS_CardinalityType
<1> HIDE DEF C, b, N
<1>5. ASSUME C # {} PROVE \E v \in C : wins(v)
  <2> DEFINE counts == {b(v) : v \in C}
  <2>1. counts \subseteq 0..N /\ counts # {}
    BY <1>3, <1>5
  <2> HIDE DEF counts
  <2>2. Max(counts) \in counts /\ \A n \in counts : n <= Max(counts)
    BY <1>4, <2>1, GreatestNatural
  <2> DEFINE best == {v \in C : b(v) = Max(counts)}
  <2>3. best \subseteq Nat /\ best # {}
    BY <1>2, <2>2 DEF counts
  <2>4. PICK v \in best : \A w \in best : v <= w
    <3> HIDE DEF best
    <3> QED BY <2>3, LeastNatural
  <2>5. \A w \in C : b(w) \in Nat /\ b(w) <= b(v) /\ (b(w) = b(v) => v <= w)
    BY <1>3, <2>2, <2>4 DEF counts
  <2>6. b(v) \in Nat
    BY <1>3
  <2> HIDE DEF best
  <2>7. wins(v)
    BY <2>5, <2>6
  <2>8. v \in C
    BY DEF best
  <2> QED BY <2>7, <2>8
<1>6. C # {} => Vote(f, field) \in C /\ wins(Vote(f, field))
  <2> HIDE DEF wins
  <2> QED BY <1>1, <1>5
<1>7. Vote(f, field) \in Nat
  <2>1. CASE C = {}
    BY <1>1, <2>1
  <2>2. CASE C # {}
    BY <1>2, <1>6, <2>2
  <2> QED BY <2>1, <2>2
<1> QED BY <1>1, <1>6, <1>7 DEF C, b

LEMMA VotesAgree ==
  ASSUME address \in Addresses, NEW f, NEW g, Listed(f), Listed(g), SameRows(f, g),
         NEW field \in {"city", "state"}
  PROVE  Vote(f, field) = Vote(g, field)
<1> DEFINE C == Cast(f, field)
           v == Vote(f, field)
           w == Vote(g, field)
<1>1. Cast(g, field) = C
  BY DEF Cast, SameRows
<1>2. \A z : Ballots(f, field, z) = Ballots(g, field, z)
  <2> TAKE z
  <2>1. Voters(f, field, z) = Voters(g, field, z)
    BY DEF Voters, SameRows
  <2> QED BY <2>1, BallotsAre
<1>3. CASE C = {}
  BY <1>1, <1>3, VoteIs
<1>4. CASE C # {}
  <2>1. /\ v \in C /\ w \in C /\ v \in Nat /\ w \in Nat
        /\ Ballots(f, field, v) \in Nat /\ Ballots(f, field, w) \in Nat
    BY <1>1, <1>4, VoteIs, BallotsAre
  <2>2. \/ Ballots(f, field, v) > Ballots(f, field, w)
        \/ Ballots(f, field, v) = Ballots(f, field, w) /\ v <= w
    BY <1>4, <2>1, VoteIs
  <2>3. \/ Ballots(g, field, w) > Ballots(g, field, v)
        \/ Ballots(g, field, w) = Ballots(g, field, v) /\ w <= v
    BY <1>1, <1>4, <2>1, VoteIs
  <2>4. \/ Ballots(f, field, w) > Ballots(f, field, v)
        \/ Ballots(f, field, w) = Ballots(f, field, v) /\ w <= v
    BY <1>2, <2>3
  <2> HIDE DEF v, w
  <2>5. v = w
    BY <2>1, <2>2, <2>4
  <2> QED BY <2>5 DEF v, w
<1> QED BY <1>3, <1>4
------------------------------------------------------------------------------
(* The invariant. A bundle is what some scan materializes, and a handle is *)
(* one of such a bundle, though perhaps of none that is still there.       *)

Fetched(x, f, rows) ==
  LET T == TaxMatching(x, City(f), State(f))
  IN  /\ rows \in Seq(address.rows) /\ Distinct(rows) /\ ToSet(rows) \subseteq T
      /\ Len(rows) = Min({MaxRows, Cardinality(T)})

Outcome(x, f, rows, late) ==
  /\ x \in address.spellings
  /\ \/ Raw(x) = <<>> /\ f = Nothing /\ rows = <<>> /\ late = FALSE
     \/ /\ Raw(x) # <<>> /\ Kept(x, f)
        /\ \/ NoTaxQuery(f) /\ rows = <<>> /\ late = FALSE
           \/ ~NoTaxQuery(f) /\ rows = <<>> /\ late = TRUE
           \/ ~NoTaxQuery(f) /\ Fetched(x, f, rows) /\ late = FALSE

Scanned(b) ==
  \E x, f, rows, late : Outcome(x, f, rows, late) /\ b = Materialized(x, f, rows, late)

(* h is handed out by a listing of b.                                      *)
HandleOf(h, b) ==
  \/ /\ h.kind = "record" /\ h.shape \in Shapes /\ h.at \in 1..Len(b.rows[h.shape])
     /\ h.is = b.rows[h.shape][h.at].id
  \/ /\ h.kind = "person" /\ h.at \in DOMAIN People(b) /\ h.is = People(b)[h.at]
     /\ h.timedOut = b.timedOut

Scanning ==
  /\ stage \in {"idle", "zip", "tax"}
  /\ stage = "idle" => asked = None /\ todo = <<>> /\ found = Nothing
  /\ stage # "idle" => asked \in address.spellings /\ Raw(asked) # <<>>
  /\ stage = "zip" => \/ todo = Tables /\ Fetching(asked, {}, found)
                      \/ todo = Tail(Tables) /\ Fetching(asked, {"records_legacy"}, found)
  /\ stage = "tax" => todo = <<>> /\ Kept(asked, found) /\ ~NoTaxQuery(found)

IInv ==
  /\ address \in Addresses
  /\ Scanning
  /\ bundle # None => Scanned(bundle)
  /\ held # None => \E b : Scanned(b) /\ HandleOf(held, b)

LEMMA TaxFinite ==
  ASSUME address \in Addresses, NEW x, NEW city, NEW state
  PROVE  LET T == TaxMatching(x, city, state)
         IN  T \subseteq address.rows /\ IsFiniteSet(T) /\ Cardinality(T) \in Nat
<1>1. TaxMatching(x, city, state) \subseteq address.rows
  BY DEF TaxMatching, AtAddress
<1> QED BY <1>1, RowFacts, FS_Subset, FS_CardinalityType

LEMMA KeptListed ==
  ASSUME NEW x, NEW f, Kept(x, f) PROVE Listed(f)
BY DEF Kept, Listed

LEMMA NothingListed == Listed(Nothing) /\ \A s \in ZipShapes : Nothing[s] = <<>>
<1>1. Nothing \in [ZipShapes -> Seq(address.rows)] /\ \A s \in ZipShapes : Nothing[s] = <<>>
  BY FetchingNothing DEF Nothing
<1> QED BY <1>1 DEF Listed, Distinct

(* The rows of a scan are of the address, within the budget.               *)
LEMMA OutcomeFacts ==
  ASSUME address \in Addresses, NEW x, NEW f, NEW rows, NEW late, Outcome(x, f, rows, late)
  PROVE  /\ x \in address.spellings /\ late \in BOOLEAN
         /\ Listed(f) /\ \A s \in ZipShapes : Len(f[s]) <= MaxRows /\ Len(f[s]) \in Nat
         /\ rows \in Seq(address.rows) /\ Distinct(rows) /\ Len(rows) <= MaxRows
<1>1. MaxRows \in Nat
  BY RowFacts
<1>2. \A n \in Nat : Min({MaxRows, n}) <= MaxRows
  BY <1>1, MinOfTwo
<1>3. <<>> \in Seq(address.rows) /\ Distinct(<<>>) /\ Len(<<>>) <= MaxRows
  BY <1>1 DEF Distinct
<1>4. Listed(f) /\ \A s \in ZipShapes : Len(f[s]) <= MaxRows
  <2>1. CASE f = Nothing
    BY <1>3, <2>1, NothingListed
  <2>2. CASE Kept(x, f)
    <3>1. \A s \in ZipShapes : Len(f[s]) <= MaxRows
      BY <1>2, <2>2, ReturnedFinite DEF Kept
    <3> QED BY <2>2, <3>1, KeptListed
  <2> QED BY <2>1, <2>2 DEF Outcome
<1>5. rows \in Seq(address.rows) /\ Distinct(rows) /\ Len(rows) <= MaxRows
  <2>1. CASE rows = <<>>
    BY <1>3, <2>1
  <2>2. CASE Fetched(x, f, rows)
    BY <1>2, <2>2, TaxFinite DEF Fetched
  <2> QED BY <2>1, <2>2 DEF Outcome
<1>6. \A s \in ZipShapes : Len(f[s]) \in Nat
  BY <1>4 DEF Listed
<1> QED BY <1>4, <1>5, <1>6 DEF Outcome

Usable(rows) == Only(rows, {i \in DOMAIN rows : rows[i].usable})

LEMMA UsableFacts ==
  ASSUME address \in Addresses, NEW rows \in Seq(address.rows), Distinct(rows)
  PROVE  /\ Usable(rows) \in Seq(address.rows) /\ Distinct(Usable(rows))
         /\ Len(Usable(rows)) \in 0..Len(rows)
         /\ ToSet(Usable(rows)) = {r \in ToSet(rows) : r.usable}
<1> DEFINE at == {i \in DOMAIN rows : rows[i].usable}
<1>1. at \in SUBSET (1..Len(rows))
  OBVIOUS
<1>2. /\ Only(rows, at) \in Seq(address.rows) /\ Distinct(Only(rows, at))
      /\ Len(Only(rows, at)) <= Len(rows) /\ ToSet(Only(rows, at)) = {rows[i] : i \in at}
  <2> HIDE DEF at
  <2> QED BY <1>1, PartOf
<1>3. {rows[i] : i \in at} = {r \in ToSet(rows) : r.usable}
  BY DEF ToSet
<1> QED BY <1>2, <1>3 DEF Usable

(* What materialize() makes of them.                                       *)
LEMMA BundleFacts ==
  ASSUME address \in Addresses, NEW x, NEW f, NEW rows, NEW late, Outcome(x, f, rows, late)
  PROVE  LET b == Materialized(x, f, rows, late)
         IN  /\ b.city = City(f) /\ b.state = State(f) /\ b.timedOut = late /\ b.asked = x
             /\ b.city \in Nat /\ b.state \in Nat
             /\ b.dropped = Len(rows) - Len(Usable(rows)) /\ b.dropped \in 0..MaxRows
             /\ Len(b.rows["tax"]) = Len(Usable(rows))
             /\ ToSet(b.rows["tax"]) = ToSet(Usable(rows))
             /\ b.rows["tax"] = InIdOrder(ToSet(Usable(rows)))
             /\ \A s \in ZipShapes :
                  /\ b.rows[s] = InIdOrder(ToSet(f[s])) /\ Len(b.rows[s]) = Len(f[s])
             /\ \A s \in Shapes :
                  /\ b.rows[s] \in Seq(address.rows) /\ Len(b.rows[s]) <= MaxRows
                  /\ DOMAIN b.rows[s] = 1..Len(b.rows[s])
                  /\ \A i, j \in 1..Len(b.rows[s]) :
                       i < j => b.rows[s][i].id < b.rows[s][j].id
<1> DEFINE b == Materialized(x, f, rows, late)
<1>1. /\ Listed(f) /\ \A s \in ZipShapes : Len(f[s]) <= MaxRows /\ Len(f[s]) \in Nat
      /\ rows \in Seq(address.rows) /\ Distinct(rows) /\ Len(rows) <= MaxRows
  BY OutcomeFacts
<1>2. MaxRows \in Nat
  BY RowFacts
<1>3. /\ Usable(rows) \in Seq(address.rows) /\ Distinct(Usable(rows))
      /\ Len(Usable(rows)) \in 0..Len(rows)
  BY <1>1, UsableFacts
<1>4. /\ b.rows = [s \in Shapes |-> StableOrder(IF s = "tax" THEN Usable(rows) ELSE f[s])]
      /\ b.dropped = Len(rows) - Len(Usable(rows))
      /\ b.city = City(f) /\ b.state = State(f) /\ b.timedOut = late /\ b.asked = x
  BY DEF Materialized, Usable
<1> HIDE DEF b
<1>5. City(f) \in Nat /\ State(f) \in Nat
  BY <1>1, VoteIs DEF City, State
<1>6. b.dropped \in 0..MaxRows
  BY <1>1, <1>2, <1>3, <1>4
<1>7. ASSUME NEW q \in Seq(address.rows), Distinct(q)
      PROVE  LET o == InIdOrder(ToSet(q))
             IN  /\ o \in Seq(address.rows) /\ Len(o) = Len(q) /\ DOMAIN o = 1..Len(o)
                 /\ ToSet(o) = ToSet(q)
                 /\ \A i, j \in 1..Len(o) : i < j => o[i].id < o[j].id
  <2>1. ToSet(q) \subseteq address.rows /\ Cardinality(ToSet(q)) = Len(q)
    BY <1>7, InToSet, InjectiveCardinality DEF Distinct
  <2> QED BY <2>1, InOrderFacts
<1>8. b.rows["tax"] = InIdOrder(ToSet(Usable(rows)))
  BY <1>4 DEF Shapes, StableOrder
<1>9. \A s \in ZipShapes : b.rows[s] = InIdOrder(ToSet(f[s]))
  <2> TAKE s \in ZipShapes
  <2>1. s \in Shapes /\ s # "tax"
    BY DEF Shapes, ZipShapes
  <2> QED BY <1>4, <2>1 DEF StableOrder
<1>10. \A s \in ZipShapes : f[s] \in Seq(address.rows) /\ Distinct(f[s])
  BY <1>1 DEF Listed
<1>11. \A s \in Shapes : s \in ZipShapes \/ s = "tax"
  BY DEF Shapes
<1>12. ASSUME NEW s \in Shapes
       PROVE  /\ b.rows[s] \in Seq(address.rows) /\ Len(b.rows[s]) <= MaxRows
              /\ DOMAIN b.rows[s] = 1..Len(b.rows[s])
              /\ \A i, j \in 1..Len(b.rows[s]) :
                   i < j => b.rows[s][i].id < b.rows[s][j].id
  <2>1. CASE s \in ZipShapes
    <3>1. b.rows[s] = InIdOrder(ToSet(f[s])) /\ f[s] \in Seq(address.rows) /\ Distinct(f[s])
           /\ Len(f[s]) <= MaxRows
      BY <1>1, <1>9, <1>10, <2>1
    <3> QED BY <1>7, <3>1
  <2>2. CASE s = "tax"
    <3>1. Len(Usable(rows)) <= MaxRows
      BY <1>1, <1>2, <1>3
    <3> QED BY <1>3, <1>7, <1>8, <2>2, <3>1
  <2> QED BY <1>11, <2>1, <2>2
<1>13. \A s \in ZipShapes : Len(b.rows[s]) = Len(f[s])
  BY <1>7, <1>9, <1>10
<1>14. Len(b.rows["tax"]) = Len(Usable(rows)) /\ ToSet(b.rows["tax"]) = ToSet(Usable(rows))
  BY <1>3, <1>7, <1>8
<1> QED BY <1>4, <1>5, <1>6, <1>8, <1>9, <1>12, <1>13, <1>14 DEF b

(* The invariant is about the address, which no step changes.              *)
LEMMA AddressStays ==
  ASSUME address' = address
  PROVE  \A x, f, rows, late : Outcome(x, f, rows, late)' <=> Outcome(x, f, rows, late)
<1>1. ASSUME NEW t, NEW x PROVE CollapsedScan(t, x)' = CollapsedScan(t, x)
  BY DEF CollapsedScan, Matching, AtAddress
<1>2. ASSUME NEW x, NEW T, NEW s PROVE Returned(x, T, s)' = Returned(x, T, s)
  BY <1>1 DEF Returned
<1>3. ASSUME NEW x, NEW f PROVE Kept(x, f)' <=> Kept(x, f)
  BY <1>2 DEF Kept
<1>4. ASSUME NEW x, NEW f, NEW rows PROVE Fetched(x, f, rows)' <=> Fetched(x, f, rows)
  <2>1. TaxMatching(x, City(f), State(f))' = TaxMatching(x, City(f), State(f))
    BY DEF TaxMatching, AtAddress
  <2> QED BY <2>1 DEF Fetched
<1>5. ASSUME NEW x, NEW f, NEW rows, NEW late
      PROVE  Outcome(x, f, rows, late)' <=> Outcome(x, f, rows, late)
  BY <1>3, <1>4 DEF Outcome
<1> QED BY <1>5

LEMMA NowScanning ==
  ASSUME address' = address, NEW x, NEW f, asked' = x, found' = f
  PROVE  /\ \A T : Fetching(x, T, f) => Fetching(asked, T, found)'
         /\ Kept(x, f) => Kept(asked, found)'
<1>1. ASSUME NEW t PROVE CollapsedScan(t, asked)' = CollapsedScan(t, x)
  BY DEF CollapsedScan, Matching, AtAddress
<1>2. ASSUME NEW T, NEW s PROVE Returned(asked, T, s)' = Returned(x, T, s)
  BY <1>1 DEF Returned
<1>3. \A T : Fetching(x, T, f) => Fetching(asked, T, found)'
  BY <1>2 DEF Fetching
<1>4. Kept(x, f) => Kept(asked, found)'
  BY <1>2 DEF Kept
<1> QED BY <1>3, <1>4

LEMMA ScannedStays ==
  ASSUME address' = address, NEW b PROVE Scanned(b)' <=> Scanned(b)
BY AddressStays DEF Scanned

LEMMA HeldStays ==
  ASSUME address' = address, held' = held, held # None => \E b : Scanned(b) /\ HandleOf(held, b)
  PROVE  (held # None => \E b : Scanned(b) /\ HandleOf(held, b))'
BY ScannedStays

LEMMA BundleStays ==
  ASSUME address' = address, bundle' = bundle, bundle # None => Scanned(bundle)
  PROVE  (bundle # None => Scanned(bundle))'
<1>1. Scanned(bundle)' <=> Scanned(bundle)
  BY AddressStays DEF Scanned
<1> QED BY <1>1

(* A scan that ends with a bundle.                                         *)
LEMMA StoreStep ==
  ASSUME address' = address, address \in Addresses,
         NEW x, NEW f, NEW rows, NEW late, Outcome(x, f, rows, late),
         Store(Materialized(x, f, rows, late))
  PROVE  Scanning' /\ (bundle # None => Scanned(bundle))'
<1>1. Scanning'
  BY DEF Store, Scanning
<1>2. Outcome(x, f, rows, late)' /\ bundle' = Materialized(x, f, rows, late)
  BY AddressStays DEF Store
<1>3. Scanned(bundle)'
  BY <1>2 DEF Scanned
<1> QED BY <1>1, <1>3

LEMMA InitInv == Init => IInv
<1> SUFFICES ASSUME Init PROVE IInv
  OBVIOUS
<1> QED BY DEF Init, IInv, Scanning

LEMMA BeginStep ==
  ASSUME IInv, NEW x \in address.spellings, Begin(x) PROVE IInv'
<1>1. address' = address /\ bundle' = bundle /\ held' = held
  BY DEF Begin
<1>2. Scanning'
  <2>1. /\ stage' = "zip" /\ asked' = x /\ todo' = Tables /\ found' = Nothing /\ Raw(x) # <<>>
    BY DEF Begin, IInv, Scanning
  <2>2. Fetching(asked, {}, found)'
    <3>1. PICK f : f = Nothing
      OBVIOUS
    <3> QED BY <1>1, <2>1, <3>1, FetchingNothing, NowScanning
  <2> QED BY <1>1, <2>1, <2>2 DEF Scanning
<1> QED BY <1>1, <1>2, HeldStays, BundleStays DEF IInv

LEMMA BlankStep ==
  ASSUME IInv, NEW x \in address.spellings, MaterializeBlank(x) PROVE IInv'
<1>1. address' = address /\ held' = held /\ address \in Addresses
       /\ Store(Materialized(x, Nothing, <<>>, FALSE)) /\ Raw(x) = <<>>
  BY DEF MaterializeBlank, IInv
<1>2. Outcome(x, Nothing, <<>>, FALSE)
  BY <1>1 DEF Outcome
<1>3. Scanning' /\ (bundle # None => Scanned(bundle))'
  BY <1>1, <1>2, StoreStep
<1> QED BY <1>1, <1>3, HeldStays DEF IInv

LEMMA ScanTableStep ==
  ASSUME IInv, ScanTable PROVE IInv'
<1>1. address' = address /\ held' = held /\ address \in Addresses
  BY DEF ScanTable, IInv
<1>2. PICK rows \in SetToSeqs(CollapsedScan(Head(todo), asked)) :
        LET f == Assigned(rows)
            z == Truncated(f)
        IN  \/ /\ Len(todo) > 1
               /\ found' = f /\ todo' = Tail(todo)
               /\ UNCHANGED <<stage, asked, bundle>>
            \/ /\ Len(todo) = 1 /\ NoTaxQuery(z)
               /\ Store(Materialized(asked, z, <<>>, FALSE))
            \/ /\ Len(todo) = 1 /\ ~NoTaxQuery(z)
               /\ found' = z /\ todo' = <<>> /\ stage' = "tax"
               /\ UNCHANGED <<asked, bundle>>
  BY DEF ScanTable
<1> DEFINE f == Assigned(rows)
           z == Truncated(f)
<1>3. /\ stage = "zip" /\ asked \in address.spellings /\ Raw(asked) # <<>>
      /\ \/ todo = Tables /\ Fetching(asked, {}, found)
         \/ todo = Tail(Tables) /\ Fetching(asked, {"records_legacy"}, found)
  BY DEF ScanTable, IInv, Scanning
<1>4. CASE todo = Tables /\ Fetching(asked, {}, found)
  <2>1. Fetching(asked, {"records_legacy"}, f)
    <3>1. Head(todo) = "records_legacy"
      BY <1>4, TablesAre
    <3>2. Fetching(asked, {} \cup {"records_legacy"}, f)
      BY <1>1, <1>2, <1>4, <3>1, FetchTable
    <3>3. {} \cup {"records_legacy"} = {"records_legacy"}
      OBVIOUS
    <3> QED BY <3>2, <3>3
  <2>2. /\ found' = f /\ todo' = Tail(Tables) /\ stage' = "zip" /\ asked' = asked
        /\ bundle' = bundle
    <3>1. Len(todo) = 2
      BY <1>4, TablesAre
    <3> QED BY <1>2, <1>3, <1>4, <3>1
  <2> HIDE DEF f, z
  <2>3. Fetching(asked, {"records_legacy"}, found)'
    <3>1. PICK x, g : x = asked /\ g = f
      OBVIOUS
    <3>2. Fetching(x, {"records_legacy"}, g) /\ asked' = x /\ found' = g
      BY <2>1, <2>2, <3>1
    <3> QED BY <1>1, <3>2, NowScanning
  <2>4. Scanning'
    BY <1>1, <1>3, <2>2, <2>3 DEF Scanning
  <2> QED BY <1>1, <2>2, <2>4, HeldStays, BundleStays DEF IInv
<1>5. CASE todo = Tail(Tables) /\ Fetching(asked, {"records_legacy"}, found)
  <2>1. Kept(asked, z)
    <3>1. Head(todo) = "records_new" /\ "records_new" \notin {"records_legacy"}
      BY <1>5, TablesAre
    <3>2. Fetching(asked, {"records_legacy"} \cup {"records_new"}, f)
      BY <1>1, <1>2, <1>5, <3>1, FetchTable
    <3>3. {"records_legacy"} \cup {"records_new"} = AllTables
      BY TablesAre
    <3> HIDE DEF f
    <3> QED BY <1>1, <3>2, <3>3, TruncatedKept
  <2>2. Len(todo) = 1 /\ ~(Len(todo) > 1)
    <3>1. Len(todo) = 1
      BY <1>5, TablesAre
    <3> QED BY <3>1
  <2>3. \/ NoTaxQuery(z) /\ Store(Materialized(asked, z, <<>>, FALSE))
        \/ /\ ~NoTaxQuery(z) /\ found' = z /\ todo' = <<>> /\ stage' = "tax"
           /\ asked' = asked /\ bundle' = bundle
    BY <1>2, <2>2, Zenon
  <2> HIDE DEF f, z
  <2>4. CASE NoTaxQuery(z) /\ Store(Materialized(asked, z, <<>>, FALSE))
    <3>1. Outcome(asked, z, <<>>, FALSE)
      BY <1>3, <2>1, <2>4 DEF Outcome
    <3>2. Scanning' /\ (bundle # None => Scanned(bundle))'
      BY <1>1, <2>4, <3>1, StoreStep
    <3> QED BY <1>1, <3>2, HeldStays DEF IInv
  <2>5. CASE /\ ~NoTaxQuery(z) /\ found' = z /\ todo' = <<>> /\ stage' = "tax"
             /\ asked' = asked /\ bundle' = bundle
    <3>1. Kept(asked, found)'
      <4>1. PICK x, g : x = asked /\ g = z
        OBVIOUS
      <4>2. Kept(x, g) /\ asked' = x /\ found' = g
        BY <2>1, <2>5, <4>1
      <4> QED BY <1>1, <4>2, NowScanning
    <3>2. Scanning'
      BY <1>1, <1>3, <2>5, <3>1 DEF Scanning
    <3> QED BY <1>1, <2>5, <3>2, HeldStays, BundleStays DEF IInv
  <2> QED BY <2>3, <2>4, <2>5
<1> QED BY <1>3, <1>4, <1>5

LEMMA TaxReturnsStep ==
  ASSUME IInv, TaxReturns PROVE IInv'
<1> DEFINE T == TaxMatching(asked, City(found), State(found))
<1>1. address' = address /\ held' = held /\ address \in Addresses
  BY DEF TaxReturns, IInv
<1>2. PICK S \in SUBSET T :
        /\ Cardinality(S) = Min({MaxRows, Cardinality(T)})
        /\ \E rows \in SetToSeqs(S) : Store(Materialized(asked, found, rows, FALSE))
  BY DEF TaxReturns
<1>3. PICK rows \in SetToSeqs(S) : Store(Materialized(asked, found, rows, FALSE))
  BY <1>2
<1>4. /\ asked \in address.spellings /\ Raw(asked) # <<>> /\ Kept(asked, found)
      /\ ~NoTaxQuery(found)
  BY DEF TaxReturns, IInv, Scanning
<1>5. T \subseteq address.rows /\ IsFiniteSet(T)
  BY <1>1, TaxFinite
<1> HIDE DEF T
<1>6. IsFiniteSet(S) /\ S \subseteq address.rows
  BY <1>5, FS_Subset
<1>7. /\ rows \in Seq(address.rows) /\ Len(rows) = Cardinality(S) /\ ToSet(rows) = S
      /\ Distinct(rows)
  <2>1. /\ rows \in Seq(S) /\ Len(rows) = Cardinality(S) /\ ToSet(rows) = S
        /\ \A i, j \in 1..Len(rows) : rows[i] = rows[j] => i = j
    BY <1>6, Listing
  <2> QED BY <1>6, <2>1, SeqMonotonic DEF Distinct
<1>8. Fetched(asked, found, rows)
  BY <1>2, <1>7 DEF Fetched, T
<1>9. Outcome(asked, found, rows, FALSE)
  BY <1>4, <1>8 DEF Outcome
<1>10. Scanning' /\ (bundle # None => Scanned(bundle))'
  BY <1>1, <1>3, <1>9, StoreStep
<1> QED BY <1>1, <1>10, HeldStays DEF IInv

LEMMA TaxCancelledStep ==
  ASSUME IInv, TaxCancelled PROVE IInv'
<1>1. address' = address /\ held' = held /\ address \in Addresses
       /\ Store(Materialized(asked, found, <<>>, TRUE))
  BY DEF TaxCancelled, IInv
<1>2. Outcome(asked, found, <<>>, TRUE)
  BY DEF TaxCancelled, IInv, Scanning, Outcome
<1>3. Scanning' /\ (bundle # None => Scanned(bundle))'
  BY <1>1, <1>2, StoreStep
<1> QED BY <1>1, <1>3, HeldStays DEF IInv

LEMMA FailStep ==
  ASSUME IInv, Fail PROVE IInv'
<1>1. address' = address /\ bundle' = bundle /\ held' = held /\ Scanning'
  BY DEF Fail, Scanning
<1> QED BY <1>1, HeldStays, BundleStays DEF IInv

(* What does not touch the scan.                                           *)
LEMMA ScanningStays ==
  ASSUME Scanning, UNCHANGED <<address, asked, stage, todo, found>>
  PROVE  Scanning'
<1>1. PICK x, f : x = asked /\ f = found
  OBVIOUS
<1>2. \A T : Fetching(asked, T, found) => Fetching(asked, T, found)'
  BY <1>1, NowScanning
<1>3. Kept(asked, found) => Kept(asked, found)'
  BY <1>1, NowScanning
<1> QED BY <1>2, <1>3 DEF Scanning

LEMMA ExpireStep ==
  ASSUME IInv, Expire PROVE IInv'
<1>1. UNCHANGED <<address, asked, stage, todo, found, held>> /\ bundle' = None
  BY DEF Expire
<1>2. Scanning'
  BY <1>1, ScanningStays DEF IInv
<1> QED BY <1>1, <1>2, HeldStays DEF IInv

LEMMA HoldStep ==
  ASSUME IInv, UNCHANGED <<address, asked, stage, todo, found, bundle>>, bundle # None,
         HandleOf(held', bundle)
  PROVE  IInv'
<1>1. Scanning' /\ address' \in Addresses
  BY ScanningStays DEF IInv
<1>2. (bundle # None => Scanned(bundle))'
  BY BundleStays DEF IInv
<1>3. PICK b : b = bundle
  OBVIOUS
<1>4. Scanned(b)' /\ HandleOf(held', b)
  BY <1>3, ScannedStays DEF IInv
<1> QED BY <1>1, <1>2, <1>4 DEF IInv

LEMMA Materializes ==
  ASSUME IInv, bundle # None
  PROVE  \A s \in Shapes : /\ bundle.rows[s] \in Seq(address.rows)
                           /\ DOMAIN bundle.rows[s] = 1..Len(bundle.rows[s])
<1>1. PICK x, f, rows, late :
        Outcome(x, f, rows, late) /\ bundle = Materialized(x, f, rows, late)
  BY DEF IInv, Scanned
<1> QED BY <1>1, BundleFacts DEF IInv

LEMMA ListRecordsStep ==
  ASSUME IInv, NEW s \in Shapes, NEW offset \in 0..MaxRows, NEW limit \in 1..MaxRows,
         ListRecords(s, offset, limit)
  PROVE  IInv'
<1> DEFINE q == bundle.rows[s]
           last == Min({offset + limit, Len(q)})
           window == SubSeq(q, offset + 1, last)
<1>1. /\ UNCHANGED <<address, asked, stage, todo, found, bundle>> /\ bundle # None
      /\ \E i \in DOMAIN window : held' = RecordHandle(s, offset + i)
  BY DEF ListRecords
<1>2. PICK i \in DOMAIN window : held' = RecordHandle(s, offset + i)
  BY <1>1
<1>3. q \in Seq(address.rows)
  BY <1>1, Materializes
<1>4. offset \in Nat /\ limit \in Nat
  BY RowFacts DEF IInv
<1> HIDE DEF q
<1>5. last \in Int /\ last <= Len(q)
  <2>1. offset + limit \in Int /\ Len(q) \in Int
    BY <1>3, <1>4
  <2>2. last = IF offset + limit <= Len(q) THEN offset + limit ELSE Len(q)
    BY <2>1, MinOfTwo
  <2> HIDE DEF last
  <2> QED BY <2>1, <2>2
<1> HIDE DEF last
<1>6. offset + i \in 1..Len(q)
  <2>1. DOMAIN window = 1..(IF offset + 1 <= last THEN last - offset ELSE 0)
    <3>1. \A k \in (offset + 1)..last : k \in 1..Len(q)
      BY <1>3, <1>4, <1>5
    <3> QED BY <1>3, <1>4, <1>5, <3>1
  <2> QED BY <1>3, <1>4, <1>5, <2>1
<1>7. HandleOf(held', bundle)
  BY <1>2, <1>6 DEF RecordHandle, HandleOf, q
<1> QED BY <1>1, <1>7, HoldStep

LEMMA ListPeopleStep ==
  ASSUME IInv, ListPeople PROVE IInv'
<1>1. /\ UNCHANGED <<address, asked, stage, todo, found, bundle>> /\ bundle # None
      /\ HandleOf(held', bundle)
  BY DEF ListPeople, HandleOf
<1> QED BY <1>1, HoldStep

LEMMA ListPersonRecordsStep ==
  ASSUME IInv, NEW s \in Shapes, ListPersonRecords(s) PROVE IInv'
<1>1. /\ UNCHANGED <<address, asked, stage, todo, found, bundle>> /\ bundle # None
      /\ \E p \in DOMAIN bundle.rows[s] : held' = RecordHandle(s, p)
  BY DEF ListPersonRecords
<1>2. PICK p \in DOMAIN bundle.rows[s] : held' = RecordHandle(s, p)
  BY <1>1
<1>3. p \in 1..Len(bundle.rows[s])
  BY <1>1, Materializes
<1>4. HandleOf(held', bundle)
  BY <1>2, <1>3 DEF RecordHandle, HandleOf
<1> QED BY <1>1, <1>4, HoldStep

LEMMA NextInv == IInv /\ [Next]_vars => IInv'
<1> SUFFICES ASSUME IInv, [Next]_vars PROVE IInv'
  OBVIOUS
<1>1. CASE \E x \in address.spellings : Begin(x) \/ MaterializeBlank(x)
  BY <1>1, BeginStep, BlankStep
<1>2. CASE ScanTable
  BY <1>2, ScanTableStep
<1>3. CASE TaxReturns
  BY <1>3, TaxReturnsStep
<1>4. CASE TaxCancelled
  BY <1>4, TaxCancelledStep
<1>5. CASE Fail
  BY <1>5, FailStep
<1>6. CASE Expire
  BY <1>6, ExpireStep
<1>7. CASE \E s \in Shapes, offset \in 0..MaxRows, limit \in 1..MaxRows :
             ListRecords(s, offset, limit)
  BY <1>7, ListRecordsStep
<1>8. CASE ListPeople
  BY <1>8, ListPeopleStep
<1>9. CASE \E s \in Shapes : ListPersonRecords(s)
  BY <1>9, ListPersonRecordsStep
<1>10. CASE UNCHANGED vars
  <2>1. UNCHANGED <<address, asked, stage, todo, found, bundle, held>>
    BY <1>10 DEF vars
  <2>2. Scanning'
    BY <2>1, ScanningStays DEF IInv
  <2> QED BY <2>1, <2>2, HeldStays, BundleStays DEF IInv
<1> QED BY <1>1, <1>2, <1>3, <1>4, <1>5, <1>6, <1>7, <1>8, <1>9, <1>10 DEF Next

(* Every scan ends with a bundle that its rows explain.                    *)
THEOREM Invariant == Spec => []IInv
BY InitInv, NextInv, PTL DEF Spec

(* TypeOK, from the invariant.                                             *)
LEMMA InvType == IInv => TypeOK
<1> SUFFICES ASSUME IInv PROVE TypeOK
  OBVIOUS
<1>1. address \in Addresses /\ Scanning
  BY DEF IInv
<1>2. address.rows \subseteq Rows /\ None \notin address.spellings
  BY <1>1, RowFacts
<1>3. /\ asked \in address.spellings \cup {None} /\ stage \in {"idle", "zip", "tax"}
      /\ stage = "idle" <=> asked = None
  BY <1>1, <1>2 DEF Scanning
<1>4. todo \in {<<>>, Tables, Tail(Tables)}
  BY <1>1 DEF Scanning
<1>5. found \in [ZipShapes -> Seq(address.rows)]
  <2>1. \/ found = Nothing \/ Kept(asked, found) \/ \E T : Fetching(asked, T, found)
    BY <1>1 DEF Scanning
  <2> QED BY <2>1, FetchingNothing DEF Kept, Fetching
<1>6. ASSUME bundle # None
      PROVE  /\ bundle.dropped \in 0..MaxRows /\ bundle.timedOut \in BOOLEAN
             /\ bundle.city \in Nat /\ bundle.state \in Nat
             /\ \A s \in Shapes :
                  LET rows == bundle.rows[s]
                  IN  /\ rows \in Seq(address.rows) /\ Len(rows) <= MaxRows
                      /\ \A i, j \in DOMAIN rows : i < j => rows[i].id < rows[j].id
  <2>1. PICK x, f, rows, late :
          Outcome(x, f, rows, late) /\ bundle = Materialized(x, f, rows, late)
    BY <1>6 DEF IInv, Scanned
  <2>2. late \in BOOLEAN
    BY <1>1, <2>1, OutcomeFacts
  <2> QED BY <1>1, <2>1, <2>2, BundleFacts
<1>7. held # None => held.kind \in {"record", "person"} /\ held.at \in Nat \ {0}
  <2> SUFFICES ASSUME held # None PROVE held.kind \in {"record", "person"} /\ held.at \in Nat \ {0}
    OBVIOUS
  <2>1. PICK b : Scanned(b) /\ HandleOf(held, b)
    BY DEF IInv
  <2>2. \A n : held.at \in 1..n => held.at \in Nat \ {0}
    OBVIOUS
  <2>3. \E n : DOMAIN People(b) = 1..n
    BY DEF People
  <2> QED BY <2>1, <2>2, <2>3 DEF HandleOf
<1> QED BY <1>2, <1>3, <1>4, <1>5, <1>6, <1>7 DEF TypeOK

(* Every variable has its type, and a bundle is within the budget of each  *)
(* shape and in the order of the ids: TypeOK, of materialize().            *)
THEOREM TypeCorrect == Spec => []TypeOK
BY Invariant, InvType, PTL

------------------------------------------------------------------------------
(* A missing tax row.                                                      *)

LEMMA InvAbsence == IInv => AbsenceMeansAbsence
<1> DEFINE T == TaxMatching(bundle.asked, bundle.city, bundle.state)
<1> SUFFICES ASSUME IInv, bundle # None, Raw(bundle.asked) # <<>>, ~bundle.timedOut,
                    bundle.city \notin Falsy, bundle.state \notin Falsy
             PROVE  /\ Len(bundle.rows["tax"]) + bundle.dropped = Min({MaxRows, Cardinality(T)})
                    /\ \A r \in address.rows :
                         "tax" \in r.feeds /\ r.table \in ShapeTables("tax")
                           /\ r.taxPartition /\ r.city = bundle.city /\ r.state = bundle.state
                           /\ FoldedAlike(bundle.asked) /\ FoldedAlike(r.text)
                           /\ Raw(bundle.asked)[1].word \in Numbered
                           /\ SamePlace(r.text, bundle.asked)
                             => r \in T
  BY DEF AbsenceMeansAbsence
<1>1. address \in Addresses
  BY DEF IInv
<1>2. PICK x, f, rows, late :
        Outcome(x, f, rows, late) /\ bundle = Materialized(x, f, rows, late)
  BY DEF IInv, Scanned
<1>3. /\ bundle.city = City(f) /\ bundle.state = State(f) /\ bundle.timedOut = late
      /\ bundle.asked = x /\ bundle.dropped = Len(rows) - Len(Usable(rows))
      /\ Len(bundle.rows["tax"]) = Len(Usable(rows))
  BY <1>1, <1>2, BundleFacts
<1>4. /\ rows \in Seq(address.rows) /\ Distinct(rows) /\ x \in address.spellings
  BY <1>1, <1>2, OutcomeFacts
<1>5. Len(Usable(rows)) \in Nat /\ Len(rows) \in Nat
  BY <1>1, <1>4, UsableFacts
<1>6. ~NoTaxQuery(f) /\ late = FALSE
  BY <1>2, <1>3, OutcomeFacts, <1>1 DEF NoTaxQuery
<1>7. Fetched(x, f, rows)
  BY <1>2, <1>3, <1>6 DEF Outcome
<1>8. Len(rows) = Min({MaxRows, Cardinality(T)})
  BY <1>3, <1>7 DEF Fetched
<1>9. Len(bundle.rows["tax"]) + bundle.dropped = Min({MaxRows, Cardinality(T)})
  <2>1. Len(Usable(rows)) + (Len(rows) - Len(Usable(rows))) = Len(rows)
    BY <1>5
  <2> QED BY <1>3, <1>8, <2>1
<1>10. ASSUME NEW r \in address.rows, "tax" \in r.feeds, r.table \in ShapeTables("tax"),
              r.taxPartition, r.city = bundle.city, r.state = bundle.state,
              FoldedAlike(bundle.asked), FoldedAlike(r.text),
              Raw(bundle.asked)[1].word \in Numbered, SamePlace(r.text, bundle.asked)
       PROVE  r \in T
  <2>1. x \in Texts /\ r.text \in Texts
    BY <1>1, <1>4, RowFacts
  <2>2. Selects(AddressPrefix(x), r.text)
    BY <1>3, <1>10, <2>1, SamePlaceSelected
  <2>3. r.table = "records_new"
    BY <1>10 DEF ShapeTables
  <2> QED BY <1>3, <1>10, <2>2, <2>3 DEF TaxMatching, AtAddress
<1> QED BY <1>9, <1>10

(* A bundle that does not say that its tax scan timed out has, of the rows *)
(* of the voted city and state in the partition that the tax query is      *)
(* bound to, all but those dropped and counted and those beyond the        *)
(* budget, and rows of that partition whose address is only spelled        *)
(* otherwise are among those asked for: AbsenceMeansAbsence, of            *)
(* scan_tax_source, feed_clause and AddressQuery.build. Of rows in other   *)
(* partitions it says nothing.                                             *)
THEOREM TaxAbsenceIsAbsence == Spec => []AbsenceMeansAbsence
BY Invariant, InvAbsence, PTL
------------------------------------------------------------------------------
(* One query per table, and one per shape.                                 *)

(* What a query of one table returns of a pattern, and what there is.      *)
Portion(t, x, p) == {r \in CollapsedScan(t, x) : p \in r.feeds}
InTable(t, x, p) == {r \in AtAddress(x) : r.table = t /\ p \in r.feeds}

OneFeedEach == \A r \in address.rows : Cardinality(r.feeds) = 1

LEMMA SingleFeed ==
  ASSUME address \in Addresses, OneFeedEach, NEW r \in address.rows, NEW p \in r.feeds
  PROVE  r.feeds = {p}
<1>1. IsFiniteSet(Feeds)
  BY SixAreFinite DEF Feeds
<1>2. IsFiniteSet(r.feeds)
  BY <1>1, RowFacts, FS_Subset
<1>3. \E z : r.feeds = {z}
  BY <1>2, FS_Singleton DEF OneFeedEach
<1> QED BY <1>3

LEMMA GroupSets ==
  /\ ToSet(Groups["records_legacy"]) = {"utility", "trace", "base"}
  /\ ToSet(Groups["records_new"]) = {"base", "payday", "auto"}
  /\ \A t \in AllTables : DOMAIN Groups[t] = 1..3
<1> DEFINE l == Groups["records_legacy"]
           n == Groups["records_new"]
<1>1. /\ DOMAIN l = 1..3 /\ l[1] = "utility" /\ l[2] = "trace" /\ l[3] = "base"
      /\ DOMAIN n = 1..3 /\ n[1] = "base" /\ n[2] = "payday" /\ n[3] = "auto"
  BY DEF Groups
<1> HIDE DEF l, n
<1>2. ToSet(l) = {l[1], l[2], l[3]} /\ ToSet(n) = {n[1], n[2], n[3]}
  BY <1>1 DEF ToSet
<1> QED BY <1>1, <1>2, TablesAre DEF l, n

LEMMA GroupIs ==
  ASSUME NEW t \in AllTables, NEW p \in ToSet(Groups[t]), NEW r, r.feeds = {p}
  PROVE  Group(t, r) = p
<1> DEFINE I == {i \in DOMAIN Groups[t] : Groups[t][i] \in r.feeds}
<1>1. I \subseteq Nat
  BY GroupSets
<1>2. I # {}
  BY DEF ToSet
<1> HIDE DEF I
<1>3. Min(I) \in I
  BY <1>1, <1>2, LeastIsMin
<1>4. Groups[t][Min(I)] = p
  BY <1>3 DEF I
<1> QED BY <1>4 DEF Group, I

(* The rows of a pattern are a group of their own.                         *)
LEMMA PortionFacts ==
  ASSUME address \in Addresses, OneFeedEach, NEW t \in AllTables, NEW x, NEW p
  PROVE  /\ Portion(t, x, p) \subseteq address.rows /\ IsFiniteSet(Portion(t, x, p))
         /\ p \notin ToSet(Groups[t]) => Portion(t, x, p) = {}
         /\ p \in ToSet(Groups[t]) =>
              Cardinality(Portion(t, x, p)) = Min({MaxRows, Cardinality(InTable(t, x, p))})
<1> DEFINE I == InTable(t, x, p)
           M == Matching(t, x)
<1>1. CollapsedScan(t, x) \subseteq address.rows /\ IsFiniteSet(CollapsedScan(t, x))
  BY ScanFacts
<1>2. Portion(t, x, p) \subseteq address.rows /\ IsFiniteSet(Portion(t, x, p))
  BY <1>1, FS_Subset DEF Portion
<1>3. \A r \in CollapsedScan(t, x) : r \in M
  BY DEF CollapsedScan
<1>4. ASSUME p \notin ToSet(Groups[t]) PROVE Portion(t, x, p) = {}
  <2> SUFFICES ASSUME NEW r \in Portion(t, x, p) PROVE FALSE
    OBVIOUS
  <2>1. r \in address.rows /\ p \in r.feeds /\ r.feeds \cap ToSet(Groups[t]) # {}
    BY <1>1, <1>3 DEF Portion, Matching
  <2>2. r.feeds = {p}
    BY <2>1, SingleFeed
  <2> QED BY <1>4, <2>1, <2>2
<1>5. ASSUME p \in ToSet(Groups[t])
      PROVE  Cardinality(Portion(t, x, p)) = Min({MaxRows, Cardinality(I)})
  <2>1. I \subseteq address.rows
    BY DEF InTable, AtAddress
  <2>2. \A r \in I : r.feeds = {p} /\ Group(t, r) = p /\ r \in M
    <3> TAKE r \in I
    <3>1. r.feeds = {p}
      BY <2>1, SingleFeed DEF InTable
    <3>2. Group(t, r) = p
      BY <1>5, <3>1, GroupIs
    <3> QED BY <1>5, <3>1, <3>2 DEF InTable, Matching
  <2>3. \A q \in M : Group(t, q) = p => q \in I
    <3> TAKE q \in M
    <3> HAVE Group(t, q) = p
    <3>1. q \in address.rows /\ q.table = t /\ q \in AtAddress(x)
           /\ q.feeds \cap ToSet(Groups[t]) # {}
      BY DEF Matching, AtAddress
    <3>2. PICK z \in q.feeds : z \in ToSet(Groups[t])
      BY <3>1
    <3>3. q.feeds = {z}
      BY <3>1, SingleFeed
    <3>4. z = p
      BY <3>2, <3>3, GroupIs
    <3> QED BY <3>1, <3>3, <3>4 DEF InTable
  <2>4. ASSUME NEW r \in I
        PROVE  {q \in M : Group(t, q) = Group(t, r) /\ q.id <= r.id}
                 = {q \in I : q.id <= r.id}
    BY <2>2, <2>3
  <2>5. Portion(t, x, p) = {r \in I : Cardinality({q \in I : q.id <= r.id}) <= MaxRows}
    <3>1. ASSUME NEW r \in Portion(t, x, p) PROVE r \in I
      BY DEF Portion, CollapsedScan, Matching, InTable
    <3>2. ASSUME NEW r \in I
          PROVE  r \in Portion(t, x, p) <=> Cardinality({q \in I : q.id <= r.id}) <= MaxRows
      <4>1. r \in M /\ p \in r.feeds
        BY <2>2
      <4> HIDE DEF I, M
      <4>2. r \in Portion(t, x, p) <=>
              Cardinality({q \in M : Group(t, q) = Group(t, r) /\ q.id <= r.id}) <= MaxRows
        BY <4>1 DEF Portion, CollapsedScan, M
      <4> QED BY <2>4, <4>2
    <3> HIDE DEF I
    <3> QED BY <3>1, <3>2
  <2> HIDE DEF I
  <2> QED BY <2>1, <2>5, LeastIds
<1> QED BY <1>2, <1>4, <1>5

LEMMA TogetherCount ==
  ASSUME NEW A, NEW B, IsFiniteSet(A), IsFiniteSet(B), A \cap B = {}
  PROVE  Cardinality(A \cup B) = Cardinality(A) + Cardinality(B)
<1>1. Cardinality(A) \in Nat /\ Cardinality(B) \in Nat
  BY FS_CardinalityType
<1>2. Cardinality(A \cup B) = Cardinality(A) + Cardinality(B) - Cardinality(A \cap B)
  BY FS_Union
<1>3. Cardinality(A \cap B) = 0
  BY FS_EmptySet
<1> QED BY <1>1, <1>2, <1>3

LEMMA BudgetTwice ==
  /\ \A m, n \in Nat : Min({m, Min({m, n})}) = Min({m, n})
  /\ \A m, n, k \in Nat : Min({m, Min({m, n}) + Min({m, k})}) = Min({m, n + k})
<1>1. ASSUME NEW m \in Nat, NEW n \in Nat PROVE Min({m, Min({m, n})}) = Min({m, n})
  <2> DEFINE a == Min({m, n})
  <2>1. a = (IF m <= n THEN m ELSE n)
    BY MinOfTwo
  <2> HIDE DEF a
  <2>2. a \in Nat /\ a <= m
    BY <2>1
  <2>3. Min({m, a}) = IF m <= a THEN m ELSE a
    BY <2>2, MinOfTwo
  <2> QED BY <2>2, <2>3 DEF a
<1>2. ASSUME NEW m \in Nat, NEW n \in Nat, NEW k \in Nat
      PROVE  Min({m, Min({m, n}) + Min({m, k})}) = Min({m, n + k})
  <2> DEFINE a == Min({m, n})
             b == Min({m, k})
  <2>1. a = (IF m <= n THEN m ELSE n) /\ b = (IF m <= k THEN m ELSE k)
    BY MinOfTwo
  <2>2. Min({m, n + k}) = IF m <= n + k THEN m ELSE n + k
    BY MinOfTwo
  <2> HIDE DEF a, b
  <2>3. a \in Nat /\ b \in Nat
    BY <2>1
  <2>4. Min({m, a + b}) = IF m <= a + b THEN m ELSE a + b
    BY <2>3, MinOfTwo
  <2>5. (IF m <= a + b THEN m ELSE a + b) = (IF m <= n + k THEN m ELSE n + k)
    BY <2>1
  <2> QED BY <2>2, <2>4, <2>5 DEF a, b
<1> QED BY <1>1, <1>2

LEMMA InvPerShape == IInv => AsPerShapeScans
<1> SUFFICES ASSUME IInv, bundle # None, Raw(bundle.asked) # <<>>, OneFeedEach,
                    NEW s \in ZipShapes \ {"drive"}
             PROVE  Len(bundle.rows[s]) = Min({MaxRows, Cardinality(ScannedAlone(s))})
  BY DEF AsPerShapeScans, OneFeedEach
<1>1. address \in Addresses
  BY DEF IInv
<1>2. PICK x, f, rows, late :
        Outcome(x, f, rows, late) /\ bundle = Materialized(x, f, rows, late)
  BY DEF IInv, Scanned
<1> DEFINE p == Pattern(s)
           R == Returned(x, AllTables, s)
           P(t) == Portion(t, x, p)
           I(t) == InTable(t, x, p)
<1>3. bundle.asked = x /\ Len(bundle.rows[s]) = Len(f[s])
  BY <1>1, <1>2, BundleFacts
<1>4. Len(f[s]) = Min({MaxRows, Cardinality(R)})
  <2>1. Kept(x, f)
    BY <1>2, <1>3 DEF Outcome
  <2> QED BY <2>1 DEF Kept
<1>5. \A r : s \in ShapesFor(r) <=> p \in r.feeds
  BY DEF ShapesFor, Shapes
<1>6. R = P("records_legacy") \cup P("records_new")
  <2>1. \A t \in AllTables : CollapsedScan(t, x) \subseteq address.rows
    BY <1>1, ScanFacts
  <2> QED BY <1>5, <2>1, TablesAre DEF Returned, Portion
<1>7. \A t \in AllTables :
        /\ P(t) \subseteq address.rows /\ IsFiniteSet(P(t)) /\ Cardinality(P(t)) \in Nat
        /\ I(t) \subseteq address.rows /\ IsFiniteSet(I(t)) /\ Cardinality(I(t)) \in Nat
        /\ p \notin ToSet(Groups[t]) => P(t) = {}
        /\ p \in ToSet(Groups[t]) => Cardinality(P(t)) = Min({MaxRows, Cardinality(I(t))})
  <2> TAKE t \in AllTables
  <2>1. I(t) \subseteq address.rows
    BY DEF InTable, AtAddress
  <2>2. IsFiniteSet(I(t))
    <3> HIDE DEF I
    <3> QED BY <1>1, <2>1, RowFacts, FS_Subset
  <2>3. IsFiniteSet(P(t))
    BY <1>1, PortionFacts
  <2> HIDE DEF I
  <2> QED BY <1>1, <2>1, <2>2, <2>3, PortionFacts, FS_CardinalityType DEF I
<1>8. P("records_legacy") \cap P("records_new") = {}
       /\ I("records_legacy") \cap I("records_new") = {}
  BY <1>1, ScanFacts DEF Portion, InTable
<1>9. ScannedAlone(s) = UNION {I(t) : t \in ShapeTables(s)}
  BY <1>3, <1>5 DEF ScannedAlone, InTable
<1>10. MaxRows \in Nat
  BY <1>1, RowFacts
<1>11. "records_legacy" \in AllTables /\ "records_new" \in AllTables
  BY TablesAre
<1>twice. \A n, k \in Nat :
        /\ Cardinality(R) = Min({MaxRows, n}) => Len(bundle.rows[s]) = Min({MaxRows, n})
        /\ Cardinality(R) = Min({MaxRows, n}) + Min({MaxRows, k}) =>
             Len(bundle.rows[s]) = Min({MaxRows, n + k})
  <2> HIDE DEF R
  <2> TAKE n, k \in Nat
  <2>1. /\ Min({MaxRows, Min({MaxRows, n})}) = Min({MaxRows, n})
        /\ Min({MaxRows, Min({MaxRows, n}) + Min({MaxRows, k})}) = Min({MaxRows, n + k})
    <3> HIDE DEF p, P, I
    <3>1. \A m \in Nat : /\ Min({m, Min({m, n})}) = Min({m, n})
                         /\ Min({m, Min({m, n}) + Min({m, k})}) = Min({m, n + k})
      BY ONLY BudgetTwice, n \in Nat, k \in Nat
    <3> QED BY ONLY <1>10, <3>1
  <2> QED BY <1>3, <1>4, <2>1
<1>12. CASE s \in {"utility", "trace"}
  <2>1. ShapeTables(s) = {"records_legacy"} /\ p \in {"utility", "trace"}
    BY <1>12 DEF ShapeTables, Pattern
  <2>2. p \in ToSet(Groups["records_legacy"]) /\ p \notin ToSet(Groups["records_new"])
    BY <2>1, GroupSets
  <2> HIDE DEF P, I, p, R
  <2>3. R = P("records_legacy") /\ ScannedAlone(s) = I("records_legacy")
    BY <1>6, <1>7, <1>9, <1>11, <2>1, <2>2
  <2> QED BY <1>7, <1>11, <1>twice, <2>2, <2>3
<1>13. CASE s \in {"loan", "auto"}
  <2>1. ShapeTables(s) = {"records_new"} /\ p \in {"payday", "auto"}
    BY <1>13 DEF ShapeTables, Pattern
  <2>2. p \in ToSet(Groups["records_new"]) /\ p \notin ToSet(Groups["records_legacy"])
    BY <2>1, GroupSets
  <2> HIDE DEF P, I, p, R
  <2>3. R = P("records_new") /\ ScannedAlone(s) = I("records_new")
    BY <1>6, <1>7, <1>9, <1>11, <2>1, <2>2
  <2> QED BY <1>7, <1>11, <1>twice, <2>2, <2>3
<1>14. CASE s = "base"
  <2>1. ShapeTables(s) = AllTables /\ p = "base"
    BY <1>14 DEF ShapeTables, Pattern, AllTables
  <2>2. p \in ToSet(Groups["records_new"]) /\ p \in ToSet(Groups["records_legacy"])
    BY <2>1, GroupSets
  <2> DEFINE a == Cardinality(I("records_legacy"))
             c == Cardinality(I("records_new"))
  <2> HIDE DEF P, I, p, R
  <2>3. ScannedAlone(s) = I("records_legacy") \cup I("records_new")
    BY <1>9, <2>1, TablesAre
  <2>4. Cardinality(R) = Cardinality(P("records_legacy")) + Cardinality(P("records_new"))
    BY <1>6, <1>7, <1>8, <1>11, TogetherCount
  <2>5. Cardinality(ScannedAlone(s)) = a + c
    BY <1>7, <1>8, <1>11, <2>3, TogetherCount
  <2>6. Cardinality(R) = Min({MaxRows, a}) + Min({MaxRows, c})
    BY <1>7, <1>11, <2>2, <2>4
  <2>7. a \in Nat /\ c \in Nat
    BY <1>7, <1>11
  <2> HIDE DEF a, c
  <2> QED BY <1>twice, <2>5, <2>6, <2>7
<1> QED BY <1>12, <1>13, <1>14 DEF ZipShapes

(* However dense the other shapes of a table are, each has its own budget  *)
(* of the one query: AsPerShapeScans, of _collapsed_scan_sql and the       *)
(* truncation that follows it.                                             *)
THEOREM ScansAsPerShape == Spec => []AsPerShapeScans
BY Invariant, InvPerShape, PTL

------------------------------------------------------------------------------
(* The handles. Two scans of an address, made with any of its spellings,   *)
(* ask for the same rows; within the budget they keep the same rows of a   *)
(* shape, and what they keep of all the shapes votes the same city and     *)
(* state.                                                                  *)

AskAlike(x, y) ==
  /\ Raw(x) = <<>> <=> Raw(y) = <<>>
  /\ Raw(x) # <<>> => AtAddress(x) = AtAddress(y)

LEMMA SpellingsAskAlike ==
  ASSUME address \in Addresses, NEW x \in address.spellings, NEW y \in address.spellings,
         FoldedAlike(x), FoldedAlike(y)
  PROVE  AskAlike(x, y)
<1>1. x \in Texts /\ y \in Texts /\ NormalizeAddress(x) = NormalizeAddress(y)
  BY RowFacts
<1> QED BY <1>1, SpellingsSelectAlike DEF AskAlike, AtAddress

LEMMA SameAsked ==
  ASSUME NEW x, NEW y, AtAddress(x) = AtAddress(y)
  PROVE  /\ \A T, s : Returned(x, T, s) = Returned(y, T, s)
         /\ \A city, state : TaxMatching(x, city, state) = TaxMatching(y, city, state)
<1>1. \A t : Matching(t, x) = Matching(t, y)
  BY DEF Matching
<1>2. \A t : CollapsedScan(t, x) = CollapsedScan(t, y)
  BY <1>1 DEF CollapsedScan
<1> QED BY <1>2 DEF Returned, TaxMatching

LEMMA SameZipRows ==
  ASSUME address \in Addresses, NEW x, NEW f, NEW rows, NEW late, Outcome(x, f, rows, late),
         NEW y, NEW g, NEW more, NEW soon, Outcome(y, g, more, soon), AskAlike(x, y),
         NEW s \in ZipShapes, Cardinality(Returned(x, AllTables, s)) <= MaxRows
  PROVE  ToSet(f[s]) = ToSet(g[s])
<1>1. CASE Raw(x) = <<>>
  BY <1>1 DEF Outcome, AskAlike
<1>2. CASE Raw(x) # <<>>
  <2>1. Kept(x, f) /\ Kept(y, g)
    BY <1>2 DEF Outcome, AskAlike
  <2>2. Returned(x, AllTables, s) = Returned(y, AllTables, s)
    BY <1>2, SameAsked DEF AskAlike
  <2> QED BY <2>1, <2>2, WholeShape
<1> QED BY <1>1, <1>2

(* A tax query that was not cancelled fetches all that it asks for.        *)
LEMMA SameTaxRows ==
  ASSUME address \in Addresses, NEW x, NEW f, NEW rows, NEW late, Outcome(x, f, rows, late),
         NEW y, NEW g, NEW more, Outcome(y, g, more, late), AskAlike(x, y),
         SameRows(f, g), Cardinality(TaxMatching(x, City(f), State(f))) <= MaxRows
  PROVE  ToSet(rows) = ToSet(more)
<1> DEFINE T == TaxMatching(x, City(f), State(f))
<1>1. CASE Raw(x) = <<>>
  BY <1>1 DEF Outcome, AskAlike
<1>2. CASE Raw(x) # <<>>
  <2>1. Listed(f) /\ Listed(g)
    BY OutcomeFacts
  <2>2. City(f) = City(g) /\ State(f) = State(g)
    BY <2>1, VotesAgree DEF City, State
  <2>3. TaxMatching(y, City(g), State(g)) = T
    BY <1>2, <2>2, SameAsked DEF AskAlike
  <2>4. IsFiniteSet(T) /\ Cardinality(T) \in Nat /\ MaxRows \in Nat
    BY TaxFinite, RowFacts
  <2>5. Min({MaxRows, Cardinality(T)}) = Cardinality(T)
    <3>1. Cardinality(T) <= MaxRows
      OBVIOUS
    <3> HIDE DEF T
    <3>2. Min({MaxRows, Cardinality(T)}) =
            IF MaxRows <= Cardinality(T) THEN MaxRows ELSE Cardinality(T)
      BY <2>4, MinOfTwo
    <3> QED BY <2>4, <3>1, <3>2
  <2>6. ASSUME NEW q \in Seq(address.rows), Distinct(q), ToSet(q) \subseteq T,
               Len(q) = Min({MaxRows, Cardinality(T)})
        PROVE  ToSet(q) = T
    <3> HIDE DEF T
    <3>1. Cardinality(ToSet(q)) = Cardinality(T)
      BY <2>5, <2>6, InjectiveCardinality DEF Distinct
    <3> QED BY <2>4, <2>6, <3>1, FS_Subset
  <2>7. CASE late
    BY <1>2, <2>7 DEF Outcome, AskAlike
  <2>8. CASE NoTaxQuery(f)
    <3>1. NoTaxQuery(g)
      BY <2>2, <2>8 DEF NoTaxQuery
    <3> QED BY <1>2, <2>8, <3>1 DEF Outcome, AskAlike
  <2>9. CASE ~late /\ ~NoTaxQuery(f)
    <3>1. ~NoTaxQuery(g)
      BY <2>2, <2>9 DEF NoTaxQuery
    <3>2. Fetched(x, f, rows) /\ Fetched(y, g, more)
      BY <1>2, <2>9, <3>1 DEF Outcome, AskAlike
    <3>3. ToSet(rows) = T
      BY <2>6, <3>2 DEF Fetched
    <3>4. ToSet(more) = T
      BY <2>3, <2>6, <3>2 DEF Fetched
    <3> QED BY <3>3, <3>4
  <2> QED BY <2>7, <2>8, <2>9
<1> QED BY <1>1, <1>2

(* What Steady says of the scan that made the bundle.                      *)
LEMMA SteadyFacts ==
  ASSUME address \in Addresses, NEW S \in SUBSET Shapes, Steady(S)
  PROVE  /\ \A x, y \in address.spellings : AskAlike(x, y)
         /\ \A s \in S \cap ZipShapes :
              Cardinality(Returned(bundle.asked, AllTables, s)) <= MaxRows
<1>1. \A x, y \in address.spellings : AskAlike(x, y)
  BY SpellingsAskAlike DEF Steady
<1>2. ASSUME NEW s \in S \cap ZipShapes
      PROVE  Cardinality(Returned(bundle.asked, AllTables, s)) <= MaxRows
  <2> DEFINE U == UNION {CollapsedScan(t, bundle.asked) : t \in ToSet(Tables)}
  <2>1. s \in S \ {"tax"}
    BY <1>2 DEF ZipShapes
  <2>2. Cardinality({r \in U : s \in ShapesFor(r)}) <= MaxRows
    BY <2>1 DEF Steady
  <2>3. \A t : CollapsedScan(t, bundle.asked) \subseteq address.rows
    BY ScanFacts
  <2>4. {r \in U : s \in ShapesFor(r)} = Returned(bundle.asked, AllTables, s)
    BY <2>3 DEF Returned, AllTables
  <2> QED BY <2>2, <2>4
<1> QED BY <1>1, <1>2

(* Two scans that ended the same way make bundles of the same rows.        *)
LEMMA SteadyBundles ==
  ASSUME address \in Addresses, AllSteady,
         NEW x, NEW f, NEW rows, NEW late, Outcome(x, f, rows, late),
         bundle = Materialized(x, f, rows, late),
         NEW y, NEW g, NEW more, Outcome(y, g, more, late)
  PROVE  \A s \in Shapes : bundle.rows[s] = Materialized(y, g, more, late).rows[s]
<1> DEFINE b == Materialized(y, g, more, late)
<1>1. /\ bundle.asked = x /\ bundle.city = City(f) /\ bundle.state = State(f)
      /\ \A s \in ZipShapes : bundle.rows[s] = InIdOrder(ToSet(f[s]))
      /\ bundle.rows["tax"] = InIdOrder(ToSet(Usable(rows)))
  BY BundleFacts
<1>2. /\ \A s \in ZipShapes : b.rows[s] = InIdOrder(ToSet(g[s]))
      /\ b.rows["tax"] = InIdOrder(ToSet(Usable(more)))
  BY BundleFacts
<1>3. /\ x \in address.spellings /\ y \in address.spellings
      /\ rows \in Seq(address.rows) /\ Distinct(rows)
      /\ more \in Seq(address.rows) /\ Distinct(more)
  BY OutcomeFacts
<1>4. /\ AskAlike(x, y)
      /\ \A s \in ZipShapes : Cardinality(Returned(x, AllTables, s)) <= MaxRows
  <2>1. \A s \in ZipShapes : s \in Shapes \cap ZipShapes
    BY DEF Shapes
  <2> QED BY <1>1, <1>3, <2>1, SteadyFacts DEF AllSteady
<1>5. SameRows(f, g)
  BY <1>4, SameZipRows DEF SameRows
<1>6. Cardinality(TaxMatching(x, City(f), State(f))) <= MaxRows
  BY <1>1 DEF AllSteady, Steady, Shapes
<1>7. ToSet(rows) = ToSet(more)
  BY <1>4, <1>5, <1>6, SameTaxRows
<1>8. ToSet(Usable(rows)) = ToSet(Usable(more))
  BY <1>3, <1>7, UsableFacts
<1> QED BY <1>1, <1>2, <1>5, <1>8 DEF SameRows, Shapes

LEMMA InvRecordHandle == IInv => RecordHandleSound
<1> DEFINE s == held.shape
           S == IF s = "tax" THEN Shapes ELSE {s}
<1> SUFFICES ASSUME IInv, bundle # None, held # None, held.kind = "record", Steady(S)
             PROVE  \/ held.at \in DOMAIN bundle.rows[s] /\ bundle.rows[s][held.at].id = held.is
                    \/ s = "tax" /\ bundle.timedOut /\ bundle.rows[s] = <<>>
  BY DEF RecordHandleSound
<1>1. address \in Addresses
  BY DEF IInv
<1>2. PICK x, f, rows, late :
        Outcome(x, f, rows, late) /\ bundle = Materialized(x, f, rows, late)
  BY DEF IInv, Scanned
<1>3. PICK b : Scanned(b) /\ HandleOf(held, b)
  BY DEF IInv
<1>4. PICK y, g, more, soon :
        Outcome(y, g, more, soon) /\ b = Materialized(y, g, more, soon)
  BY <1>3 DEF Scanned
<1>5. s \in Shapes /\ held.at \in 1..Len(b.rows[s]) /\ held.is = b.rows[s][held.at].id
  BY <1>3 DEF HandleOf
<1>6. /\ x \in address.spellings /\ late \in BOOLEAN
      /\ y \in address.spellings /\ soon \in BOOLEAN
  BY <1>1, <1>2, <1>4, OutcomeFacts
<1>7. DOMAIN b.rows[s] = 1..Len(b.rows[s])
  BY <1>1, <1>4, <1>5, BundleFacts
<1>8. CASE s \in ZipShapes
  <2>1. s # "tax" /\ Steady({s})
    BY <1>8 DEF ZipShapes
  <2>2. bundle.asked = x /\ bundle.rows[s] = InIdOrder(ToSet(f[s]))
    BY <1>1, <1>2, <1>8, BundleFacts
  <2>3. b.rows[s] = InIdOrder(ToSet(g[s]))
    BY <1>1, <1>4, <1>8, BundleFacts
  <2>4. AskAlike(x, y) /\ Cardinality(Returned(x, AllTables, s)) <= MaxRows
    <3>1. {s} \in SUBSET Shapes /\ s \in {s} \cap ZipShapes
      BY <1>5, <1>8
    <3> HIDE DEF s
    <3> QED BY <1>1, <1>6, <2>1, <2>2, <3>1, SteadyFacts
  <2>5. ToSet(f[s]) = ToSet(g[s])
    BY <1>1, <1>2, <1>4, <1>8, <2>4, SameZipRows
  <2> QED BY <1>5, <1>7, <2>2, <2>3, <2>5
<1>9. CASE s = "tax"
  <2>1. AllSteady
    BY <1>9 DEF AllSteady
  <2>2. ASSUME soon PROVE FALSE
    <3>1. more = <<>>
      BY <1>4, <2>2 DEF Outcome
    <3>2. ToSet(more) = {}
      BY <3>1 DEF ToSet
    <3>3. Len(b.rows["tax"]) = Len(Usable(more)) /\ more \in Seq(address.rows)
           /\ Distinct(more)
      BY <1>1, <1>4, BundleFacts, OutcomeFacts
    <3>4. Len(Usable(more)) \in 0..Len(more) /\ Len(more) = 0
      BY <1>1, <3>1, <3>3, UsableFacts
    <3> QED BY <1>5, <1>9, <3>3, <3>4
  <2>3. CASE late
    <3>1. rows = <<>>
      BY <1>2, <2>3 DEF Outcome
    <3>2. rows \in Seq(address.rows) /\ Distinct(rows)
      BY <1>1, <1>2, OutcomeFacts
    <3>3. Len(Usable(rows)) \in 0..Len(rows) /\ Len(rows) = 0
      BY <1>1, <3>1, <3>2, UsableFacts
    <3>4. /\ Len(bundle.rows["tax"]) = Len(Usable(rows)) /\ bundle.timedOut = late
          /\ "tax" \in Shapes /\ bundle.rows["tax"] \in Seq(address.rows)
      BY <1>1, <1>2, <1>5, <1>9, BundleFacts
    <3>5. bundle.rows["tax"] = <<>>
      <4>1. \A q \in Seq(address.rows) : Len(q) = 0 => q = <<>>
        BY EmptySeq
      <4>2. Len(bundle.rows["tax"]) = 0
        BY <3>3, <3>4
      <4> QED BY <3>4, <4>1, <4>2
    <3> QED BY <1>9, <2>3, <3>4, <3>5
  <2>4. CASE ~late
    <3>1. soon = late
      BY <1>6, <2>2, <2>4
    <3>2. Outcome(y, g, more, late) /\ b = Materialized(y, g, more, late)
      BY <1>4, <3>1
    <3>3. \A z \in Shapes : bundle.rows[z] = b.rows[z]
      BY <1>1, <1>2, <2>1, <3>2, SteadyBundles
    <3> QED BY <1>5, <1>7, <3>3
  <2> QED BY <2>3, <2>4
<1> QED BY <1>5, <1>8, <1>9 DEF Shapes

(* A `__rowid` of a shape within its budget names the same record in every *)
(* later bundle of its address, whichever spelling that is scanned with;   *)
(* a tax row it names may be missing, with all the others, from a bundle   *)
(* whose tax scan timed out: RecordHandleSound, of _stable_order.          *)
THEOREM RecordHandlesLast == Spec => []RecordHandleSound
BY Invariant, InvRecordHandle, PTL

LEMMA SamePeople ==
  ASSUME NEW b, NEW c, \A s \in Shapes : b.rows[s] = c.rows[s]
  PROVE  People(b) = People(c)
<1> DEFINE N(a) == {n \in UNION {{r.name : r \in ToSet(a.rows[s])} : s \in Shapes} :
                      n # 0 /\ \E s \in Shapes : \E r \in ToSet(a.rows[s]) : Bears(s, r, n)}
           Named(names) == [i \in 1..Cardinality(names) |->
                              CHOOSE n \in names : Cardinality({m \in names : m <= n}) = i]
<1>1. N(b) = N(c)
  OBVIOUS
<1>2. \A a : People(a) = Named(N(a))
  BY DEF People
<1> HIDE DEF N, Named
<1> QED BY <1>1, <1>2

LEMMA InvPersonHandle == IInv => PersonHandleSound
<1> SUFFICES ASSUME IInv, bundle # None, held # None, held.kind = "person", AllSteady,
                    held.timedOut = bundle.timedOut
             PROVE  held.at \in DOMAIN People(bundle) /\ People(bundle)[held.at] = held.is
  BY DEF PersonHandleSound
<1>1. address \in Addresses
  BY DEF IInv
<1>2. PICK x, f, rows, late :
        Outcome(x, f, rows, late) /\ bundle = Materialized(x, f, rows, late)
  BY DEF IInv, Scanned
<1>3. PICK b : Scanned(b) /\ HandleOf(held, b)
  BY DEF IInv
<1>4. PICK y, g, more, soon :
        Outcome(y, g, more, soon) /\ b = Materialized(y, g, more, soon)
  BY <1>3 DEF Scanned
<1>5. held.at \in DOMAIN People(b) /\ held.is = People(b)[held.at]
       /\ held.timedOut = b.timedOut
  BY <1>3 DEF HandleOf
<1>6. bundle.timedOut = late /\ b.timedOut = soon
  BY <1>1, <1>2, <1>4, BundleFacts
<1>7. late = soon
  BY <1>5, <1>6
<1>8. \A s \in Shapes : bundle.rows[s] = b.rows[s]
  BY <1>1, <1>2, <1>4, <1>7, SteadyBundles
<1>9. People(bundle) = People(b)
  BY <1>8, SamePeople
<1> QED BY <1>5, <1>9

(* addr:<id>:<n> names the same person in every later bundle of its        *)
(* address whose tax scan ended the same way, while no shape is beyond its *)
(* budget: PersonHandleSound, of people_for_bundle.                        *)
THEOREM PersonHandlesLast == Spec => []PersonHandleSound
BY Invariant, InvPersonHandle, PTL
==============================================================================
